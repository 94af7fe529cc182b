--------------------------- MODULE LauncherProofs ---------------------------
(***************************************************************************)
(* What the launcher's page and its clipboard history keep, whatever is    *)
(* typed, copied or found and at every cap.                                *)
(***************************************************************************)
EXTENDS ClipboardStore, RootList, FiniteSetTheorems, NaturalsInduction, SequenceTheorems, TLAPS

-----------------------------------------------------------------------------
(* Induction.                                                              *)

LessThan == {p \in Nat \X Nat : p[1] < p[2]}

\* A set of naturals that is not empty has a least element.
LEMMA LeastElement ==
  ASSUME NEW T \in SUBSET Nat, T # {}
  PROVE  \E n \in T : \A m \in T : n <= m
<1>1. IsWellFoundedOn(LessThan, Nat)
  BY NatLessThanWellFounded DEF OpToRel, LessThan
<1>2. PICK x \in T : \A y \in T : ~ (<<y, x>> \in LessThan)
  BY <1>1, WFMin, Zenon
<1>3. ASSUME NEW m \in T PROVE x <= m
  <2>1. <<m, x>> \notin LessThan
    BY <1>2
  <2>2. <<m, x>> \in Nat \X Nat
    OBVIOUS
  <2>3. ~ (m < x)
    BY <2>1, <2>2 DEF LessThan
  <2>4. m \in Nat /\ x \in Nat
    OBVIOUS
  <2>5. QED BY <2>3, <2>4
<1>4. QED BY <1>3

\* Induction up to a bound: a set that holds 0 and the successor of each of its
\* members below k holds every natural up to k.
LEMMA InductionUpTo ==
  ASSUME NEW k \in Nat, NEW T, 0 \in T, \A n \in 0..(k - 1) : n \in T => n + 1 \in T
  PROVE  \A n \in 0..k : n \in T
<1> DEFINE U == {n \in 0..k : n \notin T}
<1>1. SUFFICES ASSUME U # {} PROVE FALSE
  OBVIOUS
<1>2. U \in SUBSET Nat
  OBVIOUS
<1>3. \E n \in U : \A m \in U : n <= m
  <2> HIDE DEF U
  <2>1. QED BY <1>1, <1>2, LeastElement
<1>4. PICK n \in U : \A m \in U : n <= m
  BY <1>3
<1>5. n \in 1..k /\ n \notin T
  OBVIOUS
<1>6. n - 1 \in 0..(k - 1) /\ n - 1 + 1 = n
  BY <1>5
<1>7. n - 1 \in T
  <2>1. n - 1 \notin U
    BY <1>4, <1>5
  <2>2. QED BY <2>1, <1>5
<1>8. QED BY <1>5, <1>6, <1>7

-----------------------------------------------------------------------------
(* Parts of a sequence.                                                    *)

\* Ranks that differ are all the ranks there are.
LEMMA RankHits ==
  ASSUME NEW S, IsFiniteSet(S), NEW f \in [S -> 1..Cardinality(S)],
         \A x, y \in S : f[x] = f[y] => x = y
  PROVE  \A n \in 1..Cardinality(S) : \E x \in S : f[x] = n
<1> DEFINE T == 1..Cardinality(S)
<1>1. Cardinality(S) \in Nat
  BY FS_CardinalityType
<1>2. IsFiniteSet(T) /\ Cardinality(T) = Cardinality(S)
  BY <1>1, FS_Interval
<1> HIDE DEF T
<1>3. f \in Injection(S, T)
  BY DEF Injection, IsInjective, T
<1>4. f \in Surjection(S, T)
  BY <1>2, <1>3, FS_Injection
<1> QED
  BY <1>4 DEF Surjection, T

\* A place is as many places from the start as there are places up to it.
LEMMA RankOfPlace ==
  ASSUME NEW N \in Nat, NEW P \in SUBSET (1..N)
  PROVE  /\ IsFiniteSet(P) /\ Cardinality(P) \in 0..N
         /\ \A n \in 1..Cardinality(P) : \E i \in P : Cardinality({j \in P : j <= i}) = n
         /\ \A i \in P : Cardinality({j \in P : j <= i}) \in 1..Cardinality(P)
         /\ \A i, k \in P : i < k =>
              Cardinality({j \in P : j <= i}) < Cardinality({j \in P : j <= k})
<1> DEFINE Low(i) == {j \in P : j <= i}
           f == [i \in P |-> Cardinality(Low(i))]
<1>1. IsFiniteSet(1..N) /\ Cardinality(1..N) = N
  BY FS_Interval
<1>2. IsFiniteSet(P) /\ Cardinality(P) <= N /\ Cardinality(P) \in Nat
  BY <1>1, FS_Subset, FS_CardinalityType
<1>3. ASSUME NEW i \in P
      PROVE  /\ IsFiniteSet(Low(i)) /\ Cardinality(Low(i)) \in 1..Cardinality(P)
             /\ Cardinality(Low(i)) \in Nat
  <2> DEFINE L == Low(i)
  <2>1. L \in SUBSET P /\ L # {}
    OBVIOUS
  <2> HIDE DEF L
  <2>2. IsFiniteSet(L) /\ Cardinality(L) <= Cardinality(P) /\ Cardinality(L) \in Nat
    BY <1>2, <2>1, FS_Subset, FS_CardinalityType
  <2>3. Cardinality(L) # 0
    BY <2>1, <2>2, FS_EmptySet
  <2>4. Cardinality(L) \in 1..Cardinality(P)
    BY <1>2, <2>2, <2>3
  <2> QED
    BY <2>2, <2>4 DEF L
<1>4. ASSUME NEW i \in P, NEW k \in P, i < k
      PROVE  Cardinality(Low(i)) < Cardinality(Low(k))
  <2> DEFINE L == Low(i)
             M == Low(k)
  <2>1. L \in SUBSET M /\ k \in M /\ k \notin L
    <3>1. i \in Int /\ k \in Int /\ \A j \in P : j \in Int
      OBVIOUS
    <3>2. \A j \in P : j <= i => j <= k
      BY <1>4, <3>1
    <3>3. ~ (k <= i) /\ k <= k
      BY <1>4, <3>1
    <3> QED
      BY <3>2, <3>3
  <2>2. IsFiniteSet(M) /\ Cardinality(M) \in Nat /\ Cardinality(L) \in Nat
    BY <1>3
  <2> HIDE DEF L, M
  <2>3. Cardinality(L) <= Cardinality(M) /\ Cardinality(M) # Cardinality(L)
    BY <2>1, <2>2, FS_Subset
  <2>4. Cardinality(L) < Cardinality(M)
    BY <2>2, <2>3
  <2> QED
    BY <2>4 DEF L, M
<1> HIDE DEF Low
<1>5. \A i, k \in P : f[i] = f[k] => i = k
  <2> SUFFICES ASSUME NEW i \in P, NEW k \in P, i # k PROVE f[i] # f[k]
    OBVIOUS
  <2>1. i < k \/ k < i
    OBVIOUS
  <2>2. f[i] \in Nat /\ f[k] \in Nat
    BY <1>3
  <2>3. f[i] < f[k] \/ f[k] < f[i]
    BY <1>4, <2>1
  <2> QED
    BY <2>2, <2>3
<1>6. f \in [P -> 1..Cardinality(P)]
  BY <1>3
<1>7. \A n \in 1..Cardinality(P) : \E i \in P : f[i] = n
  <2> HIDE DEF f
  <2> QED
    BY <1>2, <1>5, <1>6, RankHits
<1>8. \A n \in 1..Cardinality(P) : \E i \in P : Cardinality(Low(i)) = n
  BY <1>7
<1> QED
  BY <1>2, <1>3, <1>4, <1>8 DEF Low

LEMMA AtPlacesFacts ==
  ASSUME NEW S, NEW seq \in Seq(S), NEW P \in SUBSET (1..Len(seq))
  PROVE  /\ AtPlaces(seq, P) \in Seq(S)
         /\ Len(AtPlaces(seq, P)) = Cardinality(P) /\ Cardinality(P) \in 0..Len(seq)
         /\ DOMAIN AtPlaces(seq, P) = 1..Cardinality(P)
         /\ \A n \in 1..Cardinality(P) : \E i \in P : AtPlaces(seq, P)[n] = seq[i]
<1> DEFINE Rank(i) == Cardinality({j \in P : j <= i})
           place == [n \in 1..Cardinality(P) |-> CHOOSE i \in P : Rank(i) = n]
           t == [n \in 1..Cardinality(P) |-> seq[place[n]]]
<1>1. Len(seq) \in Nat /\ \A i \in 1..Len(seq) : seq[i] \in S
  OBVIOUS
<1>2. /\ Cardinality(P) \in 0..Len(seq)
      /\ \A n \in 1..Cardinality(P) : \E i \in P : Rank(i) = n
  BY <1>1, RankOfPlace
<1>3. AtPlaces(seq, P) = t
  BY DEF AtPlaces
<1> HIDE DEF Rank
<1>4. \A n \in 1..Cardinality(P) : place[n] \in P
  BY <1>2
<1> HIDE DEF place
<1>5. t \in [1..Cardinality(P) -> S] /\ Cardinality(P) \in Nat
  <2>1. \A n \in 1..Cardinality(P) : seq[place[n]] \in S
    BY <1>1, <1>4
  <2>2. Cardinality(P) \in Nat
    BY <1>1, <1>2
  <2> QED
    BY <2>1, <2>2
<1>6. \A n \in 1..Cardinality(P) : \E i \in P : t[n] = seq[i]
  BY <1>4
<1>7. DOMAIN t = 1..Cardinality(P)
  OBVIOUS
<1> HIDE DEF t
<1>8. t \in Seq(S) /\ Len(t) = Cardinality(P)
  <2>1. t \in Seq(S)
    BY <1>5, SeqDef
  <2>2. DOMAIN t = 1..Len(t) /\ Len(t) \in Nat
    BY <2>1
  <2> QED
    BY <1>5, <1>7, <2>1, <2>2
<1> QED
  BY <1>2, <1>3, <1>6, <1>7, <1>8

LEMMA FirstNFacts ==
  ASSUME NEW S, NEW seq \in Seq(S), NEW n \in Nat
  PROVE  /\ FirstN(seq, n) \in Seq(S)
         /\ Len(FirstN(seq, n)) = (IF Len(seq) < n THEN Len(seq) ELSE n)
         /\ \A i \in 1..Len(FirstN(seq, n)) : i \in 1..Len(seq) /\ FirstN(seq, n)[i] = seq[i]
<1> DEFINE k == IF Len(seq) < n THEN Len(seq) ELSE n
           t == SubSeq(seq, 1, k)
<1>1. Len(seq) \in Nat /\ \A i \in 1..Len(seq) : seq[i] \in S
  OBVIOUS
<1>2. k \in Nat /\ k <= Len(seq)
  BY <1>1
<1>3. FirstN(seq, n) = t
  BY DEF FirstN
<1> HIDE DEF k
<1>4. /\ t \in Seq(S) /\ Len(t) = (IF 1 <= k THEN k - 1 + 1 ELSE 0)
      /\ \A i \in 1..(k - 1 + 1) : t[i] = seq[1 + i - 1]
  <2>1. \A i \in 1..k : seq[i] \in S
    BY <1>1, <1>2
  <2>2. 1 \in Int /\ k \in Int
    BY <1>2
  <2> QED
    BY <2>1, <2>2, SubSeqProperties
<1> HIDE DEF t
<1>5. Len(t) = k /\ \A i \in 1..k : t[i] = seq[i]
  <2>1. k - 1 + 1 = k /\ (k < 1 => k = 0) /\ \A i \in 1..k : 1 + i - 1 = i
    BY <1>2
  <2> QED
    BY <1>2, <1>4, <2>1
<1> QED
  BY <1>1, <1>2, <1>3, <1>4, <1>5 DEF k

\* The item i of a list moved to the front, as e.
MovedToFront(list, seq, i, e) ==
  /\ list[1] = e
  /\ \A k \in 2..i : list[k] = seq[k - 1]
  /\ \A k \in (i + 1)..Len(seq) : list[k] = seq[k]

\* An item put in front of what is left when one is taken out.
LEMMA FrontFacts ==
  ASSUME NEW S, NEW seq \in Seq(S), NEW i \in 1..Len(seq), NEW e \in S
  PROVE  /\ <<e>> \o RemoveAt(seq, i) \in Seq(S)
         /\ Len(<<e>> \o RemoveAt(seq, i)) = Len(seq)
         /\ ToSet(<<e>> \o RemoveAt(seq, i)) \subseteq ToSet(seq) \union {e}
         /\ MovedToFront(<<e>> \o RemoveAt(seq, i), seq, i, e)
<1> DEFINE a == SubSeq(seq, 1, i - 1)
           b == SubSeq(seq, i + 1, Len(seq))
           c == a \o b
           d == <<e>>
           t == d \o c
<1>1. Len(seq) \in Nat /\ i \in Nat /\ i >= 1 /\ i <= Len(seq) /\ \A k \in 1..Len(seq) : seq[k] \in S
  OBVIOUS
<1>2. /\ a \in Seq(S) /\ Len(a) = (IF 1 <= i - 1 THEN i - 1 - 1 + 1 ELSE 0)
      /\ \A k \in 1..(i - 1 - 1 + 1) : a[k] = seq[1 + k - 1]
  <2>1. 1 \in Int /\ i - 1 \in Int /\ \A k \in 1..(i - 1) : seq[k] \in S
    BY <1>1
  <2> HIDE DEF a
  <2> QED
    BY <2>1, SubSeqProperties DEF a
<1>3. /\ b \in Seq(S) /\ Len(b) = (IF i + 1 <= Len(seq) THEN Len(seq) - (i + 1) + 1 ELSE 0)
      /\ \A k \in 1..(Len(seq) - (i + 1) + 1) : b[k] = seq[i + 1 + k - 1]
  <2>1. i + 1 \in Int /\ Len(seq) \in Int /\ \A k \in (i + 1)..Len(seq) : seq[k] \in S
    BY <1>1
  <2> QED
    BY <2>1, SubSeqProperties
<1> HIDE DEF a, b
<1>4. /\ Len(a) = i - 1 /\ \A k \in 1..Len(a) : k \in 1..Len(seq) /\ a[k] = seq[k]
  <2>1. i - 1 - 1 + 1 = i - 1 /\ (~ (1 <= i - 1) => i - 1 = 0) /\ \A k \in 1..(i - 1) : 1 + k - 1 = k
    BY <1>1
  <2>2. Len(a) = i - 1
    BY <1>1, <1>2, <2>1
  <2> QED
    BY <1>1, <1>2, <2>1, <2>2
<1>5. /\ Len(b) = Len(seq) - i
      /\ \A k \in 1..Len(b) : i + k \in 1..Len(seq) /\ b[k] = seq[i + k]
  <2>1. /\ Len(seq) - (i + 1) + 1 = Len(seq) - i
        /\ (~ (i + 1 <= Len(seq)) => Len(seq) - i = 0)
        /\ \A k \in 1..(Len(seq) - i) : i + 1 + k - 1 = i + k /\ i + k \in 1..Len(seq)
    BY <1>1
  <2>2. Len(b) = Len(seq) - i
    BY <1>1, <1>3, <2>1
  <2> QED
    BY <1>1, <1>3, <2>1, <2>2
<1>6. /\ c \in Seq(S) /\ Len(c) = Len(seq) - 1
      /\ \A k \in 1..Len(c) : \E m \in 1..Len(seq) : m = (IF k < i THEN k ELSE k + 1) /\ c[k] = seq[m]
  <2>1. /\ c \in Seq(S) /\ Len(c) = Len(a) + Len(b)
        /\ \A k \in 1..(Len(a) + Len(b)) : c[k] = IF k <= Len(a) THEN a[k] ELSE b[k - Len(a)]
    BY <1>2, <1>3, ConcatProperties
  <2> HIDE DEF c
  <2>2. Len(a) + Len(b) = Len(seq) - 1
    BY <1>1, <1>4, <1>5
  <2>3. ASSUME NEW k \in 1..Len(c)
        PROVE  \E m \in 1..Len(seq) : m = (IF k < i THEN k ELSE k + 1) /\ c[k] = seq[m]
    <3>1. k \in 1..(Len(a) + Len(b)) /\ Len(a) \in Nat /\ Len(b) \in Nat
      <4>1. Len(a) \in Nat /\ Len(b) \in Nat
        BY <1>2, <1>3, LenProperties
      <4> QED
        BY <2>1, <4>1
    <3>2. CASE k <= Len(a)
      <4>1. k \in 1..Len(a) /\ k < i
        BY <1>1, <1>4, <3>1, <3>2
      <4> QED
        BY <1>4, <2>1, <3>1, <3>2, <4>1
    <3>3. CASE ~ (k <= Len(a))
      <4>1. k - Len(a) \in 1..Len(b) /\ i + (k - Len(a)) = k + 1 /\ ~ (k < i)
        BY <1>1, <1>4, <3>1, <3>3
      <4> QED
        BY <1>5, <2>1, <3>1, <3>3, <4>1
    <3> QED
      BY <3>2, <3>3
  <2> QED
    BY <2>1, <2>2, <2>3
<1>7. d \in Seq(S) /\ Len(d) = 1 /\ d[1] = e
  OBVIOUS
<1>8. <<e>> \o RemoveAt(seq, i) = t
  BY DEF RemoveAt, a, b
<1> HIDE DEF c, d
<1>9. /\ t \in Seq(S) /\ Len(t) = Len(d) + Len(c)
      /\ \A k \in 1..(Len(d) + Len(c)) : t[k] = IF k <= Len(d) THEN d[k] ELSE c[k - Len(d)]
  BY <1>6, <1>7, ConcatProperties
<1> HIDE DEF t
<1>10. Len(t) = Len(seq)
  BY <1>1, <1>6, <1>7, <1>9
<1>11. ASSUME NEW k \in 1..Len(t) PROVE t[k] \in ToSet(seq) \union {e}
  <2>1. k \in 1..(Len(d) + Len(c)) /\ Len(c) \in Nat
    BY <1>6, <1>9
  <2>2. CASE k = 1
    BY <1>7, <1>9, <2>1, <2>2
  <2>3. CASE k # 1
    <3>1. k - Len(d) \in 1..Len(c) /\ ~ (k <= Len(d))
      BY <1>7, <2>1, <2>3
    <3>2. t[k] = c[k - Len(d)]
      BY <1>9, <2>1, <3>1
    <3>3. PICK m \in 1..Len(seq) : t[k] = seq[m]
      BY <1>6, <3>1, <3>2
    <3> QED
      BY <3>3 DEF ToSet
  <2> QED
    BY <2>2, <2>3
<1>12. DOMAIN t = 1..Len(t)
  BY <1>9
<1>13. t[1] = e
  <2>1. Len(c) \in Nat
    BY <1>6, LenProperties
  <2>2. 1 \in 1..(Len(d) + Len(c)) /\ 1 <= Len(d)
    BY <1>7, <2>1
  <2> QED
    BY <1>7, <1>9, <2>2
<1>14. ASSUME NEW k \in 2..Len(seq) PROVE t[k] = seq[IF k <= i THEN k - 1 ELSE k]
  <2>1. /\ k \in 1..(Len(d) + Len(c)) /\ ~ (k <= Len(d)) /\ k - Len(d) = k - 1 /\ k - 1 \in 1..Len(c)
        /\ (IF k - 1 < i THEN k - 1 ELSE k - 1 + 1) = (IF k <= i THEN k - 1 ELSE k)
    BY <1>1, <1>6, <1>7
  <2>2. t[k] = c[k - 1]
    BY <1>9, <2>1
  <2> QED
    BY <1>6, <2>1, <2>2
<1>15. ToSet(t) \subseteq ToSet(seq) \union {e}
  BY <1>11, <1>12 DEF ToSet
<1>16. /\ \A k \in 2..i : t[k] = seq[k - 1]
       /\ \A k \in (i + 1)..Len(seq) : t[k] = seq[k]
  <2>1. /\ \A k \in 2..i : k \in 2..Len(seq) /\ k <= i
        /\ \A k \in (i + 1)..Len(seq) : k \in 2..Len(seq) /\ ~ (k <= i)
    BY <1>1
  <2> QED
    BY <1>14, <2>1
<1>17. MovedToFront(t, seq, i, e)
  BY <1>13, <1>16 DEF MovedToFront
<1> QED
  BY <1>8, <1>9, <1>10, <1>15, <1>17

\* No more items than places.
LEMMA ItemsFacts ==
  ASSUME NEW S, NEW seq \in Seq(S)
  PROVE  /\ ToSet(seq) = {seq[i] : i \in 1..Len(seq)} /\ ToSet(seq) \subseteq S
         /\ IsFiniteSet(ToSet(seq)) /\ Cardinality(ToSet(seq)) <= Len(seq)
<1> DEFINE T == {seq[i] : i \in 1..Len(seq)}
<1>1. Len(seq) \in Nat /\ DOMAIN seq = 1..Len(seq) /\ seq \in [1..Len(seq) -> S]
  OBVIOUS
<1>2. ToSet(seq) = T /\ T \subseteq S
  BY <1>1 DEF ToSet
<1>3. seq \in Surjection(1..Len(seq), T)
  BY <1>1 DEF Surjection
<1>4. IsFiniteSet(1..Len(seq)) /\ Cardinality(1..Len(seq)) = Len(seq)
  <2> DEFINE N == Len(seq)
  <2>1. N \in Nat
    BY <1>1
  <2> HIDE DEF N
  <2>2. IsFiniteSet(1..N) /\ Cardinality(1..N) = N
    BY <2>1, FS_Interval
  <2> QED
    BY <2>2 DEF N
<1> HIDE DEF T
<1>5. IsFiniteSet(T) /\ Cardinality(T) <= Len(seq)
  BY <1>3, <1>4, FS_Surjection
<1> QED
  BY <1>2, <1>5 DEF T

\* An item put in front.
LEMMA ConsFacts ==
  ASSUME NEW S, NEW seq \in Seq(S), NEW e \in S
  PROVE  /\ <<e>> \o seq \in Seq(S) /\ Len(<<e>> \o seq) = Len(seq) + 1
         /\ ToSet(<<e>> \o seq) = ToSet(seq) \union {e}
         /\ (<<e>> \o seq)[1] = e /\ \A k \in 1..Len(seq) : (<<e>> \o seq)[k + 1] = seq[k]
<1> DEFINE d == <<e>>
           t == d \o seq
<1>1. d \in Seq(S) /\ Len(d) = 1 /\ d[1] = e /\ Len(seq) \in Nat
  OBVIOUS
<1> HIDE DEF d
<1>2. /\ t \in Seq(S) /\ Len(t) = Len(d) + Len(seq)
      /\ \A k \in 1..(Len(d) + Len(seq)) : t[k] = IF k <= Len(d) THEN d[k] ELSE seq[k - Len(d)]
  BY <1>1, ConcatProperties
<1> HIDE DEF t
<1>3. t[1] = e
  BY <1>1, <1>2
<1>4. \A k \in 1..Len(seq) : k + 1 \in 1..Len(t) /\ t[k + 1] = seq[k]
  <2> TAKE k \in 1..Len(seq)
  <2>1. k + 1 \in 1..(Len(d) + Len(seq)) /\ ~ (k + 1 <= Len(d)) /\ k + 1 - Len(d) = k
    BY <1>1
  <2> QED
    BY <1>2, <2>1
<1>5. \A k \in 1..Len(t) : k = 1 \/ (k - 1 \in 1..Len(seq) /\ k - 1 + 1 = k)
  BY <1>1, <1>2
<1>6. ToSet(t) = {t[k] : k \in 1..Len(t)} /\ ToSet(seq) = {seq[k] : k \in 1..Len(seq)}
  <2>1. DOMAIN t = 1..Len(t) /\ DOMAIN seq = 1..Len(seq)
    BY <1>2, LenProperties
  <2> QED
    BY <2>1 DEF ToSet
<1>7. ToSet(t) \subseteq ToSet(seq) \union {e}
  <2> SUFFICES ASSUME NEW k \in 1..Len(t) PROVE t[k] \in ToSet(seq) \union {e}
    BY <1>6
  <2>1. CASE k = 1
    BY <1>3, <2>1
  <2>2. CASE k - 1 \in 1..Len(seq) /\ k - 1 + 1 = k
    <3>1. t[k] = seq[k - 1]
      BY <1>4, <2>2
    <3> QED
      BY <1>6, <2>2, <3>1
  <2> QED
    BY <1>5, <2>1, <2>2
<1>8. ToSet(seq) \union {e} \subseteq ToSet(t)
  <2>1. 1 \in 1..Len(t)
    BY <1>1, <1>2
  <2> QED
    BY <1>3, <1>4, <1>6, <2>1
<1> QED
  BY <1>1, <1>2, <1>3, <1>4, <1>7, <1>8 DEF t, d

\* A filter keeps the order of a list.
LEMMA FilterOrder ==
  ASSUME NEW S, NEW seq \in Seq(S), NEW P \in SUBSET (1..Len(seq)),
         NEW m \in DOMAIN AtPlaces(seq, P), NEW n \in DOMAIN AtPlaces(seq, P), m < n
  PROVE  \E i, j \in P : i < j /\ AtPlaces(seq, P)[m] = seq[i] /\ AtPlaces(seq, P)[n] = seq[j]
<1> DEFINE Rank(i) == Cardinality({j \in P : j <= i})
           place == [k \in 1..Cardinality(P) |-> CHOOSE i \in P : Rank(i) = k]
           t == [k \in 1..Cardinality(P) |-> seq[place[k]]]
<1>1. Len(seq) \in Nat
  OBVIOUS
<1>2. /\ Cardinality(P) \in 0..Len(seq)
      /\ \A k \in 1..Cardinality(P) : \E i \in P : Rank(i) = k
      /\ \A i, k \in P : i < k => Rank(i) < Rank(k)
  BY <1>1, RankOfPlace
<1>3. AtPlaces(seq, P) = t
  BY DEF AtPlaces
<1> HIDE DEF Rank
<1>4. \A k \in 1..Cardinality(P) : place[k] \in P /\ Rank(place[k]) = k
  BY <1>2
<1> HIDE DEF place
<1>5. m \in 1..Cardinality(P) /\ n \in 1..Cardinality(P)
  BY <1>3
<1>6. t[m] = seq[place[m]] /\ t[n] = seq[place[n]]
  BY <1>5
<1> HIDE DEF t
<1>7. /\ place[m] \in P /\ place[n] \in P /\ Rank(place[m]) = m /\ Rank(place[n]) = n
      /\ m \in Int /\ n \in Int /\ place[m] \in Int /\ place[n] \in Int
  <2>1. place[m] \in P /\ place[n] \in P /\ Rank(place[m]) = m /\ Rank(place[n]) = n
    BY <1>4, <1>5
  <2>2. \A i \in P : i \in Int
    BY <1>1
  <2>3. m \in Int /\ n \in Int
    <3>1. Cardinality(P) \in Nat
      BY <1>1, <1>2
    <3> QED
      BY <1>5, <3>1
  <2>4. place[m] \in Int /\ place[n] \in Int
    BY <2>1, <2>2
  <2> QED
    BY <2>1, <2>3, <2>4
<1>8. ~ (place[n] < place[m]) /\ place[n] # place[m]
  BY <1>2, <1>7
<1>9. place[m] < place[n]
  BY <1>7, <1>8
<1> QED
  BY <1>3, <1>6, <1>7, <1>9

\* A filter keeps every item it lets pass.
LEMMA FilterKeeps ==
  ASSUME NEW S, NEW seq \in Seq(S), NEW P \in SUBSET (1..Len(seq)), NEW i \in P
  PROVE  \E n \in DOMAIN AtPlaces(seq, P) : AtPlaces(seq, P)[n] = seq[i]
<1> DEFINE Rank(j) == Cardinality({k \in P : k <= j})
           place == [n \in 1..Cardinality(P) |-> CHOOSE j \in P : Rank(j) = n]
           t == [n \in 1..Cardinality(P) |-> seq[place[n]]]
<1>1. Len(seq) \in Nat
  OBVIOUS
<1>2. /\ \A n \in 1..Cardinality(P) : \E j \in P : Rank(j) = n
      /\ \A j \in P : Rank(j) \in 1..Cardinality(P)
      /\ \A j, k \in P : j < k => Rank(j) < Rank(k)
      /\ Cardinality(P) \in 0..Len(seq)
  BY <1>1, RankOfPlace
<1>3. AtPlaces(seq, P) = t
  BY DEF AtPlaces
<1> DEFINE n == Rank(i)
           j == place[n]
<1>4. n \in 1..Cardinality(P)
  BY <1>2
<1>5. j \in P /\ Rank(j) = n
  <2> HIDE DEF n, Rank
  <2> QED
    BY <1>2, <1>4
<1>6. t[n] = seq[j] /\ n \in DOMAIN t
  BY <1>4
<1> HIDE DEF t, j, Rank
<1>7. i \in Int /\ j \in Int /\ n \in Int
  <2>1. \A k \in P : k \in Int
    BY <1>1
  <2>2. Cardinality(P) \in Nat
    BY <1>1, <1>2
  <2> QED
    BY <1>4, <1>5, <2>1, <2>2
<1>8. ~ (i < j) /\ ~ (j < i)
  BY <1>2, <1>5, <1>7
<1>9. i = j
  BY <1>7, <1>8
<1> QED
  BY <1>3, <1>6, <1>9

\* What a filter keeps of a list.
LEMMA FilterFacts ==
  ASSUME NEW S, NEW seq \in Seq(S), NEW P \in SUBSET (1..Len(seq))
  PROVE  /\ AtPlaces(seq, P) \in Seq(S) /\ Len(AtPlaces(seq, P)) <= Len(seq)
         /\ ToSet(AtPlaces(seq, P)) \subseteq {seq[i] : i \in P}
         /\ {seq[i] : i \in P} \subseteq ToSet(seq)
<1> DEFINE t == AtPlaces(seq, P)
<1>1. /\ t \in Seq(S) /\ Len(t) = Cardinality(P) /\ Cardinality(P) \in 0..Len(seq)
      /\ DOMAIN t = 1..Cardinality(P)
      /\ \A n \in 1..Cardinality(P) : \E i \in P : t[n] = seq[i]
  BY AtPlacesFacts
<1> HIDE DEF t
<1>2. Len(t) <= Len(seq) /\ ToSet(t) \subseteq {seq[i] : i \in P}
  <2>1. Len(seq) \in Nat
    OBVIOUS
  <2>2. ToSet(t) = {t[n] : n \in 1..Cardinality(P)}
    BY <1>1 DEF ToSet
  <2> QED
    BY <1>1, <2>1, <2>2
<1>3. {seq[i] : i \in P} \subseteq ToSet(seq)
  BY DEF ToSet
<1> QED
  BY <1>1, <1>2, <1>3 DEF t

-----------------------------------------------------------------------------
(* The clipboard history: the types and the caps of its two halves.        *)

Stages == {"opening", "opened", "prune", "done"}
CapSteps == {"idle", "read", "find", "touch", "store", "list", "prune"}
HalvesTyped ==
  /\ IsFiniteSet(disk) /\ disk \subseteq Row /\ lastRow \in 0..MaxRows
  /\ \A r, q \in disk : r.id = q.id => r = q
  /\ \A r \in disk : r.id <= lastRow
  /\ index \in Seq(Entry) /\ Len(index) <= IndexEntries
ThreadsTyped ==
  /\ db \in {"loading", "ready", "failed"}
  /\ loader \in [pc : Stages, rows : Seq(Row)]
  /\ cap \in [pc : CapSteps, text : Texts \union {NoText}, ts : 0..MaxClock, id : Int,
              raced : BOOLEAN]
  /\ cap.pc \in {"find", "touch", "store", "list"} => cap.text \in Texts
  /\ now \in 0..MaxClock /\ given \subseteq [id : Int, text : Texts]
  /\ faults \in Nat /\ restarts \in Nat /\ faults + restarts <= MaxIncidents
  /\ deferred \in BOOLEAN /\ unpruned \in BOOLEAN /\ owed \subseteq 1..lastRow /\ loose \subseteq Int

\* A row and what ORDER BY puts before it.
AtOrBefore(found, r) == {q \in found : q = r \/ Newer(q, r)}

\* Rows sorted newest first are the rows, each in its place.
LEMMA NewestFacts ==
  ASSUME NEW found \in SUBSET Row, IsFiniteSet(found), \A r, q \in found : r.id = q.id => r = q
  PROVE  /\ NewestFirst(found) \in Seq(found) /\ Len(NewestFirst(found)) = Cardinality(found)
         /\ Cardinality(found) \in Nat
         /\ \A r \in found : /\ Cardinality(AtOrBefore(found, r)) \in 1..Cardinality(found)
                             /\ NewestFirst(found)[Cardinality(AtOrBefore(found, r))] = r
         /\ \A n \in 1..Cardinality(found) : Cardinality(AtOrBefore(found, NewestFirst(found)[n])) = n
         /\ \A r, q \in found : q.ts > r.ts => Cardinality(AtOrBefore(found, q)) < Cardinality(AtOrBefore(found, r))
<1> DEFINE Above(r) == {q \in found : q = r \/ Newer(q, r)}
           f == [r \in found |-> Cardinality(Above(r))]
           row == [n \in 1..Cardinality(found) |-> CHOOSE r \in found : Cardinality(Above(r)) = n]
<1>1. Cardinality(found) \in Nat
  BY FS_CardinalityType
<1>2. ASSUME NEW r \in found
      PROVE  /\ IsFiniteSet(Above(r)) /\ Cardinality(Above(r)) \in 1..Cardinality(found)
             /\ Cardinality(Above(r)) \in Nat
  <2> DEFINE L == Above(r)
  <2>1. L \in SUBSET found /\ L # {}
    OBVIOUS
  <2> HIDE DEF L
  <2>2. IsFiniteSet(L) /\ Cardinality(L) <= Cardinality(found) /\ Cardinality(L) \in Nat
    BY <2>1, FS_Subset, FS_CardinalityType
  <2>3. Cardinality(L) # 0
    BY <2>1, <2>2, FS_EmptySet
  <2>4. Cardinality(L) \in 1..Cardinality(found)
    BY <1>1, <2>2, <2>3
  <2> QED
    BY <2>2, <2>4 DEF L
<1>3. ASSUME NEW r \in found, NEW q \in found, Newer(q, r)
      PROVE  Cardinality(Above(q)) < Cardinality(Above(r))
  <2> DEFINE L == Above(q)
             M == Above(r)
  <2>1. \A x \in found : x.id \in Int /\ x.ts \in Int
    <3>1. Row \subseteq [id : Int, text : Texts, ts : Int]
      BY ClipAssumption DEF Row
    <3> QED
      BY <3>1
  <2>2. ~ Newer(r, q) /\ r # q
    BY <1>3, <2>1 DEF Newer
  <2>3. \A x \in found : Newer(x, q) => Newer(x, r)
    BY <1>3, <2>1 DEF Newer
  <2>4. L \in SUBSET M /\ r \in M /\ r \notin L
    BY <1>3, <2>2, <2>3
  <2>5. IsFiniteSet(M) /\ Cardinality(M) \in Nat /\ Cardinality(L) \in Nat
    BY <1>2
  <2> HIDE DEF L, M
  <2>6. Cardinality(L) <= Cardinality(M) /\ Cardinality(M) # Cardinality(L)
    BY <2>4, <2>5, FS_Subset
  <2>7. Cardinality(L) < Cardinality(M)
    BY <2>5, <2>6
  <2> QED
    BY <2>7 DEF L, M
<1>4. \A r, q \in found : r # q => Newer(r, q) \/ Newer(q, r)
  <2>1. \A x \in found : x.id \in Int /\ x.ts \in Int
    <3>1. Row \subseteq [id : Int, text : Texts, ts : Int]
      BY ClipAssumption DEF Row
    <3> QED
      BY <3>1
  <2> QED
    BY <2>1 DEF Newer
<1> HIDE DEF Above
<1>5. \A r, q \in found : f[r] = f[q] => r = q
  <2> SUFFICES ASSUME NEW r \in found, NEW q \in found, r # q PROVE f[r] # f[q]
    OBVIOUS
  <2>1. f[r] \in Nat /\ f[q] \in Nat
    BY <1>2
  <2>2. f[r] < f[q] \/ f[q] < f[r]
    BY <1>3, <1>4
  <2> QED
    BY <2>1, <2>2
<1>6. f \in [found -> 1..Cardinality(found)]
  BY <1>2
<1>7. NewestFirst(found) = row
  BY DEF NewestFirst, Above
<1>8. \A n \in 1..Cardinality(found) : \E r \in found : Cardinality(Above(r)) = n
  <2>1. \A r \in found : f[r] = Cardinality(Above(r))
    OBVIOUS
  <2> HIDE DEF f
  <2>2. \A n \in 1..Cardinality(found) : \E r \in found : f[r] = n
    BY <1>5, <1>6, RankHits
  <2> QED
    BY <2>1, <2>2
<1>9. \A n \in 1..Cardinality(found) : row[n] \in found /\ Cardinality(Above(row[n])) = n
  BY <1>8
<1>13. \A r \in found : Cardinality(Above(r)) \in 1..Cardinality(found) /\ row[Cardinality(Above(r))] = r
  <2> SUFFICES ASSUME NEW r \in found
               PROVE  Cardinality(Above(r)) \in 1..Cardinality(found) /\ row[Cardinality(Above(r))] = r
    OBVIOUS
  <2>1. Cardinality(Above(r)) \in 1..Cardinality(found)
    BY <1>2
  <2> DEFINE q == row[Cardinality(Above(r))]
  <2>2. q \in found /\ Cardinality(Above(q)) = Cardinality(Above(r))
    BY <1>9, <2>1
  <2> HIDE DEF q
  <2>3. f[q] = f[r]
    BY <2>2
  <2>4. q = r
    BY <1>5, <2>2, <2>3
  <2> QED
    BY <2>1, <2>4 DEF q
<1>14. \A r, q \in found : q.ts > r.ts => Cardinality(Above(q)) < Cardinality(Above(r))
  BY <1>3 DEF Newer
<1>15. \A r : Above(r) = AtOrBefore(found, r)
  BY DEF Above, AtOrBefore
<1>10. row \in [1..Cardinality(found) -> found] /\ DOMAIN row = 1..Cardinality(found)
  BY <1>9
<1> HIDE DEF row
<1>11. row \in Seq(found)
  BY <1>1, <1>10, SeqDef
<1>12. Len(row) = Cardinality(found)
  <2>1. DOMAIN row = 1..Len(row) /\ Len(row) \in Nat
    BY <1>11
  <2> QED
    BY <1>1, <1>10, <2>1
<1>16. \A n \in 1..Cardinality(found) : Cardinality(AtOrBefore(found, row[n])) = n
  BY <1>9, <1>15
<1>17. \A r \in found : /\ Cardinality(AtOrBefore(found, r)) \in 1..Cardinality(found)
                        /\ row[Cardinality(AtOrBefore(found, r))] = r
  BY <1>13, <1>15
<1>18. \A r, q \in found : q.ts > r.ts => Cardinality(AtOrBefore(found, q)) < Cardinality(AtOrBefore(found, r))
  BY <1>14, <1>15
<1> QED
  BY <1>1, <1>7, <1>11, <1>12, <1>16, <1>17, <1>18

-----------------------------------------------------------------------------
(* attach, entry by entry.                                                 *)

StoredRow == [id : Nat \ {0}, text : Texts, ts : 0..MaxClock]
Midway == [disk : SUBSET StoredRow, last : Nat, index : Seq(Entry), loose : SUBSET Int]

\* How far attach has come from the rows d0: a row is one of those or new, an
\* entry is as it was or has a row of its text.
Sound(s, d0, refused) ==
  /\ s \in Midway /\ IsFiniteSet(s.disk) /\ s.last >= lastRow /\ loose \subseteq s.loose
  /\ \A r \in s.disk : r.id <= s.last
  /\ \A r, q \in s.disk : r.id = q.id => r = q
  /\ \A r \in s.disk : r.id > lastRow \/ \E q \in d0 : q.id = r.id /\ q.text = r.text
  /\ \A e \in ToSet(s.index) :
        e \in Listed \/ (~ e.pending /\ \E r \in s.disk : r.id = e.id /\ r.text = e.text)
  /\ refused = {} => \A e \in ToSet(s.index) : ~ e.pending

LEMMA LeastTwin ==
  ASSUME NEW twins \in SUBSET StoredRow, twins # {}
  PROVE  (CHOOSE r \in twins : \A q \in twins : r.id <= q.id) \in twins
<1> DEFINE ids == {r.id : r \in twins}
<1>1. ids \in SUBSET Nat /\ ids # {}
  BY DEF StoredRow
<1>2. \A r \in twins : r.id \in ids
  OBVIOUS
<1>3. \A n \in ids : \E r \in twins : r.id = n
  OBVIOUS
<1> HIDE DEF ids
<1>4. PICK n \in ids : \A m \in ids : n <= m
  BY <1>1, LeastElement
<1>5. \E r \in twins : \A q \in twins : r.id <= q.id
  BY <1>2, <1>3, <1>4
<1> QED
  BY <1>5

LEMMA ReconciledSound ==
  ASSUME NEW d0, NEW refused, NEW s, Sound(s, d0, refused), NEW e \in Entry, e \in Listed,
         lastRow \in Nat
  PROVE  Sound(Reconciled(s, e, refused), d0, refused)
<1> DEFINE fails(call) == <<call, e.text>> \in refused
           twins == IF fails("find") THEN {} ELSE {r \in s.disk : r.text = e.text}
           twin == CHOOSE r \in twins : \A q \in twins : r.id <= q.id
           kept(id) == [id |-> id, text |-> e.text, ts |-> e.ts, pending |-> FALSE]
           t == Reconciled(s, e, refused)
<1> SUFFICES Sound(t, d0, refused)
  OBVIOUS
<1>1. /\ s.disk \subseteq StoredRow /\ s.last \in Nat /\ s.index \in Seq(Entry)
      /\ s = [disk |-> s.disk, last |-> s.last, index |-> s.index, loose |-> s.loose]
      /\ s.loose \subseteq Int
  BY DEF Sound, Midway
<1>0. twins \in SUBSET StoredRow /\ twins \subseteq s.disk /\ \A r \in twins : r.text = e.text
  BY <1>1
<1>2. ASSUME NEW id \in Nat
      PROVE  /\ kept(id) \in Entry /\ kept(id).id = id /\ kept(id).text = e.text
             /\ kept(id).pending = FALSE
  BY DEF Entry
<1>3. ASSUME NEW x \in Entry
      PROVE  <<x>> \o s.index \in Seq(Entry) /\ ToSet(<<x>> \o s.index) = ToSet(s.index) \union {x}
  BY <1>1, <1>3, ConsFacts
<1>4. CASE ~ e.pending
  <2>1. t = [s EXCEPT !.index = <<e>> \o s.index]
    BY <1>4 DEF Reconciled
  <2>2. /\ t \in Midway /\ t.disk = s.disk /\ t.last = s.last /\ t.loose = s.loose
        /\ ToSet(t.index) = ToSet(s.index) \union {e}
    BY <1>1, <1>3, <2>1 DEF Midway
  <2> QED
    BY <1>4, <2>2 DEF Sound
<1>5. CASE e.pending /\ twins # {} /\ ~ fails("stamp")
  <2>1. twin \in twins
    BY <1>0, <1>5, LeastTwin
  <2>2. t = [s EXCEPT !.disk = (s.disk \ {twin}) \union {[twin EXCEPT !.ts = e.ts]},
                      !.index = <<kept(twin.id)>> \o s.index]
    BY <1>5 DEF Reconciled
  <2> DEFINE new == [twin EXCEPT !.ts = e.ts]
             x == kept(twin.id)
  <2>3. /\ twin \in s.disk /\ twin.text = e.text /\ twin \in StoredRow /\ twin.id \in Nat
        /\ new \in StoredRow /\ new.id = twin.id /\ new.text = e.text
    <3>1. twin \in s.disk /\ twin.text = e.text
      BY <1>0, <2>1
    <3> HIDE DEF twin
    <3> QED
      BY <1>1, <3>1 DEF StoredRow, Entry
  <2> HIDE DEF twin
  <2>4. x \in Entry /\ x.id = twin.id /\ x.text = e.text /\ x.pending = FALSE
    BY <1>2, <2>3
  <2> HIDE DEF new, x
  <2>5. /\ t.disk = (s.disk \ {twin}) \union {new} /\ t.last = s.last /\ t.loose = s.loose
        /\ t.index = <<x>> \o s.index /\ t \in Midway
        /\ ToSet(t.index) = ToSet(s.index) \union {x}
    <3>1. t = [s EXCEPT !.disk = (s.disk \ {twin}) \union {new}, !.index = <<x>> \o s.index]
      BY <2>2 DEF new, x
    <3>2. <<x>> \o s.index \in Seq(Entry) /\ ToSet(<<x>> \o s.index) = ToSet(s.index) \union {x}
      BY <1>3, <2>4
    <3>3. (s.disk \ {twin}) \union {new} \subseteq StoredRow
      BY <1>1, <2>3
    <3>4. t = [disk |-> (s.disk \ {twin}) \union {new}, last |-> s.last, index |-> <<x>> \o s.index,
               loose |-> s.loose]
      BY <1>1, <3>1
    <3> HIDE DEF t
    <3> QED
      BY <1>1, <3>2, <3>3, <3>4 DEF Midway
  <2>6. IsFiniteSet(t.disk)
    <3>1. IsFiniteSet(s.disk)
      BY DEF Sound
    <3>2. IsFiniteSet(s.disk \ {twin})
      BY <3>1, FS_RemoveElement
    <3>3. IsFiniteSet((s.disk \ {twin}) \union {new})
      BY <3>2, FS_AddElement
    <3> QED
      BY <2>5, <3>3
  <2> HIDE DEF t
  <2>7. /\ t.last >= lastRow /\ \A r \in t.disk : r.id <= t.last
        /\ \A r, q \in t.disk : r.id = q.id => r = q
    BY <2>3, <2>5 DEF Sound
  <2>8. \A r \in t.disk : r.id > lastRow \/ \E q \in d0 : q.id = r.id /\ q.text = r.text
    BY <2>3, <2>5 DEF Sound
  <2>9. \A r \in s.disk : \E q \in t.disk : q.id = r.id /\ q.text = r.text
    BY <2>3, <2>5
  <2>10. \A y \in ToSet(t.index) :
           y \in Listed \/ (~ y.pending /\ \E r \in t.disk : r.id = y.id /\ r.text = y.text)
    <3>1. \A y \in ToSet(s.index) :
            y \in Listed \/ (~ y.pending /\ \E r \in s.disk : r.id = y.id /\ r.text = y.text)
      BY DEF Sound
    <3>2. \E r \in t.disk : r.id = x.id /\ r.text = x.text
      BY <2>3, <2>4, <2>5
    <3> QED
      BY <2>4, <2>5, <2>9, <3>1, <3>2
  <2>11. refused = {} => \A y \in ToSet(t.index) : ~ y.pending
    BY <2>4, <2>5 DEF Sound
  <2> QED
    BY <2>5, <2>6, <2>7, <2>8, <2>10, <2>11 DEF Sound
<1>8. CASE e.pending /\ twins # {} /\ fails("stamp")
  <2>1. twin \in twins
    BY <1>0, <1>8, LeastTwin
  <2>2. t = [s EXCEPT !.index = <<kept(twin.id)>> \o s.index, !.loose = s.loose \union {twin.id}]
    BY <1>8 DEF Reconciled
  <2> DEFINE x == kept(twin.id)
  <2>3. /\ twin \in s.disk /\ twin.text = e.text /\ twin.id \in Nat
    BY <1>0, <1>1, <2>1 DEF StoredRow
  <2> HIDE DEF twin
  <2>4. x \in Entry /\ x.id = twin.id /\ x.text = e.text /\ x.pending = FALSE
    BY <1>2, <2>3
  <2> HIDE DEF x
  <2>5. /\ t \in Midway /\ t.disk = s.disk /\ t.last = s.last
        /\ t.loose = s.loose \union {twin.id} /\ ToSet(t.index) = ToSet(s.index) \union {x}
    <3>1. t = [s EXCEPT !.index = <<x>> \o s.index, !.loose = s.loose \union {twin.id}]
      BY <2>2 DEF x
    <3>2. <<x>> \o s.index \in Seq(Entry) /\ ToSet(<<x>> \o s.index) = ToSet(s.index) \union {x}
      BY <1>3, <2>4
    <3>3. t = [disk |-> s.disk, last |-> s.last, index |-> <<x>> \o s.index,
               loose |-> s.loose \union {twin.id}]
      BY <1>1, <3>1
    <3>4. s.loose \union {twin.id} \in SUBSET Int
      BY <1>1, <2>3
    <3> HIDE DEF t
    <3> QED
      BY <1>1, <3>2, <3>3, <3>4 DEF Midway
  <2> HIDE DEF t
  <2>6. \A y \in ToSet(t.index) :
          y \in Listed \/ (~ y.pending /\ \E r \in t.disk : r.id = y.id /\ r.text = y.text)
    <3>1. \A y \in ToSet(s.index) :
            y \in Listed \/ (~ y.pending /\ \E r \in s.disk : r.id = y.id /\ r.text = y.text)
      BY DEF Sound
    <3>2. \E r \in t.disk : r.id = x.id /\ r.text = x.text
      BY <2>3, <2>4, <2>5
    <3> QED
      BY <2>4, <2>5, <3>1, <3>2
  <2> QED
    BY <1>8, <2>5, <2>6 DEF Sound
<1>6. CASE e.pending /\ twins = {} /\ fails("keep")
  <2>1. t = [s EXCEPT !.index = <<e>> \o s.index]
    BY <1>6 DEF Reconciled
  <2>2. /\ t \in Midway /\ t.disk = s.disk /\ t.last = s.last /\ t.loose = s.loose
        /\ ToSet(t.index) = ToSet(s.index) \union {e}
    BY <1>1, <1>3, <2>1 DEF Midway
  <2> QED
    BY <1>6, <2>2 DEF Sound
<1>7. CASE e.pending /\ twins = {} /\ ~ fails("keep")
  <2> DEFINE n == s.last + 1
             new == [id |-> n, text |-> e.text, ts |-> e.ts]
             x == kept(n)
  <2>1. t = [s EXCEPT !.last = n, !.disk = s.disk \union {new}, !.index = <<x>> \o s.index]
    BY <1>7 DEF Reconciled
  <2>2. n \in Nat /\ n > s.last /\ n \in Nat \ {0}
    BY <1>1
  <2>3. new \in StoredRow /\ new.id = n /\ new.text = e.text
    BY <2>2 DEF StoredRow, Entry
  <2>4. x \in Entry /\ x.id = n /\ x.text = e.text /\ x.pending = FALSE
    BY <1>2, <2>2
  <2> HIDE DEF new, x, n
  <2>5. /\ t.disk = s.disk \union {new} /\ t.last = n /\ t.loose = s.loose
        /\ t.index = <<x>> \o s.index /\ t \in Midway
        /\ ToSet(t.index) = ToSet(s.index) \union {x}
    <3>1. t = [disk |-> s.disk \union {new}, last |-> n, index |-> <<x>> \o s.index,
               loose |-> s.loose]
      BY <1>1, <2>1
    <3>2. <<x>> \o s.index \in Seq(Entry) /\ ToSet(<<x>> \o s.index) = ToSet(s.index) \union {x}
      BY <1>3, <2>4
    <3> HIDE DEF t
    <3> QED
      BY <1>1, <2>2, <2>3, <3>1, <3>2 DEF Midway
  <2>6. IsFiniteSet(t.disk)
    <3>1. IsFiniteSet(s.disk)
      BY DEF Sound
    <3>2. IsFiniteSet(s.disk \union {new})
      BY <3>1, FS_AddElement
    <3> QED
      BY <2>5, <3>2
  <2>7. \A r \in s.disk : r.id <= s.last /\ r.id \in Nat
    BY <1>1 DEF Sound, StoredRow
  <2>8. lastRow <= s.last
    BY DEF Sound
  <2> HIDE DEF t
  <2>9. t.last >= lastRow /\ \A r \in t.disk : r.id <= t.last
    BY <1>1, <2>2, <2>3, <2>5, <2>7, <2>8
  <2>10. \A r, q \in t.disk : r.id = q.id => r = q
    <3>1. \A r \in s.disk : r.id # n
      BY <1>1, <2>2, <2>7
    <3>2. \A r, q \in s.disk : r.id = q.id => r = q
      BY DEF Sound
    <3> QED
      BY <2>3, <2>5, <3>1, <3>2
  <2>11. \A r \in t.disk : r.id > lastRow \/ \E q \in d0 : q.id = r.id /\ q.text = r.text
    <3>1. n > lastRow
      BY <1>1, <2>2, <2>8
    <3> QED
      BY <2>3, <2>5, <3>1 DEF Sound
  <2>12. \A y \in ToSet(t.index) :
           y \in Listed \/ (~ y.pending /\ \E r \in t.disk : r.id = y.id /\ r.text = y.text)
    <3>1. \A y \in ToSet(s.index) :
            y \in Listed \/ (~ y.pending /\ \E r \in s.disk : r.id = y.id /\ r.text = y.text)
      BY DEF Sound
    <3> QED
      BY <2>3, <2>4, <2>5, <3>1
  <2>13. refused = {} => \A y \in ToSet(t.index) : ~ y.pending
    BY <2>4, <2>5 DEF Sound
  <2> QED
    BY <2>5, <2>6, <2>9, <2>10, <2>11, <2>12, <2>13 DEF Sound
<1> QED
  BY <1>4, <1>5, <1>6, <1>7, <1>8

\* What attach has, turn by turn.
TurnByTurn(done, start, d0, refused) ==
  /\ done[0] = start
  /\ \A n \in 1..Len(index) : done[n] = Reconciled(done[n - 1], index[Len(index) + 1 - n], refused)
  /\ \A n \in 0..Len(index) : Sound(done[n], d0, refused)
  /\ Reconciling(start, refused) = done[Len(index)]

\* Every entry of the list has its turn, the last first, and what attach has
\* stays sound.
LEMMA ReconcilingTurns ==
  ASSUME NEW d0, NEW refused, NEW start, Sound(start, d0, refused), index \in Seq(Entry),
         lastRow \in Nat
  PROVE  \E done : TurnByTurn(done, start, d0, refused)
<1> DEFINE K == Len(index)
           Good == {s \in Midway : Sound(s, d0, refused)}
           Turn(k, s) == Reconciled(s, index[K + 1 - k], refused)
           Def(g) == [k \in 0..K |-> IF k = 0 THEN start ELSE Turn(k, g[k - 1])]
           Upto(n, g) == /\ g \in [0..n -> Good] /\ g[0] = start
                         /\ \A i \in 1..n : g[i] = Turn(i, g[i - 1])
           T == {n \in Nat : \E g : Upto(n, g)}
           done == CHOOSE h : h = Def(h)
<1>1. K \in Nat
  OBVIOUS
<1>2. start \in Good
  BY DEF Sound
<1>3. ASSUME NEW k \in 1..K, NEW s \in Good PROVE Turn(k, s) \in Good
  <2>1. K + 1 - k \in 1..K
    BY <1>1
  <2> DEFINE e == index[K + 1 - k]
             t == Reconciled(s, e, refused)
  <2>2. e \in Entry /\ e \in Listed
    BY <2>1 DEF Listed, ToSet
  <2>3. Sound(s, d0, refused)
    OBVIOUS
  <2> HIDE DEF e
  <2>4. Sound(t, d0, refused)
    BY <2>2, <2>3, ReconciledSound
  <2>5. t \in Good
    BY <2>4 DEF Sound
  <2> QED
    BY <2>5 DEF e
<1>4. Reconciling(start, refused) = done[K]
  BY DEF Reconciling
<1> HIDE DEF K, Good, Turn
<1>5. 0 \in T
  <2>1. Upto(0, [i \in 0..0 |-> start])
    BY <1>2
  <2> QED
    BY <2>1
<1>6. ASSUME NEW n \in 0..(K - 1), n \in T PROVE n + 1 \in T
  <2>1. PICK g : Upto(n, g)
    BY <1>6
  <2> DEFINE h == [i \in 0..(n + 1) |-> IF i <= n THEN g[i] ELSE Turn(n + 1, g[n])]
  <2>2. n \in Nat /\ n + 1 \in Nat /\ n + 1 \in 1..K /\ g[n] \in Good
    BY <1>1, <2>1
  <2>3. Turn(n + 1, g[n]) \in Good
    BY <1>3, <2>2
  <2>4. h \in [0..(n + 1) -> Good] /\ h[0] = start
    BY <2>1, <2>2, <2>3
  <2>5. ASSUME NEW i \in 1..(n + 1) PROVE h[i] = Turn(i, h[i - 1])
    <3>1. CASE i <= n
      <4>1. h[i] = g[i] /\ h[i - 1] = g[i - 1] /\ i \in 1..n
        BY <2>2, <3>1
      <4> QED
        BY <2>1, <4>1
    <3>2. CASE i = n + 1
      <4>1. h[i] = Turn(n + 1, g[n]) /\ h[i - 1] = g[n]
        BY <2>2, <3>2
      <4> QED
        BY <3>2, <4>1
    <3> QED
      BY <2>2, <3>1, <3>2
  <2>6. Upto(n + 1, h)
    BY <2>4, <2>5
  <2> QED
    BY <2>2, <2>6
<1>7. K \in T
  <2> HIDE DEF T
  <2>1. \A n \in 0..K : n \in T
    BY <1>1, <1>5, <1>6, InductionUpTo
  <2> QED
    BY <1>1, <2>1
<1>8. PICK g : Upto(K, g)
  BY <1>7
<1>9. g = Def(g)
  <2>1. \A n \in 0..K : g[n] = Def(g)[n]
    BY <1>1, <1>8
  <2> QED
    BY <1>8, <2>1
<1>10. done = Def(done)
  <2> HIDE DEF Def
  <2> QED
    BY <1>9
<1> HIDE DEF done
<1>11. done[0] = start /\ \A n \in 1..K : done[n] = Turn(n, done[n - 1])
  BY <1>1, <1>10
<1> DEFINE D == {n \in 0..K : done[n] \in Good}
<1>12. 0 \in D
  BY <1>1, <1>2, <1>11
<1>13. ASSUME NEW n \in 0..(K - 1), n \in D PROVE n + 1 \in D
  <2>1. n + 1 \in 1..K /\ n + 1 - 1 = n /\ done[n] \in Good
    BY <1>1, <1>13
  <2> QED
    BY <1>3, <1>11, <2>1
<1>14. \A n \in 0..K : n \in D
  <2> HIDE DEF D
  <2> QED
    BY <1>1, <1>12, <1>13, InductionUpTo
<1>15. \A n \in 0..K : Sound(done[n], d0, refused)
  BY <1>1, <1>14 DEF Good
<1>16. \A n \in 1..Len(index) : done[n] = Reconciled(done[n - 1], index[Len(index) + 1 - n], refused)
  BY <1>11 DEF Turn, K
<1>17. TurnByTurn(done, start, d0, refused)
  BY <1>4, <1>11, <1>15, <1>16 DEF TurnByTurn, K
<1> QED
  BY <1>17

LEMMA ReconcilingSound ==
  ASSUME NEW d0, NEW refused, NEW start, Sound(start, d0, refused), index \in Seq(Entry),
         lastRow \in Nat
  PROVE  Sound(Reconciling(start, refused), d0, refused)
<1>1. PICK done : TurnByTurn(done, start, d0, refused)
  BY ReconcilingTurns
<1>2. Len(index) \in 0..Len(index)
  BY LenProperties
<1> QED
  BY <1>1, <1>2 DEF TurnByTurn

-----------------------------------------------------------------------------
(* What the steps leave of the list and of the table.                      *)

LEMMA FirstNItems ==
  ASSUME NEW S, NEW seq \in Seq(S), NEW n \in Nat
  PROVE  FirstN(seq, n) \in Seq(S) /\ Len(FirstN(seq, n)) <= n /\ ToSet(FirstN(seq, n)) \subseteq ToSet(seq)
<1> DEFINE t == FirstN(seq, n)
<1>1. /\ t \in Seq(S) /\ Len(t) = (IF Len(seq) < n THEN Len(seq) ELSE n)
      /\ \A i \in 1..Len(t) : i \in 1..Len(seq) /\ t[i] = seq[i]
  BY FirstNFacts
<1> HIDE DEF t
<1>2. Len(seq) \in Nat /\ DOMAIN seq = 1..Len(seq) /\ DOMAIN t = 1..Len(t)
  BY <1>1, LenProperties
<1>3. Len(t) <= n
  BY <1>1, <1>2
<1>4. ToSet(t) \subseteq ToSet(seq)
  BY <1>1, <1>2 DEF ToSet
<1> QED
  BY <1>1, <1>3, <1>4 DEF t

\* The items of a and then those of b.
Joined(list, a, b) ==
  /\ Len(list) = Len(a) + Len(b)
  /\ \A k \in 1..(Len(a) + Len(b)) : list[k] = IF k <= Len(a) THEN a[k] ELSE b[k - Len(a)]

LEMMA ConcatItems ==
  ASSUME NEW S, NEW a \in Seq(S), NEW b \in Seq(S)
  PROVE  /\ a \o b \in Seq(S) /\ ToSet(a \o b) \subseteq ToSet(a) \union ToSet(b)
         /\ Joined(a \o b, a, b)
<1> DEFINE t == a \o b
<1>1. /\ t \in Seq(S) /\ Len(t) = Len(a) + Len(b)
      /\ \A k \in 1..(Len(a) + Len(b)) : t[k] = IF k <= Len(a) THEN a[k] ELSE b[k - Len(a)]
  BY ConcatProperties
<1> HIDE DEF t
<1>2. Len(a) \in Nat /\ Len(b) \in Nat
  BY LenProperties
<1>3. DOMAIN a = 1..Len(a) /\ DOMAIN b = 1..Len(b) /\ DOMAIN t = 1..Len(t)
  BY <1>1, LenProperties
<1>4. ASSUME NEW k \in 1..Len(t) PROVE t[k] \in ToSet(a) \union ToSet(b)
  <2>1. CASE k <= Len(a)
    <3>1. k \in 1..Len(a) /\ t[k] = a[k]
      BY <1>1, <1>2, <2>1
    <3> QED
      BY <1>3, <3>1 DEF ToSet
  <2>2. CASE ~ (k <= Len(a))
    <3>1. k - Len(a) \in 1..Len(b) /\ t[k] = b[k - Len(a)]
      BY <1>1, <1>2, <2>2
    <3> QED
      BY <1>3, <3>1 DEF ToSet
  <2> QED
    BY <2>1, <2>2
<1>5. ToSet(t) \subseteq ToSet(a) \union ToSet(b)
  BY <1>3, <1>4 DEF ToSet
<1> QED
  BY <1>1, <1>5 DEF t, Joined

\* What is refused is one of the incidents there may be.
Counted == /\ faults' \in Nat /\ faults' >= faults /\ faults' + restarts <= MaxIncidents
LEMMA FaultFacts ==
  ASSUME ThreadsTyped, UNCHANGED faults \/ Fault
  PROVE  Counted /\ (Fault => faults' # 0)
<1>1. faults \in Nat /\ restarts \in Nat /\ MaxIncidents \in Nat /\ faults + restarts <= MaxIncidents
  BY ClipAssumption DEF ThreadsTyped
<1> QED
  BY <1>1 DEF Fault, Counted

\* A prune drops entries and rows, and leaves the table within its cap unless it is
\* refused to.
LEMMA PruneFacts ==
  ASSUME HalvesTyped, ThreadsTyped, Prune
  PROVE  /\ index' \in Seq(Entry) /\ Len(index') <= Len(index) /\ Listed' \subseteq Listed
         /\ disk' \subseteq disk /\ IsFiniteSet(disk')
         /\ db = "ready" /\ ~ unpruned' => Cardinality(disk') <= MaxEntries
         /\ Counted /\ unpruned' \in BOOLEAN
<1> DEFINE P == {i \in DOMAIN index : index[i].ts >= Cutoff}
<1>1. index \in Seq(Entry) /\ DOMAIN index = 1..Len(index)
  BY DEF HalvesTyped
<1>2. index' = AtPlaces(index, P)
  BY DEF Prune, Retained
<1>3. P \in SUBSET (1..Len(index))
  BY <1>1
<1> HIDE DEF P
<1>4. /\ AtPlaces(index, P) \in Seq(Entry) /\ Len(AtPlaces(index, P)) <= Len(index)
      /\ ToSet(AtPlaces(index, P)) \subseteq ToSet(index)
  BY <1>1, <1>3, FilterFacts
<1>5. index' \in Seq(Entry) /\ Len(index') <= Len(index) /\ Listed' \subseteq Listed
  BY <1>2, <1>4 DEF Listed
<1>6. IsFiniteSet(disk) /\ disk \subseteq Row /\ \A r, q \in disk : r.id = q.id => r = q
  BY DEF HalvesTyped
<1>7. CASE db # "ready"
  <2>1. disk' = disk /\ faults' = faults /\ unpruned' = unpruned /\ unpruned \in BOOLEAN
    BY <1>7 DEF Prune, ThreadsTyped
  <2> QED
    BY <1>5, <1>6, <1>7, <2>1, FaultFacts
<1>8. CASE db = "ready"
  <2>1. PICK aged \in BOOLEAN, counted \in BOOLEAN :
          LET kept == IF aged THEN Unexpired(disk) ELSE disk
          IN  /\ disk' = IF counted THEN ToSet(FirstN(NewestFirst(kept), MaxEntries)) ELSE kept
              /\ unpruned' = ~ counted
              /\ IF aged /\ counted THEN UNCHANGED faults ELSE Fault
    BY <1>8 DEF Prune
  <2> DEFINE found == IF aged THEN Unexpired(disk) ELSE disk
             row == NewestFirst(found)
             t == FirstN(row, MaxEntries)
  <2>2. /\ disk' = IF counted THEN ToSet(t) ELSE found
        /\ unpruned' = ~ counted /\ (UNCHANGED faults \/ Fault)
    BY <2>1, Zenon
  <2>3. found \subseteq disk
    BY DEF Unexpired
  <2> HIDE DEF found
  <2>4. IsFiniteSet(found) /\ MaxEntries \in Nat
    BY <1>6, <2>3, FS_Subset, ClipAssumption
  <2>5. row \in Seq(found)
    BY <1>6, <2>3, <2>4, NewestFacts
  <2> HIDE DEF row
  <2>6. t \in Seq(found) /\ Len(t) <= MaxEntries
    BY <2>4, <2>5, FirstNItems
  <2> HIDE DEF t
  <2>7. ToSet(t) \subseteq found /\ IsFiniteSet(ToSet(t)) /\ Cardinality(ToSet(t)) <= Len(t)
    BY <2>6, ItemsFacts
  <2>8. Cardinality(ToSet(t)) <= MaxEntries
    <3>1. Cardinality(ToSet(t)) \in Nat /\ Len(t) \in Nat
      BY <2>6, <2>7, FS_CardinalityType, LenProperties
    <3> QED
      BY <2>4, <2>6, <2>7, <3>1
  <2>9. disk' \subseteq disk /\ IsFiniteSet(disk')
    BY <2>2, <2>3, <2>4, <2>7
  <2>10. ~ unpruned' => Cardinality(disk') <= MaxEntries
    BY <2>2, <2>8
  <2>11. Counted /\ unpruned' \in BOOLEAN
    BY <2>2, FaultFacts
  <2> QED
    BY <1>5, <2>9, <2>10, <2>11
<1> QED
  BY <1>7, <1>8

\* The list without the entries of one id.
LEMMA DeleteFacts ==
  ASSUME HalvesTyped, NEW s, index' = AtPlaces(index, {i \in DOMAIN index : index[i].id # s.id})
  PROVE  index' \in Seq(Entry) /\ Len(index') <= Len(index) /\ Listed' \subseteq Listed
<1> DEFINE P == {i \in DOMAIN index : index[i].id # s.id}
<1>1. index \in Seq(Entry) /\ DOMAIN index = 1..Len(index)
  BY DEF HalvesTyped
<1>2. P \in SUBSET (1..Len(index))
  BY <1>1
<1>3. index' = AtPlaces(index, P)
  OBVIOUS
<1> HIDE DEF P
<1>4. /\ AtPlaces(index, P) \in Seq(Entry) /\ Len(AtPlaces(index, P)) <= Len(index)
      /\ ToSet(AtPlaces(index, P)) \subseteq ToSet(index)
  BY <1>1, <1>2, FilterFacts
<1> QED
  BY <1>3, <1>4 DEF Listed

LEMMA PromoteFacts ==
  ASSUME HalvesTyped, ThreadsTyped, Promote
  PROVE  /\ index' \in Seq(Entry) /\ Len(index') = Len(index)
         /\ \A e \in Listed' : \E y \in Listed :
              y.id = e.id /\ y.text = e.text /\ y.pending = e.pending
         /\ \E y \in Listed : y.id = cap'.id /\ y.text = cap.text
         /\ cap' = [cap EXCEPT !.pc = "touch", !.id = cap'.id, !.ts = now] /\ cap'.id \in Int
<1>1. PICK i \in DOMAIN index :
        /\ index[i].text = cap.text
        /\ index' = <<[index[i] EXCEPT !.ts = now]>> \o RemoveAt(index, i)
        /\ cap' = [cap EXCEPT !.pc = "touch", !.id = index[i].id, !.ts = now]
  BY DEF Promote
<1> DEFINE x == [index[i] EXCEPT !.ts = now]
           t == <<x>> \o RemoveAt(index, i)
<1>2. index \in Seq(Entry) /\ i \in 1..Len(index) /\ index[i] \in Entry /\ index[i] \in Listed
  BY DEF HalvesTyped, Listed, ToSet
<1>3. /\ x \in Entry /\ x.id = index[i].id /\ x.text = index[i].text
      /\ x.pending = index[i].pending /\ index[i].id \in Int
  BY <1>2 DEF ThreadsTyped, Entry
<1>4. index' = t
  BY <1>1
<1> HIDE DEF x
<1>5. t \in Seq(Entry) /\ Len(t) = Len(index) /\ ToSet(t) \subseteq ToSet(index) \union {x}
  BY <1>2, <1>3, FrontFacts
<1> HIDE DEF t
<1>6. Listed' \subseteq Listed \union {x}
  BY <1>4, <1>5 DEF Listed
<1>7. cap'.id = index[i].id
  BY <1>1 DEF ThreadsTyped
<1> QED
  BY <1>1, <1>2, <1>3, <1>4, <1>5, <1>6, <1>7

LEMMA ListFacts ==
  ASSUME HalvesTyped, ThreadsTyped, ListEntry
  PROVE  /\ index' \in Seq(Entry) /\ Len(index') <= IndexEntries
         /\ Listed' \subseteq
              Listed \union {[id |-> cap.id, text |-> cap.text, ts |-> cap.ts, pending |-> cap.id <= 0]}
<1> DEFINE x == [id |-> cap.id, text |-> cap.text, ts |-> cap.ts, pending |-> cap.id <= 0]
           s == <<x>> \o index
           t == FirstN(s, IndexEntries)
<1>1. index \in Seq(Entry) /\ x \in Entry /\ IndexEntries \in Nat
  BY ClipAssumption DEF HalvesTyped, ThreadsTyped, ListEntry, Entry
<1>2. index' = t
  BY DEF ListEntry
<1> HIDE DEF x
<1>3. s \in Seq(Entry) /\ ToSet(s) = ToSet(index) \union {x}
  BY <1>1, ConsFacts
<1> HIDE DEF s
<1>4. t \in Seq(Entry) /\ Len(t) <= IndexEntries /\ ToSet(t) \subseteq ToSet(s)
  BY <1>1, <1>3, FirstNItems
<1> HIDE DEF t
<1> QED
  BY <1>2, <1>3, <1>4 DEF Listed, x

\* The rows open_db reads are rows of the table.
LEMMA OpenFacts ==
  ASSUME HalvesTyped, OpenDb
  PROVE  loader' = [pc |-> "opened", rows |-> loader'.rows]
         /\ loader'.rows \in Seq(Row) /\ ToSet(loader'.rows) \subseteq disk
<1> DEFINE found == Unexpired(disk)
           row == NewestFirst(found)
           t == FirstN(row, IndexEntries)
<1>1. found \subseteq disk /\ IsFiniteSet(disk) /\ disk \subseteq Row /\ \A r, q \in disk : r.id = q.id => r = q
  BY DEF HalvesTyped, Unexpired
<1>2. loader' = [pc |-> "opened", rows |-> t]
  BY DEF OpenDb
<1> HIDE DEF found
<1>3. IsFiniteSet(found) /\ IndexEntries \in Nat
  BY <1>1, FS_Subset, ClipAssumption
<1>4. row \in Seq(found)
  BY <1>1, <1>3, NewestFacts
<1> HIDE DEF row
<1>5. t \in Seq(found)
  BY <1>3, <1>4, FirstNItems
<1> HIDE DEF t
<1>6. ToSet(t) \subseteq found /\ t \in Seq(Row)
  BY <1>1, <1>5, ItemsFacts
<1> QED
  BY <1>1, <1>2, <1>6

\* attach leaves rows that were there or are new, none that was there when a
\* clear wiped the table, and entries that were listed or have a row.
LEMMA AttachFacts ==
  ASSUME HalvesTyped, ThreadsTyped, Attach
  PROVE  /\ index' \in Seq(Entry) /\ Len(index') <= IndexEntries
         /\ IsFiniteSet(disk') /\ disk' \subseteq Row /\ lastRow' \in lastRow..MaxRows
         /\ \A r, q \in disk' : r.id = q.id => r = q
         /\ \A r \in disk' : r.id <= lastRow'
         /\ \A r \in disk' : \/ r.id > lastRow
                             \/ /\ deferred => r.id \notin owed'
                                /\ \E q \in disk : q.id = r.id /\ q.text = r.text
         /\ owed' \subseteq owed /\ loose \subseteq loose' /\ loose' \subseteq Int /\ Counted
         /\ \A e \in Listed' :
              \/ e \in Listed
              \/ ~ e.pending /\ \E r \in disk' : r.id = e.id /\ r.text = e.text
              \/ /\ ~ e.pending /\ ~ deferred
                 /\ \E r \in ToSet(loader.rows) : r.id = e.id /\ r.text = e.text
         /\ faults' = 0 => \A e \in Listed' : ~ e.pending
<1>1. PICK wiped \in BOOLEAN,
           refused \in SUBSET ({"find", "stamp", "keep"} \X {e.text : e \in {x \in Listed : x.pending}}) :
        LET start == [disk |-> IF deferred /\ wiped THEN {} ELSE disk, last |-> lastRow, index |-> <<>>,
                      loose |-> loose]
            end   == Reconciling(start, refused)
            seen  == {e.text : e \in Listed}
            older == AtPlaces(LoadedRows, {i \in DOMAIN LoadedRows : LoadedRows[i].text \notin seen})
        IN  /\ ~wiped => deferred
            /\ IF wiped /\ refused = {} THEN UNCHANGED faults ELSE Fault
            /\ end.last <= MaxRows
            /\ disk' = end.disk /\ Spread
            /\ lastRow' = end.last
            /\ index' = FirstN(end.index \o [i \in DOMAIN older |-> AsEntry(older[i])], IndexEntries)
            /\ loose' = end.loose
            /\ DropPromise(~wiped)
  BY DEF Attach
<1> DEFINE d0 == IF deferred /\ wiped THEN {} ELSE disk
           start == [disk |-> d0, last |-> lastRow, index |-> <<>>, loose |-> loose]
           end == Reconciling(start, refused)
           P == {i \in DOMAIN LoadedRows : LoadedRows[i].text \notin {e.text : e \in Listed}}
           older == AtPlaces(LoadedRows, P)
           below == [i \in DOMAIN older |-> AsEntry(older[i])]
           all == end.index \o below
<1>2. /\ ~wiped => deferred
      /\ IF wiped /\ refused = {} THEN UNCHANGED faults ELSE Fault
      /\ end.last <= MaxRows /\ disk' = end.disk /\ lastRow' = end.last
      /\ index' = FirstN(all, IndexEntries)
      /\ loose' = end.loose /\ DropPromise(~wiped)
  BY <1>1, Zenon
<1>3. /\ d0 \subseteq disk /\ owed' \subseteq owed
      /\ \A r \in d0 : deferred => r.id \notin owed'
  BY <1>2 DEF DropPromise, IdsOf
<1> HIDE DEF d0
<1>4. /\ IsFiniteSet(disk) /\ disk \subseteq Row /\ lastRow \in Nat /\ MaxRows \in Nat /\ IndexEntries \in Nat
      /\ index \in Seq(Entry)
      /\ \A r, q \in disk : r.id = q.id => r = q
  BY ClipAssumption DEF HalvesTyped
<1>5. Sound(start, d0, refused)
  <2>1. IsFiniteSet(d0)
    BY <1>3, <1>4, FS_Subset
  <2>2. /\ start.disk = d0 /\ start.last = lastRow /\ start.index = <<>> /\ ToSet(start.index) = {}
        /\ start.loose = loose
    BY DEF ToSet
  <2>3. start \in Midway
    <3>1. Row \subseteq StoredRow
      BY DEF Row, StoredRow
    <3>2. d0 \subseteq StoredRow /\ <<>> \in Seq(Entry)
      BY <1>3, <1>4, <3>1
    <3> QED
      BY <1>4, <3>2 DEF Midway, ThreadsTyped
  <2>4. \A r \in d0 : r.id <= lastRow
    BY <1>3 DEF HalvesTyped
  <2>5. lastRow >= lastRow
    BY <1>4
  <2> HIDE DEF start
  <2> QED
    BY <1>3, <1>4, <2>1, <2>2, <2>3, <2>4, <2>5 DEF Sound
<1> HIDE DEF start
<1>6. Sound(end, d0, refused)
  BY <1>4, <1>5, ReconcilingSound
<1> HIDE DEF end
<1>7. LoadedRows \in Seq(Row) /\ ToSet(LoadedRows) \subseteq ToSet(loader.rows) /\ (deferred => LoadedRows = <<>>)
  BY DEF LoadedRows, ThreadsTyped, ToSet
<1>8. P \in SUBSET (1..Len(LoadedRows))
  BY <1>7
<1> HIDE DEF P
<1>9. older \in Seq(Row) /\ ToSet(older) \subseteq ToSet(LoadedRows) /\ DOMAIN older = 1..Len(older)
  <2>1. /\ older \in Seq(Row) /\ ToSet(older) \subseteq {LoadedRows[i] : i \in P}
        /\ {LoadedRows[i] : i \in P} \subseteq ToSet(LoadedRows)
    BY <1>7, <1>8, FilterFacts
  <2> HIDE DEF older
  <2>2. DOMAIN older = 1..Len(older)
    BY <2>1, LenProperties
  <2> QED
    BY <2>1, <2>2
<1>10. deferred => ToSet(older) = {}
  <2>1. \A q \in Seq(Row) : q = <<>> => ToSet(q) = {}
    BY DEF ToSet
  <2>2. deferred => ToSet(LoadedRows) = {}
    BY <1>7, <2>1
  <2> QED
    BY <1>9, <2>2
<1> HIDE DEF older
<1>11. /\ below \in Seq(Entry)
       /\ \A e \in ToSet(below) : ~ e.pending /\ \E r \in ToSet(older) : r.id = e.id /\ r.text = e.text
  <2>1. Len(older) \in Nat /\ \A i \in 1..Len(older) : older[i] \in Row /\ older[i] \in ToSet(older)
    BY <1>9 DEF ToSet
  <2>2. \A i \in 1..Len(older) : AsEntry(older[i]) \in Entry
    <3>1. 1..MaxRows \subseteq Int
      BY <1>4
    <3> QED
      BY <2>1, <3>1 DEF Row, Entry, AsEntry
  <2>3. below \in [1..Len(older) -> Entry]
    BY <1>9, <2>2
  <2>4. below \in Seq(Entry)
    BY <2>1, <2>3, SeqDef
  <2>5. \A i \in DOMAIN below : /\ below[i].pending = FALSE /\ below[i].id = older[i].id
                                /\ below[i].text = older[i].text /\ i \in 1..Len(older)
    BY <1>9 DEF AsEntry
  <2> HIDE DEF below
  <2>6. \A i \in DOMAIN below :
           ~ below[i].pending /\ \E r \in ToSet(older) : r.id = below[i].id /\ r.text = below[i].text
    BY <2>1, <2>5
  <2> QED
    BY <2>4, <2>6 DEF ToSet
<1>12. end.index \in Seq(Entry) /\ end.last \in Nat /\ end.disk \subseteq StoredRow
  BY <1>6 DEF Sound, Midway
<1> HIDE DEF below
<1>13. all \in Seq(Entry) /\ ToSet(all) \subseteq ToSet(end.index) \union ToSet(below)
  BY <1>11, <1>12, ConcatItems
<1> HIDE DEF all
<1>14. /\ FirstN(all, IndexEntries) \in Seq(Entry) /\ Len(FirstN(all, IndexEntries)) <= IndexEntries
       /\ ToSet(FirstN(all, IndexEntries)) \subseteq ToSet(all)
  BY <1>4, <1>13, FirstNItems
<1>15. /\ index' \in Seq(Entry) /\ Len(index') <= IndexEntries
       /\ Listed' \subseteq ToSet(end.index) \union ToSet(below)
  BY <1>2, <1>13, <1>14 DEF Listed
<1>16. IsFiniteSet(disk') /\ lastRow' \in lastRow..MaxRows /\ disk' \subseteq Row
  <2>1. IsFiniteSet(end.disk) /\ end.last >= lastRow /\ \A r \in end.disk : r.id <= end.last
    BY <1>6 DEF Sound
  <2>2. lastRow' \in lastRow..MaxRows
    BY <1>2, <1>4, <1>12, <2>1
  <2>3. disk' \subseteq Row
    <3> SUFFICES ASSUME NEW r \in end.disk PROVE r \in Row
      BY <1>2
    <3>1. r = [id |-> r.id, text |-> r.text, ts |-> r.ts] /\ r.id \in Nat \ {0} /\ r.text \in Texts
          /\ r.ts \in 0..MaxClock
      BY <1>12 DEF StoredRow
    <3>2. r.id \in 1..MaxRows
      BY <1>2, <1>4, <1>12, <2>1, <3>1
    <3> QED
      BY <3>1, <3>2 DEF Row
  <2> QED
    BY <1>2, <2>1, <2>2, <2>3
<1>17. \A r, q \in disk' : r.id = q.id => r = q
  BY <1>2, <1>6 DEF Sound
<1>18. \A r \in disk' : r.id <= lastRow'
  BY <1>2, <1>6 DEF Sound
<1>19. \A r \in disk' : \/ r.id > lastRow
                        \/ /\ deferred => r.id \notin owed'
                           /\ \E q \in disk : q.id = r.id /\ q.text = r.text
  <2>1. \A r \in disk' : r.id > lastRow \/ \E q \in d0 : q.id = r.id /\ q.text = r.text
    BY <1>2, <1>6 DEF Sound
  <2> QED
    BY <1>3, <2>1
<1>20. \A e \in Listed' :
         \/ e \in Listed
         \/ ~ e.pending /\ \E r \in disk' : r.id = e.id /\ r.text = e.text
         \/ /\ ~ e.pending /\ ~ deferred
            /\ \E r \in ToSet(loader.rows) : r.id = e.id /\ r.text = e.text
  <2>1. \A e \in ToSet(end.index) :
          e \in Listed \/ (~ e.pending /\ \E r \in disk' : r.id = e.id /\ r.text = e.text)
    BY <1>2, <1>6 DEF Sound
  <2>2. \A e \in ToSet(below) : /\ ~ e.pending /\ ~ deferred
                                /\ \E r \in ToSet(loader.rows) : r.id = e.id /\ r.text = e.text
    BY <1>7, <1>9, <1>10, <1>11
  <2> QED
    BY <1>15, <2>1, <2>2
<1>21. faults' = 0 => \A e \in Listed' : ~ e.pending
  <2>1. refused = {} => \A e \in ToSet(end.index) : ~ e.pending
    BY <1>6 DEF Sound
  <2>2. faults' = 0 => refused = {}
    BY <1>2, FaultFacts
  <2> QED
    BY <1>11, <1>15, <2>1, <2>2
<1>22. Counted /\ loose \subseteq loose' /\ loose' \subseteq Int
  BY <1>2, <1>6, FaultFacts DEF Sound, Midway
<1> QED
  BY <1>3, <1>15, <1>16, <1>17, <1>18, <1>19, <1>20, <1>21, <1>22

LEMMA RacingFacts ==
  ASSUME ThreadsTyped
  PROVE  /\ Racing = [cap EXCEPT !.raced = Racing.raced] /\ Racing.raced \in BOOLEAN
         /\ Racing.pc = cap.pc /\ Racing.id = cap.id /\ Racing.text = cap.text /\ Racing.ts = cap.ts
         /\ cap.raced \/ cap.pc \in {"store", "list", "touch"} => Racing.raced
<1>1. cap = [pc |-> cap.pc, text |-> cap.text, ts |-> cap.ts, id |-> cap.id, raced |-> cap.raced]
      /\ cap.raced \in BOOLEAN
  BY DEF ThreadsTyped
<1>2. CASE cap.pc \in {"store", "list", "touch"}
  <2>1. Racing = [cap EXCEPT !.raced = TRUE]
    BY <1>2 DEF Racing
  <2> QED
    BY <1>1, <2>1
<1>3. CASE cap.pc \notin {"store", "list", "touch"}
  <2>1. Racing = cap
    BY <1>3 DEF Racing
  <2> QED
    BY <1>1, <1>3, <2>1
<1> QED
  BY <1>2, <1>3

LEMMA TextNumbers == \A t \in Texts : TextNo[t] \in Nat /\ TextNo[t] <= 999
<1> SUFFICES ASSUME NEW t \in Texts PROVE TextNo[t] \in Nat /\ TextNo[t] <= 999
  OBVIOUS
<1> DEFINE Low == 0..999
<1>1. TextNo \in [Texts -> Low]
  BY ClipAssumption
<1>2. \A n \in Low : n \in Nat /\ n <= 999
  OBVIOUS
<1> HIDE DEF Low
<1>3. TextNo[t] \in Low
  BY <1>1
<1> QED
  BY <1>2, <1>3

\* What TouchRow leaves of the table: the same ids and texts.
LEMMA TouchFacts ==
  ASSUME HalvesTyped, ThreadsTyped, TouchRow
  PROVE  /\ IsFiniteSet(disk') /\ disk' \subseteq Row /\ Cardinality(disk') <= Cardinality(disk)
         /\ \A r \in disk' : \E q \in disk : q.id = r.id /\ q.text = r.text
         /\ \A r, q \in disk' : r.id = q.id => r = q
         /\ loose' \subseteq Int /\ Counted
<1>4. loose' \subseteq Int /\ Counted
  BY FaultFacts DEF TouchRow, Overtaken, ThreadsTyped
<1> DEFINE f == [r \in disk |-> IF r.id = cap.id THEN [r EXCEPT !.ts = cap.ts] ELSE r]
<1>1. /\ IsFiniteSet(disk) /\ disk \subseteq Row /\ Cardinality(disk) \in Nat
      /\ \A r, q \in disk : r.id = q.id => r = q
  BY FS_CardinalityType DEF HalvesTyped
<1>2. CASE disk' = disk
  BY <1>1, <1>2, <1>4
<1>3. CASE disk' # disk
  <2>1. disk' = {f[r] : r \in disk}
    BY <1>3 DEF TouchRow
  <2>2. \A r \in disk : f[r] \in Row /\ f[r].id = r.id /\ f[r].text = r.text
    <3>1. cap.ts \in 0..MaxClock
      BY DEF ThreadsTyped
    <3> QED
      BY <1>1, <3>1 DEF Row
  <2>3. f \in Surjection(disk, disk')
    BY <2>1 DEF Surjection
  <2> HIDE DEF f
  <2>4. IsFiniteSet(disk') /\ Cardinality(disk') <= Cardinality(disk)
    BY <1>1, <2>3, FS_Surjection
  <2>5. \A r, q \in disk' : r.id = q.id => r = q
    <3> SUFFICES ASSUME NEW x \in disk, NEW y \in disk, f[x].id = f[y].id PROVE f[x] = f[y]
      BY <2>1
    <3>1. x = y
      BY <1>1, <2>2
    <3> QED
      BY <3>1
  <2> QED
    BY <1>4, <2>1, <2>2, <2>4, <2>5
<1> QED
  BY <1>2, <1>3

LEMMA TypedStep ==
  ASSUME HalvesTyped, ThreadsTyped, [ClipNext]_clipVars
  PROVE  HalvesTyped' /\ ThreadsTyped'
<1> USE DEF stored, memory, threads, outside, budget, ghosts
<1>0. /\ MaxRows \in Nat /\ MaxClock \in Nat /\ IndexEntries \in Nat /\ lastRow \in Nat
      /\ \A r \in disk : r.id \in 1..lastRow
      /\ Idle \in [pc : CapSteps, text : Texts \union {NoText}, ts : 0..MaxClock, id : Int,
                   raced : BOOLEAN]
      /\ Idle.pc = "idle"
  BY ClipAssumption DEF HalvesTyped, Row, Idle, CapSteps
<1>1. CASE Tick
  <2>1. HalvesTyped'
    BY <1>1 DEF Tick, HalvesTyped
  <2>2. now' \in 0..MaxClock
    BY <1>0, <1>1 DEF Tick, ThreadsTyped
  <2> QED
    BY <1>1, <2>1, <2>2 DEF Tick, ThreadsTyped
<1>2. CASE CheckEnabled
  BY <1>0, <1>2 DEF CheckEnabled, HalvesTyped, ThreadsTyped, CapSteps
<1>3. CASE ReadClipboard
  <2>1. cap' = Idle \/ \E t \in Texts : cap' = [cap EXCEPT !.pc = "find", !.text = t]
    BY <1>3 DEF ReadClipboard
  <2>2. cap' \in [pc : CapSteps, text : Texts \union {NoText}, ts : 0..MaxClock, id : Int,
                  raced : BOOLEAN]
    BY <1>0, <2>1 DEF ThreadsTyped, CapSteps
  <2>3. cap'.pc \in {"find", "touch", "store", "list"} => cap'.text \in Texts
    BY <1>0, <2>1 DEF ThreadsTyped
  <2> QED
    BY <1>3, <2>2, <2>3 DEF ReadClipboard, HalvesTyped, ThreadsTyped
<1>4. CASE Promote
  <2>1. /\ index' \in Seq(Entry) /\ Len(index') = Len(index)
        /\ cap' = [cap EXCEPT !.pc = "touch", !.id = cap'.id, !.ts = now] /\ cap'.id \in Int
        /\ cap.pc = "find"
    BY <1>4, PromoteFacts DEF Promote
  <2> QED
    BY <1>4, <2>1 DEF Promote, HalvesTyped, ThreadsTyped, CapSteps
<1>5. CASE TouchRow
  <2>1. /\ IsFiniteSet(disk') /\ disk' \subseteq Row
        /\ \A r \in disk' : \E q \in disk : q.id = r.id /\ q.text = r.text
        /\ \A r, q \in disk' : r.id = q.id => r = q
    BY <1>5, TouchFacts
  <2> QED
    <3>1. loose' \subseteq Int /\ Counted
      BY <1>5, TouchFacts
    <3>2. HalvesTyped'
      BY <1>0, <1>5, <2>1 DEF TouchRow, HalvesTyped
    <3>3. ThreadsTyped'
      BY <1>0, <1>5, <3>1 DEF TouchRow, ThreadsTyped, Counted
    <3> QED
      BY <3>2, <3>3
<1>6. CASE Missing
  BY <1>0, <1>6 DEF Missing, HalvesTyped, ThreadsTyped, CapSteps
<1>7. CASE StoreRow
  <2>1. cap' = Idle \/ \E i \in Int : cap' = [cap EXCEPT !.pc = "list", !.id = i]
    <3>1. NextRow \in Int
      BY <1>0 DEF NextRow
    <3>2. -(cap.ts * 1000 + TextNo[cap.text]) \in Int
      <4>1. cap.text \in Texts /\ cap.ts \in Int
        BY <1>0, <1>7 DEF ThreadsTyped, StoreRow
      <4>2. TextNo[cap.text] \in Int
        BY <4>1, TextNumbers
      <4> QED
        BY <4>1, <4>2
    <3>3. \/ cap' = Idle \/ cap' = [cap EXCEPT !.pc = "list", !.id = NextRow]
          \/ cap' = [cap EXCEPT !.pc = "list", !.id = -(cap.ts * 1000 + TextNo[cap.text])]
      BY <1>7 DEF StoreRow
    <3> DEFINE memoryId == -(cap.ts * 1000 + TextNo[cap.text])
    <3>4. memoryId \in Int /\ (\/ cap' = Idle \/ cap' = [cap EXCEPT !.pc = "list", !.id = NextRow]
                              \/ cap' = [cap EXCEPT !.pc = "list", !.id = memoryId])
      BY <3>2, <3>3
    <3> HIDE DEF memoryId
    <3> QED
      BY <3>1, <3>4
  <2>2. ThreadsTyped'
    <3>1. cap.pc = "store" /\ cap.text \in Texts
      BY <1>7 DEF StoreRow, ThreadsTyped
    <3>2. owed' \subseteq 1..lastRow'
      <4>1. lastRow' = lastRow \/ lastRow' = lastRow + 1
        BY <1>7 DEF StoreRow, NextRow
      <4> QED
        BY <1>0, <1>7, <4>1 DEF StoreRow, ThreadsTyped
    <3>3. cap' \in [pc : CapSteps, text : Texts \union {NoText}, ts : 0..MaxClock, id : Int,
                    raced : BOOLEAN]
      BY <1>0, <2>1 DEF ThreadsTyped, CapSteps
    <3>4. cap'.pc \in {"find", "touch", "store", "list"} => cap'.text \in Texts
      BY <1>0, <2>1, <3>1 DEF ThreadsTyped
    <3> QED
      BY <1>7, <3>2, <3>3, <3>4 DEF StoreRow, ThreadsTyped
  <2>3. HalvesTyped'
    <3>1. CASE disk' = disk /\ lastRow' = lastRow
      BY <1>7, <3>1 DEF StoreRow, HalvesTyped
    <3>2. CASE /\ NextRow <= MaxRows /\ lastRow' = NextRow
               /\ disk' = disk \union {[id |-> NextRow, text |-> cap.text, ts |-> cap.ts]}
      <4> DEFINE r0 == [id |-> NextRow, text |-> cap.text, ts |-> cap.ts]
      <4>1. r0 \in Row /\ r0.id = lastRow + 1
        BY <1>0, <1>7, <3>2 DEF StoreRow, ThreadsTyped, NextRow, Row
      <4>2. IsFiniteSet(disk')
        BY <3>2, FS_AddElement DEF HalvesTyped
      <4> HIDE DEF r0
      <4>3. disk' = disk \union {r0} /\ lastRow' = lastRow + 1 /\ lastRow' \in 0..MaxRows
        BY <1>0, <3>2 DEF NextRow, r0
      <4>4. \A r, q \in disk' : r.id = q.id => r = q
        BY <1>0, <4>1, <4>3 DEF HalvesTyped
      <4>5. \A r \in disk' : r.id <= lastRow'
        BY <1>0, <4>1, <4>3
      <4> QED
        BY <1>7, <4>1, <4>2, <4>3, <4>4, <4>5 DEF StoreRow, HalvesTyped
    <3> QED
      BY <1>7, <3>1, <3>2 DEF StoreRow
  <2> QED
    BY <2>2, <2>3
<1>8. CASE ListEntry
  <2>1. index' \in Seq(Entry) /\ Len(index') <= IndexEntries
    BY <1>8, ListFacts
  <2> QED
    <3>1. loose' \subseteq Int /\ cap' = [Idle EXCEPT !.pc = "prune"]
      BY <1>8 DEF ListEntry, Overtaken, ThreadsTyped
    <3>2. HalvesTyped'
      BY <1>8, <2>1 DEF ListEntry, HalvesTyped
    <3>3. ThreadsTyped'
      BY <1>0, <1>8, <3>1 DEF ListEntry, ThreadsTyped, CapSteps
    <3> QED
      BY <3>2, <3>3
<1>9. ASSUME Prune, lastRow' = lastRow PROVE HalvesTyped'
  <2>1. /\ index' \in Seq(Entry) /\ Len(index') <= Len(index)
        /\ disk' \subseteq disk /\ IsFiniteSet(disk')
    BY <1>9, PruneFacts
  <2>2. Len(index') \in Nat /\ Len(index) \in Nat
    BY <2>1 DEF HalvesTyped
  <2>3. Len(index') <= IndexEntries
    BY <1>0, <2>1, <2>2 DEF HalvesTyped
  <2> QED
    BY <1>0, <1>9, <2>1, <2>3 DEF HalvesTyped
<1>10. CASE ListenerPrunes
  <2>1. Counted /\ unpruned' \in BOOLEAN
    BY <1>10, PruneFacts DEF ListenerPrunes
  <2> QED
    BY <1>0, <1>9, <1>10, <2>1 DEF ListenerPrunes, ThreadsTyped, Counted
<1>11. CASE LoadFails
  <2>1. Counted
    BY <1>11, FaultFacts DEF LoadFails
  <2>2. owed' \subseteq owed
    BY <1>11 DEF LoadFails, DropPromise
  <2>3. HalvesTyped'
    BY <1>11 DEF LoadFails, HalvesTyped
  <2>4. loader' \in [pc : Stages, rows : Seq(Row)] /\ db' \in {"loading", "ready", "failed"}
    BY <1>11 DEF LoadFails, Stages
  <2>5. /\ owed' \subseteq 1..lastRow'
        /\ UNCHANGED <<cap, now, given, restarts, deferred, unpruned, loose>>
    BY <1>11, <2>2 DEF LoadFails, ThreadsTyped
  <2> QED
    BY <2>1, <2>3, <2>4, <2>5 DEF ThreadsTyped, Counted
<1>12. CASE OpenDb
  <2>1. loader' = [pc |-> "opened", rows |-> loader'.rows] /\ loader'.rows \in Seq(Row)
    BY <1>12, OpenFacts
  <2> QED
    BY <1>0, <1>12, <2>1 DEF OpenDb, HalvesTyped, ThreadsTyped, Stages
<1>13. /\ Racing \in [pc : CapSteps, text : Texts \union {NoText}, ts : 0..MaxClock, id : Int,
                      raced : BOOLEAN]
       /\ Racing.pc \in {"find", "touch", "store", "list"} => Racing.text \in Texts
  BY RacingFacts DEF ThreadsTyped
<1>14. CASE Attach
  <2>1. HalvesTyped'
    <3>1. /\ index' \in Seq(Entry) /\ Len(index') <= IndexEntries
          /\ IsFiniteSet(disk') /\ disk' \subseteq Row /\ lastRow' \in lastRow..MaxRows
      BY <1>14, AttachFacts
    <3>2. /\ \A r, q \in disk' : r.id = q.id => r = q
          /\ \A r \in disk' : r.id <= lastRow'
      BY <1>14, AttachFacts
    <3> QED
      BY <1>0, <3>1, <3>2 DEF HalvesTyped
  <2>2. /\ Counted /\ loose' \subseteq Int /\ owed' \subseteq owed
        /\ now' = now /\ given' = given /\ restarts' = restarts /\ unpruned' = unpruned
    BY <1>14, AttachFacts DEF Attach
  <2>3. lastRow' \in lastRow..MaxRows
    BY <1>14, AttachFacts
  <2>4. /\ db' = "ready" /\ deferred' = FALSE /\ loader' = [pc |-> "prune", rows |-> <<>>]
        /\ cap' = Racing
    BY <1>14 DEF Attach
  <2>5. owed' \subseteq 1..lastRow'
    BY <1>0, <2>2, <2>3 DEF ThreadsTyped
  <2>6. loader' \in [pc : Stages, rows : Seq(Row)]
    BY <2>4 DEF Stages
  <2>7. ThreadsTyped'
    BY <1>13, <2>2, <2>4, <2>5, <2>6 DEF ThreadsTyped, Counted
  <2> QED
    BY <2>1, <2>7
<1>15. CASE LoaderPrunes
  <2>1. HalvesTyped'
    BY <1>9, <1>15 DEF LoaderPrunes
  <2>2. Counted /\ unpruned' \in BOOLEAN
    BY <1>15, PruneFacts DEF LoaderPrunes
  <2>3. loader' \in [pc : Stages, rows : Seq(Row)]
    BY <1>15 DEF LoaderPrunes, ThreadsTyped, Stages
  <2>4. cap' = Racing
    BY <1>15 DEF LoaderPrunes
  <2> QED
    BY <1>13, <1>15, <2>1, <2>2, <2>3, <2>4 DEF LoaderPrunes, ThreadsTyped, Counted
<1>16. CASE ShowHistory
  <2>1. given' \subseteq [id : Int, text : Texts]
    <3>1. Listed \subseteq Entry
      BY DEF Listed, ToSet, HalvesTyped
    <3> QED
      BY <1>16, <3>1 DEF ShowHistory, Entry
  <2> QED
    BY <1>16, <2>1 DEF ShowHistory, HalvesTyped, ThreadsTyped
<1>17. CASE Delete
  <2>1. PICK s \in given :
          /\ index' = AtPlaces(index, {i \in DOMAIN index : index[i].id # s.id})
          /\ DeleteAllBut({r \in disk : r.id # s.id})
          /\ UNCHANGED <<lastRow, db, enabled, deferred, threads, outside, restarts, ghosts>>
    BY <1>17 DEF Delete, Retained
  <2>6. Counted
    BY <2>1, FaultFacts DEF DeleteAllBut
  <2>2. index' \in Seq(Entry) /\ Len(index') <= Len(index)
    BY <2>1, DeleteFacts
  <2>3. disk' \subseteq disk /\ IsFiniteSet(disk')
    <3>1. disk' \subseteq disk
      BY <2>1 DEF DeleteAllBut
    <3> QED
      BY <3>1, FS_Subset DEF HalvesTyped
  <2>4. Len(index') <= IndexEntries
    <3>1. Len(index') \in Nat /\ Len(index) \in Nat
      BY <2>2 DEF HalvesTyped
    <3> QED
      BY <1>0, <2>2, <3>1 DEF HalvesTyped
  <2>5. HalvesTyped'
    BY <2>1, <2>2, <2>3, <2>4 DEF HalvesTyped
  <2> QED
    BY <2>1, <2>5, <2>6 DEF ThreadsTyped, Counted
<1>18. CASE Clear
  <2>1. disk' \subseteq disk /\ IsFiniteSet(disk')
    <3>1. disk' = disk \/ disk' = {}
      BY <1>18 DEF Clear, DeleteAllBut
    <3> QED
      BY <3>1, FS_EmptySet DEF HalvesTyped
  <2>2. index' \in Seq(Entry) /\ Len(index') <= IndexEntries
    BY <1>0, <1>18 DEF Clear
  <2>3. HalvesTyped'
    BY <1>18, <2>1, <2>2 DEF Clear, HalvesTyped
  <2>4. owed' \subseteq 1..lastRow'
    <3>1. IdsOf(disk) \subseteq 1..lastRow /\ owed \subseteq 1..lastRow
      BY <1>0 DEF IdsOf, ThreadsTyped
    <3> QED
      BY <1>18, <3>1 DEF Clear
  <2> QED
    <3>1. Counted
      BY <1>18, FaultFacts DEF Clear, DeleteAllBut
    <3>2. deferred' \in BOOLEAN
      BY <1>18 DEF Clear, ThreadsTyped
    <3> QED
      BY <1>13, <1>18, <2>3, <2>4, <3>1, <3>2 DEF Clear, ThreadsTyped, Counted
<1>19. CASE SetEnabled
  BY <1>19 DEF SetEnabled, HalvesTyped, ThreadsTyped
<1>20. CASE Restart
  <2>1. /\ index' \in Seq(Entry) /\ Len(index') <= IndexEntries
        /\ loader' \in [pc : Stages, rows : Seq(Row)]
    BY <1>0, <1>20 DEF Restart, Stages
  <2>2. HalvesTyped'
    BY <1>20, <2>1 DEF Restart, HalvesTyped
  <2>3. /\ cap' = Idle /\ given' = {} /\ db' = "loading" /\ deferred' = FALSE /\ loose' = {}
        /\ unpruned' = unpruned
    BY <1>20 DEF Restart
  <2>4. lastRow' = lastRow /\ owed' \subseteq owed /\ now' = now /\ faults' = faults
    BY <1>20 DEF Restart, DropPromise
  <2>6. restarts' \in Nat /\ faults + restarts' <= MaxIncidents
    BY <1>20, ClipAssumption DEF Restart, ThreadsTyped
  <2>5. ThreadsTyped'
    BY <1>0, <2>1, <2>3, <2>4, <2>6 DEF ThreadsTyped
  <2> QED
    BY <2>2, <2>5
<1>21. CASE UNCHANGED clipVars
  BY <1>21 DEF clipVars, HalvesTyped, ThreadsTyped
<1> QED
  BY <1>1, <1>2, <1>3, <1>4, <1>5, <1>6, <1>7, <1>8, <1>10, <1>11, <1>12, <1>14, <1>15, <1>16,
     <1>17, <1>18, <1>19, <1>20, <1>21 DEF ClipNext, Listener, Loader, Main

-----------------------------------------------------------------------------
(* What holds of the ids.                                                  *)

\* What the listener carries between two of its steps and has given an id.
Carried == IF cap.pc \in {"touch", "list"} THEN {cap} ELSE {}

\* Everything that names a text by an id.
Bearers == disk \union Listed \union ToSet(loader.rows) \union Carried \union given

\* Where the loader stands tells what the store is, and until it is open every
\* id in memory is a memory-only one.
StageInv ==
  /\ loader.pc \in {"opening", "opened"} => db = "loading"
  /\ loader.pc = "prune" => db = "ready"
  /\ loader.pc # "opened" => loader.rows = <<>>
  /\ db # "ready" => \A x \in Listed \union Carried : x.id <= 0

MemoryNo(x) == \E ts \in 0..MaxClock : x.id = -(ts * 1000 + TextNo[x.text])

\* An id is a row's number, handed out already, or a memory-only one, and
\* stands for one text wherever it is, a memory-only one for that and its namesakes.
PendingById == \A e \in Listed : e.pending <=> e.id <= 0
HandedOut == \A x \in Bearers : IF x.id > 0 THEN x.id <= lastRow ELSE MemoryNo(x)
OneText == \A x, y \in Bearers : x.id = y.id => x.text \in Namesakes(y.id, y.text)

\* No row that a clear promised to forget is anywhere it could come back from,
\* unless the promise is still the loader's to keep.
Promised == deferred /\ loader.pc \in {"opening", "opened"}
OwedInv ==
  Promised \/ \A x \in disk \union Listed \union ToSet(loader.rows) \union Carried : x.id \notin owed

\* With no thread about to prune the table is within its cap, unless the last
\* prune was refused.
SizeInv ==
  db = "ready" /\ loader.pc = "done" /\ cap.pc \notin {"list", "prune"} /\ ~ unpruned =>
    Cardinality(disk) <= MaxEntries

\* An entry that still has no row had its capture overtaken by attach.
PendingInv ==
  db = "ready" /\ faults = 0 =>
    /\ \A e \in Listed : e.pending => e.id \in loose
    /\ cap.pc = "list" /\ cap.id <= 0 => cap.raced

LEMMA MemoryNumber ==
  ASSUME ThreadsTyped, cap.pc = "store"
  PROVE  /\ -(cap.ts * 1000 + TextNo[cap.text]) \in Int
         /\ -(cap.ts * 1000 + TextNo[cap.text]) <= 0
<1>1. cap.text \in Texts /\ cap.ts \in Nat
  BY ClipAssumption DEF ThreadsTyped
<1>2. TextNo[cap.text] \in Nat
  BY <1>1, TextNumbers
<1> QED
  BY <1>1, <1>2

LEMMA StageStep ==
  ASSUME HalvesTyped, ThreadsTyped, StageInv, [ClipNext]_clipVars
  PROVE  StageInv'
<1> USE DEF stored, memory, threads, outside, budget, ghosts
<1>1. cap = [pc |-> cap.pc, text |-> cap.text, ts |-> cap.ts, id |-> cap.id, raced |-> cap.raced]
  BY DEF ThreadsTyped
<1>2. ASSUME UNCHANGED <<db, index, loader>>, cap'.pc \notin {"touch", "list"} PROVE StageInv'
  BY <1>2 DEF StageInv, Carried, Listed
<1>3. CASE Tick
  BY <1>3 DEF Tick, StageInv, Listed, Carried
<1>4. CASE CheckEnabled \/ ReadClipboard \/ TouchRow \/ Missing
  <2>1. UNCHANGED <<db, index, loader>>
    BY <1>4 DEF CheckEnabled, ReadClipboard, TouchRow, Missing
  <2>2. cap'.pc \notin {"touch", "list"}
    <3>2. CASE CheckEnabled
      BY <3>2 DEF CheckEnabled, Idle
    <3>3. CASE ReadClipboard
      <4>1. cap' = Idle \/ \E t \in Texts : cap' = [cap EXCEPT !.pc = "find", !.text = t]
        BY <3>3 DEF ReadClipboard
      <4>2. Idle.pc = "idle"
        BY DEF Idle
      <4>3. \A t \in Texts : [cap EXCEPT !.pc = "find", !.text = t].pc = "find"
        BY <1>1
      <4> QED
        BY <4>1, <4>2, <4>3
    <3>4. CASE TouchRow
      BY <3>4 DEF TouchRow, Idle
    <3>5. CASE Missing
      BY <1>1, <3>5 DEF Missing
    <3> QED
      BY <1>4, <3>2, <3>3, <3>4, <3>5
  <2> QED
    BY <1>2, <2>1, <2>2
<1>5. CASE Promote
  <2>1. \A e \in Listed' : \E y \in Listed : y.id = e.id
    BY <1>5, PromoteFacts
  <2>2. \E y \in Listed : y.id = cap'.id
    BY <1>5, PromoteFacts
  <2>3. db' = db /\ loader' = loader
    BY <1>5 DEF Promote
  <2> QED
    BY <2>1, <2>2, <2>3 DEF StageInv, Carried
<1>6. CASE StoreRow
  <2>1. UNCHANGED <<db, index, loader>>
    BY <1>6 DEF StoreRow
  <2>2. CASE db = "ready"
    BY <2>1, <2>2 DEF StageInv, Carried, Listed
  <2>3. CASE db # "ready"
    <3> DEFINE memoryId == -(cap.ts * 1000 + TextNo[cap.text])
    <3>1. memoryId \in Int /\ memoryId <= 0
      BY <1>6, MemoryNumber DEF StoreRow
    <3>2. cap' = [cap EXCEPT !.pc = "list", !.id = memoryId]
      BY <1>6, <2>3 DEF StoreRow
    <3> HIDE DEF memoryId
    <3>3. cap'.id <= 0
      BY <3>1, <3>2 DEF ThreadsTyped
    <3> QED
      BY <2>1, <3>3 DEF StageInv, Carried, Listed
  <2> QED
    BY <2>2, <2>3
<1>7. CASE ListEntry
  <2>1. /\ Listed' \subseteq
             Listed \union {[id |-> cap.id, text |-> cap.text, ts |-> cap.ts, pending |-> cap.id <= 0]}
    BY <1>7, ListFacts
  <2>2. db' = db /\ loader' = loader /\ cap.pc = "list" /\ cap'.pc = "prune"
    BY <1>7 DEF ListEntry, Idle
  <2> QED
    BY <2>1, <2>2 DEF StageInv, Carried
<1>8. CASE ListenerPrunes
  <2>1. Listed' \subseteq Listed
    BY <1>8, PruneFacts DEF ListenerPrunes
  <2>2. db' = db /\ loader' = loader /\ cap'.pc = "idle"
    BY <1>8 DEF ListenerPrunes, Idle
  <2> QED
    BY <2>1, <2>2 DEF StageInv, Carried
<1>9. CASE LoadFails
  BY <1>9 DEF LoadFails, StageInv, Listed, Carried
<1>10. CASE OpenDb
  <2>1. loader'.pc = "opened" /\ loader.pc = "opening"
    BY <1>10 DEF OpenDb
  <2>2. UNCHANGED <<db, index, cap>>
    BY <1>10 DEF OpenDb
  <2> QED
    BY <2>1, <2>2 DEF StageInv, Listed, Carried
<1>11. CASE Attach
  BY <1>11 DEF Attach, StageInv
<1>12. CASE LoaderPrunes
  <2>1. db' = db /\ loader' = [loader EXCEPT !.pc = "done"] /\ loader.pc = "prune"
    BY <1>12 DEF LoaderPrunes
  <2> QED
    BY <2>1 DEF StageInv, ThreadsTyped
<1>13. CASE ShowHistory \/ SetEnabled
  BY <1>13 DEF ShowHistory, SetEnabled, StageInv, Listed, Carried
<1>14. CASE Delete
  <2>1. PICK s \in given :
          /\ index' = AtPlaces(index, {i \in DOMAIN index : index[i].id # s.id})
          /\ UNCHANGED <<db, loader, cap>>
    BY <1>14 DEF Delete, Retained
  <2>2. Listed' \subseteq Listed
    BY <2>1, DeleteFacts
  <2> QED
    BY <2>1, <2>2 DEF StageInv, Carried
<1>15. CASE Clear
  <2>1. db' = db /\ loader' = loader /\ cap' = Racing /\ Listed' = {}
    BY <1>15 DEF Clear, Listed, ToSet
  <2>2. cap'.pc = cap.pc /\ cap'.id = cap.id
    BY <2>1, RacingFacts
  <2> QED
    BY <2>1, <2>2 DEF StageInv, Carried
<1>16. CASE Restart
  <2>1. db' = "loading" /\ loader' = [pc |-> "opening", rows |-> <<>>] /\ cap'.pc = "idle" /\ Listed' = {}
    BY <1>16 DEF Restart, Listed, ToSet, Idle
  <2> QED
    BY <2>1 DEF StageInv, Carried
<1>17. CASE UNCHANGED clipVars
  BY <1>17 DEF clipVars, StageInv, Listed, Carried
<1> QED
  BY <1>3, <1>4, <1>5, <1>6, <1>7, <1>8, <1>9, <1>10, <1>11, <1>12, <1>13, <1>14, <1>15, <1>16, <1>17
  DEF ClipNext, Listener, Loader, Main

\* An id and a text that some part of the history has together.
Named(x) == \E y \in Bearers : y.id = x.id /\ y.text = x.text

\* Memory-only ids that are equal stand for namesakes.
LEMMA MemoryTexts ==
  ASSUME NEW x, NEW y, x.text \in Texts, y.text \in Texts,
         MemoryNo(x), MemoryNo(y), x.id = y.id
  PROVE  TextNo[x.text] = TextNo[y.text]
<1>1. PICK a \in 0..MaxClock : x.id = -(a * 1000 + TextNo[x.text])
  BY DEF MemoryNo
<1>2. PICK b \in 0..MaxClock : y.id = -(b * 1000 + TextNo[y.text])
  BY DEF MemoryNo
<1> DEFINE m == TextNo[x.text]
           n == TextNo[y.text]
<1>3. m \in Nat /\ m <= 999 /\ n \in Nat /\ n <= 999
  BY TextNumbers
<1>4. a \in Int /\ b \in Int
  BY ClipAssumption
<1>5. x.id = -(a * 1000 + m) /\ x.id = -(b * 1000 + n)
  <2>1. x.id = -(a * 1000 + TextNo[x.text])
    BY <1>1
  <2>2. x.id = -(b * 1000 + TextNo[y.text])
    BY <1>2
  <2> QED
    BY <2>1, <2>2
<1> HIDE DEF m, n
<1>6. m \in Int /\ n \in Int /\ 0 <= m /\ m <= 999 /\ 0 <= n /\ n <= 999
  BY <1>3
<1>7. m = n
  <2>1. a * 1000 + m = b * 1000 + n
    BY <1>4, <1>5, <1>6
  <2>2. ~ (a < b) /\ ~ (b < a)
    BY <1>4, <1>6, <2>1
  <2>3. a = b
    BY <1>4, <2>2
  <2> QED
    BY <1>4, <1>6, <2>1, <2>3
<1> QED
  BY <1>7 DEF m, n

LEMMA BearerTypes ==
  ASSUME HalvesTyped, ThreadsTyped
  PROVE  \A x \in Bearers : x.id \in Int /\ x.text \in Texts
<1>1. \A x \in disk : x.id \in Int /\ x.text \in Texts
  BY ClipAssumption DEF HalvesTyped, Row
<1>2. \A x \in Listed : x.id \in Int /\ x.text \in Texts
  <2>1. Listed \subseteq Entry
    BY ItemsFacts DEF HalvesTyped, Listed
  <2> QED
    BY <2>1 DEF Entry
<1>3. \A x \in ToSet(loader.rows) : x.id \in Int /\ x.text \in Texts
  <2>1. loader.rows \in Seq(Row)
    BY DEF ThreadsTyped
  <2>2. ToSet(loader.rows) \subseteq Row
    BY <2>1, ItemsFacts
  <2> QED
    BY <2>2, ClipAssumption DEF Row
<1>4. \A x \in Carried : x.id \in Int /\ x.text \in Texts
  BY DEF Carried, ThreadsTyped
<1>5. \A x \in given : x.id \in Int /\ x.text \in Texts
  BY DEF ThreadsTyped
<1> QED
  BY <1>1, <1>2, <1>3, <1>4, <1>5 DEF Bearers

\* A step that gives ids only to what it newly stores keeps one text to an id.
LEMMA BearersStep ==
  ASSUME HalvesTyped, ThreadsTyped, HalvesTyped', lastRow' >= lastRow, HandedOut,
         \A x \in Bearers' : \/ Named(x)
                             \/ x.text \in Texts /\ x.id \in Int /\ x.id <= 0 /\ MemoryNo(x)
                             \/ x.id > lastRow /\ \E r \in disk' : r.id = x.id /\ r.text = x.text
  PROVE  HandedOut' /\ (OneText => OneText')
<1>1. \A x \in Bearers : x.id \in Int /\ x.text \in Texts
  BY BearerTypes
<1>2. /\ lastRow \in Nat /\ lastRow' \in Nat
      /\ \A r \in disk' : r.id \in Int /\ r.id > 0 /\ r.id <= lastRow'
      /\ \A r, q \in disk' : r.id = q.id => r = q
  BY ClipAssumption DEF HalvesTyped, Row
<1>3. ASSUME NEW x, Named(x)
      PROVE  x.id \in Int /\ x.text \in Texts /\ (IF x.id > 0 THEN x.id <= lastRow ELSE MemoryNo(x))
  <2>1. PICK y \in Bearers : y.id = x.id /\ y.text = x.text
    BY <1>3 DEF Named
  <2>2. IF y.id > 0 THEN y.id <= lastRow ELSE MemoryNo(y)
    BY DEF HandedOut
  <2>3. MemoryNo(y) => MemoryNo(x)
    BY <2>1 DEF MemoryNo
  <2> QED
    BY <1>1, <2>1, <2>2, <2>3
<1>4. ASSUME NEW x \in Bearers' PROVE IF x.id > 0 THEN x.id <= lastRow' ELSE MemoryNo(x)
  <2>1. CASE Named(x)
    BY <1>2, <1>3, <2>1
  <2>2. CASE x.text \in Texts /\ x.id \in Int /\ x.id <= 0 /\ MemoryNo(x)
    BY <2>2
  <2>3. CASE x.id > lastRow /\ \E r \in disk' : r.id = x.id /\ r.text = x.text
    BY <1>2, <2>3
  <2> QED
    BY <2>1, <2>2, <2>3
<1>5. ASSUME OneText, NEW x \in Bearers', NEW y \in Bearers', x.id = y.id
      PROVE  x.text \in Namesakes(y.id, y.text)
  <2> DEFINE Memory(z) == z.text \in Texts /\ z.id \in Int /\ z.id <= 0 /\ MemoryNo(z)
             Stored(z) == z.id > lastRow /\ \E r \in disk' : r.id = z.id /\ r.text = z.text
  <2>1. Named(x) \/ Memory(x) \/ Stored(x)
    OBVIOUS
  <2>2. Named(y) \/ Memory(y) \/ Stored(y)
    OBVIOUS
  <2>3. CASE Named(x) /\ Named(y)
    BY <1>5, <2>3 DEF Named, OneText
  <2>4. CASE Stored(x) /\ Stored(y)
    <3>1. x.text = y.text /\ y.id > 0
      BY <1>2, <1>5, <2>4
    <3> QED
      BY <3>1 DEF Namesakes
  <2>5. CASE Stored(x) /\ ~ Stored(y)
    <3>1. x.id \in Int /\ x.id > lastRow
      BY <1>2, <2>5
    <3>2. CASE Named(y)
      BY <1>2, <1>3, <1>5, <3>1, <3>2
    <3>3. CASE Memory(y)
      BY <1>2, <1>5, <3>1, <3>3
    <3> QED
      BY <2>2, <2>5, <3>2, <3>3
  <2>6. CASE ~ Stored(x) /\ Stored(y)
    <3>1. y.id \in Int /\ y.id > lastRow
      BY <1>2, <2>6
    <3>2. CASE Named(x)
      BY <1>2, <1>3, <1>5, <3>1, <3>2
    <3>3. CASE Memory(x)
      BY <1>2, <1>5, <3>1, <3>3
    <3> QED
      BY <2>1, <2>6, <3>2, <3>3
  <2>7. CASE ~ (Named(x) /\ Named(y)) /\ ~ Stored(x) /\ ~ Stored(y)
    <3>1. Memory(x) \/ Memory(y)
      BY <2>1, <2>2, <2>7
    <3>2. x.id \in Int /\ x.id <= 0 /\ y.id = x.id
      BY <1>5, <3>1
    <3>3. MemoryNo(x) /\ x.text \in Texts
      BY <1>3, <2>1, <2>7, <3>2
    <3>4. MemoryNo(y) /\ y.text \in Texts
      BY <1>3, <2>2, <2>7, <3>2
    <3>5. TextNo[x.text] = TextNo[y.text]
      BY <1>5, <3>3, <3>4, MemoryTexts
    <3> QED
      BY <3>2, <3>3, <3>5 DEF Namesakes
  <2> HIDE DEF Memory, Stored
  <2> QED
    BY <2>3, <2>4, <2>5, <2>6, <2>7
<1>6. HandedOut'
  BY <1>4 DEF HandedOut
<1>7. OneText => OneText'
  BY <1>5 DEF OneText
<1> QED
  BY <1>6, <1>7

\* Who may name a text after a step: what did before, a memory-only id, or a
\* row stored by the step.
Fine(x) ==
  \/ Named(x)
  \/ x.text \in Texts /\ x.id \in Int /\ x.id <= 0 /\ MemoryNo(x)
  \/ x.id > lastRow /\ \E r \in disk' : r.id = x.id /\ r.text = x.text

LEMMA FineStep ==
  ASSUME HalvesTyped, ThreadsTyped, StageInv, [ClipNext]_clipVars
  PROVE  \A x \in Bearers' : Fine(x)
<1> USE DEF stored, memory, threads, outside, budget, ghosts
<1>1. /\ \A x \in disk : Named(x)
      /\ \A x \in Listed : Named(x)
      /\ \A x \in ToSet(loader.rows) : Named(x)
      /\ \A x \in Carried : Named(x)
      /\ \A x \in given : Named(x)
  BY DEF Named, Bearers
<1>2. \A x : Named(x) => Fine(x)
  BY DEF Fine
<1>3. ASSUME disk' \subseteq disk, Listed' \subseteq Listed, loader'.rows = loader.rows \/ loader'.rows = <<>>,
             \A x \in Carried' : Named(x), given' \subseteq given
      PROVE  \A x \in Bearers' : Fine(x)
  <2>1. ToSet(loader'.rows) \subseteq ToSet(loader.rows)
    <3>1. ToSet(<<>>) = {}
      BY DEF ToSet
    <3> QED
      BY <1>3, <3>1
  <2> QED
    BY <1>1, <1>2, <1>3, <2>1 DEF Bearers
<1>4. cap = [pc |-> cap.pc, text |-> cap.text, ts |-> cap.ts, id |-> cap.id, raced |-> cap.raced]
      /\ Idle.pc = "idle"
  BY DEF ThreadsTyped, Idle
<1>5. CASE Tick \/ SetEnabled
  <2>1. UNCHANGED <<disk, index, loader, cap, given>>
    BY <1>5 DEF Tick, SetEnabled
  <2> QED
    BY <1>1, <1>3, <2>1 DEF Listed, Carried
<1>6. CASE CheckEnabled \/ ReadClipboard \/ Missing
  <2>1. UNCHANGED <<disk, index, loader, given>>
    BY <1>6 DEF CheckEnabled, ReadClipboard, Missing
  <2>2. cap'.pc \notin {"touch", "list"}
    <3>1. CASE CheckEnabled
      BY <3>1 DEF CheckEnabled, Idle
    <3>2. CASE ReadClipboard
      <4>1. cap' = Idle \/ \E t \in Texts : cap' = [cap EXCEPT !.pc = "find", !.text = t]
        BY <3>2 DEF ReadClipboard
      <4>2. \A t \in Texts : [cap EXCEPT !.pc = "find", !.text = t].pc = "find"
        BY <1>4
      <4> QED
        BY <1>4, <4>1, <4>2
    <3>3. CASE Missing
      BY <1>4, <3>3 DEF Missing
    <3> QED
      BY <1>6, <3>1, <3>2, <3>3
  <2> QED
    BY <1>3, <2>1, <2>2 DEF Listed, Carried
<1>7. CASE Promote
  <2>1. \A x \in Listed' : Named(x)
    <3>1. \A e \in Listed' : \E y \in Listed : y.id = e.id /\ y.text = e.text
      BY <1>7, PromoteFacts
    <3> QED
      BY <3>1 DEF Named, Bearers
  <2>2. \A x \in Carried' : Named(x)
    <3>1. \E y \in Listed : y.id = cap'.id /\ y.text = cap.text
      BY <1>7, PromoteFacts
    <3>2. cap' = [cap EXCEPT !.pc = "touch", !.id = cap'.id, !.ts = now]
      BY <1>7, PromoteFacts
    <3>3. cap'.text = cap.text
      BY <1>4, <3>2
    <3> QED
      BY <3>1, <3>3 DEF Carried, Named, Bearers
  <2>3. UNCHANGED <<disk, loader, given>>
    BY <1>7 DEF Promote
  <2> QED
    BY <1>1, <1>2, <2>1, <2>2, <2>3 DEF Bearers
<1>8. CASE TouchRow
  <2>1. \A x \in disk' : Named(x)
    <3>1. \A r \in disk' : \E q \in disk : q.id = r.id /\ q.text = r.text
      BY <1>8, TouchFacts
    <3> QED
      BY <3>1 DEF Named, Bearers
  <2>2. UNCHANGED <<index, loader, given>> /\ cap' = Idle
    BY <1>8 DEF TouchRow
  <2>3. Carried' = {} /\ Listed' = Listed
    BY <1>4, <2>2 DEF Carried, Listed
  <2> QED
    BY <1>1, <1>2, <2>1, <2>2, <2>3 DEF Bearers
<1>9. CASE StoreRow
  <2>1. UNCHANGED <<index, loader, given>> /\ cap.pc = "store" /\ cap.text \in Texts
    BY <1>9 DEF StoreRow, ThreadsTyped
  <2>2. lastRow \in Nat
    BY DEF HalvesTyped
  <2>3. CASE db = "ready" /\ cap' # Idle
    <3> DEFINE r0 == [id |-> NextRow, text |-> cap.text, ts |-> cap.ts]
    <3>1. disk' = disk \union {r0} /\ cap' = [cap EXCEPT !.pc = "list", !.id = NextRow]
      BY <1>9, <2>3 DEF StoreRow
    <3>2. r0.id = lastRow + 1 /\ r0.text = cap.text
      BY DEF NextRow
    <3>3. cap'.id = lastRow + 1 /\ cap'.text = cap.text
      BY <1>4, <3>1 DEF NextRow
    <3> HIDE DEF r0
    <3>4. Fine(r0) /\ Fine(cap')
      BY <2>2, <3>1, <3>2, <3>3 DEF Fine
    <3> QED
      BY <1>1, <1>2, <2>1, <3>1, <3>4 DEF Bearers, Carried, Listed
  <2>4. CASE db = "ready" /\ cap' = Idle
    <3>1. disk' = disk
      BY <1>9, <2>4, <1>4 DEF StoreRow
    <3>2. Carried' = {}
      BY <1>4, <2>4 DEF Carried
    <3> QED
      BY <1>3, <2>1, <3>1, <3>2 DEF Listed
  <2>5. CASE db # "ready"
    <3> DEFINE memoryId == -(cap.ts * 1000 + TextNo[cap.text])
    <3>1. memoryId \in Int /\ memoryId <= 0
      BY <2>1, MemoryNumber
    <3>2. cap' = [cap EXCEPT !.pc = "list", !.id = memoryId] /\ disk' = disk
      BY <1>9, <2>5 DEF StoreRow
    <3>3. cap'.id = memoryId /\ cap'.text = cap.text
      BY <1>4, <3>2
    <3>4. cap.ts \in 0..MaxClock
      BY DEF ThreadsTyped
    <3>5. MemoryNo(cap')
      BY <3>3, <3>4 DEF MemoryNo
    <3> HIDE DEF memoryId
    <3>6. Fine(cap')
      BY <2>1, <3>1, <3>3, <3>5 DEF Fine
    <3> QED
      BY <1>1, <1>2, <2>1, <3>2, <3>6 DEF Bearers, Carried, Listed
  <2> QED
    BY <2>3, <2>4, <2>5
<1>10. CASE ListEntry
  <2> DEFINE x == [id |-> cap.id, text |-> cap.text, ts |-> cap.ts, pending |-> cap.id <= 0]
  <2>1. Listed' \subseteq Listed \union {x}
    BY <1>10, ListFacts
  <2>2. UNCHANGED <<disk, loader, given>> /\ Carried' = {} /\ cap \in Carried
    BY <1>10 DEF ListEntry, Carried, Idle
  <2>3. Named(x)
    <3>1. x.id = cap.id /\ x.text = cap.text
      OBVIOUS
    <3> HIDE DEF x
    <3> QED
      BY <2>2, <3>1 DEF Named, Bearers
  <2> HIDE DEF x
  <2> QED
    BY <1>1, <1>2, <2>1, <2>2, <2>3 DEF Bearers
<1>11. CASE ListenerPrunes
  <2>1. Listed' \subseteq Listed /\ disk' \subseteq disk
    BY <1>11, PruneFacts DEF ListenerPrunes
  <2>2. UNCHANGED <<loader, given>> /\ Carried' = {}
    BY <1>4, <1>11 DEF ListenerPrunes, Carried
  <2> QED
    BY <1>3, <2>1, <2>2
<1>12. CASE LoadFails
  <2>1. UNCHANGED <<disk, index, cap, given>> /\ loader'.rows = <<>>
    BY <1>12 DEF LoadFails
  <2> QED
    BY <1>1, <1>3, <2>1 DEF Listed, Carried
<1>13. CASE OpenDb
  <2>1. ToSet(loader'.rows) \subseteq disk
    BY <1>13, OpenFacts
  <2>2. UNCHANGED <<disk, index, cap, given>>
    BY <1>13 DEF OpenDb
  <2> QED
    BY <1>1, <1>2, <2>1, <2>2 DEF Bearers, Listed, Carried
<1>14. \A x \in {Racing} : cap.pc \in {"touch", "list"} => Named(x)
  <2>1. Racing.id = cap.id /\ Racing.text = cap.text
    BY RacingFacts
  <2> QED
    BY <2>1 DEF Named, Bearers, Carried
<1>15. cap' = Racing => \A x \in Carried' : Named(x)
  BY <1>14, RacingFacts DEF Carried
<1>16. CASE Attach
  <2>1. \A r \in disk' : r.id > lastRow \/ \E q \in disk : q.id = r.id /\ q.text = r.text
    BY <1>16, AttachFacts
  <2>2. \A x \in disk' : Fine(x)
    BY <2>1 DEF Fine, Named, Bearers
  <2>3. \A e \in Listed' :
          \/ e \in Listed
          \/ \E r \in disk' : r.id = e.id /\ r.text = e.text
          \/ \E r \in ToSet(loader.rows) : r.id = e.id /\ r.text = e.text
    BY <1>16, AttachFacts
  <2>4. \A x \in Listed' : Fine(x)
    <3> SUFFICES ASSUME NEW e \in Listed' PROVE Fine(e)
      OBVIOUS
    <3>1. CASE e \in Listed
      BY <1>1, <1>2, <3>1
    <3>2. CASE \E r \in disk' : r.id = e.id /\ r.text = e.text
      <4>1. PICK r \in disk' : r.id = e.id /\ r.text = e.text
        BY <3>2
      <4>2. CASE r.id > lastRow
        BY <4>1, <4>2 DEF Fine
      <4>3. CASE \E q \in disk : q.id = r.id /\ q.text = r.text
        BY <4>1, <4>3 DEF Fine, Named, Bearers
      <4> QED
        BY <2>1, <4>2, <4>3
    <3>3. CASE \E r \in ToSet(loader.rows) : r.id = e.id /\ r.text = e.text
      BY <3>3 DEF Fine, Named, Bearers
    <3> QED
      BY <2>3, <3>1, <3>2, <3>3
  <2>5. loader'.rows = <<>> /\ cap' = Racing /\ given' = given
    BY <1>16 DEF Attach
  <2>6. ToSet(loader'.rows) = {}
    BY <2>5 DEF ToSet
  <2> QED
    BY <1>1, <1>2, <1>15, <2>2, <2>4, <2>5, <2>6 DEF Bearers
<1>17. CASE LoaderPrunes
  <2>1. Listed' \subseteq Listed /\ disk' \subseteq disk
    BY <1>17, PruneFacts DEF LoaderPrunes
  <2>2. given' = given /\ cap' = Racing /\ loader'.rows = loader.rows
    BY <1>17 DEF LoaderPrunes, ThreadsTyped
  <2> QED
    BY <1>3, <1>15, <2>1, <2>2
<1>18. CASE ShowHistory
  <2>1. \A x \in given' : Named(x)
    BY <1>18 DEF ShowHistory, Named, Bearers
  <2>2. UNCHANGED <<disk, index, loader, cap>>
    BY <1>18 DEF ShowHistory
  <2> QED
    BY <1>1, <1>2, <2>1, <2>2 DEF Bearers, Listed, Carried
<1>19. CASE Delete
  <2>1. PICK s \in given :
          /\ index' = AtPlaces(index, {i \in DOMAIN index : index[i].id # s.id})
          /\ DeleteAllBut({r \in disk : r.id # s.id})
          /\ UNCHANGED <<loader, cap, given>>
    BY <1>19 DEF Delete, Retained
  <2>2. Listed' \subseteq Listed
    BY <2>1, DeleteFacts
  <2>3. disk' \subseteq disk
    BY <2>1 DEF DeleteAllBut
  <2> QED
    BY <1>1, <1>3, <2>1, <2>2, <2>3 DEF Carried
<1>20. CASE Clear
  <2>1. given' = given /\ loader' = loader /\ cap' = Racing /\ Listed' = {} /\ disk' \subseteq disk
    BY <1>20 DEF Clear, DeleteAllBut, Listed, ToSet
  <2> QED
    BY <1>3, <1>15, <2>1
<1>21. CASE Restart
  <2>1. given' = {} /\ loader'.rows = <<>> /\ cap' = Idle /\ Listed' = {} /\ disk' = disk
    BY <1>21 DEF Restart, Listed, ToSet
  <2> QED
    BY <1>3, <1>4, <2>1 DEF Carried
<1>22. CASE UNCHANGED clipVars
  <2>1. UNCHANGED <<disk, index, loader, cap, given>>
    BY <1>22 DEF clipVars
  <2> QED
    BY <1>1, <1>3, <2>1 DEF Listed, Carried
<1> QED
  BY <1>5, <1>6, <1>7, <1>8, <1>9, <1>10, <1>11, <1>12, <1>13, <1>16, <1>17, <1>18, <1>19, <1>20,
     <1>21, <1>22
  DEF ClipNext, Listener, Loader, Main

\* What each step may put in the list: an entry that was there under its id,
\* the capture's, or one that has a row.
LEMMA ListedStep ==
  ASSUME HalvesTyped, ThreadsTyped, StageInv, [ClipNext]_clipVars
  PROVE  \A e \in Listed' :
           \/ \E y \in Listed : y.id = e.id /\ y.pending = e.pending
           \/ ListEntry /\ e.id = cap.id /\ (e.pending <=> cap.id <= 0)
           \/ Attach /\ ~ e.pending /\ \E r \in disk' \union ToSet(loader.rows) : r.id = e.id
<1> USE DEF stored, memory, threads, outside, budget, ghosts
<1>1. ASSUME Listed' \subseteq Listed
      PROVE  \A e \in Listed' : \E y \in Listed : y.id = e.id /\ y.pending = e.pending
  BY <1>1
<1>2. CASE UNCHANGED index
  BY <1>1, <1>2 DEF Listed
<1>3. CASE Promote
  BY <1>3, PromoteFacts
<1>4. CASE ListEntry
  <2> DEFINE x == [id |-> cap.id, text |-> cap.text, ts |-> cap.ts, pending |-> cap.id <= 0]
  <2>1. Listed' \subseteq Listed \union {x}
    BY <1>4, ListFacts
  <2>2. x.id = cap.id /\ (x.pending <=> cap.id <= 0)
    OBVIOUS
  <2> HIDE DEF x
  <2> QED
    BY <1>4, <2>1, <2>2
<1>5. CASE Attach
  BY <1>5, AttachFacts
<1>6. CASE Prune
  BY <1>1, <1>6, PruneFacts
<1>7. CASE Delete
  <2>1. PICK s \in given : index' = AtPlaces(index, {i \in DOMAIN index : index[i].id # s.id})
    BY <1>7 DEF Delete, Retained
  <2> QED
    BY <1>1, <2>1, DeleteFacts
<1>8. CASE index' = <<>>
  BY <1>8 DEF Listed, ToSet
<1> QED
  BY <1>2, <1>3, <1>4, <1>5, <1>6, <1>7, <1>8
  DEF ClipNext, Listener, Loader, Main, Tick, CheckEnabled, ReadClipboard, TouchRow, Missing, StoreRow,
      ListenerPrunes, LoadFails, OpenDb, LoaderPrunes, ShowHistory, Clear, SetEnabled, Restart, clipVars

LEMMA IdStep ==
  ASSUME HalvesTyped, ThreadsTyped, StageInv, PendingById, HandedOut, [ClipNext]_clipVars
  PROVE  PendingById' /\ HandedOut' /\ (OneText => OneText')
<1>1. HalvesTyped' /\ lastRow \in Nat /\ lastRow' \in Nat
  BY TypedStep DEF HalvesTyped
<1>2. lastRow' >= lastRow
  <2>1. CASE Attach
    <3>1. lastRow' \in lastRow..MaxRows
      BY <2>1, AttachFacts
    <3> QED
      BY <1>1, <3>1
  <2>2. CASE StoreRow
    <3>1. lastRow' = lastRow \/ lastRow' = lastRow + 1
      BY <2>2 DEF StoreRow, NextRow
    <3> QED
      BY <1>1, <3>1
  <2>3. CASE lastRow' = lastRow
    BY <1>1, <2>3
  <2> QED
    BY <2>1, <2>2, <2>3
    DEF ClipNext, Listener, Loader, Main, Tick, CheckEnabled, ReadClipboard, Promote, TouchRow, Missing,
        ListEntry, ListenerPrunes, LoadFails, OpenDb, LoaderPrunes, ShowHistory, Delete, Clear, SetEnabled,
        Restart, clipVars, stored, memory, threads, outside, budget, ghosts
<1>3. \A x \in Bearers' : \/ Named(x)
                          \/ x.text \in Texts /\ x.id \in Int /\ x.id <= 0 /\ MemoryNo(x)
                          \/ x.id > lastRow /\ \E r \in disk' : r.id = x.id /\ r.text = x.text
  BY FineStep DEF Fine
<1>4. HandedOut' /\ (OneText => OneText')
  BY <1>1, <1>2, <1>3, BearersStep
<1>5. PendingById'
  <2> SUFFICES ASSUME NEW e \in Listed' PROVE e.pending <=> e.id <= 0
    BY DEF PendingById
  <2>1. CASE \E y \in Listed : y.id = e.id /\ y.pending = e.pending
    BY <2>1 DEF PendingById
  <2>2. CASE e.id = cap.id /\ (e.pending <=> cap.id <= 0)
    BY <2>2
  <2>3. CASE ~ e.pending /\ \E r \in disk' \union ToSet(loader.rows) : r.id = e.id
    <3>1. \A r \in disk' : r \in Row
      BY <1>1 DEF HalvesTyped
    <3>2. ToSet(loader.rows) \subseteq Row
      <4>1. loader.rows \in Seq(Row)
        BY DEF ThreadsTyped
      <4> QED
        BY <4>1, ItemsFacts
    <3>3. \A r \in Row : ~ (r.id <= 0)
      BY ClipAssumption DEF Row
    <3> QED
      BY <2>3, <3>1, <3>2, <3>3
  <2> QED
    BY <2>1, <2>2, <2>3, ListedStep
<1> QED
  BY <1>4, <1>5

LEMMA SizeStep ==
  ASSUME HalvesTyped, ThreadsTyped, StageInv, SizeInv, [ClipNext]_clipVars
  PROVE  SizeInv'
<1> USE DEF stored, memory, threads, outside, budget, ghosts
<1>1. /\ IsFiniteSet(disk) /\ Cardinality(disk) \in Nat /\ MaxEntries \in Nat
      /\ cap = [pc |-> cap.pc, text |-> cap.text, ts |-> cap.ts, id |-> cap.id, raced |-> cap.raced]
      /\ Idle.pc = "idle"
  BY FS_CardinalityType, ClipAssumption DEF HalvesTyped, ThreadsTyped, Idle
<1>2. CASE UNCHANGED <<db, disk, loader, cap, unpruned>>
  BY <1>2 DEF SizeInv
<1>3. CASE CheckEnabled \/ ReadClipboard \/ Promote \/ Missing
  <2>1. UNCHANGED <<db, disk, loader, unpruned>> /\ cap.pc \in {"idle", "read", "find"}
    BY <1>3 DEF CheckEnabled, ReadClipboard, Promote, Missing
  <2> QED
    BY <2>1 DEF SizeInv
<1>4. CASE TouchRow
  <2>1. Cardinality(disk') <= Cardinality(disk) /\ IsFiniteSet(disk')
    BY <1>4, TouchFacts
  <2>2. Cardinality(disk') \in Nat
    BY <2>1, FS_CardinalityType
  <2>3. UNCHANGED <<db, loader, unpruned>> /\ cap.pc = "touch"
    BY <1>4 DEF TouchRow
  <2> QED
    BY <1>1, <2>1, <2>2, <2>3 DEF SizeInv
<1>5. CASE StoreRow
  <2>1. UNCHANGED <<db, loader, unpruned>> /\ cap.pc = "store"
    BY <1>5 DEF StoreRow
  <2>2. disk' = disk \/ \E i : cap' = [cap EXCEPT !.pc = "list", !.id = i]
    BY <1>5 DEF StoreRow
  <2>3. \A i : [cap EXCEPT !.pc = "list", !.id = i].pc = "list"
    BY <1>1
  <2> QED
    BY <2>1, <2>2, <2>3 DEF SizeInv
<1>6. CASE ListEntry
  BY <1>6 DEF ListEntry, SizeInv
<1>7. CASE ListenerPrunes \/ LoaderPrunes
  <2>1. (db = "ready" /\ ~ unpruned' => Cardinality(disk') <= MaxEntries) /\ db' = db
    BY <1>7, PruneFacts DEF ListenerPrunes, LoaderPrunes
  <2> QED
    BY <2>1 DEF SizeInv
<1>8. CASE LoadFails \/ Restart
  <2>1. db' # "ready"
    BY <1>8 DEF LoadFails, Restart
  <2> QED
    BY <2>1 DEF SizeInv
<1>9. CASE OpenDb \/ Attach
  <2>1. loader'.pc # "done"
    BY <1>9 DEF OpenDb, Attach
  <2> QED
    BY <2>1 DEF SizeInv
<1>10. CASE Delete \/ Clear
  <2>1. disk' \subseteq disk /\ UNCHANGED <<db, loader, unpruned>>
    BY <1>10 DEF Delete, Clear, DeleteAllBut
  <2>2. cap'.pc = cap.pc
    BY <1>10, RacingFacts DEF Delete, Clear
  <2>3. Cardinality(disk') <= Cardinality(disk) /\ IsFiniteSet(disk')
    BY <1>1, <2>1, FS_Subset
  <2>4. Cardinality(disk') \in Nat
    BY <2>3, FS_CardinalityType
  <2> QED
    BY <1>1, <2>1, <2>2, <2>3, <2>4 DEF SizeInv
<1> QED
  BY <1>2, <1>3, <1>4, <1>5, <1>6, <1>7, <1>8, <1>9, <1>10
  DEF ClipNext, Listener, Loader, Main, Tick, ShowHistory, SetEnabled, clipVars

LEMMA PendingStep ==
  ASSUME HalvesTyped, ThreadsTyped, StageInv, PendingById, PendingInv, [ClipNext]_clipVars
  PROVE  PendingInv'
<1> USE DEF stored, memory, threads, outside, budget, ghosts
<1> SUFFICES ASSUME db' = "ready", faults' = 0
             PROVE  /\ \A e \in Listed' : e.pending => e.id \in loose'
                    /\ cap'.pc = "list" /\ cap'.id <= 0 => cap'.raced
  BY DEF PendingInv
<1>1. /\ cap = [pc |-> cap.pc, text |-> cap.text, ts |-> cap.ts, id |-> cap.id, raced |-> cap.raced]
      /\ Idle.pc = "idle" /\ faults \in Nat
  BY DEF ThreadsTyped, Idle
<1>2. CASE Attach
  <2>1. \A e \in Listed' : ~ e.pending
    BY <1>2, AttachFacts
  <2>2. cap'.pc = "list" => cap'.raced
    BY <1>2, RacingFacts DEF Attach
  <2> QED
    BY <2>1, <2>2
<1>3. CASE LoadFails
  <2>1. db = "loading" /\ db' # "ready"
    BY <1>3 DEF LoadFails, StageInv
  <2> QED
    BY <2>1
<1>4. CASE Restart
  BY <1>4 DEF Restart
<1>9. faults' >= faults
  <2>1. CASE ListenerPrunes \/ LoaderPrunes
    BY <2>1, PruneFacts DEF ListenerPrunes, LoaderPrunes, Counted
  <2>2. CASE UNCHANGED faults \/ Fault
    BY <2>2, FaultFacts DEF Counted
  <2> QED
    BY <2>1, <2>2 DEF ClipNext, Listener, Loader, Main, Tick, CheckEnabled, ReadClipboard, Promote, TouchRow,
        Missing, StoreRow, ListEntry, LoadFails, OpenDb, Attach, ShowHistory, Delete, Clear, DeleteAllBut,
        SetEnabled, Restart, clipVars
<1>10. faults = 0
  <2>1. faults' \in Nat
    BY TypedStep DEF ThreadsTyped
  <2> QED
    BY <1>1, <1>9, <2>1
<1>5. ASSUME ~ Attach, ~ LoadFails, ~ Restart
      PROVE  db = "ready" /\ faults = 0
  BY <1>5, <1>10 DEF ClipNext, Listener, Loader, Main, Tick, CheckEnabled, ReadClipboard, Promote, TouchRow, Missing,
        StoreRow, ListEntry, ListenerPrunes, OpenDb, LoaderPrunes, ShowHistory, Delete, Clear, SetEnabled, clipVars
<1>6. ASSUME db = "ready", faults = 0
      PROVE  /\ \A e \in Listed : e.pending => e.id \in loose
             /\ cap.pc = "list" /\ cap.id <= 0 => cap.raced
  BY <1>6 DEF PendingInv
<1>7. CASE ListEntry
  <2> DEFINE x == [id |-> cap.id, text |-> cap.text, ts |-> cap.ts, pending |-> cap.id <= 0]
  <2>1. db = "ready" /\ faults = 0
    BY <1>7 DEF ListEntry
  <2>2. Listed' \subseteq Listed \union {x}
    BY <1>7, ListFacts
  <2>3. x.id = cap.id /\ (x.pending <=> cap.id <= 0)
    OBVIOUS
  <2> HIDE DEF x
  <2>4. cap.pc = "list" /\ cap'.pc = "prune" /\ loose' = Overtaken \cap {e.id : e \in Listed'}
    BY <1>7 DEF ListEntry, Listed
  <2>5. \A e \in Listed \union {x} : e.pending => e.id \in Overtaken
    BY <1>6, <2>1, <2>3, <2>4 DEF Overtaken
  <2> QED
    BY <2>2, <2>4, <2>5
<1>8. CASE ~ Attach /\ ~ LoadFails /\ ~ Restart /\ ~ ListEntry
  <2>1. db = "ready" /\ faults = 0
    BY <1>5, <1>8
  <2>2. \A e \in Listed' : \E y \in Listed : y.id = e.id /\ y.pending = e.pending
    BY <1>8, ListedStep
  <2>3. loose \subseteq loose' \/ TouchRow
    BY <1>8 DEF ClipNext, Listener, Loader, Main, Tick, CheckEnabled, ReadClipboard, Promote, Missing,
          StoreRow, ListenerPrunes, OpenDb, LoaderPrunes, ShowHistory, Delete, Clear, SetEnabled, clipVars
  <2>5. \A e \in Listed' : e.pending => e.id \in loose'
    <3>1. CASE loose \subseteq loose'
      BY <1>6, <2>1, <2>2, <3>1
    <3>2. CASE TouchRow
      <4>1. \A r \in disk : ~ (r.id <= 0)
        BY ClipAssumption DEF HalvesTyped, Row
      <4>2. Overtaken \ ({cap.id} \cap IdsOf(disk)) \subseteq loose' \/ Overtaken \subseteq loose'
        BY <3>2 DEF TouchRow
      <4>3. loose \ IdsOf(disk) \subseteq loose'
        BY <4>2 DEF Overtaken
      <4>4. Listed' = Listed
        BY <3>2 DEF TouchRow, Listed
      <4>5. \A e \in Listed : e.pending => e.id <= 0
        BY DEF PendingById
      <4> QED
        BY <1>6, <2>1, <4>1, <4>3, <4>4, <4>5 DEF IdsOf
    <3> QED
      BY <2>3, <3>1, <3>2
  <2>4. cap'.pc = "list" /\ cap'.id <= 0 => cap'.raced
    <3>1. CASE StoreRow
      <4>1. cap' = Idle \/ cap' = [cap EXCEPT !.pc = "list", !.id = NextRow]
        BY <2>1, <3>1 DEF StoreRow
      <4>2. [cap EXCEPT !.pc = "list", !.id = NextRow].id = NextRow
        BY <1>1
      <4>3. ~ (NextRow <= 0)
        BY ClipAssumption DEF NextRow, HalvesTyped
      <4> QED
        BY <1>1, <4>1, <4>2, <4>3
    <3>2. CASE cap' = cap
      BY <1>6, <2>1, <3>2
    <3>3. CASE cap' = Racing
      BY <3>3, RacingFacts
    <3>4. CASE CheckEnabled \/ ReadClipboard \/ Promote \/ TouchRow \/ Missing \/ ListenerPrunes
      <4>1. \/ cap' = Idle \/ cap' = [Idle EXCEPT !.pc = "read"]
            \/ \E t : cap' = [cap EXCEPT !.pc = "find", !.text = t]
            \/ \E i : cap' = [cap EXCEPT !.pc = "touch", !.id = i, !.ts = now]
            \/ cap' = [cap EXCEPT !.pc = "store", !.ts = now]
        BY <3>4 DEF CheckEnabled, ReadClipboard, Promote, TouchRow, Missing, ListenerPrunes
      <4>2. [Idle EXCEPT !.pc = "read"].pc = "read"
        BY DEF Idle
      <4>3. /\ \A t : [cap EXCEPT !.pc = "find", !.text = t].pc = "find"
            /\ \A i : [cap EXCEPT !.pc = "touch", !.id = i, !.ts = now].pc = "touch"
            /\ [cap EXCEPT !.pc = "store", !.ts = now].pc = "store"
        BY <1>1
      <4> QED
        BY <1>1, <4>1, <4>2, <4>3
    <3> QED
      BY <1>8, <3>1, <3>2, <3>3, <3>4
      DEF ClipNext, Listener, Loader, Main, Tick, OpenDb, LoaderPrunes, ShowHistory, Delete, Clear, SetEnabled,
          clipVars
  <2> QED
    BY <2>4, <2>5
<1> QED
  BY <1>2, <1>3, <1>4, <1>7, <1>8

LEMMA OwedStep ==
  ASSUME HalvesTyped, ThreadsTyped, StageInv, HandedOut, OwedInv, [ClipNext]_clipVars
  PROVE  OwedInv'
<1> USE DEF stored, memory, threads, outside, budget, ghosts
<1> DEFINE Kept == disk \union Listed \union ToSet(loader.rows) \union Carried
<1> SUFFICES ASSUME ~ Promised' PROVE \A x \in Kept' : x.id \notin owed'
  BY DEF OwedInv
<1>1. /\ cap = [pc |-> cap.pc, text |-> cap.text, ts |-> cap.ts, id |-> cap.id, raced |-> cap.raced]
      /\ Idle.pc = "idle" /\ deferred \in BOOLEAN
      /\ lastRow \in Nat /\ \A i \in owed : i \in Int /\ i > 0 /\ i <= lastRow
  BY DEF ThreadsTyped, HalvesTyped, Idle
<1>2. Promised \/ \A x \in Kept : x.id \notin owed
  BY DEF OwedInv
<1>3. ASSUME ~ Promised, owed' \subseteq owed,
             \A x \in Kept' : \/ \E y \in Kept : y.id = x.id
                              \/ x.id \in Int /\ (x.id <= 0 \/ x.id > lastRow)
      PROVE  \A x \in Kept' : x.id \notin owed'
  <2> SUFFICES ASSUME NEW x \in Kept' PROVE x.id \notin owed
    BY <1>3
  <2>1. CASE \E y \in Kept : y.id = x.id
    BY <1>2, <1>3, <2>1
  <2>2. CASE x.id \in Int /\ (x.id <= 0 \/ x.id > lastRow)
    BY <1>1, <2>2
  <2> QED
    BY <1>3, <2>1, <2>2
<1>4. CASE Clear
  <2>1. /\ loader' = loader /\ Listed' = {} /\ cap' = Racing
        /\ deferred' = (deferred \/ db = "loading") /\ disk' \subseteq disk
        /\ owed' = IF db = "loading" /\ loader.pc # "done" THEN owed \union IdsOf(disk) ELSE owed
    BY <1>4 DEF Clear, DeleteAllBut, Listed, ToSet
  <2>2. ~ (db = "loading" /\ loader.pc # "done")
    <3>1. db = "loading" /\ loader.pc # "done" => loader.pc \in {"opening", "opened"}
      BY DEF StageInv, ThreadsTyped, Stages
    <3> QED
      BY <2>1, <3>1 DEF Promised
  <2>3. ~ Promised /\ owed' = owed
    BY <1>1, <2>1, <2>2 DEF Promised
  <2>4. \A x \in Kept' : \E y \in Kept : y.id = x.id
    BY <2>1, RacingFacts DEF Carried
  <2> QED
    BY <1>3, <2>3, <2>4
<1>5. CASE Attach
  <2>1. loader.pc = "opened" /\ cap' = Racing /\ loader'.rows = <<>>
    BY <1>5 DEF Attach
  <2>3. db # "ready" /\ \A x \in Listed \union Carried : x.id <= 0
    BY <2>1 DEF StageInv
  <2>4. /\ \A r \in disk' : \/ r.id > lastRow
                            \/ (deferred => r.id \notin owed') /\ \E q \in disk : q.id = r.id
        /\ \A e \in Listed' :
             \/ e \in Listed
             \/ \E r \in disk' : r.id = e.id
             \/ ~ deferred /\ \E r \in ToSet(loader.rows) : r.id = e.id
        /\ owed' \subseteq owed
    <3>1. \A r \in disk' : \/ r.id > lastRow
                           \/ /\ deferred => r.id \notin owed'
                              /\ \E q \in disk : q.id = r.id /\ q.text = r.text
      BY <1>5, AttachFacts
    <3>2. \A e \in Listed' :
            \/ e \in Listed
            \/ ~ e.pending /\ \E r \in disk' : r.id = e.id /\ r.text = e.text
            \/ /\ ~ e.pending /\ ~ deferred
               /\ \E r \in ToSet(loader.rows) : r.id = e.id /\ r.text = e.text
      BY <1>5, AttachFacts
    <3>3. owed' \subseteq owed
      BY <1>5, AttachFacts
    <3> QED
      BY <3>1, <3>2, <3>3
  <2>5. \A i \in owed : ~ (i <= 0) /\ ~ (i > lastRow)
    BY <1>1
  <2>6. ~ deferred => \A x \in disk \union ToSet(loader.rows) : x.id \notin owed
    BY <1>2 DEF Promised
  <2>7. \A r \in disk' : r.id \notin owed'
    BY <2>4, <2>5, <2>6
  <2>8. \A e \in Listed' : e.id \notin owed'
    BY <2>3, <2>4, <2>5, <2>6, <2>7
  <2>9. \A x \in Carried' : x.id \notin owed'
    BY <2>1, <2>3, <2>4, <2>5, RacingFacts DEF Carried
  <2>10. ToSet(loader'.rows) = {}
    BY <2>1 DEF ToSet
  <2> QED
    BY <2>7, <2>8, <2>9, <2>10
<1>6. CASE LoadFails
  <2>1. UNCHANGED <<disk, index, cap>> /\ loader'.rows = <<>> /\ loader.pc = "opening"
    BY <1>6 DEF LoadFails
  <2>2. ToSet(loader'.rows) = {} /\ Listed' = Listed /\ Carried' = Carried
    BY <2>1 DEF ToSet, Listed, Carried
  <2>3. \A x \in Listed \union Carried : x.id \notin owed
    BY <1>1, <2>1 DEF StageInv
  <2>4. owed' \subseteq owed /\ (deferred => \A r \in disk : r.id \notin owed')
    BY <1>6 DEF LoadFails, DropPromise, IdsOf
  <2>5. ~ deferred => \A r \in disk : r.id \notin owed
    BY <1>2 DEF Promised
  <2> QED
    BY <2>1, <2>2, <2>3, <2>4, <2>5
<1>7. CASE Restart
  <2>1. disk' = disk /\ Listed' = {} /\ loader'.rows = <<>> /\ cap' = Idle
    BY <1>7 DEF Restart, Listed, ToSet
  <2>2. ToSet(loader'.rows) = {} /\ Carried' = {}
    BY <1>1, <2>1 DEF ToSet, Carried
  <2>3. owed' \subseteq owed /\ (deferred => \A r \in disk : r.id \notin owed')
    BY <1>7 DEF Restart, DropPromise, IdsOf
  <2>4. ~ deferred => \A r \in disk : r.id \notin owed
    BY <1>2 DEF Promised
  <2> QED
    BY <2>1, <2>2, <2>3, <2>4
<1>8. CASE LoaderPrunes
  <2>1. /\ loader.pc = "prune" /\ owed' \subseteq owed
        /\ loader'.rows = loader.rows /\ cap' = Racing
    BY <1>8 DEF LoaderPrunes, ThreadsTyped
  <2>2. ~ Promised
    BY <2>1 DEF Promised
  <2>3. Listed' \subseteq Listed /\ disk' \subseteq disk
    BY <1>8, PruneFacts DEF LoaderPrunes
  <2>4. \A x \in Carried' : \E y \in Carried : y.id = x.id
    BY <2>1, RacingFacts DEF Carried
  <2> QED
    BY <1>3, <2>1, <2>2, <2>3, <2>4
<1>9. CASE ~ Clear /\ ~ Attach /\ ~ LoadFails /\ ~ Restart /\ ~ LoaderPrunes
  <2>1. UNCHANGED <<deferred, owed>>
    BY <1>9 DEF ClipNext, Listener, Loader, Main, Tick, CheckEnabled, ReadClipboard, Promote, TouchRow,
       Missing, StoreRow, ListEntry, ListenerPrunes, OpenDb, ShowHistory, Delete, SetEnabled, clipVars
  <2>2. loader' = loader \/ loader'.pc = "opened"
    <3>1. CASE OpenDb
      BY <3>1 DEF OpenDb
    <3>2. CASE loader' = loader
      BY <3>2
    <3> QED
      BY <1>9, <3>1, <3>2 DEF ClipNext, Listener, Loader, Main, Tick, CheckEnabled, ReadClipboard, Promote,
         TouchRow, Missing, StoreRow, ListEntry, ListenerPrunes, ShowHistory, Delete, SetEnabled, clipVars
  <2>3. ~ Promised
    BY <2>1, <2>2 DEF Promised
  <2> DEFINE Same(x) == \/ \E y \in Kept : y.id = x.id
                        \/ x.id \in Int /\ (x.id <= 0 \/ x.id > lastRow)
  <2>4. /\ \A x \in disk : Same(x)
        /\ \A x \in Listed : Same(x)
        /\ \A x \in ToSet(loader.rows) : Same(x)
        /\ \A x \in Carried : Same(x)
    OBVIOUS
  <2>5. \A x \in Listed' : Same(x)
    <3>1. CASE ListEntry
      <4>1. cap \in Carried
        BY <3>1 DEF ListEntry, Carried
      <4>2. \A e \in Listed' : e.id = cap.id \/ \E y \in Listed : y.id = e.id
        BY <1>9, ListedStep
      <4> QED
        BY <4>1, <4>2
    <3>2. CASE ~ ListEntry
      <4>1. \A e \in Listed' : \E y \in Listed : y.id = e.id
        BY <1>9, <3>2, ListedStep
      <4> QED
        BY <4>1
    <3> QED
      BY <3>1, <3>2
  <2>6. \A x \in ToSet(loader'.rows) : Same(x)
    <3>1. CASE OpenDb
      <4>1. ToSet(loader'.rows) \subseteq disk
        BY <3>1, OpenFacts
      <4> QED
        BY <4>1
    <3>2. CASE loader' = loader
      BY <2>4, <3>2
    <3> QED
      BY <1>9, <3>1, <3>2 DEF ClipNext, Listener, Loader, Main, Tick, CheckEnabled, ReadClipboard, Promote,
         TouchRow, Missing, StoreRow, ListEntry, ListenerPrunes, ShowHistory, Delete, SetEnabled, clipVars
  <2>7. (\A x \in disk' : Same(x)) /\ (\A x \in Carried' : Same(x))
    <3>1. CASE StoreRow
      <4> DEFINE r0 == [id |-> NextRow, text |-> cap.text, ts |-> cap.ts]
                 memoryId == -(cap.ts * 1000 + TextNo[cap.text])
      <4>1. memoryId \in Int /\ memoryId <= 0
        BY <3>1, MemoryNumber DEF StoreRow
      <4>2. NextRow \in Int /\ NextRow > lastRow /\ r0.id = NextRow
        BY <1>1 DEF NextRow
      <4>3. \/ disk' = disk \union {r0} /\ cap' = [cap EXCEPT !.pc = "list", !.id = NextRow]
            \/ disk' = disk /\ cap' = Idle
            \/ disk' = disk /\ cap' = [cap EXCEPT !.pc = "list", !.id = memoryId]
        BY <3>1 DEF StoreRow
      <4>4. \A i : [cap EXCEPT !.pc = "list", !.id = i].id = i
        BY <1>1
      <4> HIDE DEF r0, memoryId
      <4>5. cap' = Idle \/ cap'.id = NextRow \/ cap'.id = memoryId
        BY <4>3, <4>4
      <4>6. \A x \in Carried' : x.id = NextRow \/ x.id = memoryId
        BY <1>1, <4>5 DEF Carried
      <4>7. \A x : x.id = NextRow \/ x.id = memoryId => Same(x)
        BY <4>1, <4>2
      <4> HIDE DEF Same
      <4> QED
        BY <2>4, <4>2, <4>3, <4>6, <4>7
    <3>2. CASE TouchRow
      <4>1. \A r \in disk' : \E q \in disk : q.id = r.id
        BY <3>2, TouchFacts
      <4>2. Carried' = {}
        BY <1>1, <3>2 DEF TouchRow, Carried
      <4> QED
        BY <4>1, <4>2
    <3>3. CASE Promote
      <4>1. \E y \in Listed : y.id = cap'.id
        BY <3>3, PromoteFacts
      <4>2. disk' = disk
        BY <3>3 DEF Promote
      <4> QED
        BY <4>1, <4>2 DEF Carried
    <3>4. CASE ~ StoreRow /\ ~ TouchRow /\ ~ Promote
      <4>1. disk' \subseteq disk
        <5>1. CASE ListenerPrunes
          BY <5>1, PruneFacts DEF ListenerPrunes
        <5>2. CASE Delete
          BY <5>2 DEF Delete, DeleteAllBut
        <5>3. CASE disk' = disk
          BY <5>3
        <5> QED
          BY <1>9, <3>4, <5>1, <5>2, <5>3 DEF ClipNext, Listener, Loader, Main, Tick, CheckEnabled,
             ReadClipboard, Missing, ListEntry, OpenDb, ShowHistory, SetEnabled, clipVars
      <4>2. Carried' = Carried \/ Carried' = {}
        <5>1. CASE cap' = cap
          BY <5>1 DEF Carried
        <5>2. CASE CheckEnabled \/ ReadClipboard \/ Missing \/ ListEntry \/ ListenerPrunes
          <6>1. \/ cap' = Idle \/ cap' = [Idle EXCEPT !.pc = "read"] \/ cap' = [Idle EXCEPT !.pc = "prune"]
                \/ \E t : cap' = [cap EXCEPT !.pc = "find", !.text = t]
                \/ cap' = [cap EXCEPT !.pc = "store", !.ts = now]
            BY <5>2 DEF CheckEnabled, ReadClipboard, Missing, ListEntry, ListenerPrunes
          <6>2. [Idle EXCEPT !.pc = "read"].pc = "read" /\ [Idle EXCEPT !.pc = "prune"].pc = "prune"
            BY DEF Idle
          <6>3. /\ \A t : [cap EXCEPT !.pc = "find", !.text = t].pc = "find"
                /\ [cap EXCEPT !.pc = "store", !.ts = now].pc = "store"
            BY <1>1
          <6>4. cap'.pc \notin {"touch", "list"}
            BY <1>1, <6>1, <6>2, <6>3
          <6> QED
            BY <6>4 DEF Carried
        <5> QED
          BY <1>9, <3>4, <5>1, <5>2 DEF ClipNext, Listener, Loader, Main, Tick, OpenDb, ShowHistory, Delete,
             SetEnabled, clipVars
      <4> QED
        BY <2>4, <4>1, <4>2
    <3> QED
      BY <3>1, <3>2, <3>3, <3>4
  <2>8. \A x \in Kept' : Same(x)
    BY <2>5, <2>6, <2>7
  <2> QED
    BY <1>3, <2>1, <2>3, <2>8
<1> QED
  BY <1>4, <1>5, <1>6, <1>7, <1>8, <1>9

-----------------------------------------------------------------------------
(* The theorems of the clipboard history.                                  *)

ClipInv ==
  /\ HalvesTyped /\ ThreadsTyped /\ StageInv
  /\ PendingById /\ HandedOut
  /\ OwedInv /\ SizeInv /\ PendingInv

LEMMA ClipStarts == ClipInit => ClipInv /\ OneText
<1> SUFFICES ASSUME ClipInit PROVE ClipInv /\ OneText
  OBVIOUS
<1>1. /\ db = "loading" /\ index = <<>> /\ deferred = FALSE /\ cap = Idle /\ given = {} /\ now = 0
      /\ loader = [pc |-> "opening", rows |-> <<>>] /\ faults = 0 /\ restarts = 0
      /\ owed = {} /\ loose = {} /\ unpruned = FALSE
  BY DEF ClipInit
<1>2. MaxClock \in Nat /\ MaxRows \in Nat /\ IndexEntries \in Nat
  BY ClipAssumption
<1>3. Listed = {} /\ ToSet(loader.rows) = {} /\ Carried = {}
  BY <1>1 DEF Listed, ToSet, Carried, Idle
<1>4. /\ IsFiniteSet(disk) /\ lastRow = Cardinality(disk)
      /\ \/ disk = {} /\ lastRow = 0
         \/ \E t \in Texts : disk = {[id |-> 1, text |-> t, ts |-> 0]} /\ lastRow = 1
  <2>1. CASE disk = {}
    BY <2>1, FS_EmptySet DEF ClipInit
  <2>2. CASE \E t \in Texts : disk = {[id |-> 1, text |-> t, ts |-> 0]}
    <3>1. PICK t \in Texts : disk = {[id |-> 1, text |-> t, ts |-> 0]}
      BY <2>2
    <3> DEFINE r == [id |-> 1, text |-> t, ts |-> 0]
    <3>2. disk = {r}
      BY <3>1
    <3> HIDE DEF r
    <3>3. IsFiniteSet(disk) /\ Cardinality(disk) = 1
      BY <3>2, FS_Singleton
    <3>4. lastRow = Cardinality(disk)
      BY DEF ClipInit
    <3> QED
      BY <2>2, <3>3, <3>4
  <2> QED
    BY <2>1, <2>2 DEF ClipInit
<1>5. HalvesTyped
  <2>1. index \in Seq(Entry) /\ Len(index) <= IndexEntries
    BY <1>1, <1>2
  <2>2. 1 \in 1..MaxRows /\ lastRow \in 0..MaxRows
    BY <1>2, <1>4, ClipAssumption
  <2>3. disk \subseteq Row /\ \A r \in disk : r.id <= lastRow
    BY <1>2, <1>4, <2>2 DEF Row
  <2>4. \A r, q \in disk : r.id = q.id => r = q
    BY <1>4
  <2> QED
    BY <1>4, <2>1, <2>2, <2>3, <2>4 DEF HalvesTyped
<1>6. ThreadsTyped
  <2>1. loader \in [pc : Stages, rows : Seq(Row)]
    BY <1>1 DEF Stages
  <2>2. /\ cap \in [pc : CapSteps, text : Texts \union {NoText}, ts : 0..MaxClock, id : Int,
                    raced : BOOLEAN]
        /\ cap.pc = "idle"
    BY <1>1, <1>2 DEF Idle, CapSteps
  <2>3. now \in 0..MaxClock /\ given \subseteq [id : Int, text : Texts] /\ owed \subseteq 1..lastRow
    BY <1>1, <1>2
  <2>4. deferred \in BOOLEAN /\ unpruned \in BOOLEAN /\ db \in {"loading", "ready", "failed"}
    BY <1>1
  <2>5. faults \in Nat /\ restarts \in Nat /\ faults + restarts <= MaxIncidents /\ loose \subseteq Int
    BY <1>1, ClipAssumption
  <2> QED
    BY <2>1, <2>2, <2>3, <2>4, <2>5 DEF ThreadsTyped
<1>7. StageInv /\ OwedInv /\ SizeInv /\ PendingInv
  BY <1>1, <1>3 DEF StageInv, OwedInv, SizeInv, PendingInv
<1>8. PendingById /\ HandedOut /\ OneText
  BY <1>1, <1>3, <1>4 DEF PendingById, HandedOut, OneText, Bearers, Namesakes
<1> QED
  BY <1>5, <1>6, <1>7, <1>8 DEF ClipInv

\* Whatever the three threads do, in any order and whatever is refused, the ids,
\* the caps and the promises of the history keep their meaning: the table is within
\* its cap unless the last prune was refused the DELETE that keeps it there.
THEOREM ClipboardInvariant == ClipSpec => []ClipInv
<1>1. ClipInit => ClipInv
  BY ClipStarts
<1>2. ClipInv /\ [ClipNext]_clipVars => ClipInv'
  <2> SUFFICES ASSUME ClipInv, [ClipNext]_clipVars PROVE ClipInv'
    OBVIOUS
  <2>1. /\ HalvesTyped /\ ThreadsTyped /\ StageInv /\ PendingById /\ HandedOut
        /\ OwedInv /\ SizeInv /\ PendingInv
    BY DEF ClipInv
  <2>2. HalvesTyped' /\ ThreadsTyped'
    BY <2>1, TypedStep
  <2>3. StageInv'
    BY <2>1, StageStep
  <2>4. PendingById' /\ HandedOut'
    BY <2>1, IdStep
  <2>5. OwedInv' /\ SizeInv' /\ PendingInv'
    BY <2>1, OwedStep, SizeStep, PendingStep
  <2> QED
    BY <2>2, <2>3, <2>4, <2>5 DEF ClipInv
<1>3. QED
  BY <1>1, <1>2, PTL DEF ClipSpec

\* clipboard_paste and clipboard_delete by an id the view has held since before
\* attach, a clear or a prune reach the text it was shown for, or nothing; a
\* memory-only id may reach a text whose hash is the same modulo 1000.
THEOREM StaleIdsAreSafe == ClipSpec => []StaleIdIsSafe
<1>1. ClipInit => OneText
  BY ClipStarts
<1>2. ClipInv /\ OneText /\ [ClipNext]_clipVars => OneText'
  BY IdStep DEF ClipInv
<1>3. ClipInv /\ OneText => StaleIdIsSafe
  <2> SUFFICES ASSUME ClipInv, OneText, NEW s \in given
               PROVE  Content(s.id) \in Namesakes(s.id, s.text) \union {NoText}
    BY DEF StaleIdIsSafe
  <2> DEFINE P == {i \in DOMAIN index : index[i].id = s.id}
             own == AtPlaces(index, P)
             row == {r \in disk : r.id = s.id}
  <2>1. \A x \in Bearers : x.id = s.id => x.text \in Namesakes(s.id, s.text)
    <3>1. s \in Bearers
      BY DEF Bearers
    <3> QED
      BY <3>1 DEF OneText
  <2>2. index \in Seq(Entry) /\ P \in SUBSET (1..Len(index))
    BY DEF ClipInv, HalvesTyped
  <2> HIDE DEF P
  <2>3. own \in Seq(Entry) /\ ToSet(own) \subseteq {index[i] : i \in P}
    BY <2>2, FilterFacts
  <2>4. Content(s.id) = IF own # <<>> /\ own[1].pending THEN own[1].text
                        ELSE IF db = "ready" /\ row # {} THEN (CHOOSE r \in row : TRUE).text
                        ELSE NoText
    BY DEF Content, Retained, P
  <2> HIDE DEF own
  <2>5. own # <<>> => own[1].text \in Namesakes(s.id, s.text)
    <3> SUFFICES ASSUME own # <<>> PROVE own[1].text \in Namesakes(s.id, s.text)
      OBVIOUS
    <3>1. own[1] \in ToSet(own)
      BY <2>3 DEF ToSet
    <3>2. PICK i \in P : own[1] = index[i]
      BY <2>3, <3>1
    <3>3. index[i] \in Listed /\ index[i].id = s.id
      BY <2>2, <3>2 DEF P, Listed, ToSet
    <3> QED
      BY <2>1, <3>2, <3>3 DEF Bearers
  <2>6. row # {} => (CHOOSE r \in row : TRUE).text \in Namesakes(s.id, s.text)
    <3>1. row # {} => (CHOOSE r \in row : TRUE) \in row
      OBVIOUS
    <3>2. \A r \in row : r.text \in Namesakes(s.id, s.text)
      BY <2>1 DEF Bearers
    <3> QED
      BY <3>1, <3>2
  <2> HIDE DEF row
  <2> QED
    BY <2>4, <2>5, <2>6
<1> QED
  BY <1>1, <1>2, <1>3, ClipboardInvariant, PTL DEF ClipSpec

\* A clear accepted while the store loads is kept by attach: no row it promised
\* to forget is in either half once the store is ready, then and after every
\* later restart; but for promises whose process ended before attach, whose store
\* was not opened or whose DELETE was refused.
THEOREM ClearsAreKept == ClipSpec => []ClearedStaysCleared
<1>1. ClipInv => ClearedStaysCleared
  <2> SUFFICES ASSUME ClipInv, db = "ready"
               PROVE  \A x \in disk \union Listed : x.id \notin owed
    BY DEF ClearedStaysCleared, IdsOf
  <2>1. ~ Promised
    BY DEF ClipInv, StageInv, Promised
  <2> QED
    BY <2>1 DEF ClipInv, OwedInv
<1> QED
  BY <1>1, ClipboardInvariant, PTL

\* Both halves stay within their caps and to one numbering, the table unless the
\* last prune was refused its DELETE, and an entry without a row is one whose insert
\* failed or whose capture attach overtook.
THEOREM HalvesKeepTogether == ClipSpec => []HalvesAgree
<1>1. ClipInv => HalvesAgree
  <2> SUFFICES ASSUME ClipInv PROVE HalvesAgree
    OBVIOUS
  <2>1. StoreOK
    <3>1. \A r \in disk : r \in Row /\ r.id <= lastRow
      BY DEF ClipInv, HalvesTyped
    <3>2. (\A r, q \in disk : r.id = q.id => r = q) /\ Len(index) <= IndexEntries
      BY DEF ClipInv, HalvesTyped
    <3>3. \A e \in Listed : e \in Entry /\ e.id <= lastRow
      <4>1. Listed \subseteq Entry
        BY ItemsFacts DEF ClipInv, HalvesTyped, Listed
      <4>2. \A e \in Listed : e.id \in Int /\ lastRow \in Nat
        BY <4>1 DEF Entry, ClipInv, HalvesTyped
      <4>3. \A e \in Listed : e.id > 0 => e.id <= lastRow
        BY DEF ClipInv, HandedOut, Bearers
      <4> QED
        BY <4>1, <4>2, <4>3
    <3>4. db = "ready" /\ loader.pc = "done" /\ cap.pc # "list" /\ cap.pc # "prune" /\ ~ unpruned
            => Cardinality(disk) <= MaxEntries
      BY DEF ClipInv, SizeInv
    <3> QED
      BY <3>1, <3>2, <3>3, <3>4 DEF StoreOK
  <2>2. MemoryOnlyIsExplained
    BY DEF ClipInv, PendingInv, MemoryOnlyIsExplained, Overtaken
  <2> QED
    BY <2>1, <2>2 DEF HalvesAgree
<1> QED
  BY <1>1, ClipboardInvariant, PTL

-----------------------------------------------------------------------------
(* Why what is listed can be pasted.                                       *)

\* No stamp is ahead of the clock, nor of the capture that is under way.
Stamped ==
  /\ \A x \in disk \union Listed : x.ts <= now
  /\ cap.pc \in {"touch", "store", "list"} =>
       cap.ts <= now /\ \A x \in disk \union Listed : x.ts <= cap.ts

\* The list is newest first, a row is listed once, and until the store is open
\* so is a text.
Ranked ==
  \A i, j \in DOMAIN index : i < j =>
    /\ index[i].ts >= index[j].ts
    /\ index[i].id = index[j].id => index[i].id <= 0
    /\ db # "ready" => index[i].text # index[j].text

\* Until the store is open what is listed was copied after every row, and what
\* is being captured is not listed yet.
Apart ==
  db # "ready" =>
    /\ \A r \in disk, e \in Listed : r.ts <= e.ts
    /\ cap.pc \in {"store", "list"} => \A e \in Listed : e.text # cap.text

\* The loader has read the newest rows of the table, each once.
NewestRead ==
  loader.pc = "opened" =>
    /\ Len(loader.rows) <= IndexEntries /\ ToSet(loader.rows) \subseteq disk
    /\ \A i, j \in DOMAIN loader.rows : i < j =>
         loader.rows[i].ts >= loader.rows[j].ts /\ loader.rows[i] # loader.rows[j]
    /\ \A x \in ToSet(loader.rows), r \in disk : r.ts > x.ts => r \in ToSet(loader.rows)

\* A row stored for a capture is that capture's alone until it is listed.
NewRow ==
  cap.pc = "list" /\ cap.id > 0 =>
    /\ \A e \in Listed \union given : e.id # cap.id
    /\ \A r \in disk : r.id = cap.id => r.ts = cap.ts
    /\ cap.raced \/ \E r \in disk : r.id = cap.id

\* A row about to move up is that of an entry that already has.
Touching(id) == cap.pc = "touch" /\ cap.id = id
MovedUp == \A e \in Listed : Touching(e.id) /\ e.id > 0 => e.ts = cap.ts

\* An entry bears its row's stamp, except while the row is about to move up or
\* when it was refused to.
SameStamps ==
  \A e \in Listed, r \in disk : r.id = e.id =>
    r.ts <= e.ts /\ (r.ts = e.ts \/ e.id \in loose \/ Touching(e.id))

\* An entry has a row, unless its capture was overtaken.
Excused(id) == id \in loose \/ (cap.pc = "touch" /\ cap.raced /\ id = cap.id)
HaveRows == \A e \in Listed : e.id <= 0 \/ Excused(e.id) \/ \E r \in disk : r.id = e.id

\* Rows that are not listed and that no capture is about to list.
Hidden == {r \in disk : r.id \notin IdsOf(Listed) /\ ~ (cap.pc = "list" /\ r.id = cap.id)}
\* Those above an entry's, or about to be, are few: rows whose entries the list cut
\* off below it, and one for each DELETE that was refused.
Tops(r, e) == r.ts > e.ts \/ (Touching(r.id) /\ cap.ts > e.ts)
Leeway(n) == IF IndexEntries = 1 THEN 0 ELSE n
FewHidden ==
  \A e \in Listed :
    Cardinality({r.id : r \in {q \in Hidden : Tops(q, e)}}) <= IndexEntries - 1 + Leeway(faults)

Spreads == \A t \in 0..MaxClock : Cardinality({r \in disk : r.ts = t}) <= SpreadBound

PasteInv ==
  /\ Stamped /\ Ranked /\ Apart /\ NewestRead /\ NewRow /\ MovedUp /\ SameStamps /\ HaveRows
  /\ FewHidden /\ Spreads

LEMMA ListTypes ==
  ASSUME HalvesTyped, ThreadsTyped
  PROVE  /\ \A r \in disk : /\ r \in Row /\ r.id \in Int /\ r.id > 0 /\ r.id <= lastRow /\ r.ts \in Int
                            /\ r.ts \in 0..MaxClock
         /\ \A e \in Listed : e \in Entry /\ e.id \in Int /\ e.ts \in Int /\ e.text \in Texts
         /\ Len(index) \in Nat /\ DOMAIN index = 1..Len(index)
         /\ \A i \in DOMAIN index : index[i] \in Listed
         /\ \A e \in Listed : \E i \in DOMAIN index : e = index[i]
         /\ cap.ts \in Int /\ cap.id \in Int /\ now \in Int /\ lastRow \in Nat
<1>1. MaxRows \in Nat /\ MaxClock \in Nat /\ \A t \in 0..MaxClock : t \in Int
  BY ClipAssumption
<1>2. /\ index \in Seq(Entry) /\ disk \subseteq Row /\ \A r \in disk : r.id <= lastRow
      /\ cap.ts \in 0..MaxClock /\ cap.id \in Int /\ now \in 0..MaxClock /\ lastRow \in Nat
  BY <1>1 DEF HalvesTyped, ThreadsTyped
<1>3. \A r \in Row : r.id \in Int /\ r.id > 0 /\ r.ts \in 0..MaxClock
  BY <1>1 DEF Row
<1>4. \A e \in Entry : e.id \in Int /\ e.ts \in 0..MaxClock /\ e.text \in Texts
  BY DEF Entry
<1>5. Len(index) \in Nat /\ DOMAIN index = 1..Len(index) /\ \A i \in DOMAIN index : index[i] \in Entry
  BY <1>2
<1>6. /\ \A i \in DOMAIN index : index[i] \in Listed
      /\ \A e \in Listed : \E i \in DOMAIN index : e = index[i]
  BY DEF Listed, ToSet
<1>7. \A e \in Listed : e \in Entry
  BY <1>5, <1>6
<1> QED
  BY <1>1, <1>2, <1>3, <1>4, <1>5, <1>6, <1>7

LEMMA LeewayGrows ==
  ASSUME NEW m \in Nat, NEW n \in Nat, m <= n
  PROVE  Leeway(m) \in Nat /\ Leeway(n) \in Nat /\ Leeway(m) <= Leeway(n)
BY DEF Leeway

\* A step that uncovers no row newer than what is listed hides no more.
LEMMA HiddenStep ==
  ASSUME HalvesTyped, ThreadsTyped, ThreadsTyped', FewHidden, faults' >= faults,
         \A e \in Listed' : \/ \A r \in Hidden' : ~ Tops(r, e)'
                            \/ \E y \in Listed : \A r \in Hidden' :
                                 Tops(r, e)' => \E q \in Hidden : q.id = r.id /\ Tops(q, y)
  PROVE  FewHidden'
<1> DEFINE Above(e) == {r.id : r \in {q \in Hidden : Tops(q, e)}}
<1> SUFFICES ASSUME NEW e \in Listed'
             PROVE  Cardinality({r.id : r \in {q \in Hidden' : Tops(q, e)'}}) <= IndexEntries - 1 + Leeway(faults')
  BY DEF FewHidden
<1> DEFINE B == {r.id : r \in {q \in Hidden' : Tops(q, e)'}}
<1>1. IndexEntries \in Nat /\ IndexEntries >= 1
  BY ClipAssumption
<1>2. Leeway(faults) \in Nat /\ Leeway(faults') \in Nat /\ Leeway(faults) <= Leeway(faults')
  BY LeewayGrows DEF ThreadsTyped
<1>3. CASE \A r \in Hidden' : ~ Tops(r, e)'
  <2>1. B = {}
    BY <1>3
  <2>2. Cardinality(B) = 0
    BY <2>1, FS_EmptySet
  <2> HIDE DEF B
  <2>3. Cardinality(B) <= IndexEntries - 1 + Leeway(faults')
    BY <1>1, <1>2, <2>2
  <2> QED
    BY <2>3 DEF B
<1>4. CASE \E y \in Listed : \A r \in Hidden' : Tops(r, e)' => \E q \in Hidden : q.id = r.id /\ Tops(q, y)
  <2>1. PICK y \in Listed : \A r \in Hidden' : Tops(r, e)' => \E q \in Hidden : q.id = r.id /\ Tops(q, y)
    BY <1>4
  <2>2. B \subseteq Above(y)
    BY <2>1
  <2>3. Cardinality(Above(y)) <= IndexEntries - 1 + Leeway(faults)
    BY DEF FewHidden
  <2>4. Above(y) \subseteq 1..lastRow
    <3>1. \A r \in disk : r.id \in 1..lastRow
      BY ListTypes
    <3> QED
      BY <3>1 DEF Hidden
  <2> HIDE DEF Above, B
  <2>10. lastRow \in Int /\ 1 \in Int
    BY ListTypes
  <2>5. IsFiniteSet(1..lastRow)
    BY <2>10, FS_Interval
  <2>6. IsFiniteSet(Above(y))
    BY <2>4, <2>5, FS_Subset
  <2>7. Cardinality(B) <= Cardinality(Above(y)) /\ IsFiniteSet(B)
    BY <2>2, <2>6, FS_Subset
  <2>8. Cardinality(Above(y)) \in Nat /\ Cardinality(B) \in Nat
    BY <2>6, <2>7, FS_CardinalityType
  <2>9. Cardinality(B) <= IndexEntries - 1 + Leeway(faults')
    BY <1>1, <1>2, <2>3, <2>7, <2>8
  <2> QED
    BY <2>9 DEF B
<1> QED
  BY <1>3, <1>4

LEMMA SpreadStep ==
  ASSUME HalvesTyped, Spreads, disk' \subseteq disk
  PROVE  Spreads'
<1> SUFFICES ASSUME NEW t \in 0..MaxClock PROVE Cardinality({r \in disk' : r.ts = t}) <= SpreadBound
  BY DEF Spreads
<1> DEFINE A == {r \in disk : r.ts = t}
           B == {r \in disk' : r.ts = t}
<1>1. B \subseteq A /\ A \subseteq disk /\ Cardinality(A) <= SpreadBound
  BY DEF Spreads
<1> HIDE DEF A, B
<1>2. IsFiniteSet(A)
  BY <1>1, FS_Subset DEF HalvesTyped
<1>3. Cardinality(B) <= Cardinality(A) /\ IsFiniteSet(B)
  BY <1>1, <1>2, FS_Subset
<1>4. Cardinality(A) \in Nat /\ Cardinality(B) \in Nat /\ SpreadBound \in Int
  BY <1>2, <1>3, FS_CardinalityType, ClipAssumption DEF SpreadBound
<1>5. Cardinality(B) <= SpreadBound
  BY <1>1, <1>3, <1>4
<1> QED
  BY <1>5 DEF B

\* A step that leaves rows and entries alone and starts neither to list nor to
\* move one.
LEMMA QuietPaste ==
  ASSUME ClipInv, ClipInv', PasteInv, UNCHANGED <<disk, index, loose>>, faults' >= faults,
         \/ cap' = cap
         \/ cap.pc \notin {"touch", "list"} /\ cap'.pc \notin {"touch", "list"},
         Stamped', Apart', NewestRead', db' = db \/ (db = "loading" /\ db' # "ready"),
         \A s \in given' : s \in given \/ \E e \in Listed : e.id = s.id
  PROVE  PasteInv'
<1>1. Listed' = Listed /\ \A x : Excused(x)' = Excused(x)
  BY DEF Listed, Excused, PasteInv
<1>2. Hidden' = Hidden
  <2>1. cap'.pc = "list" <=> cap.pc = "list"
    OBVIOUS
  <2>2. cap.pc = "list" => cap' = cap
    OBVIOUS
  <2> QED
    BY <1>1, <2>1, <2>2 DEF Hidden
<1>7. \A x : Touching(x)' <=> Touching(x)
  BY DEF Touching
<1>8. \A r, e : Tops(r, e)' <=> Tops(r, e)
  BY DEF Tops, Touching
<1>9. FewHidden'
  BY <1>1, <1>2, <1>8, HiddenStep DEF PasteInv, ClipInv
<1>3. Ranked' /\ Spreads'
  BY <1>1, <1>2 DEF PasteInv, Ranked, Spreads
<1>4. NewRow' /\ MovedUp'
  BY <1>1, <1>7 DEF PasteInv, NewRow, MovedUp, Touching
<1>5. SameStamps'
  BY <1>1, <1>7 DEF PasteInv, SameStamps
<1>6. HaveRows'
  BY <1>1 DEF PasteInv, HaveRows
<1> QED
  BY <1>3, <1>4, <1>5, <1>6, <1>9 DEF PasteInv

LEMMA PromotePaste ==
  ASSUME ClipInv, ClipInv', PasteInv, Promote
  PROVE  PasteInv'
<1>1. PICK i \in DOMAIN index :
        /\ index[i].text = cap.text
        /\ index' = <<[index[i] EXCEPT !.ts = now]>> \o RemoveAt(index, i)
        /\ cap' = [cap EXCEPT !.pc = "touch", !.id = index[i].id, !.ts = now]
  BY Zenon DEF Promote
<1> DEFINE x == [index[i] EXCEPT !.ts = now]
           K == Len(index)
           from(k) == IF k <= i THEN k - 1 ELSE k
<1>2. /\ HalvesTyped /\ ThreadsTyped /\ Stamped /\ Ranked /\ Apart /\ NewestRead /\ SameStamps /\ HaveRows
      /\ FewHidden /\ Spreads
  BY DEF ClipInv, PasteInv
<1>3. /\ \A r \in disk : r.ts \in Int /\ r.id \in Int
      /\ \A e \in Listed : e \in Entry /\ e.id \in Int /\ e.ts \in Int
      /\ K \in Nat /\ DOMAIN index = 1..K /\ \A k \in DOMAIN index : index[k] \in Listed
      /\ \A e \in Listed : \E k \in DOMAIN index : e = index[k]
      /\ now \in Int
  BY <1>2, ListTypes
<1>4. index \in Seq(Entry) /\ now \in 0..MaxClock /\ i \in 1..K /\ index[i] \in Entry
  BY <1>2, <1>3 DEF HalvesTyped, ThreadsTyped
<1>5. x \in Entry /\ x.id = index[i].id /\ x.text = index[i].text /\ x.ts = now
  BY <1>4 DEF Entry
<1>6. cap'.pc = "touch" /\ cap'.id = index[i].id /\ cap'.ts = now /\ cap.pc = "find"
  BY <1>1, <1>2 DEF ThreadsTyped, Promote
<1>7. UNCHANGED <<disk, db, loader, given, now, loose, faults>>
  BY DEF Promote, stored, outside, budget, ghosts
<1> HIDE DEF x
<1>8. /\ index' \in Seq(Entry) /\ Len(index') = K /\ index'[1] = x
      /\ \A k \in 2..K : index'[k] = index[from(k)]
  <2> DEFINE t == <<x>> \o RemoveAt(index, i)
  <2>1. t \in Seq(Entry) /\ Len(t) = K /\ MovedToFront(t, index, i, x)
    BY <1>4, <1>5, FrontFacts
  <2>2. index' = t
    BY <1>1 DEF x
  <2> HIDE DEF t
  <2>3. \A k \in 2..K : IF k <= i THEN k \in 2..i ELSE k \in (i + 1)..Len(index)
    BY <1>3, <1>4
  <2> QED
    BY <2>1, <2>2, <2>3 DEF MovedToFront
<1>9. /\ DOMAIN index' = 1..K
      /\ \A k \in 2..K : from(k) \in 1..K /\ from(k) # i
      /\ \A m, n \in 2..K : m < n => from(m) < from(n)
  BY <1>3, <1>4, <1>8
<1>10. \A k \in 1..K : k = 1 \/ k \in 2..K
  BY <1>3
<1> HIDE DEF K, from
<1>11. ASSUME NEW e \in Listed' PROVE e = x \/ \E j \in DOMAIN index : j # i /\ e = index[j]
  <2>1. PICK k \in 1..K : e = index'[k]
    BY <1>9 DEF Listed, ToSet
  <2> QED
    BY <1>3, <1>8, <1>9, <1>10, <2>1
<1>12. x \in Listed'
  <2>1. 1 \in DOMAIN index'
    BY <1>3, <1>4, <1>9
  <2> QED
    BY <1>8, <2>1 DEF Listed, ToSet
<1>13. ASSUME NEW y \in Listed PROVE \E e \in Listed' : e.id = y.id
  <2>1. PICK j \in 1..K : y = index[j]
    BY <1>3
  <2>2. CASE j = i
    BY <1>5, <1>12, <2>1, <2>2
  <2>3. CASE j < i
    <3>1. j + 1 \in 2..K /\ from(j + 1) = j
      BY <1>3, <1>4, <2>3 DEF from
    <3>2. index'[j + 1] = y /\ j + 1 \in DOMAIN index'
      BY <1>8, <1>9, <2>1, <3>1
    <3> QED
      BY <3>2 DEF Listed, ToSet
  <2>4. CASE i < j
    <3>1. j \in 2..K /\ from(j) = j
      BY <1>3, <1>4, <2>4 DEF from
    <3>2. index'[j] = y /\ j \in DOMAIN index'
      BY <1>8, <1>9, <2>1, <3>1
    <3> QED
      BY <3>2 DEF Listed, ToSet
  <2> QED
    BY <1>3, <1>4, <2>2, <2>3, <2>4
<1>14. \A j \in DOMAIN index : j # i =>
         /\ index[i].id = index[j].id => index[i].id <= 0
         /\ db # "ready" => index[i].text # index[j].text
  <2> SUFFICES ASSUME NEW j \in DOMAIN index, j # i
               PROVE  /\ index[i].id = index[j].id => index[i].id <= 0
                      /\ db # "ready" => index[i].text # index[j].text
    OBVIOUS
  <2>1. i < j \/ j < i
    BY <1>3, <1>4
  <2> QED
    BY <1>2, <2>1 DEF Ranked
<1>15. Ranked'
  <2> SUFFICES ASSUME NEW m \in 1..K, NEW n \in 1..K, m < n
               PROVE  /\ index'[m].ts >= index'[n].ts
                      /\ index'[m].id = index'[n].id => index'[m].id <= 0
                      /\ db # "ready" => index'[m].text # index'[n].text
    BY <1>7, <1>9 DEF Ranked
  <2>1. n \in 2..K /\ index'[n] = index[from(n)] /\ from(n) \in DOMAIN index /\ from(n) # i
    BY <1>3, <1>8, <1>9
  <2>2. CASE m = 1
    <3>1. index[from(n)].ts <= now
      BY <1>2, <1>3, <2>1 DEF Stamped
    <3> QED
      BY <1>3, <1>5, <1>8, <1>14, <2>1, <2>2, <3>1
  <2>3. CASE m \in 2..K
    <3>1. index'[m] = index[from(m)] /\ from(m) \in DOMAIN index /\ from(m) < from(n)
      BY <1>3, <1>8, <1>9, <2>1, <2>3
    <3>2. /\ index[from(m)].ts >= index[from(n)].ts
          /\ index[from(m)].id = index[from(n)].id => index[from(m)].id <= 0
          /\ db # "ready" => index[from(m)].text # index[from(n)].text
      BY <1>2, <2>1, <3>1 DEF Ranked
    <3> QED
      BY <2>1, <3>1, <3>2
  <2> QED
    BY <1>10, <2>2, <2>3
<1>16. Stamped' /\ Apart'
  <2>1. \A e \in Listed' : e.ts <= now /\ (e.ts = now \/ e \in Listed)
    BY <1>2, <1>3, <1>5, <1>11 DEF Stamped
  <2>2. \A r \in disk : r.ts <= now
    BY <1>2 DEF Stamped
  <2>3. Stamped'
    BY <1>3, <1>6, <1>7, <2>1, <2>2 DEF Stamped
  <2>4. Apart'
    BY <1>2, <1>6, <1>7, <2>1, <2>2 DEF Apart
  <2> QED
    BY <2>3, <2>4
<1>17. NewestRead' /\ NewRow' /\ Spreads'
  BY <1>2, <1>6, <1>7 DEF NewestRead, NewRow, Spreads
<1>18. MovedUp'
  <2>1. \E e \in Listed' : e.id = cap'.id
    BY <1>5, <1>6, <1>12
  <2>2. ASSUME NEW e \in Listed', e.id = cap'.id, e.id > 0 PROVE e.ts = cap'.ts
    <3>1. e.id = index[i].id /\ ~ (index[i].id <= 0)
      BY <1>3, <1>4, <1>6, <2>2
    <3>2. e = x
      BY <1>11, <1>14, <3>1
    <3> QED
      BY <1>5, <1>6, <3>2
  <2> QED
    BY <2>1, <2>2 DEF MovedUp, Touching
<1>19. SameStamps'
  <2> SUFFICES ASSUME NEW e \in Listed', NEW r \in disk, r.id = e.id
               PROVE  r.ts <= e.ts /\ (r.ts = e.ts \/ e.id \in loose \/ Touching(e.id)')
    BY <1>7 DEF SameStamps
  <2>1. CASE e = x
    <3>1. r.ts <= now
      BY <1>2 DEF Stamped
    <3>2. Touching(e.id)'
      BY <1>5, <1>6, <2>1 DEF Touching
    <3> QED
      BY <1>5, <2>1, <3>1, <3>2
  <2>2. CASE \E j \in DOMAIN index : j # i /\ e = index[j]
    <3>1. e \in Listed /\ ~ Touching(e.id)
      BY <1>3, <1>6, <2>2 DEF Touching
    <3> QED
      BY <1>2, <3>1 DEF SameStamps
  <2> QED
    BY <1>11, <2>1, <2>2
<1>20. HaveRows'
  <2>1. \A y \in Listed : y.id <= 0 \/ y.id \in loose \/ \E r \in disk : r.id = y.id
    BY <1>2, <1>6 DEF HaveRows, Excused
  <2>2. \A e \in Listed' : \E y \in Listed : y.id = e.id
    BY <1>3, <1>5, <1>11
  <2> QED
    BY <1>7, <2>1, <2>2 DEF HaveRows, Excused
<1>21. FewHidden'
  <2>1. Hidden' \subseteq Hidden
    BY <1>6, <1>7, <1>13 DEF Hidden, IdsOf
  <2>2. \A r \in Hidden' : r.ts <= now /\ r.ts \in Int
    BY <1>2, <1>3, <1>7 DEF Stamped, Hidden
  <2>3. \A e \in Listed' : (\A r \in Hidden' : ~ (r.ts > e.ts)) \/ e \in Listed
    BY <1>3, <1>5, <1>11, <2>2
  <2>4. \A r \in Hidden' : ~ Touching(r.id)'
    BY <1>5, <1>6, <1>12 DEF Hidden, IdsOf, Touching
  <2>5. \A r \in Hidden' : \A e : Tops(r, e)' => r.ts > e.ts /\ Tops(r, e)
    BY <2>4 DEF Tops
  <2>6. faults' >= faults /\ ThreadsTyped'
    BY <1>2, <1>7 DEF ClipInv, ThreadsTyped
  <2> QED
    BY <1>2, <2>1, <2>3, <2>5, <2>6, HiddenStep
<1> QED
  BY <1>15, <1>16, <1>17, <1>18, <1>19, <1>20, <1>21 DEF PasteInv

LEMMA TouchPaste ==
  ASSUME ClipInv, ClipInv', PasteInv, TouchRow
  PROVE  PasteInv'
<1>1. /\ HalvesTyped /\ ThreadsTyped /\ StageInv /\ Stamped /\ Ranked /\ Apart /\ NewestRead /\ MovedUp
      /\ SameStamps /\ HaveRows /\ FewHidden /\ Spreads
  BY DEF ClipInv, PasteInv
<1>2. /\ \A r \in disk : r \in Row /\ r.ts \in Int /\ r.id \in Int /\ r.id > 0
      /\ \A e \in Listed : e.id \in Int /\ e.ts \in Int
      /\ cap.ts \in Int /\ now \in Int
  BY <1>1, ListTypes
<1>3. /\ UNCHANGED <<db, index, loader, given, now>> /\ cap' = Idle /\ cap.pc = "touch"
      /\ cap'.pc = "idle" /\ faults' >= faults /\ ThreadsTyped'
  <2>1. faults' >= faults
    BY <1>1, FaultFacts DEF TouchRow, Counted
  <2> QED
    BY <2>1 DEF TouchRow, memory, outside, Idle, ClipInv
<1>4. Listed' = Listed
  BY <1>3 DEF Listed
<1>16. cap.id > 0 => db = "ready"
  <2>1. cap \in Carried
    BY <1>3 DEF Carried
  <2>2. cap.id \in Int
    BY <1>1, ListTypes
  <2> QED
    BY <1>1, <2>1, <2>2 DEF StageInv
\* The row is given the entry's stamp, or the entry is loose.
<1>5. /\ \A r \in disk' : \E q \in disk : q.id = r.id /\ (r = q \/ (r.ts = cap.ts /\ r.id = cap.id /\ db = "ready"))
      /\ \A q \in disk : \E r \in disk' : r.id = q.id
      /\ \/ /\ \A r \in disk' : r.id = cap.id => r.ts = cap.ts
            /\ loose' = Overtaken \ ({cap.id} \cap IdsOf(disk))
         \/ disk' = disk /\ loose' = Overtaken \union {cap.id}
      /\ Spreads'
  <2>1. CASE disk' = disk /\ loose' = Overtaken \union {cap.id}
    <3>1. Spreads'
      BY <1>1, <2>1 DEF Spreads
    <3> QED
      BY <2>1, <3>1
  <2>2. CASE /\ disk' = IF db = "ready"
                        THEN {IF r.id = cap.id THEN [r EXCEPT !.ts = cap.ts] ELSE r : r \in disk} ELSE disk
             /\ Spread /\ loose' = Overtaken \ ({cap.id} \cap IdsOf(disk))
    <3>1. Spreads'
      BY <2>2 DEF Spread, Spreads
    <3>2. CASE db # "ready"
      <4>1. disk' = disk /\ \A r \in disk : r.id # cap.id
        BY <1>2, <1>16, <2>2, <3>2
      <4> QED
        BY <2>2, <3>1, <4>1
    <3>3. CASE db = "ready"
      <4>1. disk' = {IF r.id = cap.id THEN [r EXCEPT !.ts = cap.ts] ELSE r : r \in disk}
        BY <2>2, <3>3
      <4>2. \A r \in disk : [r EXCEPT !.ts = cap.ts].id = r.id /\ [r EXCEPT !.ts = cap.ts].ts = cap.ts
        BY <1>2 DEF Row
      <4>4. ASSUME NEW r \in disk'
            PROVE  /\ \E q \in disk : q.id = r.id /\ (r = q \/ (r.ts = cap.ts /\ r.id = cap.id))
                   /\ r.id = cap.id => r.ts = cap.ts
        <5>1. PICK q \in disk : r = IF q.id = cap.id THEN [q EXCEPT !.ts = cap.ts] ELSE q
          BY <4>1
        <5> QED
          BY <4>2, <5>1
      <4>5. ASSUME NEW q \in disk PROVE \E r \in disk' : r.id = q.id
        <5>1. (IF q.id = cap.id THEN [q EXCEPT !.ts = cap.ts] ELSE q) \in disk'
          BY <4>1
        <5> QED
          BY <4>2, <5>1
      <4>3. \A r \in disk' : \E q \in disk :
               q.id = r.id /\ (r = q \/ (r.ts = cap.ts /\ r.id = cap.id /\ db = "ready"))
        BY <3>3, <4>4
      <4>6. \A q \in disk : \E r \in disk' : r.id = q.id
        BY <4>5
      <4>7. \A r \in disk' : r.id = cap.id => r.ts = cap.ts
        BY <4>4
      <4> QED
        BY <2>2, <3>1, <4>3, <4>6, <4>7
    <3> QED
      BY <3>2, <3>3
  <2> QED
    BY <2>1, <2>2 DEF TouchRow
<1>7. db # "ready" => disk' = disk
  BY DEF TouchRow
<1>8. Stamped'
  <2>1. \A r \in disk' : r.ts <= now
    BY <1>1, <1>3, <1>5 DEF Stamped
  <2> QED
    BY <1>1, <1>3, <1>4, <2>1 DEF Stamped
<1>9. Ranked' /\ Apart'
  BY <1>1, <1>3, <1>4, <1>7 DEF Ranked, Apart
<1>10. NewestRead'
  <2>1. loader.pc = "opened" => db # "ready"
    BY <1>1 DEF StageInv
  <2> QED
    BY <1>1, <1>3, <1>7, <2>1 DEF NewestRead
<1>11. NewRow' /\ MovedUp'
  BY <1>3 DEF NewRow, MovedUp, Touching
<1>12. SameStamps'
  <2> SUFFICES ASSUME NEW e \in Listed, NEW r \in disk', r.id = e.id
               PROVE  r.ts <= e.ts /\ (r.ts = e.ts \/ e.id \in loose')
    BY <1>4 DEF SameStamps
  <2>1. PICK q \in disk : q.id = r.id /\ (r = q \/ (r.ts = cap.ts /\ r.id = cap.id))
    BY <1>5
  <2>2. e.id > 0 /\ q.ts <= e.ts /\ (q.ts = e.ts \/ e.id \in loose \/ Touching(e.id))
    BY <1>1, <1>2, <2>1 DEF SameStamps
  <2>3. CASE e.id = cap.id
    <3>1. e.ts = cap.ts
      BY <1>1, <1>3, <2>2, <2>3 DEF MovedUp, Touching
    <3>2. r.ts = cap.ts \/ (r \in disk /\ e.id \in loose')
      BY <1>5, <2>3
    <3>3. r \in disk => r.ts <= e.ts
      BY <1>1 DEF SameStamps
    <3> QED
      BY <1>2, <3>1, <3>2, <3>3
  <2>4. CASE e.id # cap.id
    <3>1. r = q
      BY <2>1, <2>4
    <3>2. e.id \in loose => e.id \in loose'
      BY <1>5, <2>4 DEF Overtaken
    <3> QED
      BY <2>2, <2>4, <3>1, <3>2 DEF Touching
  <2> QED
    BY <2>3, <2>4
<1>13. HaveRows'
  <2>1. \A e \in Listed : Excused(e.id) => e.id \in loose' \/ \E r \in disk : r.id = e.id
    BY <1>3, <1>5 DEF Excused, Overtaken, IdsOf
  <2> QED
    BY <1>1, <1>4, <1>5, <2>1 DEF HaveRows, Excused
<1>14. FewHidden'
  <2>1. ASSUME NEW e \in Listed, NEW r \in Hidden', Tops(r, e)'
        PROVE  \E q \in Hidden : q.id = r.id /\ Tops(q, e)
    <3>1. r \in disk' /\ r.id \notin IdsOf(Listed) /\ r.ts > e.ts
      BY <1>3, <1>4, <2>1 DEF Hidden, IdsOf, Tops, Touching
    <3>2. PICK q \in disk : q.id = r.id /\ (r = q \/ (r.ts = cap.ts /\ r.id = cap.id))
      BY <1>5, <3>1
    <3>3. q \in Hidden
      BY <1>3, <3>1, <3>2 DEF Hidden
    <3>4. Tops(q, e)
      BY <1>3, <3>1, <3>2 DEF Tops, Touching
    <3> QED
      BY <3>2, <3>3, <3>4
  <2> QED
    BY <1>1, <1>3, <1>4, <2>1, HiddenStep
<1> QED
  BY <1>5, <1>8, <1>9, <1>10, <1>11, <1>12, <1>13, <1>14 DEF PasteInv

LEMMA StorePaste ==
  ASSUME ClipInv, ClipInv', PasteInv, StoreRow
  PROVE  PasteInv'
<1>1. /\ HalvesTyped /\ ThreadsTyped /\ StageInv /\ HandedOut /\ Stamped /\ Ranked /\ Apart /\ NewestRead
      /\ SameStamps /\ HaveRows /\ FewHidden /\ Spreads
  BY DEF ClipInv, PasteInv
<1>2. /\ \A r \in disk : r.ts \in Int /\ r.id \in Int /\ r.id > 0 /\ r.id <= lastRow
      /\ \A e \in Listed : e.id \in Int /\ e.ts \in Int
      /\ cap.ts \in Int /\ now \in Int /\ lastRow \in Nat
  BY <1>1, ListTypes
<1>3. UNCHANGED <<db, index, loader, given, now, loose, faults>> /\ cap.pc = "store"
  BY DEF StoreRow, memory, outside, budget, ghosts
<1>4. Listed' = Listed
  BY <1>3 DEF Listed
<1>10. ASSUME Hidden' \subseteq Hidden, cap'.pc # "touch" PROVE FewHidden'
  <2>1. \A r, e : Tops(r, e)' => Tops(r, e)
    BY <1>10 DEF Tops, Touching
  <2>2. faults' >= faults /\ ThreadsTyped'
    BY <1>1, <1>3 DEF ClipInv, ThreadsTyped
  <2> QED
    BY <1>1, <1>4, <1>10, <2>1, <2>2, HiddenStep
<1>5. \A x \in Listed \union given : x.id \in Int /\ x.id <= lastRow
  <2>1. \A x \in Bearers : x.id \in Int
    BY <1>1, BearerTypes
  <2>2. \A x \in Bearers : x.id <= lastRow
    BY <1>1, <1>2, <2>1 DEF HandedOut
  <2> QED
    BY <2>1, <2>2 DEF Bearers
<1>6. CASE UNCHANGED disk /\ (cap' = Idle \/ \E n \in Int : n <= 0 /\ cap' = [cap EXCEPT !.pc = "list", !.id = n])
  <2>1. \/ cap'.pc = "idle"
        \/ cap'.pc = "list" /\ cap'.id \in Int /\ cap'.id <= 0 /\ cap'.ts = cap.ts /\ cap'.text = cap.text
    <3>1. CASE cap' = Idle
      BY <3>1 DEF Idle
    <3>2. CASE \E n \in Int : n <= 0 /\ cap' = [cap EXCEPT !.pc = "list", !.id = n]
      BY <1>1, <3>2 DEF ThreadsTyped
    <3> QED
      BY <1>6, <3>1, <3>2
  <2>2. Hidden' \subseteq Hidden
    BY <1>3, <1>4, <1>6 DEF Hidden
  <2>3. FewHidden'
    BY <1>10, <2>1, <2>2
  <2>4. Stamped' /\ Apart'
    BY <1>1, <1>3, <1>4, <1>6, <2>1 DEF Stamped, Apart
  <2>5. Ranked' /\ NewestRead' /\ Spreads'
    BY <1>1, <1>3, <1>6 DEF Ranked, NewestRead, Spreads
  <2>6. NewRow' /\ MovedUp'
    BY <2>1 DEF NewRow, MovedUp, Touching
  <2>7. SameStamps' /\ HaveRows'
    BY <1>1, <1>3, <1>4, <1>6, <2>1 DEF SameStamps, HaveRows, Excused, Touching
  <2> QED
    BY <2>3, <2>4, <2>5, <2>6, <2>7 DEF PasteInv
<1>7. CASE db = "ready" /\ disk' = disk \union {[id |-> NextRow, text |-> cap.text, ts |-> cap.ts]}
           /\ Spread /\ cap' = [cap EXCEPT !.pc = "list", !.id = NextRow]
  <2> DEFINE new == [id |-> NextRow, text |-> cap.text, ts |-> cap.ts]
  <2>1. new.id = lastRow + 1 /\ new.ts = cap.ts /\ disk' = disk \union {new}
    BY <1>7 DEF NextRow
  <2> HIDE DEF new
  <2>2. cap'.pc = "list" /\ cap'.id = lastRow + 1 /\ cap'.ts = cap.ts
    BY <1>1, <1>7 DEF ThreadsTyped, NextRow
  <2>3. Hidden' \subseteq Hidden
    BY <1>3, <1>4, <2>1, <2>2 DEF Hidden
  <2>4. FewHidden'
    BY <1>10, <2>2, <2>3
  <2>5. Stamped' /\ Apart'
    BY <1>1, <1>2, <1>3, <1>4, <1>7, <2>1, <2>2 DEF Stamped, Apart
  <2>6. loader.pc # "opened"
    BY <1>1, <1>7 DEF StageInv
  <2>7. Ranked' /\ NewestRead'
    BY <1>1, <1>3, <2>6 DEF Ranked, NewestRead
  <2>8. NewRow'
    <3>1. \A x \in Listed \union given : x.id # lastRow + 1
      BY <1>2, <1>5
    <3>2. \A r \in disk : r.id # lastRow + 1
      BY <1>2
    <3> QED
      BY <1>3, <1>4, <2>1, <2>2, <3>1, <3>2 DEF NewRow
  <2>9. MovedUp' /\ Spreads'
    BY <1>7, <2>2 DEF MovedUp, Touching, Spread, Spreads
  <2>10. SameStamps'
    BY <1>1, <1>2, <1>3, <1>4, <1>5, <2>1, <2>2 DEF SameStamps, Touching
  <2>11. HaveRows'
    BY <1>1, <1>3, <1>4, <2>1, <2>2 DEF HaveRows, Excused
  <2> QED
    BY <2>4, <2>5, <2>7, <2>8, <2>9, <2>10, <2>11 DEF PasteInv
<1>8. CASE db # "ready"
  <2> DEFINE n == -(cap.ts * 1000 + TextNo[cap.text])
  <2>1. n \in Int /\ n <= 0
    BY <1>1, <1>3, MemoryNumber
  <2>2. UNCHANGED disk /\ cap' = [cap EXCEPT !.pc = "list", !.id = n]
    BY <1>8 DEF StoreRow
  <2> HIDE DEF n
  <2> QED
    BY <1>6, <2>1, <2>2
<1>9. CASE db = "ready"
  BY <1>6, <1>7, <1>9 DEF StoreRow
<1> QED
  BY <1>8, <1>9

LEMMA ListPaste ==
  ASSUME ClipInv, ClipInv', PasteInv, ListEntry
  PROVE  PasteInv'
<1> DEFINE x == [id |-> cap.id, text |-> cap.text, ts |-> cap.ts, pending |-> cap.id <= 0]
           K == Len(index)
<1>1. /\ HalvesTyped /\ ThreadsTyped /\ StageInv /\ PendingById /\ Stamped /\ Ranked /\ Apart /\ NewestRead
      /\ NewRow /\ SameStamps /\ HaveRows /\ FewHidden /\ Spreads
  BY DEF ClipInv, PasteInv
<1>2. /\ \A r \in disk : r.ts \in Int /\ r.id \in Int /\ r.id > 0 /\ r.id <= lastRow
      /\ \A e \in Listed : e.id \in Int /\ e.ts \in Int
      /\ K \in Nat /\ DOMAIN index = 1..K /\ \A k \in DOMAIN index : index[k] \in Listed
      /\ \A e \in Listed : \E k \in DOMAIN index : e = index[k]
      /\ cap.ts \in Int /\ cap.id \in Int /\ now \in Int
  BY <1>1, ListTypes
<1>3. /\ UNCHANGED <<disk, db, loader, given, now, faults>> /\ cap.pc = "list" /\ cap'.pc = "prune"
  BY DEF ListEntry, stored, outside, budget, Idle
<1>4. IndexEntries \in Nat /\ IndexEntries >= 1
  BY ClipAssumption
<1>5. x \in Entry /\ index \in Seq(Entry)
  BY <1>1, <1>3 DEF HalvesTyped, ThreadsTyped, Entry
<1>6. x.id = cap.id /\ x.text = cap.text /\ x.ts = cap.ts
  OBVIOUS
<1>7. index' = FirstN(<<x>> \o index, IndexEntries)
  BY DEF ListEntry
<1> HIDE DEF x
<1>8. /\ index' \in Seq(Entry) /\ Len(index') = (IF K + 1 < IndexEntries THEN K + 1 ELSE IndexEntries)
      /\ DOMAIN index' = 1..Len(index')
      /\ index'[1] = x /\ \A k \in 1..Len(index') : k > 1 => k - 1 \in 1..K /\ index'[k] = index[k - 1]
  <2> DEFINE s == <<x>> \o index
             t == FirstN(s, IndexEntries)
  <2>1. s \in Seq(Entry) /\ Len(s) = K + 1 /\ s[1] = x /\ \A k \in 1..K : s[k + 1] = index[k]
    BY <1>5, ConsFacts
  <2> HIDE DEF s
  <2>2. /\ t \in Seq(Entry) /\ Len(t) = (IF Len(s) < IndexEntries THEN Len(s) ELSE IndexEntries)
        /\ \A k \in 1..Len(t) : k \in 1..Len(s) /\ t[k] = s[k]
    BY <1>4, <2>1, FirstNFacts
  <2>3. index' = t
    BY <1>7 DEF s
  <2> HIDE DEF t, K
  <2>4. 1 \in 1..Len(t) /\ DOMAIN t = 1..Len(t)
    BY <1>2, <1>4, <2>1, <2>2
  <2>5. ASSUME NEW k \in 1..Len(t), k > 1 PROVE k - 1 \in 1..K /\ t[k] = index[k - 1]
    <3>1. k - 1 \in 1..K /\ k - 1 + 1 = k
      BY <1>2, <2>1, <2>2, <2>5
    <3> QED
      BY <2>1, <2>2, <3>1
  <2> QED
    BY <2>1, <2>2, <2>3, <2>4, <2>5
<1> HIDE DEF K
<1>9. ASSUME NEW e \in Listed' PROVE e = x \/ \E j \in 1..K : j + 1 <= IndexEntries /\ e = index[j]
  <2>1. PICK k \in 1..Len(index') : e = index'[k]
    BY <1>8 DEF Listed, ToSet
  <2>2. CASE k > 1
    <3>1. k - 1 \in 1..K /\ e = index[k - 1] /\ k - 1 + 1 <= IndexEntries
      BY <1>2, <1>4, <1>8, <2>1, <2>2
    <3> QED
      BY <3>1
  <2>3. CASE ~ (k > 1)
    <3>1. k = 1
      BY <1>2, <1>4, <1>8, <2>3
    <3> QED
      BY <1>8, <2>1, <3>1
  <2> QED
    BY <2>2, <2>3
<1>10. x \in Listed'
  <2>1. 1 \in DOMAIN index'
    BY <1>2, <1>4, <1>8
  <2> QED
    BY <1>8, <2>1 DEF Listed, ToSet
<1>11. ASSUME NEW j \in 1..K, j + 1 <= IndexEntries PROVE index[j] \in Listed'
  <2>1. j + 1 \in 1..Len(index') /\ j + 1 > 1 /\ j + 1 - 1 = j
    BY <1>2, <1>4, <1>8, <1>11
  <2>2. index'[j + 1] = index[j]
    BY <1>8, <2>1
  <2> QED
    BY <1>8, <2>1, <2>2 DEF Listed, ToSet
<1>12. \A e \in Listed' : e = x \/ e \in Listed
  BY <1>2, <1>9
<1>13. Stamped'
  <2>1. cap.ts <= now /\ \A y \in disk \union Listed : y.ts <= now
    BY <1>1, <1>3 DEF Stamped
  <2> QED
    BY <1>3, <1>6, <1>12, <2>1 DEF Stamped
<1>14. Apart'
  <2>1. \A r \in disk : r.ts <= x.ts
    BY <1>1, <1>3, <1>6 DEF Stamped
  <2> QED
    BY <1>1, <1>3, <1>12, <2>1 DEF Apart
<1>15. Ranked'
  <2> SUFFICES ASSUME NEW m \in 1..Len(index'), NEW n \in 1..Len(index'), m < n
               PROVE  /\ index'[m].ts >= index'[n].ts
                      /\ index'[m].id = index'[n].id => index'[m].id <= 0
                      /\ db # "ready" => index'[m].text # index'[n].text
    BY <1>3, <1>8 DEF Ranked
  <2>1. n > 1 /\ n - 1 \in DOMAIN index /\ index'[n] = index[n - 1] /\ index[n - 1] \in Listed
    <3>1. Len(index') \in Nat
      BY <1>2, <1>4, <1>8
    <3>2. n > 1
      BY <3>1
    <3> QED
      BY <1>2, <1>8, <3>2
  <2>2. CASE m = 1
    <3>1. index[n - 1].ts <= cap.ts /\ (cap.id > 0 => index[n - 1].id # cap.id)
      BY <1>1, <1>3, <2>1 DEF Stamped, NewRow
    <3>2. db # "ready" => index[n - 1].text # cap.text
      BY <1>1, <1>3, <2>1 DEF Apart
    <3> QED
      BY <1>2, <1>6, <1>8, <2>1, <2>2, <3>1, <3>2
  <2>3. CASE m > 1
    <3>1. m - 1 \in DOMAIN index /\ index'[m] = index[m - 1]
      BY <1>2, <1>8, <2>3
    <3>2. Len(index') \in Nat
      BY <1>2, <1>4, <1>8
    <3>3. m - 1 < n - 1
      BY <3>2
    <3>4. /\ index[m - 1].ts >= index[n - 1].ts
          /\ index[m - 1].id = index[n - 1].id => index[m - 1].id <= 0
          /\ db # "ready" => index[m - 1].text # index[n - 1].text
      BY <1>1, <2>1, <3>1, <3>3 DEF Ranked
    <3> QED
      BY <2>1, <3>1, <3>4
  <2>4. m = 1 \/ m > 1
    <3>1. Len(index') \in Nat
      BY <1>2, <1>4, <1>8
    <3> QED
      BY <3>1
  <2> QED
    BY <2>2, <2>3, <2>4
<1>16. NewestRead' /\ NewRow' /\ MovedUp' /\ Spreads'
  BY <1>1, <1>3 DEF NewestRead, NewRow, MovedUp, Touching, Spreads
<1>17. SameStamps'
  <2>1. \A r \in disk : r.id = x.id => r.ts = x.ts
    BY <1>1, <1>2, <1>3, <1>6 DEF NewRow
  <2> QED
    <3> SUFFICES ASSUME NEW e \in Listed', NEW r \in disk, r.id = e.id
                 PROVE  r.ts <= e.ts /\ (r.ts = e.ts \/ e.id \in loose')
      BY <1>3 DEF SameStamps
    <3>1. CASE e = x
      BY <1>2, <1>6, <2>1, <3>1
    <3>2. CASE e \in Listed
      <4>1. e.id \in loose => e.id \in loose'
        BY DEF ListEntry, Overtaken, Listed
      <4> QED
        BY <1>1, <1>3, <3>2, <4>1 DEF SameStamps, Touching
    <3> QED
      BY <1>12, <3>1, <3>2
<1>18. HaveRows'
  <2>1. loose' = Overtaken \intersect {e.id : e \in Listed'}
    BY DEF ListEntry, Listed
  <2>2. \A y \in Listed : Excused(y.id) => y.id \in Overtaken
    BY <1>3 DEF Excused, Overtaken
  <2>3. x.id > 0 => x.id \in Overtaken \/ \E r \in disk : r.id = x.id
    BY <1>1, <1>3, <1>6 DEF NewRow, Overtaken
  <2>4. \A e \in Listed' : e.id <= 0 \/ e.id \in Overtaken \/ \E r \in disk : r.id = e.id
    BY <1>1, <1>2, <1>6, <1>12, <2>2, <2>3 DEF HaveRows
  <2> QED
    BY <1>3, <2>1, <2>4 DEF HaveRows, Excused
<1>19. FewHidden'
  <2>1. ASSUME NEW e \in Listed', e # x, NEW r \in Hidden', r.ts > e.ts PROVE r \in Hidden
    <3>1. r \in disk /\ r.id \notin {y.id : y \in Listed'}
      BY <1>3, <2>1 DEF Hidden, IdsOf
    <3>2. r.id # cap.id
      BY <1>6, <1>10, <3>1
    <3>3. r.id \notin IdsOf(Listed)
      <4> SUFFICES ASSUME NEW d \in Listed, d.id = r.id PROVE FALSE
        BY DEF IdsOf
      <4>1. PICK j \in 1..K : d = index[j]
        BY <1>2
      <4>2. PICK k \in 1..K : k + 1 <= IndexEntries /\ e = index[k]
        BY <1>9, <2>1
      <4>3. ~ (j + 1 <= IndexEntries)
        BY <1>11, <3>1, <4>1
      <4>4. k < j
        BY <1>2, <1>4, <4>2, <4>3
      <4>5. e.ts >= d.ts
        BY <1>1, <1>2, <4>1, <4>2, <4>4 DEF Ranked
      <4>6. r.ts <= d.ts
        BY <1>1, <1>3, <3>1 DEF SameStamps
      <4>7. e.ts \in Int /\ d.ts \in Int /\ r.ts \in Int
        BY <1>2, <1>12, <2>1, <3>1
      <4> QED
        BY <2>1, <4>5, <4>6, <4>7
    <3> QED
      BY <3>1, <3>2, <3>3 DEF Hidden
  <2>2. \A r \in Hidden' : ~ (r.ts > x.ts)
    BY <1>1, <1>2, <1>3, <1>6 DEF Hidden, Stamped
  <2> QED
    <3>1. \A r, e : Tops(r, e)' => r.ts > e.ts /\ Tops(r, e)
      BY <1>3 DEF Tops, Touching
    <3>2. faults' >= faults /\ ThreadsTyped'
      BY <1>1, <1>3 DEF ClipInv, ThreadsTyped
    <3> QED
      BY <1>1, <1>12, <2>1, <2>2, <3>1, <3>2, HiddenStep
<1> QED
  BY <1>13, <1>14, <1>15, <1>16, <1>17, <1>18, <1>19 DEF PasteInv

\* What a filter keeps of the list, in its order.
LEMMA RetainedFacts ==
  ASSUME HalvesTyped, NEW P \in SUBSET DOMAIN index, index' = AtPlaces(index, P)
  PROVE  /\ \A e : e \in Listed' <=> \E i \in P : e = index[i]
         /\ \A m, n \in DOMAIN index' : m < n =>
              \E i, j \in P : i < j /\ index'[m] = index[i] /\ index'[n] = index[j]
<1> DEFINE t == AtPlaces(index, P)
<1>1. index \in Seq(Entry) /\ P \in SUBSET (1..Len(index)) /\ Len(index) \in Nat
  BY DEF HalvesTyped
<1>2. ToSet(t) \subseteq {index[i] : i \in P}
  BY <1>1, FilterFacts
<1>3. \A m, n \in DOMAIN t : m < n => \E i, j \in P : i < j /\ t[m] = index[i] /\ t[n] = index[j]
  BY <1>1, FilterOrder
<1>4. \A i \in P : \E n \in DOMAIN t : t[n] = index[i]
  BY <1>1, FilterKeeps
<1> HIDE DEF t
<1>5. ToSet(t) = {t[n] : n \in DOMAIN t}
  BY DEF ToSet
<1>6. index' = t /\ Listed' = ToSet(t)
  BY DEF t, Listed
<1>7. \A e : e \in ToSet(t) <=> \E i \in P : e = index[i]
  <2>1. \A e \in ToSet(t) : \E i \in P : e = index[i]
    BY <1>2
  <2>2. \A i \in P : index[i] \in ToSet(t)
    BY <1>4, <1>5
  <2> QED
    BY <2>1, <2>2
<1>8. \A m, n \in DOMAIN index' : m < n =>
        \E i, j \in P : i < j /\ index'[m] = index[i] /\ index'[n] = index[j]
  <2> SUFFICES ASSUME NEW m \in DOMAIN index', NEW n \in DOMAIN index', m < n
               PROVE  \E i, j \in P : i < j /\ index'[m] = index[i] /\ index'[n] = index[j]
    OBVIOUS
  <2>1. m \in DOMAIN t /\ n \in DOMAIN t
    BY <1>6
  <2>2. \E i, j \in P : i < j /\ t[m] = index[i] /\ t[n] = index[j]
    BY <1>3, <2>1
  <2>3. PICK i \in P, j \in P : i < j /\ t[m] = index[i] /\ t[n] = index[j]
    BY <2>2
  <2>4. index'[m] = index[i] /\ index'[n] = index[j]
    BY <1>6, <2>3
  <2> QED
    BY <2>3, <2>4
<1> QED
  BY <1>6, <1>7, <1>8

\* A prune takes no row of an entry it leaves in the list: what is newer is
\* listed too, hidden or a capture's, and what is as new is not too much.
LEMMA PruneKeeps ==
  ASSUME HalvesTyped, ThreadsTyped, FewHidden, Spreads, Prune,
         NEW e \in Listed, NEW r \in disk, r.id = e.id, r.ts = e.ts, r.ts >= Cutoff
  PROVE  r \in disk'
<1>1. CASE db # "ready"
  BY <1>1 DEF Prune
<1>2. CASE db = "ready"
  <2>17. PICK aged \in BOOLEAN, counted \in BOOLEAN :
           LET kept == IF aged THEN Unexpired(disk) ELSE disk
           IN  /\ disk' = IF counted THEN ToSet(FirstN(NewestFirst(kept), MaxEntries)) ELSE kept
               /\ unpruned' = ~ counted
               /\ IF aged /\ counted THEN UNCHANGED faults ELSE Fault
    BY <1>2 DEF Prune
  <2> DEFINE found == IF aged THEN Unexpired(disk) ELSE disk
             A == {q \in disk : q.ts = r.ts}
             B == {q \in disk : q.id \in IdsOf(Listed) \ {e.id}}
             C == {q \in Hidden : q.ts > e.ts}
             D == {q \in disk : q.id = cap.id}
             U == AtOrBefore(found, r)
             row == NewestFirst(found)
  <2>18. disk' = IF counted THEN ToSet(FirstN(row, MaxEntries)) ELSE found
    BY <2>17, Zenon
  <2>1. /\ IsFiniteSet(disk) /\ disk \subseteq Row /\ \A p, q \in disk : p.id = q.id => p = q
        /\ index \in Seq(Entry) /\ Len(index) <= IndexEntries
    BY DEF HalvesTyped
  <2>2. /\ \A q \in disk : q.ts \in Int /\ q.ts \in 0..MaxClock
        /\ e.ts \in Int /\ Len(index) \in Nat
    BY ListTypes
  <2>3. IndexEntries \in Nat /\ IndexEntries >= 1 /\ MaxEntries \in Nat
    BY ClipAssumption
  <2>4. /\ Cardinality(A) <= MaxEntries - 2 * IndexEntries + 1 - Leeway(MaxIncidents)
        /\ Leeway(faults) <= Leeway(MaxIncidents) /\ Leeway(faults) \in Nat /\ Leeway(MaxIncidents) \in Nat
    <3>1. SpreadBound = MaxEntries - 2 * IndexEntries + 1 - Leeway(MaxIncidents)
      BY DEF SpreadBound, Leeway
    <3>2. faults \in Nat /\ MaxIncidents \in Nat /\ faults <= MaxIncidents
      BY ClipAssumption DEF ThreadsTyped
    <3> QED
      BY <2>2, <3>1, <3>2, LeewayGrows DEF Spreads
  <2>5. Cardinality(C) <= IndexEntries - 1 + Leeway(faults)
    <3> DEFINE ids == {q.id : q \in {p \in Hidden : Tops(p, e)}}
               f == [q \in C |-> q.id]
    <3>1. Cardinality(ids) <= IndexEntries - 1 + Leeway(faults)
      BY DEF FewHidden
    <3>2. \A q \in C : q \in Hidden /\ Tops(q, e) /\ q.id \in ids /\ q \in disk
      BY DEF Tops, Hidden
    <3>3. f \in Injection(C, ids)
      BY <2>1, <3>2 DEF Injection, IsInjective
    <3>4. ids \subseteq 1..lastRow
      <4>1. \A q \in disk : q.id \in 1..lastRow
        BY ListTypes
      <4> QED
        BY <4>1 DEF Hidden
    <3> HIDE DEF ids, f, C
    <3>9. lastRow \in Int /\ 1 \in Int
      BY ListTypes
    <3>5. IsFiniteSet(1..lastRow)
      BY <3>9, FS_Interval
    <3>6. IsFiniteSet(ids)
      BY <3>4, <3>5, FS_Subset
    <3>7. IsFiniteSet(C) /\ Cardinality(C) <= Cardinality(ids)
      BY <3>3, <3>6, FS_Injection
    <3>8. Cardinality(C) \in Nat /\ Cardinality(ids) \in Nat
      BY <3>6, <3>7, FS_CardinalityType
    <3> QED
      BY <2>3, <2>4, <3>1, <3>7, <3>8
  <2>6. /\ A \subseteq disk /\ B \subseteq disk /\ C \subseteq disk /\ D \subseteq disk
        /\ found \subseteq disk /\ U \subseteq found /\ r \in found
    BY <1>2 DEF Hidden, AtOrBefore, Unexpired
  <2>7. U \subseteq A \union (B \union (C \union D))
    <3> SUFFICES ASSUME NEW q \in U PROVE q \in A \union (B \union (C \union D))
      OBVIOUS
    <3>1. q \in disk /\ (q = r \/ Newer(q, r))
      BY <2>6 DEF AtOrBefore
    <3>2. q.ts = r.ts \/ q.ts > r.ts
      BY <3>1 DEF Newer
    <3>3. q.id = r.id => q = r
      BY <2>1, <3>1
    <3>4. CASE q.ts = r.ts
      BY <3>1, <3>4
    <3>5. CASE q.ts > r.ts /\ q.id # r.id
      BY <3>1, <3>5 DEF Hidden
    <3> QED
      BY <2>2, <3>1, <3>2, <3>3, <3>4, <3>5
  <2>8. IsFiniteSet(B) /\ Cardinality(B) <= IndexEntries - 1
    <3> DEFINE ids == IdsOf(Listed)
               others == ids \ {e.id}
               f == [q \in B |-> q.id]
               g == [y \in Listed |-> y.id]
    <3>1. IsFiniteSet(B)
      BY <2>1, <2>6, FS_Subset
    <3>2. f \in Injection(B, others)
      BY <2>1, <2>6 DEF Injection, IsInjective
    <3>3. IsFiniteSet(Listed) /\ Cardinality(Listed) <= Len(index)
      BY <2>1, ItemsFacts DEF Listed
    <3>4. g \in Surjection(Listed, ids)
      BY DEF Surjection, IdsOf
    <3>5. e.id \in ids
      BY DEF IdsOf
    <3> HIDE DEF ids, f, g, B
    <3>6. IsFiniteSet(ids) /\ Cardinality(ids) <= Cardinality(Listed)
      BY <3>3, <3>4, FS_Surjection
    <3>7. IsFiniteSet(others) /\ Cardinality(others) = Cardinality(ids) - 1
      BY <3>5, <3>6, FS_RemoveElement
    <3> HIDE DEF others
    <3>8. Cardinality(B) <= Cardinality(others)
      BY <3>2, <3>7, FS_Injection
    <3>9. /\ Cardinality(B) \in Nat /\ Cardinality(others) \in Nat /\ Cardinality(ids) \in Nat
          /\ Cardinality(Listed) \in Nat
      BY <3>1, <3>3, <3>6, <3>7, FS_CardinalityType
    <3> QED
      BY <2>1, <2>2, <2>3, <3>1, <3>3, <3>6, <3>7, <3>8, <3>9
  <2>9. IsFiniteSet(D) /\ Cardinality(D) <= 1
    <3> DEFINE f == [q \in D |-> cap.id]
    <3>1. IsFiniteSet(D)
      BY <2>1, <2>6, FS_Subset
    <3>2. f \in Injection(D, {cap.id})
      BY <2>1, <2>6 DEF Injection, IsInjective
    <3>3. IsFiniteSet({cap.id}) /\ Cardinality({cap.id}) = 1
      BY FS_Singleton
    <3> HIDE DEF D, f
    <3> QED
      BY <3>1, <3>2, <3>3, FS_Injection
  <2>10. IsFiniteSet(A) /\ IsFiniteSet(C) /\ IsFiniteSet(found)
    BY <2>1, <2>6, FS_Subset
  <2> HIDE DEF A, B, C, D, U, found
  <2>11. IsFiniteSet(U) /\ Cardinality(U) \in Nat
    BY <2>6, <2>10, FS_Subset, FS_CardinalityType
  <2>12. Cardinality(U) <= MaxEntries
    <3>1. /\ IsFiniteSet(C \union D)
          /\ Cardinality(C \union D) = Cardinality(C) + Cardinality(D) - Cardinality(C \intersect D)
      BY <2>9, <2>10, FS_Union
    <3>2. /\ IsFiniteSet(B \union (C \union D))
          /\ Cardinality(B \union (C \union D)) =
               Cardinality(B) + Cardinality(C \union D) - Cardinality(B \intersect (C \union D))
      BY <2>8, <3>1, FS_Union
    <3>3. /\ IsFiniteSet(A \union (B \union (C \union D)))
          /\ Cardinality(A \union (B \union (C \union D))) =
               Cardinality(A) + Cardinality(B \union (C \union D)) - Cardinality(A \intersect (B \union (C \union D)))
      BY <2>10, <3>2, FS_Union
    <3>4. Cardinality(U) <= Cardinality(A \union (B \union (C \union D)))
      BY <2>7, <3>3, FS_Subset
    <3>5. IsFiniteSet(C \intersect D) /\ IsFiniteSet(B \intersect (C \union D)) /\ IsFiniteSet(A \intersect (B \union (C \union D)))
      BY <2>8, <2>10, FS_Subset
    <3>6. /\ Cardinality(A) \in Nat /\ Cardinality(B) \in Nat /\ Cardinality(C) \in Nat /\ Cardinality(D) \in Nat
          /\ Cardinality(C \intersect D) \in Nat /\ Cardinality(B \intersect (C \union D)) \in Nat
          /\ Cardinality(A \intersect (B \union (C \union D))) \in Nat
      BY <2>8, <2>9, <2>10, <3>5, FS_CardinalityType
    <3>7. /\ Cardinality(C \union D) \in Nat /\ Cardinality(B \union (C \union D)) \in Nat
          /\ Cardinality(A \union (B \union (C \union D))) \in Nat
      BY <3>1, <3>2, <3>3, FS_CardinalityType
    <3> QED
      BY <2>3, <2>4, <2>5, <2>8, <2>9, <2>11, <3>1, <3>2, <3>3, <3>4, <3>6, <3>7
  <2>13. /\ row \in Seq(found) /\ Len(row) = Cardinality(found) /\ Cardinality(found) \in Nat
         /\ Cardinality(U) \in 1..Cardinality(found) /\ row[Cardinality(U)] = r
    <3>1. found \in SUBSET Row /\ \A p, q \in found : p.id = q.id => p = q
      BY <2>1, <2>6
    <3> QED
      BY <2>6, <2>10, <3>1, NewestFacts DEF U
  <2> DEFINE t == FirstN(row, MaxEntries)
  <2>14. disk' = ToSet(t) \/ disk' = found
    BY <2>18
  <2> HIDE DEF row
  <2>15. /\ t \in Seq(found) /\ Len(t) = (IF Len(row) < MaxEntries THEN Len(row) ELSE MaxEntries)
         /\ \A i \in 1..Len(t) : t[i] = row[i]
    BY <2>3, <2>13, FirstNFacts
  <2> HIDE DEF t
  <2>16. Cardinality(U) \in 1..Len(t) /\ DOMAIN t = 1..Len(t)
    BY <2>3, <2>12, <2>13, <2>15
  <2> QED
    BY <2>6, <2>13, <2>14, <2>15, <2>16 DEF ToSet
<1> QED
  BY <1>1, <1>2

LEMMA PrunePaste ==
  ASSUME ClipInv, ClipInv', PasteInv, ListenerPrunes \/ LoaderPrunes
  PROVE  PasteInv'
<1> DEFINE P == {i \in DOMAIN index : index[i].ts >= Cutoff}
<1>1. /\ HalvesTyped /\ ThreadsTyped /\ StageInv /\ Stamped /\ Ranked /\ Apart /\ NewestRead /\ NewRow
      /\ MovedUp /\ SameStamps /\ HaveRows /\ FewHidden /\ Spreads
  BY DEF ClipInv, PasteInv
<1>2. /\ \A r \in disk : r.ts \in Int /\ r.id \in Int /\ r.id > 0
      /\ \A e \in Listed : e.id \in Int /\ e.ts \in Int
      /\ \A i \in DOMAIN index : index[i] \in Listed
      /\ \A e \in Listed : \E i \in DOMAIN index : e = index[i]
      /\ cap.ts \in Int /\ now \in Int
  BY <1>1, ListTypes
<1>3. Prune /\ UNCHANGED <<db, given, now, loose>>
  BY DEF ListenerPrunes, LoaderPrunes, outside
<1>4. /\ \/ cap.pc = "prune" /\ cap'.pc = "idle"
         \/ db = "ready" /\ cap' = Racing
      /\ \/ loader' = loader
         \/ loader'.pc # "opened"
  <2>1. CASE ListenerPrunes
    BY <2>1 DEF ListenerPrunes, Idle
  <2>2. CASE LoaderPrunes
    BY <1>1, <2>2 DEF LoaderPrunes, StageInv, ThreadsTyped
  <2> QED
    BY <2>1, <2>2
<1>5. /\ Racing.pc = cap.pc /\ Racing.id = cap.id /\ Racing.ts = cap.ts /\ Racing.text = cap.text
      /\ cap.pc \in {"store", "list", "touch"} => Racing.raced
  BY <1>1, RacingFacts
<1>6. /\ \A e : e \in Listed' <=> e \in Listed /\ e.ts >= Cutoff
      /\ \A m, n \in DOMAIN index' : m < n =>
           \E i, j \in DOMAIN index : i < j /\ index'[m] = index[i] /\ index'[n] = index[j]
  <2>1. index' = AtPlaces(index, P) /\ P \in SUBSET DOMAIN index
    BY <1>3 DEF Prune, Retained
  <2>2. \A i : i \in P <=> i \in DOMAIN index /\ index[i].ts >= Cutoff
    OBVIOUS
  <2> HIDE DEF P
  <2>3. /\ \A e : e \in Listed' <=> \E i \in P : e = index[i]
        /\ \A m, n \in DOMAIN index' : m < n =>
             \E i, j \in P : i < j /\ index'[m] = index[i] /\ index'[n] = index[j]
    BY <1>1, <2>1, RetainedFacts
  <2>4. \A e : e \in Listed' <=> e \in Listed /\ e.ts >= Cutoff
    BY <1>2, <2>2, <2>3
  <2>5. \A m, n \in DOMAIN index' : m < n =>
           \E i, j \in DOMAIN index : i < j /\ index'[m] = index[i] /\ index'[n] = index[j]
    BY <2>2, <2>3
  <2> QED
    BY <2>4, <2>5
<1>7. disk' \subseteq disk /\ (db # "ready" => disk' = disk)
  BY <1>1, <1>3, PruneFacts DEF Prune
<1>9. \A e \in Listed, r \in disk : e \in Listed' /\ r.id = e.id /\ r.ts = e.ts => r \in disk'
  <2> SUFFICES ASSUME NEW e \in Listed, NEW r \in disk, e \in Listed', r.id = e.id, r.ts = e.ts
               PROVE  r \in disk'
    OBVIOUS
  <2>1. r.ts >= Cutoff
    BY <1>6
  <2> QED
    BY <1>1, <1>3, <2>1, PruneKeeps
<1>10. cap'.pc \in {"touch", "store", "list"} => cap'.pc = cap.pc /\ cap'.ts = cap.ts /\ cap'.id = cap.id
                                                /\ cap'.text = cap.text /\ cap'.raced /\ db = "ready"
  BY <1>4, <1>5
<1>11. Stamped'
  BY <1>1, <1>3, <1>6, <1>7, <1>10 DEF Stamped
<1>12. Apart'
  BY <1>1, <1>3, <1>6, <1>7, <1>10 DEF Apart
<1>13. Ranked'
  <2> SUFFICES ASSUME NEW m \in DOMAIN index', NEW n \in DOMAIN index', m < n
               PROVE  /\ index'[m].ts >= index'[n].ts
                      /\ index'[m].id = index'[n].id => index'[m].id <= 0
                      /\ db # "ready" => index'[m].text # index'[n].text
    BY <1>3 DEF Ranked
  <2>1. PICK i \in DOMAIN index, j \in DOMAIN index : i < j /\ index'[m] = index[i] /\ index'[n] = index[j]
    BY <1>6
  <2> QED
    BY <1>1, <2>1 DEF Ranked
<1>14. NewestRead'
  <2>1. loader'.pc = "opened" => loader' = loader /\ db # "ready"
    BY <1>1, <1>4 DEF StageInv
  <2> QED
    BY <1>1, <1>7, <2>1 DEF NewestRead
<1>15. NewRow'
  BY <1>1, <1>3, <1>6, <1>7, <1>10 DEF NewRow
<1>16. \A id : Touching(id)' <=> Touching(id)
  BY <1>4, <1>5 DEF Touching
<1>17. MovedUp'
  BY <1>1, <1>6, <1>10, <1>16 DEF MovedUp, Touching
<1>18. SameStamps'
  BY <1>1, <1>3, <1>6, <1>7, <1>16 DEF SameStamps
<1>19. HaveRows'
  <2> SUFFICES ASSUME NEW e \in Listed', e.id > 0, ~ Excused(e.id)'
               PROVE  \E r \in disk' : r.id = e.id
    BY <1>2, <1>6 DEF HaveRows
  <2>1. e \in Listed /\ e.id \in Int
    BY <1>2, <1>6
  <2>2. cap.pc = "touch" => cap'.pc = "touch" /\ cap'.id = cap.id /\ cap'.raced
    BY <1>4, <1>5
  <2>3. ~ Excused(e.id) /\ ~ (cap.pc = "touch" /\ e.id = cap.id)
    BY <1>3, <2>2 DEF Excused
  <2>4. PICK r \in disk : r.id = e.id
    BY <1>1, <2>1, <2>3 DEF HaveRows
  <2>5. r.ts = e.ts
    BY <1>1, <2>1, <2>3, <2>4 DEF SameStamps, Excused, Touching
  <2> QED
    BY <1>9, <2>1, <2>4, <2>5
<1>20. FewHidden'
  <2>1. ASSUME NEW e \in Listed', NEW r \in Hidden', Tops(r, e)'
        PROVE  r \in Hidden /\ Tops(r, e)
    <3>1. r \in disk /\ r.id \notin IdsOf(Listed') /\ ~ (cap'.pc = "list" /\ r.id = cap'.id)
      BY <1>7 DEF Hidden, IdsOf
    <3>2. Tops(r, e)
      BY <1>10, <1>16, <2>1 DEF Tops, Touching
    <3>3. ~ (cap.pc = "list" /\ r.id = cap.id)
      BY <1>4, <1>5, <3>1
    <3>4. r.id \notin IdsOf(Listed)
      <4> SUFFICES ASSUME NEW d \in Listed, d.id = r.id PROVE FALSE
        BY DEF IdsOf
      <4>1. ~ (d.ts >= Cutoff) /\ e.ts >= Cutoff /\ e \in Listed
        BY <1>6, <3>1 DEF IdsOf
      <4>2. r.ts <= d.ts
        BY <1>1, <3>1 DEF SameStamps
      <4>3. Touching(r.id) => d.ts = cap.ts
        BY <1>1, <1>2, <3>1 DEF MovedUp
      <4>4. Cutoff \in Int
        BY <1>2, ClipAssumption DEF Cutoff
      <4> QED
        BY <1>2, <3>1, <3>2, <4>1, <4>2, <4>3, <4>4 DEF Tops
    <3> QED
      BY <3>1, <3>2, <3>3, <3>4 DEF Hidden
  <2>2. faults' >= faults /\ ThreadsTyped'
    BY <1>1, <1>3, PruneFacts DEF ClipInv, Counted
  <2> QED
    BY <1>1, <1>6, <2>1, <2>2, HiddenStep
<1>21. Spreads'
  BY <1>1, <1>7, SpreadStep
<1> QED
  BY <1>11, <1>12, <1>13, <1>14, <1>15, <1>17, <1>18, <1>19, <1>20, <1>21 DEF PasteInv

LEMMA DeletePaste ==
  ASSUME ClipInv, ClipInv', PasteInv, Delete
  PROVE  PasteInv'
<1>1. PICK s \in given :
        /\ index' = AtPlaces(index, {i \in DOMAIN index : index[i].id # s.id})
        /\ DeleteAllBut({r \in disk : r.id # s.id})
  BY DEF Delete, Retained
<1> DEFINE P == {i \in DOMAIN index : index[i].id # s.id}
<1>2. /\ HalvesTyped /\ ThreadsTyped /\ StageInv /\ Stamped /\ Ranked /\ Apart /\ NewestRead /\ NewRow
      /\ MovedUp /\ SameStamps /\ HaveRows /\ FewHidden /\ Spreads
  BY DEF ClipInv, PasteInv
<1>3. /\ \A r \in disk : r.ts \in Int /\ r.id \in Int /\ r.id > 0
      /\ \A e \in Listed : e.id \in Int /\ e.ts \in Int
      /\ \A i \in DOMAIN index : index[i] \in Listed
      /\ \A e \in Listed : \E i \in DOMAIN index : e = index[i]
      /\ cap.id \in Int
  BY <1>2, ListTypes
<1>4. UNCHANGED <<db, given, now, loose, cap, loader>>
  BY DEF Delete, outside, ghosts, threads
<1>5. /\ \A e : e \in Listed' <=> e \in Listed /\ e.id # s.id
      /\ \A m, n \in DOMAIN index' : m < n =>
           \E i, j \in DOMAIN index : i < j /\ index'[m] = index[i] /\ index'[n] = index[j]
  <2>1. index' = AtPlaces(index, P) /\ P \in SUBSET DOMAIN index
    BY <1>1
  <2>2. \A i : i \in P <=> i \in DOMAIN index /\ index[i].id # s.id
    OBVIOUS
  <2> HIDE DEF P
  <2>3. /\ \A e : e \in Listed' <=> \E i \in P : e = index[i]
        /\ \A m, n \in DOMAIN index' : m < n =>
             \E i, j \in P : i < j /\ index'[m] = index[i] /\ index'[n] = index[j]
    BY <1>2, <2>1, RetainedFacts
  <2>4. \A e : e \in Listed' <=> e \in Listed /\ e.id # s.id
    BY <1>3, <2>2, <2>3
  <2>5. \A m, n \in DOMAIN index' : m < n =>
           \E i, j \in DOMAIN index : i < j /\ index'[m] = index[i] /\ index'[n] = index[j]
    BY <2>2, <2>3
  <2> QED
    BY <2>4, <2>5
<1>6. /\ disk' \subseteq disk /\ (db # "ready" => disk' = disk)
      /\ \A r \in disk : r.id # s.id => r \in disk'
      /\ \/ db # "ready"
         \/ \A r \in disk' : r.id # s.id
         \/ faults' = faults + 1
      /\ faults' >= faults /\ ThreadsTyped' /\ faults \in Nat
  <2>1. faults' >= faults
    BY <1>1, <1>2, FaultFacts DEF DeleteAllBut, Counted
  <2> QED
    BY <1>1, <1>2, <2>1 DEF DeleteAllBut, Fault, ClipInv, ThreadsTyped
<1>7. Stamped' /\ Apart'
  BY <1>2, <1>4, <1>5, <1>6 DEF Stamped, Apart
<1>8. Ranked'
  <2> SUFFICES ASSUME NEW m \in DOMAIN index', NEW n \in DOMAIN index', m < n
               PROVE  /\ index'[m].ts >= index'[n].ts
                      /\ index'[m].id = index'[n].id => index'[m].id <= 0
                      /\ db # "ready" => index'[m].text # index'[n].text
    BY <1>4 DEF Ranked
  <2>1. PICK i \in DOMAIN index, j \in DOMAIN index : i < j /\ index'[m] = index[i] /\ index'[n] = index[j]
    BY <1>5
  <2> QED
    BY <1>2, <2>1 DEF Ranked
<1>9. NewestRead'
  <2>1. loader.pc = "opened" => db # "ready"
    BY <1>2 DEF StageInv
  <2> QED
    BY <1>2, <1>4, <1>6, <2>1 DEF NewestRead
<1>10. NewRow'
  <2> SUFFICES ASSUME cap.pc = "list", cap.id > 0
               PROVE  /\ \A e \in Listed' \union given : e.id # cap.id
                      /\ \A r \in disk' : r.id = cap.id => r.ts = cap.ts
                      /\ cap.raced \/ \E r \in disk' : r.id = cap.id
    BY <1>4 DEF NewRow
  <2>1. s.id # cap.id
    BY <1>2 DEF NewRow
  <2> QED
    BY <1>2, <1>5, <1>6, <2>1 DEF NewRow
<1>11. MovedUp'
  BY <1>2, <1>4, <1>5 DEF MovedUp, Touching
<1>12. SameStamps'
  BY <1>2, <1>4, <1>5, <1>6 DEF SameStamps, Touching
<1>13. HaveRows'
  <2>1. \A id : Excused(id)' <=> Excused(id)
    BY <1>4 DEF Excused
  <2> QED
    BY <1>2, <1>5, <1>6, <2>1 DEF HaveRows
<1>16. \A r, e : Tops(r, e)' <=> Tops(r, e)
  BY <1>4 DEF Tops, Touching
<1>14. FewHidden'
  <2>1. CASE s.id \notin IdsOf(Listed) \/ \A r \in disk' : r.id # s.id
    <3>1. Hidden' \subseteq Hidden
      BY <1>4, <1>5, <1>6, <2>1 DEF Hidden, IdsOf
    <3> QED
      BY <1>2, <1>5, <1>6, <1>16, <3>1, HiddenStep
  <2>2. CASE db # "ready"
    <3>1. \A e \in Listed', r \in Hidden' : r \in disk /\ r.ts <= e.ts /\ e \in Listed
      BY <1>2, <1>5, <1>6, <2>2 DEF Apart, Hidden
    <3>2. \A r \in disk : ~ Touching(r.id)
      <4>1. cap.pc = "touch" => cap.id <= 0
        BY <1>2, <2>2 DEF StageInv, Carried
      <4> QED
        BY <1>3, <4>1 DEF Touching
    <3>3. \A e \in Listed', r \in Hidden' : ~ Tops(r, e)'
      BY <1>3, <1>16, <3>1, <3>2 DEF Tops
    <3> QED
      BY <1>2, <1>6, <3>3, HiddenStep
  \* A refused DELETE hides one row more, under an entry that is not the only one.
  <2>3. CASE s.id \in IdsOf(Listed) /\ faults' = faults + 1
    <3> SUFFICES ASSUME NEW e \in Listed'
                 PROVE  Cardinality({r.id : r \in {q \in Hidden' : Tops(q, e)'}})
                          <= IndexEntries - 1 + Leeway(faults')
      BY DEF FewHidden
    <3> DEFINE A == {r.id : r \in {q \in Hidden : Tops(q, e)}}
               B == {r.id : r \in {q \in Hidden' : Tops(q, e)'}}
    <3>1. e \in Listed /\ e.id # s.id
      BY <1>5
    <3>2. IndexEntries # 1
      <4>1. PICK d \in Listed : d.id = s.id
        BY <2>3 DEF IdsOf
      <4>2. PICK i \in DOMAIN index, j \in DOMAIN index : e = index[i] /\ d = index[j]
        BY <1>3, <3>1, <4>1
      <4>3. Len(index) \in Nat /\ DOMAIN index = 1..Len(index) /\ Len(index) <= IndexEntries
        BY <1>2, ListTypes DEF HalvesTyped
      <4>4. i # j
        BY <3>1, <4>1, <4>2
      <4>5. IndexEntries \in Nat
        BY ClipAssumption
      <4> QED
        BY <4>2, <4>3, <4>4, <4>5
    <3>3. Leeway(faults') = faults + 1 /\ Leeway(faults) = faults
      BY <2>3, <3>2 DEF Leeway
    <3>4. Cardinality(A) <= IndexEntries - 1 + faults
      <4>1. Cardinality({r.id : r \in {q \in Hidden : Tops(q, e)}}) <= IndexEntries - 1 + Leeway(faults)
        <5> HIDE DEF A, B
        <5> QED
          BY <1>2, <3>1 DEF FewHidden
      <4>2. Cardinality(A) <= IndexEntries - 1 + Leeway(faults)
        BY <4>1, Zenon
      <4> HIDE DEF A
      <4> QED
        BY <3>3, <4>2
    <3>5. \A r \in Hidden' : r.id # s.id => r \in Hidden
      BY <1>4, <1>5, <1>6 DEF Hidden, IdsOf
    <3>6. B \subseteq A \union {s.id}
      BY <1>16, <3>5
    <3>7. A \subseteq 1..lastRow
      <4>1. \A r \in disk : r.id \in 1..lastRow
        BY <1>2, ListTypes
      <4> QED
        BY <4>1 DEF Hidden
    <3> HIDE DEF A, B
    <3>14. lastRow \in Int /\ 1 \in Int
      BY <1>2, ListTypes
    <3>8. IsFiniteSet(1..lastRow)
      BY <3>14, FS_Interval
    <3>9. IsFiniteSet(A) /\ Cardinality(A) \in Nat
      BY <3>7, <3>8, FS_Subset, FS_CardinalityType
    <3>10. IsFiniteSet(A \union {s.id}) /\ Cardinality(A \union {s.id}) <= Cardinality(A) + 1
      <4>1. /\ IsFiniteSet(A \union {s.id})
            /\ Cardinality(A \union {s.id}) = IF s.id \in A THEN Cardinality(A) ELSE Cardinality(A) + 1
        BY <3>9, FS_AddElement
      <4> QED
        BY <3>9, <4>1
    <3>11. IsFiniteSet(B) /\ Cardinality(B) <= Cardinality(A \union {s.id})
      BY <3>6, <3>10, FS_Subset
    <3>12. Cardinality(B) \in Nat /\ Cardinality(A \union {s.id}) \in Nat /\ IndexEntries \in Nat
      BY <3>10, <3>11, FS_CardinalityType, ClipAssumption
    <3>13. Cardinality(B) <= IndexEntries - 1 + Leeway(faults')
      BY <1>6, <3>3, <3>4, <3>9, <3>10, <3>11, <3>12
    <3> QED
      BY <3>13 DEF B
  <2> QED
    BY <1>6, <2>1, <2>2, <2>3
<1>15. Spreads'
  BY <1>2, <1>6, SpreadStep
<1> QED
  BY <1>7, <1>8, <1>9, <1>10, <1>11, <1>12, <1>13, <1>14, <1>15 DEF PasteInv

LEMMA EmptyPaste ==
  ASSUME ClipInv, ClipInv', PasteInv, Clear \/ Restart
  PROVE  PasteInv'
<1>1. /\ HalvesTyped /\ ThreadsTyped /\ StageInv /\ Stamped /\ NewestRead /\ NewRow /\ FewHidden /\ Spreads
  BY DEF ClipInv, PasteInv
<1>2. /\ \A r \in disk : r.ts \in Int /\ r.id \in Int /\ r.id > 0
      /\ cap.id \in Int
  BY <1>1, ListTypes
<1>3. index' = <<>> /\ Listed' = {} /\ disk' \subseteq disk /\ now' = now
  BY DEF Clear, DeleteAllBut, Restart, Listed, ToSet, stored, outside
<1>4. /\ \/ cap'.pc = "idle"
         \/ /\ cap' = Racing /\ UNCHANGED <<db, loader, given>>
            /\ disk' \subseteq disk /\ (db # "ready" => disk' = disk)
      /\ loader'.pc = "opened" => loader' = loader /\ disk' = disk
  <2>1. CASE Clear
    <3>1. cap' = Racing /\ UNCHANGED <<db, loader, given>> /\ disk' \subseteq disk
          /\ (db # "ready" => disk' = disk)
      BY <2>1 DEF Clear, DeleteAllBut, outside
    <3> QED
      BY <1>1, <3>1 DEF StageInv
  <2>2. CASE Restart
    BY <2>2 DEF Restart, Idle
  <2> QED
    BY <2>1, <2>2
<1>5. /\ Racing.pc = cap.pc /\ Racing.id = cap.id /\ Racing.ts = cap.ts
      /\ cap.pc \in {"store", "list", "touch"} => Racing.raced
  BY <1>1, RacingFacts
<1>6. Stamped'
  BY <1>1, <1>3, <1>4, <1>5 DEF Stamped
<1>7. Ranked' /\ Apart' /\ SameStamps' /\ HaveRows' /\ FewHidden'
  BY <1>3 DEF Ranked, Apart, SameStamps, HaveRows, FewHidden
<1>8. NewestRead'
  BY <1>1, <1>4 DEF NewestRead
<1>9. NewRow'
  BY <1>1, <1>3, <1>4, <1>5 DEF NewRow
<1>10. MovedUp'
  BY <1>3 DEF MovedUp
<1>11. Spreads'
  BY <1>1, <1>3, SpreadStep
<1> QED
  BY <1>6, <1>7, <1>8, <1>9, <1>10, <1>11 DEF PasteInv

\* open_db reads the newest rows, each once, the newest first.
LEMMA OpenReads ==
  ASSUME HalvesTyped, ThreadsTyped, OpenDb
  PROVE  NewestRead'
<1> DEFINE found == Unexpired(disk)
           row == NewestFirst(found)
           t == FirstN(row, IndexEntries)
           Rank(r) == Cardinality(AtOrBefore(found, r))
<1>1. /\ found \subseteq disk /\ IsFiniteSet(disk) /\ disk \subseteq Row
      /\ \A r, q \in disk : r.id = q.id => r = q
      /\ \A r \in disk : r \in found <=> r.ts >= Cutoff
  BY DEF HalvesTyped, Unexpired
<1>2. /\ \A r \in disk : r.ts \in Int
      /\ Cutoff \in Int
  <2>1. now \in Int /\ \A r \in disk : r.ts \in Int
    BY ListTypes
  <2> QED
    BY <2>1, ClipAssumption DEF Cutoff
<1>3. loader' = [pc |-> "opened", rows |-> t] /\ disk' = disk
  BY DEF OpenDb, stored
<1> HIDE DEF found
<1>4. IsFiniteSet(found) /\ IndexEntries \in Nat
  BY <1>1, FS_Subset, ClipAssumption
<1>5. /\ row \in Seq(found) /\ Len(row) = Cardinality(found) /\ Cardinality(found) \in Nat
      /\ \A r \in found : Rank(r) \in 1..Len(row) /\ row[Rank(r)] = r
      /\ \A n \in 1..Len(row) : Rank(row[n]) = n
      /\ \A r, q \in found : q.ts > r.ts => Rank(q) < Rank(r)
  <2>1. found \in SUBSET Row /\ \A p, q \in found : p.id = q.id => p = q
    BY <1>1
  <2> QED
    BY <1>4, <2>1, NewestFacts
<1> HIDE DEF row, Rank
<1>6. /\ t \in Seq(found) /\ Len(t) = (IF Len(row) < IndexEntries THEN Len(row) ELSE IndexEntries)
      /\ \A i \in 1..Len(t) : i \in 1..Len(row) /\ t[i] = row[i]
  BY <1>4, <1>5, FirstNFacts
<1> HIDE DEF t
<1>7. DOMAIN t = 1..Len(t) /\ Len(t) \in Nat /\ Len(row) \in Nat /\ Len(t) <= IndexEntries
  BY <1>4, <1>5, <1>6
<1>8. ToSet(t) \subseteq found /\ ToSet(t) = {t[i] : i \in 1..Len(t)}
  BY <1>6, ItemsFacts
<1>9. \A i \in 1..Len(t) : Rank(t[i]) = i /\ t[i] \in found
  BY <1>5, <1>6, <1>8
<1>10. \A i, j \in 1..Len(t) : i < j => t[i].ts >= t[j].ts /\ t[i] # t[j]
  <2> SUFFICES ASSUME NEW i \in 1..Len(t), NEW j \in 1..Len(t), i < j PROVE t[i].ts >= t[j].ts /\ t[i] # t[j]
    OBVIOUS
  <2>1. Rank(t[i]) = i /\ Rank(t[j]) = j /\ t[i] \in found /\ t[j] \in found /\ i \in Int /\ j \in Int
    BY <1>7, <1>9
  <2>2. ~ (t[j].ts > t[i].ts)
    BY <1>5, <2>1
  <2>3. t[i].ts \in Int /\ t[j].ts \in Int
    BY <1>1, <1>2, <2>1
  <2> QED
    BY <2>1, <2>2, <2>3
<1>11. \A x \in ToSet(t), r \in disk : r.ts > x.ts => r \in ToSet(t)
  <2> SUFFICES ASSUME NEW x \in ToSet(t), NEW r \in disk, r.ts > x.ts PROVE r \in ToSet(t)
    OBVIOUS
  <2>1. PICK i \in 1..Len(t) : x = t[i]
    BY <1>8
  <2>2. x \in found /\ x.ts >= Cutoff /\ x.ts \in Int
    BY <1>1, <1>2, <1>8
  <2>3. r \in found
    BY <1>1, <1>2, <2>2
  <2>4. Rank(r) < i /\ Rank(r) \in 1..Len(row) /\ row[Rank(r)] = r
    BY <1>5, <1>9, <2>1, <2>2, <2>3
  <2> DEFINE n == Rank(r)
  <2> HIDE DEF n
  <2>5. n \in 1..Len(t) /\ row[n] = r
    <3>1. n < i /\ n \in 1..Len(row) /\ row[n] = r
      BY <2>4 DEF n
    <3> QED
      BY <1>7, <3>1
  <2>6. t[n] = r
    BY <1>6, <2>5
  <2> QED
    BY <1>8, <2>5, <2>6
<1> QED
  BY <1>1, <1>3, <1>7, <1>8, <1>10, <1>11 DEF NewestRead

LEMMA IdlePaste ==
  ASSUME ClipInv, ClipInv', PasteInv,
         \/ Tick \/ CheckEnabled \/ ReadClipboard \/ Missing \/ LoadFails \/ OpenDb
         \/ ShowHistory \/ SetEnabled \/ UNCHANGED clipVars
  PROVE  PasteInv'
<1> USE DEF stored, memory, threads, outside, budget, ghosts
<1>1. /\ HalvesTyped /\ ThreadsTyped /\ StageInv /\ Stamped /\ Apart /\ NewestRead
  BY DEF ClipInv, PasteInv
<1>2. /\ \A r \in disk : r.ts \in Int
      /\ \A e \in Listed : e.ts \in Int
      /\ cap.ts \in Int /\ now \in Int
  BY <1>1, ListTypes
<1>3. UNCHANGED <<disk, index, loose>> /\ faults' >= faults
  <2>1. UNCHANGED <<disk, index, loose>> /\ (UNCHANGED faults \/ Fault)
    BY DEF Tick, CheckEnabled, ReadClipboard, Missing, LoadFails, OpenDb, ShowHistory, SetEnabled, clipVars
  <2> QED
    BY <1>1, <2>1, FaultFacts DEF Counted
<1>4. Listed' = Listed
  BY <1>3 DEF Listed
<1>5. CASE CheckEnabled \/ ReadClipboard \/ Missing
  <2>1. UNCHANGED <<db, loader, given, now>>
    BY <1>5 DEF CheckEnabled, ReadClipboard, Missing
  <2>2. /\ cap.pc \notin {"touch", "list"} /\ cap'.pc \notin {"touch", "list"}
        /\ cap'.pc = "store" => cap'.ts = now /\ \A e \in Listed : e.text # cap'.text
    <3>1. CASE CheckEnabled
      BY <3>1 DEF CheckEnabled, Idle
    <3>2. CASE ReadClipboard
      <4>1. cap' = Idle \/ \E x \in Texts : cap' = [cap EXCEPT !.pc = "find", !.text = x]
        BY <3>2 DEF ReadClipboard
      <4>2. cap'.pc \in {"idle", "find"}
        <5>1. CASE cap' = Idle
          BY <5>1 DEF Idle
        <5>2. CASE \E x \in Texts : cap' = [cap EXCEPT !.pc = "find", !.text = x]
          BY <1>1, <5>2 DEF ThreadsTyped
        <5> QED
          BY <4>1, <5>1, <5>2
      <4> QED
        BY <3>2, <4>2 DEF ReadClipboard
    <3>3. CASE Missing
      BY <1>1, <3>3 DEF Missing, ThreadsTyped
    <3> QED
      BY <1>5, <3>1, <3>2, <3>3
  <2>3. Stamped' /\ Apart' /\ NewestRead'
    BY <1>1, <1>2, <1>3, <1>4, <2>1, <2>2 DEF Stamped, Apart, NewestRead
  <2> QED
    BY <1>3, <2>1, <2>2, <2>3, QuietPaste
<1>6. CASE Tick \/ LoadFails \/ OpenDb \/ ShowHistory \/ SetEnabled \/ UNCHANGED clipVars
  <2>1. cap' = cap /\ (now' = now \/ now' = now + 1)
    BY <1>6 DEF Tick, LoadFails, OpenDb, ShowHistory, SetEnabled, clipVars
  <2>2. db' = db \/ (db = "loading" /\ db' # "ready")
    BY <1>1, <1>6 DEF Tick, LoadFails, OpenDb, ShowHistory, SetEnabled, clipVars, StageInv
  <2>3. \A s \in given' : s \in given \/ \E e \in Listed : e.id = s.id
    <3>1. CASE ShowHistory
      BY <3>1 DEF ShowHistory
    <3>2. CASE given' = given
      BY <3>2
    <3> QED
      BY <1>6, <3>1, <3>2 DEF Tick, LoadFails, OpenDb, SetEnabled, clipVars
  <2>4. Stamped'
    BY <1>1, <1>2, <1>3, <1>4, <2>1 DEF Stamped
  <2>5. Apart'
    BY <1>1, <1>3, <1>4, <2>1, <2>2 DEF Apart
  <2>6. NewestRead'
    <3>1. CASE OpenDb
      BY <1>1, <3>1, OpenReads
    <3>2. CASE loader' = loader
      BY <1>1, <1>3, <3>2 DEF NewestRead
    <3>3. CASE LoadFails
      BY <3>3 DEF LoadFails, NewestRead
    <3> QED
      BY <1>6, <3>1, <3>2, <3>3 DEF Tick, ShowHistory, SetEnabled, clipVars
  <2> QED
    BY <1>3, <2>1, <2>2, <2>3, <2>4, <2>5, <2>6, QuietPaste
<1> QED
  BY <1>5, <1>6

\* An entry of attach's that stands for one of the list: the same text, as new,
\* and if it is stored the row bears its id and, unless refused it, its stamp.
StandsFor(x, e, found, left) ==
  /\ x.ts = e.ts /\ x.text = e.text
  /\ x.pending \/ \E r \in found : /\ r.id = x.id /\ r.text = x.text /\ r.ts <= x.ts
                                   /\ r.ts = x.ts \/ x.id \in left

\* After k turns attach has the last k entries of the list in their order, has
\* changed no row but theirs, and has every row whose text is not listed.
Carries(s, k, d0) ==
  /\ Len(s.index) = k
  /\ \A j \in 1..k : StandsFor(s.index[j], index[Len(index) - k + j], s.disk, s.loose)
  /\ \A r \in s.disk : r \in d0 \/ \E j \in 1..k : ~ s.index[j].pending /\ s.index[j].id = r.id
  /\ \A r \in d0 : (\A y \in Listed : y.text # r.text) => r \in s.disk

LEMMA CarriesOn ==
  ASSUME index \in Seq(Entry), NEW d0, NEW k \in 0..(Len(index) - 1),
         NEW s, Carries(s, k, d0), s.index \in Seq(Entry), NEW x \in Entry,
         NEW t, t.index = <<x>> \o s.index,
         StandsFor(x, index[Len(index) - k], t.disk, t.loose),
         \A j \in 1..k : StandsFor(s.index[j], index[Len(index) - k + j], t.disk, t.loose),
         \A r \in t.disk : r \in s.disk \/ (~ x.pending /\ x.id = r.id),
         \A r \in s.disk : (\A y \in Listed : y.text # r.text) => r \in t.disk
  PROVE  Carries(t, k + 1, d0)
<1> DEFINE K == Len(index)
           list == <<x>> \o s.index
<1>1. K \in Nat /\ k \in Nat /\ k + 1 <= K /\ Len(s.index) = k
  BY DEF Carries
<1>2. /\ Len(list) = k + 1 /\ list[1] = x
      /\ \A j \in 1..k : list[j + 1] = s.index[j]
  <2>1. /\ Len(list) = Len(s.index) + 1 /\ list[1] = x
        /\ \A j \in 1..Len(s.index) : list[j + 1] = s.index[j]
    BY ConsFacts
  <2> HIDE DEF list
  <2> QED
    BY <1>1, <2>1
<1>3. t.index = list
  OBVIOUS
<1> HIDE DEF list
<1>4. Len(t.index) = k + 1
  BY <1>2, <1>3
<1>5. ASSUME NEW j \in 1..(k + 1) PROVE StandsFor(t.index[j], index[Len(index) - (k + 1) + j], t.disk, t.loose)
  <2>1. CASE j = 1
    <3>1. Len(index) - (k + 1) + j = Len(index) - k /\ t.index[j] = x
      BY <1>1, <1>2, <1>3, <2>1
    <3> QED
      BY <3>1
  <2>2. CASE j # 1
    <3>1. j - 1 \in 1..k /\ j - 1 + 1 = j /\ Len(index) - (k + 1) + j = Len(index) - k + (j - 1)
      BY <1>1, <2>2
    <3>2. t.index[j] = s.index[j - 1]
      BY <1>2, <1>3, <3>1
    <3>3. StandsFor(s.index[j - 1], index[Len(index) - k + (j - 1)], t.disk, t.loose)
      BY <3>1
    <3> QED
      BY <3>1, <3>2, <3>3
  <2> QED
    BY <2>1, <2>2
<1>6. ASSUME NEW r \in t.disk
      PROVE  r \in d0 \/ \E j \in 1..(k + 1) : ~ t.index[j].pending /\ t.index[j].id = r.id
  <2>1. CASE r \in s.disk
    <3>1. r \in d0 \/ \E j \in 1..k : ~ s.index[j].pending /\ s.index[j].id = r.id
      BY <2>1 DEF Carries
    <3>2. ASSUME NEW j \in 1..k PROVE j + 1 \in 1..(k + 1) /\ t.index[j + 1] = s.index[j]
      BY <1>1, <1>2, <1>3
    <3> QED
      BY <3>1, <3>2
  <2>2. CASE ~ x.pending /\ x.id = r.id
    <3>1. 1 \in 1..(k + 1) /\ t.index[1] = x
      BY <1>1, <1>2, <1>3
    <3> QED
      BY <2>2, <3>1
  <2> QED
    BY <2>1, <2>2
<1>7. \A r \in d0 : (\A y \in Listed : y.text # r.text) => r \in t.disk
  BY DEF Carries
<1> QED
  BY <1>4, <1>5, <1>6, <1>7 DEF Carries

LEMMA ReconciledCarries ==
  ASSUME index \in Seq(Entry), NEW d0, NEW refused, NEW s, Sound(s, d0, refused),
         NEW k \in 0..(Len(index) - 1), Carries(s, k, d0),
         \A y \in Listed : y.pending, \A r \in d0, y \in Listed : r.ts <= y.ts,
         \A i, j \in DOMAIN index : i < j => index[i].text # index[j].text
  PROVE  Carries(Reconciled(s, index[Len(index) - k], refused), k + 1, d0)
<1> DEFINE K == Len(index)
           e == index[K - k]
           fails(call) == <<call, e.text>> \in refused
           twins == IF fails("find") THEN {} ELSE {r \in s.disk : r.text = e.text}
           twin == CHOOSE r \in twins : \A q \in twins : r.id <= q.id
           kept(id) == [id |-> id, text |-> e.text, ts |-> e.ts, pending |-> FALSE]
           t == Reconciled(s, e, refused)
<1> SUFFICES Carries(t, k + 1, d0)
  OBVIOUS
<1>1. /\ K \in Nat /\ k \in Nat /\ k + 1 <= K /\ K - k \in 1..K /\ DOMAIN index = 1..K
  OBVIOUS
<1>2. e \in Entry /\ e \in Listed
  BY <1>1 DEF Listed, ToSet
<1>12. e.ts \in Int
  <2>1. MaxClock \in Nat
    BY ClipAssumption
  <2> HIDE DEF e
  <2> QED
    BY <1>2, <2>1 DEF Entry
<1>3. e.pending
  BY <1>2
<1>4. /\ s.disk \subseteq StoredRow /\ s.last \in Nat /\ s.index \in Seq(Entry)
      /\ s = [disk |-> s.disk, last |-> s.last, index |-> s.index, loose |-> s.loose]
      /\ \A r, q \in s.disk : r.id = q.id => r = q
  BY DEF Sound, Midway
<1>5. \A j \in 1..k : StandsFor(s.index[j], index[Len(index) - k + j], s.disk, s.loose)
  BY DEF Carries
<1>6. \A j \in 1..k : index[Len(index) - k + j].text # e.text
  <2> SUFFICES ASSUME NEW j \in 1..k PROVE index[K - k + j].text # index[K - k].text
    OBVIOUS
  <2>1. K - k \in 1..K /\ K - k + j \in 1..K /\ K - k < K - k + j
    BY <1>1
  <2> QED
    BY <1>1, <2>1
<1>7. ASSUME NEW id \in Nat
      PROVE  /\ kept(id) \in Entry /\ kept(id).id = id /\ kept(id).text = e.text /\ kept(id).ts = e.ts
             /\ kept(id).pending = FALSE
  BY <1>2 DEF Entry
<1>0. twins \in SUBSET StoredRow /\ twins \subseteq s.disk /\ \A r \in twins : r.text = e.text
  BY <1>4
<1>8. CASE twins = {} /\ fails("keep")
  <2>1. t = [s EXCEPT !.index = <<e>> \o s.index]
    BY <1>3, <1>8 DEF Reconciled
  <2>2. t.disk = s.disk /\ t.loose = s.loose /\ t.index = <<e>> \o s.index
    BY <1>4, <2>1
  <2>3. StandsFor(e, index[Len(index) - k], t.disk, t.loose)
    BY <1>3 DEF StandsFor
  <2> HIDE DEF t, e
  <2> QED
    BY <1>2, <1>4, <1>5, <2>2, <2>3, CarriesOn
<1>9. CASE twins # {} /\ ~ fails("stamp")
  <2>1. twin \in twins
    BY <1>0, <1>9, LeastTwin
  <2>2. t = [s EXCEPT !.disk = (s.disk \ {twin}) \union {[twin EXCEPT !.ts = e.ts]},
                      !.index = <<kept(twin.id)>> \o s.index]
    BY <1>3, <1>9 DEF Reconciled
  <2> DEFINE new == [twin EXCEPT !.ts = e.ts]
             x == kept(twin.id)
  <2>3. /\ twin \in s.disk /\ twin.text = e.text /\ twin \in StoredRow /\ twin.id \in Nat
        /\ new.id = twin.id /\ new.text = e.text /\ new.ts = e.ts
    <3>1. twin \in s.disk /\ twin.text = e.text
      BY <1>0, <2>1
    <3> HIDE DEF twin, twins
    <3> QED
      BY <1>4, <3>1 DEF StoredRow
  <2> HIDE DEF twin
  <2>4. x \in Entry /\ x.id = twin.id /\ x.text = e.text /\ x.ts = e.ts /\ x.pending = FALSE
    BY <1>7, <2>3
  <2> HIDE DEF new, x
  <2>5. t.disk = (s.disk \ {twin}) \union {new} /\ t.loose = s.loose /\ t.index = <<x>> \o s.index
    BY <1>4, <2>2 DEF new, x
  <2> HIDE DEF t
  <2>6. StandsFor(x, index[Len(index) - k], t.disk, t.loose)
    <3>1. new.ts <= x.ts
      <4> HIDE DEF e
      <4> QED
        BY <1>12, <2>3, <2>4
    <3> QED
      BY <2>3, <2>4, <2>5, <3>1 DEF StandsFor
  <2>7. ASSUME NEW j \in 1..k PROVE StandsFor(s.index[j], index[Len(index) - k + j], t.disk, t.loose)
    <3> DEFINE y == index[Len(index) - k + j]
               z == s.index[j]
    <3> SUFFICES StandsFor(z, y, t.disk, t.loose)
      OBVIOUS
    <3>1. StandsFor(z, y, s.disk, s.loose) /\ y.text # e.text
      BY <1>5, <1>6
    <3> HIDE DEF y, z, e
    <3>2. CASE z.pending
      BY <3>1, <3>2 DEF StandsFor
    <3>3. CASE ~ z.pending
      <4>1. PICK r \in s.disk : /\ r.id = z.id /\ r.text = z.text /\ r.ts <= z.ts
                                /\ r.ts = z.ts \/ z.id \in s.loose
        BY <3>1, <3>3 DEF StandsFor
      <4>2. r \in t.disk
        BY <2>3, <2>5, <3>1, <4>1 DEF StandsFor
      <4> QED
        BY <2>5, <3>1, <4>1, <4>2 DEF StandsFor
    <3> QED
      BY <3>2, <3>3
  <2>8. \A r \in t.disk : r \in s.disk \/ (~ x.pending /\ x.id = r.id)
    BY <2>3, <2>4, <2>5
  <2>9. \A r \in s.disk : (\A y \in Listed : y.text # r.text) => r \in t.disk
    BY <1>2, <2>3, <2>5
  <2> HIDE DEF e
  <2> QED
    BY <1>4, <2>4, <2>5, <2>6, <2>7, <2>8, <2>9, CarriesOn
<1>10. CASE twins = {} /\ ~ fails("keep")
  <2> DEFINE n == s.last + 1
             new == [id |-> n, text |-> e.text, ts |-> e.ts]
             x == kept(n)
  <2>1. t = [s EXCEPT !.last = n, !.disk = s.disk \union {new}, !.index = <<x>> \o s.index]
    BY <1>3, <1>10 DEF Reconciled
  <2>2. n \in Nat
    BY <1>4
  <2>3. new.id = n /\ new.text = e.text /\ new.ts = e.ts
    OBVIOUS
  <2>4. x \in Entry /\ x.id = n /\ x.text = e.text /\ x.ts = e.ts /\ x.pending = FALSE
    BY <1>7, <2>2
  <2> HIDE DEF new, x, n
  <2>5. t.disk = s.disk \union {new} /\ t.loose = s.loose /\ t.index = <<x>> \o s.index
    BY <1>4, <2>1
  <2> HIDE DEF t
  <2>6. StandsFor(x, index[Len(index) - k], t.disk, t.loose)
    <3>1. new.ts <= x.ts
      <4> HIDE DEF e
      <4> QED
        BY <1>12, <2>3, <2>4
    <3> QED
      BY <2>3, <2>4, <2>5, <3>1 DEF StandsFor
  <2>7. \A j \in 1..k : StandsFor(s.index[j], index[Len(index) - k + j], t.disk, t.loose)
    BY <1>5, <2>5 DEF StandsFor
  <2>8. \A r \in t.disk : r \in s.disk \/ (~ x.pending /\ x.id = r.id)
    BY <2>3, <2>4, <2>5
  <2>9. \A r \in s.disk : (\A y \in Listed : y.text # r.text) => r \in t.disk
    BY <2>5
  <2> HIDE DEF e
  <2> QED
    BY <1>4, <2>4, <2>5, <2>6, <2>7, <2>8, <2>9, CarriesOn
\* The UPDATE that stamps the adopted row is refused.
<1>11. CASE twins # {} /\ fails("stamp")
  <2>1. twin \in twins
    BY <1>0, <1>11, LeastTwin
  <2>2. t = [s EXCEPT !.index = <<kept(twin.id)>> \o s.index, !.loose = s.loose \union {twin.id}]
    BY <1>3, <1>11 DEF Reconciled
  <2> DEFINE x == kept(twin.id)
  <2>3. twin \in s.disk /\ twin.text = e.text /\ twin.id \in Nat
    <3>1. twin \in s.disk /\ twin.text = e.text
      BY <1>0, <2>1
    <3> HIDE DEF twin, twins
    <3> QED
      BY <1>4, <3>1 DEF StoredRow
  <2> HIDE DEF twin, twins
  <2>4. x \in Entry /\ x.id = twin.id /\ x.text = e.text /\ x.ts = e.ts /\ x.pending = FALSE
    BY <1>7, <2>3
  <2> HIDE DEF x
  <2>5. t.disk = s.disk /\ t.loose = s.loose \union {twin.id} /\ t.index = <<x>> \o s.index
    BY <1>4, <2>2 DEF x
  <2> HIDE DEF t
  <2>6. twin.ts <= e.ts
    <3>1. CASE twin \in d0
      BY <1>2, <3>1
    <3>2. ASSUME NEW j \in 1..k, ~ s.index[j].pending, s.index[j].id = twin.id PROVE FALSE
      <4> DEFINE y == index[Len(index) - k + j]
      <4>1. StandsFor(s.index[j], y, s.disk, s.loose) /\ y.text # e.text
        BY <1>5, <1>6
      <4> HIDE DEF y, e
      <4>2. PICK r \in s.disk : r.id = s.index[j].id /\ r.text = s.index[j].text
        BY <3>2, <4>1 DEF StandsFor
      <4>3. r = twin
        BY <1>4, <2>3, <3>2, <4>2
      <4> QED
        BY <2>3, <4>1, <4>2, <4>3 DEF StandsFor
    <3> HIDE DEF e
    <3> QED
      BY <2>3, <3>1, <3>2 DEF Carries
  <2>7. StandsFor(x, index[Len(index) - k], t.disk, t.loose)
    BY <2>3, <2>4, <2>5, <2>6 DEF StandsFor
  <2>8. \A j \in 1..k : StandsFor(s.index[j], index[Len(index) - k + j], t.disk, t.loose)
    BY <1>5, <2>5 DEF StandsFor
  <2> HIDE DEF e
  <2> QED
    BY <1>4, <2>4, <2>5, <2>7, <2>8, CarriesOn
<1> QED
  BY <1>8, <1>9, <1>10, <1>11

LEMMA ReconcilingCarries ==
  ASSUME index \in Seq(Entry), lastRow \in Nat, NEW d0, NEW refused, NEW start,
         Sound(start, d0, refused), start.disk = d0, start.index = <<>>,
         \A y \in Listed : y.pending, \A r \in d0, y \in Listed : r.ts <= y.ts,
         \A i, j \in DOMAIN index : i < j => index[i].text # index[j].text
  PROVE  Carries(Reconciling(start, refused), Len(index), d0)
<1> DEFINE K == Len(index)
<1>1. PICK done : TurnByTurn(done, start, d0, refused)
  BY ReconcilingTurns
<1>2. /\ done[0] = start
      /\ \A n \in 1..K : done[n] = Reconciled(done[n - 1], index[K + 1 - n], refused)
      /\ \A n \in 0..K : Sound(done[n], d0, refused)
      /\ Reconciling(start, refused) = done[K]
  BY <1>1 DEF TurnByTurn
<1>3. K \in Nat
  BY LenProperties
<1> DEFINE T == {n \in 0..K : Carries(done[n], n, d0)}
<1>4. 0 \in T
  <2>1. Carries(start, 0, d0)
    <3>1. \A j : j \notin 1..0
      OBVIOUS
    <3>2. Len(start.index) = 0
      OBVIOUS
    <3> QED
      BY <3>1, <3>2 DEF Carries
  <2> QED
    BY <1>2, <1>3, <2>1
<1>5. ASSUME NEW n \in 0..(K - 1), n \in T PROVE n + 1 \in T
  <2>1. /\ n + 1 \in 1..K /\ n + 1 \in 0..K /\ n + 1 - 1 = n /\ K + 1 - (n + 1) = K - n /\ n \in 0..K
    BY <1>3
  <2>2. done[n + 1] = Reconciled(done[n], index[K - n], refused)
    BY <1>2, <2>1
  <2>3. Sound(done[n], d0, refused) /\ Carries(done[n], n, d0)
    BY <1>2, <1>5, <2>1
  <2>4. Carries(Reconciled(done[n], index[K - n], refused), n + 1, d0)
    BY <2>3, ReconciledCarries
  <2> QED
    BY <2>1, <2>2, <2>4
<1>6. \A n \in 0..K : n \in T
  <2> HIDE DEF T, K
  <2> QED
    BY <1>3, <1>4, <1>5, InductionUpTo
<1>7. Carries(done[K], K, d0)
  <2>1. K \in 0..K
    BY <1>3
  <2> QED
    BY <1>6, <2>1
<1> QED
  BY <1>2, <1>7

\* attach leaves on top what was listed, each entry with its stamp and with a row
\* unless its insert failed, or adopted by id alone when the stamping failed, and below it rows that were read and are still there.
LEMMA AttachLeaves ==
  ASSUME HalvesTyped, ThreadsTyped, StageInv, PendingById, Ranked, Apart, NewestRead, Attach
  PROVE  /\ Len(index) <= Len(index')
         /\ \A j \in 1..Len(index) : StandsFor(index'[j], index[j], disk', loose')
         /\ \A n \in (Len(index) + 1)..Len(index') : \E y \in ToSet(loader.rows) :
              index'[n] = AsEntry(y) /\ y \in disk' /\ \A x \in Listed : x.text # y.text
         /\ \A m, n \in (Len(index) + 1)..Len(index') : m < n =>
              \E i, j \in DOMAIN loader.rows :
                i < j /\ index'[m] = AsEntry(loader.rows[i]) /\ index'[n] = AsEntry(loader.rows[j])
         /\ \A r \in disk' : r \in disk \/ \E j \in 1..Len(index) : ~ index'[j].pending /\ index'[j].id = r.id
<1>1. PICK wiped \in BOOLEAN,
           refused \in SUBSET ({"find", "stamp", "keep"} \X {e.text : e \in {x \in Listed : x.pending}}) :
        LET start == [disk |-> IF deferred /\ wiped THEN {} ELSE disk, last |-> lastRow, index |-> <<>>,
                      loose |-> loose]
            end   == Reconciling(start, refused)
            seen  == {e.text : e \in Listed}
            older == AtPlaces(LoadedRows, {i \in DOMAIN LoadedRows : LoadedRows[i].text \notin seen})
        IN  /\ ~wiped => deferred
            /\ IF wiped /\ refused = {} THEN UNCHANGED faults ELSE Fault
            /\ end.last <= MaxRows
            /\ disk' = end.disk /\ Spread
            /\ lastRow' = end.last
            /\ index' = FirstN(end.index \o [i \in DOMAIN older |-> AsEntry(older[i])], IndexEntries)
            /\ loose' = end.loose
            /\ DropPromise(~wiped)
  BY DEF Attach
<1> DEFINE d0 == IF deferred /\ wiped THEN {} ELSE disk
           start == [disk |-> d0, last |-> lastRow, index |-> <<>>, loose |-> loose]
           end == Reconciling(start, refused)
           P == {i \in DOMAIN LoadedRows : LoadedRows[i].text \notin {e.text : e \in Listed}}
           older == AtPlaces(LoadedRows, P)
           below == [i \in DOMAIN older |-> AsEntry(older[i])]
           all == end.index \o below
           K == Len(index)
<1>2. disk' = end.disk /\ loose' = end.loose /\ index' = FirstN(all, IndexEntries)
  BY <1>1, Zenon
<1>3. d0 \subseteq disk /\ (~ deferred => d0 = disk)
  OBVIOUS
<1> HIDE DEF d0
<1>4. /\ IsFiniteSet(disk) /\ disk \subseteq Row /\ lastRow \in Nat /\ MaxRows \in Nat /\ IndexEntries \in Nat
      /\ index \in Seq(Entry) /\ K <= IndexEntries /\ K \in Nat /\ loose \subseteq Int
      /\ \A r, q \in disk : r.id = q.id => r = q
  BY ClipAssumption DEF HalvesTyped, ThreadsTyped
<1>5. Sound(start, d0, refused) /\ start.disk = d0 /\ start.index = <<>>
  <2>1. IsFiniteSet(d0)
    BY <1>3, <1>4, FS_Subset
  <2>2. start.disk = d0 /\ start.last = lastRow /\ start.index = <<>> /\ ToSet(start.index) = {}
        /\ start.loose = loose
    BY DEF ToSet
  <2>3. start \in Midway
    <3>1. Row \subseteq StoredRow
      BY DEF Row, StoredRow
    <3>2. d0 \subseteq StoredRow /\ <<>> \in Seq(Entry)
      BY <1>3, <1>4, <3>1
    <3> QED
      BY <1>4, <3>2 DEF Midway
  <2>4. \A r \in d0 : r.id <= lastRow
    BY <1>3 DEF HalvesTyped
  <2>5. lastRow >= lastRow
    BY <1>4
  <2> HIDE DEF start
  <2> QED
    BY <1>3, <1>4, <2>1, <2>2, <2>3, <2>4, <2>5 DEF Sound
<1> HIDE DEF start
<1>6. Sound(end, d0, refused)
  BY <1>4, <1>5, ReconcilingSound
<1>7. Carries(end, K, d0)
  <2>1. db # "ready" /\ \A e \in Listed : e.pending
    BY DEF Attach, StageInv, PendingById
  <2>2. \A i, j \in DOMAIN index : i < j => index[i].text # index[j].text
    BY <2>1 DEF Ranked
  <2>3. \A r \in d0, y \in Listed : r.ts <= y.ts
    BY <1>3, <2>1 DEF Apart
  <2> QED
    BY <1>4, <1>5, <2>1, <2>2, <2>3, ReconcilingCarries
<1> HIDE DEF end
<1>8. /\ LoadedRows \in Seq(Row) /\ (deferred => LoadedRows = <<>>)
      /\ (~ deferred => LoadedRows = loader.rows) /\ loader.rows \in Seq(Row)
  BY DEF LoadedRows, ThreadsTyped
<1>9. /\ P \in SUBSET (1..Len(LoadedRows))
      /\ \A i \in P : i \in DOMAIN LoadedRows /\ \A x \in Listed : x.text # LoadedRows[i].text
  BY <1>8
<1> HIDE DEF P
<1>10. /\ older \in Seq(Row) /\ DOMAIN older = 1..Len(older) /\ Len(older) \in Nat
       /\ \A n \in DOMAIN older : \E i \in P : older[n] = LoadedRows[i]
       /\ \A m, n \in DOMAIN older : m < n =>
            \E i, j \in P : i < j /\ older[m] = LoadedRows[i] /\ older[n] = LoadedRows[j]
  <2>1. /\ older \in Seq(Row) /\ DOMAIN older = 1..Cardinality(P)
        /\ \A n \in 1..Cardinality(P) : \E i \in P : older[n] = LoadedRows[i]
    BY <1>8, <1>9, AtPlacesFacts
  <2>2. \A m, n \in DOMAIN older : m < n =>
          \E i, j \in P : i < j /\ older[m] = LoadedRows[i] /\ older[n] = LoadedRows[j]
    BY <1>8, <1>9, FilterOrder
  <2> HIDE DEF older
  <2> QED
    BY <2>1, <2>2
<1> HIDE DEF older
<1>11. /\ below \in Seq(Entry) /\ Len(below) = Len(older)
       /\ \A i \in 1..Len(older) : below[i] = AsEntry(older[i])
  <2>1. Len(older) \in Nat /\ \A i \in 1..Len(older) : older[i] \in Row
    BY <1>10
  <2>2. \A i \in 1..Len(older) : AsEntry(older[i]) \in Entry
    <3>1. 1..MaxRows \subseteq Int
      BY <1>4
    <3> QED
      BY <2>1, <3>1 DEF Row, Entry, AsEntry
  <2>3. below \in [1..Len(older) -> Entry] /\ DOMAIN below = 1..Len(older)
    BY <1>10, <2>2
  <2>4. below \in Seq(Entry)
    BY <2>1, <2>3, SeqDef
  <2>5. \A i \in 1..Len(older) : below[i] = AsEntry(older[i])
    BY <1>10
  <2> HIDE DEF below
  <2>6. Len(below) = Len(older)
    BY <2>1, <2>3, <2>4
  <2> QED
    BY <2>4, <2>5, <2>6
<1> HIDE DEF below
<1>12. /\ end.index \in Seq(Entry) /\ Len(end.index) = K
  BY <1>6, <1>7 DEF Sound, Midway, Carries
<1>13. /\ all \in Seq(Entry) /\ Len(all) = K + Len(older)
       /\ \A n \in 1..(K + Len(older)) : all[n] = IF n <= K THEN end.index[n] ELSE below[n - K]
  <2>1. all \in Seq(Entry) /\ Joined(all, end.index, below)
    BY <1>11, <1>12, ConcatItems
  <2> HIDE DEF all
  <2> QED
    BY <1>11, <1>12, <2>1 DEF Joined
<1> HIDE DEF all
<1>14. /\ Len(index') = (IF Len(all) < IndexEntries THEN Len(all) ELSE IndexEntries)
       /\ \A n \in 1..Len(index') : n \in 1..Len(all) /\ index'[n] = all[n]
  BY <1>2, <1>4, <1>13, FirstNFacts
<1>15. K <= Len(index') /\ Len(index') \in Nat
  BY <1>4, <1>10, <1>13, <1>14
<1>16. \A j \in 1..K : index'[j] = end.index[j]
  <2> SUFFICES ASSUME NEW j \in 1..K PROVE index'[j] = end.index[j]
    OBVIOUS
  <2>1. j \in 1..Len(index') /\ j <= K
    BY <1>4, <1>15
  <2> QED
    BY <1>13, <1>14, <2>1
<1>17. \A n \in (K + 1)..Len(index') : n - K \in DOMAIN older /\ index'[n] = AsEntry(older[n - K])
  <2> SUFFICES ASSUME NEW n \in (K + 1)..Len(index')
               PROVE  n - K \in DOMAIN older /\ index'[n] = AsEntry(older[n - K])
    OBVIOUS
  <2>1. n \in 1..Len(index') /\ ~ (n <= K) /\ n \in Int
    BY <1>4, <1>15
  <2>2. n \in 1..(K + Len(older)) /\ index'[n] = all[n]
    BY <1>13, <1>14, <2>1
  <2>3. n - K \in 1..Len(older)
    BY <1>4, <1>10, <2>1, <2>2
  <2> QED
    BY <1>10, <1>11, <1>13, <2>1, <2>2, <2>3
<1>18. \A n \in DOMAIN older : ~ deferred
  BY <1>8, <1>9, <1>10
<1>19. \A j \in 1..K : StandsFor(index'[j], index[j], disk', loose')
  <2> SUFFICES ASSUME NEW j \in 1..K PROVE StandsFor(index'[j], index[j], disk', loose')
    OBVIOUS
  <2>1. StandsFor(end.index[j], index[K - K + j], end.disk, end.loose)
    BY <1>7 DEF Carries
  <2>2. K - K + j = j
    BY <1>4
  <2> QED
    BY <1>2, <1>16, <2>1, <2>2
<1>20. \A n \in (K + 1)..Len(index') : \E y \in ToSet(loader.rows) :
         index'[n] = AsEntry(y) /\ y \in disk' /\ \A x \in Listed : x.text # y.text
  <2> SUFFICES ASSUME NEW n \in (K + 1)..Len(index')
               PROVE  \E y \in ToSet(loader.rows) :
                        index'[n] = AsEntry(y) /\ y \in disk' /\ \A x \in Listed : x.text # y.text
    OBVIOUS
  <2>1. n - K \in DOMAIN older /\ index'[n] = AsEntry(older[n - K]) /\ ~ deferred
    BY <1>17, <1>18
  <2>2. PICK i \in P : older[n - K] = LoadedRows[i]
    BY <1>10, <2>1
  <2> DEFINE y == LoadedRows[i]
  <2>3. y \in ToSet(loader.rows) /\ \A x \in Listed : x.text # y.text
    BY <1>8, <1>9, <2>1, <2>2 DEF ToSet
  <2>4. y \in d0
    BY <1>3, <2>1, <2>3 DEF NewestRead, Attach
  <2>5. y \in disk'
    BY <1>2, <1>7, <2>3, <2>4 DEF Carries
  <2> QED
    BY <2>1, <2>2, <2>3, <2>5
<1>21. \A m, n \in (K + 1)..Len(index') : m < n =>
         \E i, j \in DOMAIN loader.rows :
           i < j /\ index'[m] = AsEntry(loader.rows[i]) /\ index'[n] = AsEntry(loader.rows[j])
  <2> SUFFICES ASSUME NEW m \in (K + 1)..Len(index'), NEW n \in (K + 1)..Len(index'), m < n
               PROVE  \E i, j \in DOMAIN loader.rows :
                        i < j /\ index'[m] = AsEntry(loader.rows[i]) /\ index'[n] = AsEntry(loader.rows[j])
    OBVIOUS
  <2>1. /\ m - K \in DOMAIN older /\ index'[m] = AsEntry(older[m - K])
        /\ n - K \in DOMAIN older /\ index'[n] = AsEntry(older[n - K]) /\ ~ deferred
    BY <1>17, <1>18
  <2>2. m - K < n - K
    BY <1>4, <1>15
  <2>3. \E i, j \in P : i < j /\ older[m - K] = LoadedRows[i] /\ older[n - K] = LoadedRows[j]
    BY <1>10, <2>1, <2>2
  <2>4. PICK i \in P, j \in P : i < j /\ older[m - K] = LoadedRows[i] /\ older[n - K] = LoadedRows[j]
    BY <2>3
  <2> QED
    BY <1>8, <1>9, <2>1, <2>4
<1>22. \A r \in disk' : r \in disk \/ \E j \in 1..K : ~ index'[j].pending /\ index'[j].id = r.id
  <2> SUFFICES ASSUME NEW r \in disk', r \notin disk
               PROVE  \E j \in 1..K : ~ index'[j].pending /\ index'[j].id = r.id
    OBVIOUS
  <2>1. PICK j \in 1..K : ~ end.index[j].pending /\ end.index[j].id = r.id
    BY <1>2, <1>3, <1>7 DEF Carries
  <2> QED
    BY <1>16, <2>1
<1> QED
  BY <1>15, <1>19, <1>20, <1>21, <1>22

LEMMA AttachPaste ==
  ASSUME ClipInv, ClipInv', PasteInv, Attach
  PROVE  PasteInv'
<1> DEFINE K == Len(index)
           N == Len(index')
<1>1. /\ HalvesTyped /\ ThreadsTyped /\ StageInv /\ PendingById /\ Stamped /\ Ranked /\ Apart
      /\ NewestRead /\ HalvesTyped' /\ ThreadsTyped' /\ PendingById'
  BY DEF ClipInv, PasteInv
<1>2. /\ loader.pc = "opened" /\ db # "ready" /\ db' = "ready" /\ loader'.pc = "prune"
      /\ cap' = Racing /\ UNCHANGED <<given, now>>
      /\ \A x \in Listed \union Carried : x.id <= 0
  BY <1>1 DEF Attach, StageInv, outside
<1>3. /\ cap'.pc = cap.pc /\ cap'.id = cap.id /\ cap'.ts = cap.ts
      /\ cap.pc \in {"touch", "list"} => cap'.id <= 0
  BY <1>1, <1>2, RacingFacts DEF Carried
<1>4. /\ \A r \in disk : r.ts \in Int
      /\ \A e \in Listed : e.id \in Int /\ e.ts \in Int
      /\ \A j \in 1..K : index[j] \in Listed
      /\ K \in Nat /\ DOMAIN index = 1..K
      /\ cap.ts \in Int /\ cap.id \in Int /\ now \in Int
  BY <1>1, ListTypes
<1>5. /\ \A r \in disk' : r.ts \in Int /\ r.id \in Int /\ r.id > 0
      /\ \A e \in Listed' : e.id \in Int /\ e.ts \in Int
      /\ \A j \in 1..N : index'[j] \in Listed'
      /\ N \in Nat /\ DOMAIN index' = 1..N
      /\ \A e \in Listed' : \E j \in 1..N : e = index'[j]
  <2>1. index' \in Seq(Entry) /\ disk' \subseteq Row /\ MaxRows \in Nat /\ MaxClock \in Nat
    BY <1>1, ClipAssumption DEF HalvesTyped
  <2>2. /\ \A r \in Row : r.ts \in Int /\ r.id \in Int /\ r.id > 0
        /\ \A e \in Entry : e.id \in Int /\ e.ts \in Int
    BY <2>1 DEF Row, Entry
  <2>3. N \in Nat /\ DOMAIN index' = 1..N /\ \A j \in 1..N : index'[j] \in Entry
    BY <2>1
  <2>4. /\ \A j \in 1..N : index'[j] \in Listed'
        /\ \A e \in Listed' : \E j \in 1..N : e = index'[j]
    BY <2>3 DEF Listed, ToSet
  <2> QED
    BY <2>1, <2>2, <2>3, <2>4
<1>6. /\ K <= N
      /\ \A j \in 1..K : StandsFor(index'[j], index[j], disk', loose')
      /\ \A n \in (K + 1)..N : \E y \in ToSet(loader.rows) :
           index'[n] = AsEntry(y) /\ y \in disk' /\ \A x \in Listed : x.text # y.text
      /\ \A m, n \in (K + 1)..N : m < n =>
           \E i, j \in DOMAIN loader.rows :
             i < j /\ index'[m] = AsEntry(loader.rows[i]) /\ index'[n] = AsEntry(loader.rows[j])
      /\ \A r \in disk' : r \in disk \/ \E j \in 1..K : ~ index'[j].pending /\ index'[j].id = r.id
  BY <1>1, AttachLeaves
<1> HIDE DEF K, N
\* An entry that was listed keeps its stamp and its text, and has a row of its id,
\* though perhaps without its stamp.
<1>7. ASSUME NEW j \in 1..K
      PROVE  /\ index[j] \in Listed /\ index'[j] \in Listed' /\ j \in 1..N
             /\ index'[j].ts = index[j].ts /\ index'[j].text = index[j].text
             /\ index'[j].id <= 0 \/ \E r \in disk' : /\ r.id = index'[j].id /\ r.text = index'[j].text
                                                      /\ r.ts <= index'[j].ts
                                                      /\ r.ts = index'[j].ts \/ r.id \in loose'
  <2>1. j \in 1..N /\ StandsFor(index'[j], index[j], disk', loose')
    BY <1>4, <1>5, <1>6
  <2>2. index'[j] \in Listed' /\ index[j] \in Listed
    BY <1>4, <1>5, <2>1
  <2>3. index'[j].pending => index'[j].id <= 0
    BY <1>1, <2>2 DEF PendingById
  <2> QED
    BY <2>1, <2>2, <2>3 DEF StandsFor
\* One that was not is a row that was read, older than all that were listed.
<1>8. ASSUME NEW n \in (K + 1)..N
      PROVE  \E y \in ToSet(loader.rows) :
               /\ index'[n].id = y.id /\ index'[n].ts = y.ts /\ index'[n].text = y.text
               /\ y \in disk /\ y \in disk' /\ \A x \in Listed : x.text # y.text /\ y.ts <= x.ts
  <2>1. PICK y \in ToSet(loader.rows) :
          index'[n] = AsEntry(y) /\ y \in disk' /\ \A x \in Listed : x.text # y.text
    BY <1>6
  <2>2. y \in disk /\ \A x \in Listed : y.ts <= x.ts
    BY <1>1, <1>2, <2>1 DEF NewestRead, Apart
  <2> QED
    BY <2>1, <2>2 DEF AsEntry
<1>9. \A n \in 1..N : n \in 1..K \/ n \in (K + 1)..N
  BY <1>4, <1>5
<1>10. \A r, q \in disk' : r.id = q.id => r = q
  BY <1>1 DEF HalvesTyped
<1>11. \A r \in disk' : r \in disk \/ \E j \in 1..K : index'[j].id = r.id /\ r.ts <= index[j].ts
  <2> SUFFICES ASSUME NEW r \in disk', r \notin disk
               PROVE  \E j \in 1..K : index'[j].id = r.id /\ r.ts <= index[j].ts
    OBVIOUS
  <2>1. PICK j \in 1..K : index'[j].id = r.id
    BY <1>6
  <2>2. PICK q \in disk' : q.id = index'[j].id /\ q.ts <= index'[j].ts
    BY <1>5, <1>7, <2>1
  <2>3. r = q
    BY <1>10, <2>1, <2>2
  <2> QED
    BY <1>7, <2>1, <2>2, <2>3
<1>12. Stamped'
  <2>1. \A r \in disk' : \E x \in disk \union Listed : r.ts <= x.ts
    <3>1. \A r \in disk : r.ts <= r.ts
      BY <1>4
    <3> QED
      BY <1>7, <1>11, <3>1
  <2>2. \A e \in Listed' : \E x \in disk \union Listed : e.ts = x.ts
    <3> SUFFICES ASSUME NEW e \in Listed' PROVE \E x \in disk \union Listed : e.ts = x.ts
      OBVIOUS
    <3>1. PICK n \in 1..N : e = index'[n]
      BY <1>5
    <3>2. CASE n \in 1..K
      BY <1>7, <3>1, <3>2
    <3>3. CASE n \in (K + 1)..N
      BY <1>8, <3>1, <3>3
    <3> QED
      BY <1>9, <3>2, <3>3
  <2>3. /\ \A x \in disk \union Listed : x.ts \in Int
        /\ \A x \in disk' \union Listed' : x.ts \in Int
    BY <1>4, <1>5
  <2>4. \A x \in disk' \union Listed' : x.ts <= now
    <3>1. \A x \in disk \union Listed : x.ts <= now
      BY <1>1 DEF Stamped
    <3> QED
      BY <1>4, <2>1, <2>2, <2>3, <3>1
  <2>5. ASSUME cap.pc \in {"touch", "store", "list"}
        PROVE  cap.ts <= now /\ \A x \in disk' \union Listed' : x.ts <= cap.ts
    <3>1. cap.ts <= now /\ \A x \in disk \union Listed : x.ts <= cap.ts
      BY <1>1, <2>5 DEF Stamped
    <3> QED
      BY <1>4, <2>1, <2>2, <2>3, <3>1
  <2> QED
    BY <1>2, <1>3, <2>4, <2>5 DEF Stamped
<1>13. Ranked'
  <2> SUFFICES ASSUME NEW m \in 1..N, NEW n \in 1..N, m < n
               PROVE  /\ index'[m].ts >= index'[n].ts
                      /\ index'[m].id = index'[n].id => index'[m].id <= 0
    BY <1>2, <1>5 DEF Ranked
  <2>1. m \in Int /\ n \in Int
    BY <1>5
  <2>2. CASE n \in 1..K
    <3>1. m \in 1..K
      BY <1>4, <2>1, <2>2
    <3>2. index[m].ts >= index[n].ts /\ index[m].text # index[n].text
      BY <1>1, <1>2, <1>4, <2>2, <3>1 DEF Ranked
    <3> QED
      BY <1>7, <1>10, <2>2, <3>1, <3>2
  <2>3. CASE m \in 1..K /\ n \in (K + 1)..N
    <3>1. PICK y \in ToSet(loader.rows) :
            /\ index'[n].id = y.id /\ index'[n].ts = y.ts /\ index'[n].text = y.text
            /\ y \in disk /\ y \in disk' /\ \A x \in Listed : x.text # y.text /\ y.ts <= x.ts
      BY <1>8, <2>3
    <3>2. index[m].ts >= y.ts /\ index[m].text # y.text
      BY <1>4, <1>7, <2>3, <3>1
    <3> QED
      BY <1>7, <1>10, <2>3, <3>1, <3>2
  <2>4. CASE m \in (K + 1)..N /\ n \in (K + 1)..N
    <3>1. PICK i \in DOMAIN loader.rows, j \in DOMAIN loader.rows :
             i < j /\ index'[m] = AsEntry(loader.rows[i]) /\ index'[n] = AsEntry(loader.rows[j])
      BY <1>6, <2>4
    <3>2. /\ loader.rows[i].ts >= loader.rows[j].ts /\ loader.rows[i] # loader.rows[j]
          /\ loader.rows[i] \in disk /\ loader.rows[j] \in disk
      BY <1>1, <1>2, <3>1 DEF NewestRead, ToSet
    <3>3. loader.rows[i].id # loader.rows[j].id
      BY <1>1, <3>2 DEF HalvesTyped
    <3> QED
      BY <3>1, <3>2, <3>3 DEF AsEntry
  <2>5. \/ n \in 1..K \/ (m \in 1..K /\ n \in (K + 1)..N)
        \/ (m \in (K + 1)..N /\ n \in (K + 1)..N)
    BY <1>9
  <2> QED
    BY <2>2, <2>3, <2>4, <2>5
<1>14. Apart' /\ NewestRead' /\ NewRow'
  <2>1. Apart' /\ NewestRead'
    BY <1>2 DEF Apart, NewestRead
  <2>2. ~ (cap'.pc = "list" /\ cap'.id > 0)
    BY <1>3, <1>4
  <2>3. NewRow'
    BY <2>2 DEF NewRow
  <2> QED
    BY <2>1, <2>3
<1>23. \A id : id > 0 => ~ Touching(id)'
  BY <1>3, <1>4 DEF Touching
<1>15. MovedUp'
  BY <1>5, <1>23 DEF MovedUp
<1>16. \A e \in Listed' : \/ e.id <= 0
                          \/ \E r \in disk' : r.id = e.id /\ r.ts <= e.ts /\ (r.ts = e.ts \/ e.id \in loose')
  <2> SUFFICES ASSUME NEW e \in Listed'
               PROVE  \/ e.id <= 0
                      \/ \E r \in disk' : r.id = e.id /\ r.ts <= e.ts /\ (r.ts = e.ts \/ e.id \in loose')
    OBVIOUS
  <2>1. PICK n \in 1..N : e = index'[n]
    BY <1>5
  <2>2. CASE n \in 1..K
    BY <1>7, <2>1, <2>2
  <2>3. CASE n \in (K + 1)..N
    <3>1. \E y \in disk' : y.id = e.id /\ y.ts = e.ts
      BY <1>8, <2>1, <2>3
    <3> QED
      BY <1>5, <3>1
  <2> QED
    BY <1>9, <2>2, <2>3
<1>17. HaveRows'
  BY <1>16 DEF HaveRows
<1>18. SameStamps'
  <2> SUFFICES ASSUME NEW e \in Listed', NEW r \in disk', r.id = e.id
               PROVE  r.ts <= e.ts /\ (r.ts = e.ts \/ e.id \in loose')
    BY DEF SameStamps
  <2>1. ~ (e.id <= 0)
    BY <1>5
  <2> QED
    BY <1>10, <1>16, <2>1
<1>19. FewHidden'
  <2> SUFFICES ASSUME NEW e \in Listed'
               PROVE  Cardinality({r.id : r \in {q \in Hidden' : Tops(q, e)'}})
                        <= IndexEntries - 1 + Leeway(faults')
    BY DEF FewHidden
  <2> DEFINE B == {r.id : r \in {q \in Hidden' : Tops(q, e)'}}
  <2>1. IndexEntries \in Nat /\ IndexEntries >= 1 /\ Leeway(faults') \in Nat
    <3>1. faults' \in Nat
      BY <1>1 DEF ThreadsTyped
    <3> QED
      BY <3>1, ClipAssumption DEF Leeway
  <2>2. \A r \in Hidden' : r \in disk
    <3> SUFFICES ASSUME NEW r \in Hidden', r \notin disk PROVE FALSE
      OBVIOUS
    <3>1. r \in disk' /\ r.id \notin {x.id : x \in Listed'}
      BY DEF Hidden, IdsOf
    <3>2. PICK j \in 1..K : index'[j].id = r.id
      BY <1>11, <3>1
    <3> QED
      BY <1>7, <3>1, <3>2
  <2>6. \A r \in Hidden' : Tops(r, e)' => r \in disk /\ r.ts > e.ts
    BY <1>5, <1>23, <2>2 DEF Tops, Hidden
  <2>3. PICK n \in 1..N : e = index'[n]
    BY <1>5
  <2>4. CASE n \in 1..K
    <3>1. \A r \in disk : ~ (r.ts > e.ts)
      BY <1>1, <1>2, <1>4, <1>7, <2>3, <2>4 DEF Apart
    <3>2. B = {}
      BY <2>6, <3>1
    <3> HIDE DEF B
    <3>3. Cardinality(B) = 0
      BY <3>2, FS_EmptySet
    <3>4. Cardinality(B) <= IndexEntries - 1 + Leeway(faults')
      BY <2>1, <3>3
    <3> QED
      BY <3>4 DEF B
  <2>5. CASE n \in (K + 1)..N
    <3>1. PICK y \in ToSet(loader.rows) : e.ts = y.ts
      BY <1>8, <2>3, <2>5
    <3> DEFINE read == ToSet(loader.rows)
               ids == {r.id : r \in read}
    <3>2. /\ \A r \in disk : r.ts > y.ts => r \in read
          /\ Len(loader.rows) <= IndexEntries /\ loader.rows \in Seq(Row) /\ read \subseteq disk
      BY <1>1, <1>2, <3>1 DEF NewestRead, ThreadsTyped
    <3>3. B \subseteq ids \ {y.id}
      <4> SUFFICES ASSUME NEW r \in Hidden', Tops(r, e)' PROVE r.id \in ids /\ r.id # y.id
        OBVIOUS
      <4>1. r \in disk /\ r.ts > y.ts
        BY <2>6, <3>1
      <4>2. r \in read /\ y \in disk
        BY <3>2, <4>1
      <4>3. r.id # y.id
        <5>1. r.id = y.id => r = y
          BY <1>1, <4>1, <4>2 DEF HalvesTyped
        <5> QED
          BY <1>4, <4>1, <4>2, <5>1
      <4> QED
        BY <4>2, <4>3
    <3>4. IsFiniteSet(read) /\ Cardinality(read) <= Len(loader.rows) /\ Len(loader.rows) \in Nat
      BY <3>2, ItemsFacts, LenProperties
    <3> HIDE DEF B
    <3>5. IsFiniteSet(ids) /\ Cardinality(ids) <= Cardinality(read)
      <4> DEFINE f == [r \in read |-> r.id]
      <4>1. f \in Surjection(read, ids)
        BY DEF Surjection
      <4> HIDE DEF f, read, ids
      <4> QED
        BY <3>4, <4>1, FS_Surjection
    <3>10. y.id \in ids
      BY <3>1
    <3> HIDE DEF read, ids
    <3>6. IsFiniteSet(ids \ {y.id}) /\ Cardinality(ids \ {y.id}) = Cardinality(ids) - 1
      BY <3>5, <3>10, FS_RemoveElement
    <3>7. Cardinality(B) <= Cardinality(ids \ {y.id}) /\ IsFiniteSet(B)
      BY <3>3, <3>6, FS_Subset
    <3>8. Cardinality(B) \in Nat /\ Cardinality(read) \in Nat /\ Cardinality(ids) \in Nat
      BY <3>4, <3>5, <3>7, FS_CardinalityType
    <3>9. Cardinality(B) <= IndexEntries - 1 + Leeway(faults')
      BY <2>1, <3>2, <3>4, <3>5, <3>6, <3>7, <3>8
    <3> QED
      BY <3>9 DEF B
  <2> QED
    BY <1>9, <2>4, <2>5
<1>20. Spreads'
  <2>1. Spread
    BY DEF Attach
  <2> QED
    BY <2>1 DEF Spread, Spreads
<1> QED
  BY <1>12, <1>13, <1>14, <1>15, <1>17, <1>18, <1>19, <1>20 DEF PasteInv

LEMMA PasteStarts == ClipInit => PasteInv
<1> SUFFICES ASSUME ClipInit PROVE PasteInv
  OBVIOUS
<1>1. /\ db = "loading" /\ index = <<>> /\ now = 0 /\ cap.pc = "idle" /\ loader.pc = "opening"
  BY DEF ClipInit, Idle
<1>2. Listed = {} /\ DOMAIN index = {}
  BY <1>1 DEF Listed, ToSet
<1>3. HalvesTyped /\ \A r \in disk : r.ts = 0
  BY ClipStarts DEF ClipInit, ClipInv
<1>4. Stamped /\ Ranked /\ Apart /\ NewestRead /\ NewRow /\ MovedUp /\ SameStamps /\ HaveRows /\ FewHidden
  BY <1>1, <1>2, <1>3 DEF Stamped, Ranked, Apart, NewestRead, NewRow, MovedUp, SameStamps, HaveRows, FewHidden
<1>5. Spreads
  <2> SUFFICES ASSUME NEW t \in 0..MaxClock PROVE Cardinality({r \in disk : r.ts = t}) <= SpreadBound
    BY DEF Spreads
  <2> DEFINE B == {r \in disk : r.ts = t}
  <2>1. PICK x : disk \subseteq {x}
    <3>1. disk = {} \/ \E u \in Texts : disk = {[id |-> 1, text |-> u, ts |-> 0]}
      BY DEF ClipInit
    <3> QED
      BY <3>1
  <2>2. B \subseteq {x} /\ IsFiniteSet({x}) /\ Cardinality({x}) = 1
    BY <2>1, FS_Singleton
  <2> HIDE DEF B
  <2>3. Cardinality(B) <= 1 /\ Cardinality(B) \in Nat
    BY <2>2, FS_Subset, FS_CardinalityType
  <2>4. SpreadBound \in Int /\ SpreadBound >= 1
    <3> DEFINE slack == IF IndexEntries = 1 THEN 0 ELSE MaxIncidents
    <3>1. slack \in Nat /\ IndexEntries \in Nat /\ MaxEntries \in Nat
      BY ClipAssumption
    <3>2. 2 * IndexEntries + slack <= MaxEntries
      BY ClipAssumption
    <3>3. SpreadBound = MaxEntries - 2 * IndexEntries + 1 - slack
      BY DEF SpreadBound
    <3> HIDE DEF slack
    <3> QED
      BY <3>1, <3>2, <3>3
  <2>5. Cardinality(B) <= SpreadBound
    BY <2>3, <2>4
  <2> QED
    BY <2>5 DEF B
<1> QED
  BY <1>4, <1>5 DEF PasteInv

LEMMA PasteStep ==
  ASSUME ClipInv, ClipInv', PasteInv, [ClipNext]_clipVars
  PROVE  PasteInv'
<1>1. CASE \/ Tick \/ CheckEnabled \/ ReadClipboard \/ Missing \/ LoadFails \/ OpenDb
           \/ ShowHistory \/ SetEnabled \/ UNCHANGED clipVars
  BY <1>1, IdlePaste
<1>2. CASE Promote
  BY <1>2, PromotePaste
<1>3. CASE TouchRow
  BY <1>3, TouchPaste
<1>4. CASE StoreRow
  BY <1>4, StorePaste
<1>5. CASE ListEntry
  BY <1>5, ListPaste
<1>6. CASE ListenerPrunes \/ LoaderPrunes
  BY <1>6, PrunePaste
<1>7. CASE Attach
  BY <1>7, AttachPaste
<1>8. CASE Delete
  BY <1>8, DeletePaste
<1>9. CASE Clear \/ Restart
  BY <1>9, EmptyPaste
<1> QED
  BY <1>1, <1>2, <1>3, <1>4, <1>5, <1>6, <1>7, <1>8, <1>9 DEF ClipNext, Listener, Loader, Main

\* content, which clipboard_paste calls, finds for every entry of the list the text
\* it stands for, in its own copy or in its row, through attach, every prune and
\* every clear; of a memory-only id it may be a namesake's. Exempt is an entry whose
\* capture was overtaken between its two locks, or whose row was refused the UPDATE
\* of its stamp, which the code ignores.
THEOREM ListedCanBePasted == ClipSpec => []ListedIsPastable
<1>1. ClipInit => OneText /\ PasteInv
  BY ClipStarts, PasteStarts
<1>2. ClipInv /\ OneText /\ [ClipNext]_clipVars => OneText'
  BY IdStep DEF ClipInv
<1>3. ClipInv /\ ClipInv' /\ PasteInv /\ [ClipNext]_clipVars => PasteInv'
  BY PasteStep
<1>4. ClipInv /\ OneText /\ PasteInv => ListedIsPastable
  <2> SUFFICES ASSUME ClipInv, OneText, PasteInv, NEW e \in Listed, e.id \notin Overtaken
               PROVE  Content(e.id) \in Namesakes(e.id, e.text)
    BY DEF ListedIsPastable
  <2> DEFINE P == {i \in DOMAIN index : index[i].id = e.id}
             own == AtPlaces(index, P)
             row == {r \in disk : r.id = e.id}
  <2>1. \A x \in Bearers : x.id = e.id => x.text \in Namesakes(e.id, e.text)
    <3>1. e \in Bearers
      BY DEF Bearers
    <3> QED
      BY <3>1 DEF OneText
  <2>2. index \in Seq(Entry) /\ P \in SUBSET (1..Len(index)) /\ e.id \in Int
    BY ListTypes DEF ClipInv, HalvesTyped
  <2>3. \A x \in Listed : x.id = e.id => x.text \in Namesakes(e.id, e.text) /\ (x.pending <=> e.id <= 0)
    BY <2>1 DEF Bearers, ClipInv, PendingById
  <2>4. \A i \in P : index[i] \in Listed /\ index[i].id = e.id
    BY DEF Listed, ToSet
  <2>5. \E i \in P : TRUE
    <3>1. PICK i \in DOMAIN index : e = index[i]
      BY DEF Listed, ToSet
    <3> QED
      BY <3>1
  <2>6. Content(e.id) = IF own # <<>> /\ own[1].pending THEN own[1].text
                        ELSE IF db = "ready" /\ row # {} THEN (CHOOSE r \in row : TRUE).text
                        ELSE NoText
    BY DEF Content, Retained
  <2> HIDE DEF P
  <2>7. own \in Seq(Entry) /\ ToSet(own) \subseteq {index[i] : i \in P} /\ own # <<>>
    <3>1. own \in Seq(Entry) /\ ToSet(own) \subseteq {index[i] : i \in P}
      BY <2>2, FilterFacts
    <3>2. \E n \in DOMAIN own : TRUE
      BY <2>2, <2>5, FilterKeeps
    <3> HIDE DEF own
    <3> QED
      BY <3>1, <3>2
  <2> HIDE DEF own
  <2>8. own[1].text \in Namesakes(e.id, e.text) /\ (own[1].pending <=> e.id <= 0)
    <3>1. own[1] \in ToSet(own)
      BY <2>7 DEF ToSet
    <3>2. PICK i \in P : own[1] = index[i]
      BY <2>7, <3>1
    <3> QED
      BY <2>3, <2>4, <3>2
  <2>9. CASE e.id <= 0
    BY <2>6, <2>7, <2>8, <2>9
  <2>10. CASE ~ (e.id <= 0)
    <3>1. db = "ready"
      BY <2>10 DEF ClipInv, StageInv
    <3>2. ~ Excused(e.id)
      BY DEF Excused, Overtaken
    <3>3. row # {}
      BY <2>10, <3>2 DEF PasteInv, HaveRows
    <3>4. (CHOOSE r \in row : TRUE) \in row
      BY <3>3
    <3>5. \A r \in row : r.text \in Namesakes(e.id, e.text)
      BY <2>1 DEF Bearers
    <3> HIDE DEF row
    <3> QED
      BY <2>6, <2>8, <2>10, <3>1, <3>3, <3>4, <3>5
  <2> QED
    BY <2>9, <2>10
<1> QED
  BY <1>1, <1>2, <1>3, <1>4, ClipboardInvariant, PTL DEF ClipSpec

-----------------------------------------------------------------------------
(* Sorting, joining and looking up.                                        *)

\* What is defined by going through 1..n from a starting value exists, and every
\* value on the way is of the type each turn keeps.
Turns(S, n) == [1..n -> [S -> S]]
Reaches(S, start, n, Turn) ==
  \E g \in [0..n -> S] : g[0] = start /\ \A k \in 1..n : g[k] = Turn[k][g[k - 1]]

LEMMA Iterates ==
  ASSUME NEW S, NEW start \in S, NEW n \in Nat, NEW Turn \in Turns(S, n)
  PROVE  Reaches(S, start, n, Turn)
<1> USE DEF Turns, Reaches
<1> DEFINE Upto(k, g) == /\ g \in [0..k -> S] /\ g[0] = start
                         /\ \A i \in 1..k : g[i] = Turn[i][g[i - 1]]
           T == {k \in Nat : \E g : Upto(k, g)}
<1>1. 0 \in T
  <2>1. Upto(0, [i \in 0..0 |-> start])
    OBVIOUS
  <2> QED
    BY <2>1
<1>2. ASSUME NEW k \in 0..(n - 1), k \in T PROVE k + 1 \in T
  <2>1. PICK g : Upto(k, g)
    BY <1>2
  <2> DEFINE h == [i \in 0..(k + 1) |-> IF i <= k THEN g[i] ELSE Turn[k + 1][g[k]]]
  <2>2. k \in Nat /\ k + 1 \in Nat /\ k + 1 \in 1..n /\ g[k] \in S
    BY <2>1
  <2>3. Turn[k + 1][g[k]] \in S
    BY <2>2
  <2>4. h \in [0..(k + 1) -> S] /\ h[0] = start
    BY <2>1, <2>2, <2>3
  <2>5. ASSUME NEW i \in 1..(k + 1) PROVE h[i] = Turn[i][h[i - 1]]
    <3>1. CASE i <= k
      <4>1. h[i] = g[i] /\ h[i - 1] = g[i - 1] /\ i \in 1..k
        BY <2>2, <3>1
      <4> QED
        BY <2>1, <4>1
    <3>2. CASE i = k + 1
      <4>1. h[i] = Turn[k + 1][g[k]] /\ h[i - 1] = g[k]
        BY <2>2, <3>2
      <4> QED
        BY <3>2, <4>1
    <3> QED
      BY <2>2, <3>1, <3>2
  <2>6. Upto(k + 1, h)
    BY <2>4, <2>5
  <2> QED
    BY <2>2, <2>6
<1>3. n \in T
  <2> HIDE DEF T
  <2>1. \A k \in 0..n : k \in T
    BY <1>1, <1>2, InductionUpTo
  <2> QED
    BY <2>1
<1> QED
  BY <1>3

LEMMA PlacedTyped ==
  ASSUME NEW S, NEW list \in Seq(S), NEW r \in S
  PROVE  Placed(list, r) \in Seq(S)
<1> DEFINE above == {n \in 0..Len(list) : \A i \in 1..n : ~Before(r, list[i])}
           m == CHOOSE m \in above : \A k \in above : k <= m
           back == {Len(list) - n : n \in above}
<1>1. Len(list) \in Nat /\ 0 \in above
  OBVIOUS
<1>2. m \in 0..Len(list)
  <2>1. back \in SUBSET Nat /\ back # {}
    BY <1>1
  <2>2. PICK b \in back : \A c \in back : b <= c
    <3> HIDE DEF back
    <3> QED
      BY <2>1, LeastElement
  <2>3. PICK x \in above : b = Len(list) - x
    BY <2>2
  <2>5. above \subseteq 0..Len(list)
    OBVIOUS
  <2>4. ASSUME NEW k \in above PROVE k <= x
    <3>1. Len(list) - k \in back /\ k \in Int /\ x \in Int
      BY <2>3, <2>5
    <3>2. b <= Len(list) - k
      BY <2>2, <3>1
    <3> HIDE DEF above
    <3> QED
      BY <1>1, <2>3, <3>1, <3>2
  <2> HIDE DEF above
  <2> QED
    BY <2>3, <2>4, <2>5
<1> DEFINE a == FirstN(list, m)
           c == SubSeq(list, m + 1, Len(list))
           d == <<r>>
<1>3. Placed(list, r) = a \o d \o c
  BY DEF Placed
<1> HIDE DEF m
<1>4. a \in Seq(S)
  BY <1>2, FirstNFacts
<1>5. c \in Seq(S)
  BY <1>1, <1>2, SubSeqProperties
<1>6. d \in Seq(S)
  OBVIOUS
<1> HIDE DEF a, c, d
<1>7. a \o d \in Seq(S)
  BY <1>4, <1>6, ConcatItems
<1>8. (a \o d) \o c \in Seq(S)
  BY <1>5, <1>7, ConcatItems
<1> QED
  BY <1>3, <1>8

LEMMA SortedTyped ==
  ASSUME NEW S, NEW list \in Seq(S)
  PROVE  Sorted(list) \in Seq(S)
<1> DEFINE n == Len(list)
           T == Seq(S)
           Turn == [k \in 1..n |-> [t \in T |-> Placed(t, list[k])]]
           Def(g) == [k \in 0..n |-> IF k = 0 THEN <<>> ELSE Placed(g[k - 1], list[k])]
           upto == CHOOSE h : h = Def(h)
<1>1. n \in Nat /\ <<>> \in T /\ \A k \in 1..n : list[k] \in S
  OBVIOUS
<1>2. \A k \in 1..n : \A t \in T : Placed(t, list[k]) \in T
  BY <1>1, PlacedTyped
<1>3. Sorted(list) = upto[n]
  BY DEF Sorted
<1> HIDE DEF n, T
<1>4. Turn \in Turns(T, n)
  BY <1>2 DEF Turns
<1>5. PICK g \in [0..n -> T] : g[0] = <<>> /\ \A k \in 1..n : g[k] = Turn[k][g[k - 1]]
  <2> DEFINE start == <<>>
  <2>1. n \in Nat /\ start \in T
    BY <1>1
  <2> HIDE DEF Turn, start
  <2>2. Reaches(T, start, n, Turn)
    BY <1>4, <2>1, Iterates
  <2> QED
    BY <2>2 DEF start, Reaches
<1>6. \A k \in 1..n : k - 1 \in 0..n /\ g[k - 1] \in T
  BY <1>1, <1>5
<1>7. \A k \in 1..n : g[k] = Placed(g[k - 1], list[k])
  BY <1>5, <1>6
<1>8. g = Def(g)
  <2>1. \A k \in 0..n : g[k] = Def(g)[k]
    BY <1>1, <1>5, <1>7
  <2> QED
    BY <1>5, <2>1
<1>9. upto = Def(upto)
  <2> HIDE DEF Def
  <2> QED
    BY <1>8
<1> HIDE DEF upto
<1>10. upto[0] = <<>> /\ \A k \in 1..n : upto[k] = Placed(upto[k - 1], list[k])
  BY <1>1, <1>9
<1> DEFINE D == {k \in 0..n : upto[k] \in T}
<1>11. 0 \in D
  BY <1>1, <1>10
<1>12. ASSUME NEW k \in 0..(n - 1), k \in D PROVE k + 1 \in D
  <2>1. k + 1 \in 1..n /\ (k + 1) - 1 = k /\ upto[k] \in T
    BY <1>1, <1>12
  <2>2. upto[k + 1] = Placed(upto[k], list[k + 1])
    BY <1>10, <2>1
  <2>3. Placed(upto[k], list[k + 1]) \in T
    BY <1>2, <2>1
  <2>4. k + 1 \in 0..n
    BY <1>1, <2>1
  <2> QED
    BY <2>2, <2>3, <2>4
<1>13. \A k \in 0..n : k \in D
  <2> HIDE DEF D
  <2> QED
    BY <1>1, <1>11, <1>12, InductionUpTo
<1> QED
  BY <1>1, <1>3, <1>13 DEF T

LEMMA FlattenTyped ==
  ASSUME NEW S, NEW seqs \in Seq(Seq(S))
  PROVE  FlattenSeq(seqs) \in Seq(S)
<1> DEFINE n == Len(seqs)
           T == Seq(S)
           Turn == [k \in 1..n |-> [t \in T |-> t \o seqs[k]]]
           Def(g) == [k \in 1..n |-> IF k = 1 THEN seqs[k] ELSE g[k - 1] \o seqs[k]]
           flat == CHOOSE h : h = Def(h)
<1>1. n \in Nat /\ <<>> \in T /\ \A k \in 1..n : seqs[k] \in T
  OBVIOUS
<1>2. \A k \in 1..n : \A t \in T : t \o seqs[k] \in T
  BY <1>1, ConcatItems
<1>3. CASE n = 0
  BY <1>3 DEF FlattenSeq
<1>4. CASE n # 0
  <2>1. FlattenSeq(seqs) = flat[n]
    BY <1>4 DEF FlattenSeq
  <2>2. \A k \in 1..n : <<>> \o seqs[k] = seqs[k]
    BY <1>1, ConcatEmptySeq
  <2> HIDE DEF n, T
  <2>3. Turn \in Turns(T, n)
    BY <1>2 DEF Turns
  <2>4. PICK g \in [0..n -> T] : g[0] = <<>> /\ \A k \in 1..n : g[k] = Turn[k][g[k - 1]]
    <3> DEFINE start == <<>>
    <3>1. n \in Nat /\ start \in T
      BY <1>1
    <3> HIDE DEF Turn, start
    <3>2. Reaches(T, start, n, Turn)
      BY <2>3, <3>1, Iterates
    <3> QED
      BY <3>2 DEF start, Reaches
  <2>5. \A k \in 1..n : k - 1 \in 0..n /\ g[k - 1] \in T
    BY <1>1, <2>4
  <2>6. \A k \in 1..n : g[k] = g[k - 1] \o seqs[k]
    BY <2>4, <2>5
  <2> DEFINE f == [k \in 1..n |-> g[k]]
  <2>7. \A k \in 1..n : f[k] = Def(f)[k]
    <3>1. TAKE k \in 1..n
    <3>2. CASE k = 1
      BY <1>1, <2>2, <2>4, <2>6, <3>2
    <3>3. CASE k # 1
      <4>1. k - 1 \in 1..n /\ f[k - 1] = g[k - 1] /\ f[k] = g[k]
        BY <1>1, <3>3
      <4> QED
        BY <2>6, <3>3, <4>1
    <3> QED
      BY <3>2, <3>3
  <2>8. f = Def(f)
    BY <2>7
  <2>9. flat = Def(flat)
    <3> HIDE DEF Def, f
    <3> QED
      BY <2>8
  <2> HIDE DEF flat
  <2>10. /\ \A k \in 1..n : k = 1 => flat[k] = seqs[k]
         /\ \A k \in 1..n : k # 1 => flat[k] = flat[k - 1] \o seqs[k]
    BY <1>1, <2>9
  <2> DEFINE D == {k \in 0..n : k = 0 \/ flat[k] \in T}
  <2>11. 0 \in D
    BY <1>1
  <2>12. ASSUME NEW k \in 0..(n - 1), k \in D PROVE k + 1 \in D
    <3>1. k + 1 \in 1..n /\ (k + 1) - 1 = k /\ seqs[k + 1] \in T
      BY <1>1
    <3>2. CASE k = 0
      BY <1>1, <2>10, <3>1, <3>2
    <3>3. CASE k # 0
      <4>1. flat[k] \in T /\ k + 1 # 1
        BY <2>12, <3>3
      <4>2. flat[k + 1] = flat[k] \o seqs[k + 1]
        BY <2>10, <3>1, <4>1
      <4>3. flat[k] \o seqs[k + 1] \in T
        BY <1>2, <3>1, <4>1
      <4>4. k + 1 \in 0..n
        BY <1>1, <3>1
      <4> QED
        BY <4>2, <4>3, <4>4
    <3> QED
      BY <3>2, <3>3
  <2>13. \A k \in 0..n : k \in D
    <3> HIDE DEF D
    <3> QED
      BY <1>1, <2>11, <2>12, InductionUpTo
  <2> QED
    BY <1>1, <1>4, <2>1, <2>13 DEF T
<1> QED
  BY <1>3, <1>4

\* When the first k places are among those kept, what is at them stays at them.
LEMMA FrontStays ==
  ASSUME NEW S, NEW seq \in Seq(S), NEW P \in SUBSET (1..Len(seq)),
         NEW k \in 0..Len(seq), 1..k \subseteq P
  PROVE  /\ AtPlaces(seq, P) \in Seq(S) /\ k <= Len(AtPlaces(seq, P))
         /\ \A i \in 1..k : AtPlaces(seq, P)[i] = seq[i]
<1> DEFINE Rank(i) == Cardinality({j \in P : j <= i})
           t == AtPlaces(seq, P)
<1>1. /\ IsFiniteSet(P) /\ Cardinality(P) \in 0..Len(seq)
      /\ \A i \in P : Rank(i) \in 1..Cardinality(P)
      /\ \A i, j \in P : i < j => Rank(i) < Rank(j)
  <2>1. Len(seq) \in Nat
    OBVIOUS
  <2> QED
    BY <2>1, RankOfPlace
<1>2. ASSUME NEW i \in 1..k PROVE Rank(i) = i
  <2>1. {j \in P : j <= i} = 1..i
    <3>1. \A j \in P : j \in 1..Len(seq)
      OBVIOUS
    <3>2. k \in Nat /\ \A j \in 1..k : j \in P
      OBVIOUS
    <3>3. \A j \in 1..i : j \in P /\ j <= i
      BY <3>2
    <3>4. \A j \in P : j <= i => j \in 1..i
      BY <3>1
    <3> QED
      BY <3>3, <3>4, Zenon
  <2>2. Cardinality(1..i) = i
    BY FS_Interval
  <2> QED
    BY <2>1, <2>2
<1>3. /\ t \in Seq(S) /\ Len(t) = Cardinality(P) /\ DOMAIN t = 1..Cardinality(P)
  BY AtPlacesFacts
<1>4. t = [n \in 1..Cardinality(P) |-> seq[CHOOSE i \in P : Rank(i) = n]]
  BY DEF AtPlaces
<1>5. ASSUME NEW i \in 1..k PROVE i \in 1..Cardinality(P) /\ t[i] = seq[i]
  <2>1. i \in P /\ Rank(i) = i /\ i \in 1..Cardinality(P)
    BY <1>1, <1>2
  <2> DEFINE c == CHOOSE j \in P : Rank(j) = i
  <2>2. c \in P /\ Rank(c) = i
    BY <2>1
  <2>3. P \subseteq Int
    OBVIOUS
  <2>4. c = i
    <3> HIDE DEF c, Rank
    <3> QED
      BY <1>1, <2>1, <2>2, <2>3
  <2>5. t[i] = seq[c]
    BY <1>4, <2>1
  <2> QED
    BY <2>1, <2>4, <2>5
<1>6. k <= Cardinality(P)
  <2>1. CASE k = 0
    BY <1>1, <2>1
  <2>2. CASE k # 0
    BY <1>1, <1>5, <2>2
  <2> QED
    BY <2>1, <2>2
<1> QED
  BY <1>3, <1>5, <1>6

\* findIndex: the first of the rows with a key that some row has.
LEMMA FirstIndex ==
  ASSUME NEW S, NEW list \in Seq(S), NEW key, key # NoKey,
         NEW i \in 1..Len(list), list[i].key = key
  PROVE  /\ SelectionIndex(list, key) \in 1..i
         /\ list[SelectionIndex(list, key)].key = key
<1> DEFINE its == {j \in DOMAIN list : list[j].key = key}
<1>1. DOMAIN list = 1..Len(list) /\ Len(list) \in Nat
  OBVIOUS
<1>2. its \in SUBSET Nat /\ i \in its
  BY <1>1
<1>3. PICK first \in its : \A j \in its : first <= j
  <2> HIDE DEF its
  <2>1. its # {}
    BY <1>2
  <2> QED
    BY <1>2, <2>1, LeastElement
<1> DEFINE c == CHOOSE f \in its : \A j \in its : f <= j
<1>4. c \in its /\ \A j \in its : c <= j
  BY <1>3
<1>5. SelectionIndex(list, key) = c
  <2>1. its # {}
    BY <1>2
  <2> QED
    BY <2>1 DEF SelectionIndex
<1>6. c \in 1..Len(list) /\ list[c].key = key
  BY <1>1, <1>4
<1>7. c <= i
  BY <1>2, <1>4
<1> HIDE DEF c
<1> QED
  BY <1>5, <1>6, <1>7

\* What is kept of the frozen rows is at their places, whatever was found since.
LEMMA MergeKeeps ==
  ASSUME NEW S, NEW apps \in Seq(S), NEW files \in Seq(S), NEW frozen \in Seq(S), NEW key
  PROVE  /\ MergeRows(apps, files, frozen, key) \in Seq(S)
         /\ Len(frozen) <= Len(MergeRows(apps, files, frozen, key))
         /\ \A i \in 1..Len(frozen) : MergeRows(apps, files, frozen, key)[i].key = frozen[i].key
<1> DEFINE all == Sorted(apps \o files)
           Copy(r) == {i \in DOMAIN all : all[i].key = r.key}
           Kept(r) == IF Copy(r) = {} THEN r
                      ELSE all[CHOOSE i \in Copy(r) : \A j \in Copy(r) : j <= i]
           P == {i \in DOMAIN all : all[i].key \notin KeysOf(frozen)}
           below == AtPlaces(all, P)
           top == [i \in DOMAIN frozen |-> Kept(frozen[i])]
           list == top \o below
           exempt == KeysOf(frozen) \cup ({key} \ {NoKey})
           Nth(i) == Cardinality({j \in 1..i : list[j].kind = list[i].kind})
           kept == {i \in DOMAIN list : Nth(i) <= KindCap[list[i].kind] \/ list[i].key \in exempt}
           n == Len(frozen)
<1>1. MergeRows(apps, files, frozen, key) = AtPlaces(list, kept)
  BY DEF MergeRows, CapByKind
<1>2. all \in Seq(S)
  <2>1. apps \o files \in Seq(S)
    BY ConcatItems
  <2> QED
    BY <2>1, SortedTyped
<1> HIDE DEF all
<1>3. Len(all) \in Nat /\ DOMAIN all = 1..Len(all) /\ \A i \in 1..Len(all) : all[i] \in S
  BY <1>2
<1>4. n \in Nat /\ DOMAIN frozen = 1..n /\ \A i \in 1..n : frozen[i] \in S
  OBVIOUS
<1>5. ASSUME NEW r \in S PROVE Kept(r) \in S /\ Kept(r).key = r.key
  <2>1. CASE Copy(r) = {}
    BY <2>1
  <2>2. CASE Copy(r) # {}
    <3> DEFINE back == {Len(all) - i : i \in Copy(r)}
               m == CHOOSE i \in Copy(r) : \A j \in Copy(r) : j <= i
    <3>1. Copy(r) \subseteq 1..Len(all)
      BY <1>3
    <3>2. back \in SUBSET Nat /\ back # {}
      BY <1>3, <2>2, <3>1
    <3>3. PICK b \in back : \A c \in back : b <= c
      <4> HIDE DEF back
      <4> QED
        BY <3>2, LeastElement
    <3>4. PICK x \in Copy(r) : b = Len(all) - x
      BY <3>3
    <3>5. ASSUME NEW j \in Copy(r) PROVE j <= x
      <4>1. Len(all) - j \in back /\ j \in Int /\ x \in Int
        BY <3>1, <3>4
      <4>2. b <= Len(all) - j
        BY <3>3, <4>1
      <4> HIDE DEF Copy
      <4> QED
        BY <1>3, <3>4, <4>1, <4>2
    <3>6. m \in Copy(r)
      BY <3>4, <3>5
    <3>7. Kept(r) = all[m]
      BY <2>2
    <3> HIDE DEF m
    <3> QED
      BY <1>3, <3>6, <3>7
  <2> QED
    BY <2>1, <2>2
<1> HIDE DEF Kept
<1>6. /\ top \in Seq(S) /\ Len(top) = n
      /\ \A i \in 1..n : top[i].key = frozen[i].key
  <2>1. top \in [1..n -> S]
    BY <1>4, <1>5
  <2>2. \A i \in 1..n : top[i].key = frozen[i].key
    BY <1>4, <1>5
  <2> HIDE DEF top
  <2> QED
    BY <1>4, <2>1, <2>2, SeqDef
<1>7. below \in Seq(S)
  <2>1. P \in SUBSET (1..Len(all))
    BY <1>3
  <2> HIDE DEF P
  <2> QED
    BY <1>2, <2>1, AtPlacesFacts
<1> HIDE DEF top, below
<1>8. /\ list \in Seq(S) /\ Len(list) = n + Len(below)
      /\ \A i \in 1..n : list[i] = top[i]
  BY <1>4, <1>6, <1>7, ConcatItems, ConcatProperties
<1> HIDE DEF list
<1>9. Len(below) \in Nat /\ DOMAIN list = 1..Len(list) /\ n \in 0..Len(list)
  BY <1>4, <1>7, <1>8
<1>10. kept \in SUBSET (1..Len(list))
  BY <1>9
<1>11. 1..n \subseteq kept
  <2>1. ASSUME NEW i \in 1..n PROVE i \in kept
    <3>1. list[i].key = frozen[i].key /\ i \in DOMAIN list
      BY <1>6, <1>8, <1>9
    <3>2. frozen[i].key \in KeysOf(frozen)
      BY <1>4 DEF KeysOf
    <3> QED
      BY <3>1, <3>2
  <2> QED
    BY <2>1
<1> HIDE DEF kept, n
<1>12. /\ AtPlaces(list, kept) \in Seq(S) /\ n <= Len(AtPlaces(list, kept))
       /\ \A i \in 1..n : AtPlaces(list, kept)[i] = list[i]
  BY <1>8, <1>9, <1>10, <1>11, FrontStays
<1> QED
  BY <1>1, <1>6, <1>8, <1>12 DEF n

LEMMA CollapseTyped ==
  ASSUME NEW S, NEW files \in Seq(S), NEW room \in Nat
  PROVE  CollapseSameName(files, room) \in Seq(S)
<1> DEFINE Best(i) == \A j \in DOMAIN files : files[j].name = files[i].name =>
                        files[j].score < files[i].score \/ (files[j].score = files[i].score /\ i <= j)
           P == {i \in DOMAIN files : Best(i)}
<1>1. CollapseSameName(files, room) = FirstN(Sorted(AtPlaces(files, P)), room)
  BY DEF CollapseSameName
<1>2. P \in SUBSET (1..Len(files))
  OBVIOUS
<1> HIDE DEF P
<1>3. AtPlaces(files, P) \in Seq(S)
  BY <1>2, AtPlacesFacts
<1>4. Sorted(AtPlaces(files, P)) \in Seq(S)
  BY <1>3, SortedTyped
<1> QED
  BY <1>1, <1>4, FirstNFacts

-----------------------------------------------------------------------------
(* The inductive invariant of the root list.                               *)

AnyKey == STRING \union {NoKey}
Arrival == [gen : Nat, from : {"shell", "files"}, rows : Seq(ListRow), final : BOOLEAN]

ListTyped ==
  /\ lastGen \in Nat /\ gen \in 0..lastGen /\ query \in Queries
  /\ st \in [apps : Seq(ListRow), files : Seq(ListRow), frozen : Seq(ListRow), key : AnyKey]
  /\ buffers \in Seq(Arrival) /\ wire \in Seq(Arrival)
  /\ stream \in [gen : Nat, batches : Seq(Seq(ListRow))]
  /\ rows \in Seq(ListRow) /\ sel \in Nat
  /\ shown \in [rows : Seq(ListRow), sel : Nat]
  /\ panel \in [key : AnyKey, held : BOOLEAN]

\* Once the user has moved, the rows frozen then are where they were in the list,
\* and both the committed and the rendered selection are at the row chosen.
Keeps(list) ==
  /\ Len(st.frozen) <= Len(list)
  /\ \A i \in 1..Len(st.frozen) : list[i].key = st.frozen[i].key
OnRow(i) == i \in 1..Len(st.frozen) /\ st.frozen[i].key = st.key
AimInv == st.key # NoKey => Keeps(rows) /\ OnRow(sel) /\ OnRow(shown.sel)

\* A panel opened over such a row stays over it, and no view opens below a panel.
PanelInv ==
  /\ panel.held => st.key # NoKey /\ panel.key = st.key /\ Keeps(shown.rows)
  /\ view = "files" => panel = NoPanel

ListInv == ListTyped /\ AimInv /\ PanelInv

LEMMA RootConstants ==
  /\ InlineCap \in Nat /\ Empty \in Queries /\ \A q \in Queries : ShellRows[q] \in Seq(ListRow)
  /\ \A q \in Queries : FallbackRows[q] \in Seq(ListRow)
  /\ \A q \in Queries : FileBatches[q] \in Seq(Seq(ListRow))
<1>1. ShellRows \in [Queries -> Seq(ListRow)] /\ FallbackRows \in [Queries -> Seq(ListRow)]
  BY RootAssumption
<1>2. FileBatches \in [Queries -> Seq(Seq(ListRow))]
  BY RootAssumption
<1> QED
  BY <1>1, <1>2, RootAssumption

LEMMA EmptyTyped ==
  /\ <<>> \in Seq(ListRow) /\ <<>> \in Seq(Arrival) /\ <<>> \in Seq(Seq(ListRow))
  /\ NoKey \in AnyKey
<1>1. \A S : <<>> \in Seq(S)
  OBVIOUS
<1>2. NoKey \in AnyKey
  BY DEF AnyKey
<1> QED
  BY <1>1, <1>2

LEMMA RowFacts ==
  ASSUME NEW list \in Seq(ListRow), NEW i \in 1..Len(list)
  PROVE  list[i] \in ListRow /\ list[i].key \in AnyKey
<1>1. list[i] \in ListRow
  OBVIOUS
<1> QED
  BY <1>1 DEF ListRow, AnyKey

LEMMA ClampFacts ==
  ASSUME NEW list \in Seq(ListRow), NEW i \in Nat
  PROVE  /\ Clamp(i, list) \in Nat
         /\ list # <<>> => Clamp(i, list) \in 1..Len(list)
         /\ i \in 1..Len(list) => Clamp(i, list) = i
<1>1. Len(list) \in Nat /\ (list # <<>> => Len(list) > 0)
  OBVIOUS
<1> QED
  BY <1>1 DEF Clamp

LEMMA AnswerTyped ==
  ASSUME NEW g \in Nat, NEW q \in Queries, wire \in Seq(Arrival), Answer(g, q)
  PROVE  wire' \in Seq(Arrival) /\ stream' \in [gen : Nat, batches : Seq(Seq(ListRow))]
<1> DEFINE e == [gen |-> g, from |-> "shell", rows |-> ShellRows[q], final |-> FALSE]
<1>1. e \in Arrival
  BY RootConstants DEF Arrival
<1>2. wire' = Append(wire, e)
  BY DEF Answer
<1>3. PICK b \in {FileBatches[q], <<FallbackRows[q]>>} : stream' = [gen |-> g, batches |-> b]
  BY DEF Answer
<1>4. b \in Seq(Seq(ListRow))
  <2> DEFINE T == Seq(ListRow)
  <2>1. FallbackRows[q] \in T /\ FileBatches[q] \in Seq(T)
    BY RootConstants
  <2> HIDE DEF T
  <2>2. <<FallbackRows[q]>> \in Seq(T)
    BY <2>1
  <2> QED
    BY <2>1, <2>2 DEF T
<1> HIDE DEF e
<1> QED
  BY <1>1, <1>2, <1>3, <1>4

LEMMA StartFacts ==
  ASSUME ListTyped, NEW text \in Queries, StartGeneration(text)
  PROVE  /\ lastGen' \in Nat /\ gen' \in 0..lastGen' /\ gen' # gen /\ query' \in Queries
         /\ st' \in [apps : Seq(ListRow), files : Seq(ListRow), frozen : Seq(ListRow), key : AnyKey]
         /\ st'.key = NoKey
         /\ buffers' \in Seq(Arrival) /\ wire' \in Seq(Arrival)
         /\ stream' \in [gen : Nat, batches : Seq(Seq(ListRow))]
         /\ rows' \in Seq(ListRow) /\ sel' \in Nat
         /\ shown' \in [rows : Seq(ListRow), sel : Nat]
<1>1. lastGen \in Nat /\ lastGen + 1 \in Nat /\ gen \in 0..lastGen /\ wire \in Seq(Arrival)
  BY DEF ListTyped
<1>2. /\ lastGen' = lastGen + 1 /\ gen' = lastGen + 1 /\ query' = text
      /\ st' = Fresh /\ buffers' = <<>>
      /\ rows' = <<>> /\ sel' = 1 /\ shown' = [rows |-> <<>>, sel |-> 1]
      /\ Answer(lastGen + 1, text)
  BY DEF StartGeneration
<1>3. wire' \in Seq(Arrival) /\ stream' \in [gen : Nat, batches : Seq(Seq(ListRow))]
  BY <1>1, <1>2, AnswerTyped
<1>4. st' \in [apps : Seq(ListRow), files : Seq(ListRow), frozen : Seq(ListRow), key : AnyKey]
      /\ st'.key = NoKey /\ rows' \in Seq(ListRow) /\ buffers' \in Seq(Arrival)
      /\ shown' \in [rows : Seq(ListRow), sel : Nat] /\ sel' \in Nat
  BY <1>2, EmptyTyped DEF Fresh
<1>5. lastGen' \in Nat /\ gen' \in 0..lastGen' /\ gen' # gen /\ query' \in Queries
  BY <1>1, <1>2
<1> QED
  BY <1>3, <1>4, <1>5

\* What a frame makes of the buffers.
LEMMA FrameFacts ==
  ASSUME ListTyped, ApplyBuffered, buffers # <<>>
  PROVE  /\ st' = [st EXCEPT !.apps = st'.apps, !.files = st'.files]
         /\ st'.apps \in Seq(ListRow) /\ st'.files \in Seq(ListRow)
         /\ rows' = MergeRows(st'.apps, st'.files, st.frozen, st.key)
         /\ sel' = SelectionIndex(rows', st.key)
<1> DEFINE Places(who) == {i \in DOMAIN buffers : buffers[i].from = who}
           mine == AtPlaces(buffers, Places("shell"))
           arrived == AtPlaces(buffers, Places("files"))
           batches == [i \in DOMAIN arrived |-> arrived[i].rows]
           newFiles == FlattenSeq(batches)
           apps == IF mine = <<>> THEN st.apps ELSE Last(mine).rows
           files == CollapseSameName(st.files \o newFiles, InlineCap)
           merge == [st EXCEPT !.apps = apps, !.files = files]
<1>1. /\ st' = merge /\ rows' = MergeRows(merge.apps, merge.files, merge.frozen, merge.key)
      /\ sel' = SelectionIndex(rows', merge.key)
  BY DEF ApplyBuffered
<1>2. ASSUME NEW who PROVE AtPlaces(buffers, Places(who)) \in Seq(Arrival)
  <2>1. buffers \in Seq(Arrival)
    BY DEF ListTyped
  <2>2. Places(who) \in SUBSET (1..Len(buffers))
    BY <2>1
  <2> HIDE DEF Places
  <2> QED
    BY <2>1, <2>2, AtPlacesFacts
<1>3. mine \in Seq(Arrival) /\ arrived \in Seq(Arrival)
  BY <1>2
<1> HIDE DEF mine, arrived
<1>4. apps \in Seq(ListRow)
  <2>1. CASE mine = <<>>
    BY <2>1 DEF ListTyped
  <2>2. CASE mine # <<>>
    <3>1. Len(mine) \in 1..Len(mine) /\ Last(mine) = mine[Len(mine)]
      BY <1>3, <2>2 DEF Last
    <3>2. Last(mine) \in Arrival
      BY <1>3, <3>1
    <3> QED
      BY <2>2, <3>2 DEF Arrival
  <2> QED
    BY <2>1, <2>2
<1>5. batches \in Seq(Seq(ListRow))
  <2>1. DOMAIN arrived = 1..Len(arrived) /\ Len(arrived) \in Nat
    BY <1>3
  <2>2. ASSUME NEW i \in 1..Len(arrived) PROVE arrived[i].rows \in Seq(ListRow)
    <3>1. arrived[i] \in Arrival
      BY <1>3
    <3> QED
      BY <3>1 DEF Arrival
  <2>3. batches \in [1..Len(arrived) -> Seq(ListRow)]
    BY <2>1, <2>2
  <2> HIDE DEF batches
  <2> QED
    BY <2>1, <2>3, SeqDef
<1> HIDE DEF batches, apps
<1>6. newFiles \in Seq(ListRow)
  BY <1>5, FlattenTyped
<1> HIDE DEF newFiles
<1>7. files \in Seq(ListRow)
  <2>1. st.files \in Seq(ListRow)
    BY DEF ListTyped
  <2>2. st.files \o newFiles \in Seq(ListRow)
    BY <1>6, <2>1, ConcatItems
  <2> QED
    BY <2>2, CollapseTyped, RootConstants
<1> HIDE DEF files
<1>8. st \in [apps : Seq(ListRow), files : Seq(ListRow), frozen : Seq(ListRow), key : AnyKey]
  BY DEF ListTyped
<1>9. /\ merge.apps = apps /\ merge.files = files /\ merge.frozen = st.frozen /\ merge.key = st.key
  BY <1>8
<1> HIDE DEF merge
<1>10. st'.apps = apps /\ st'.files = files
  BY <1>1, <1>9
<1>11. st' = [st EXCEPT !.apps = apps, !.files = files]
  BY <1>1 DEF merge
<1> QED
  BY <1>1, <1>4, <1>7, <1>9, <1>10, <1>11

-----------------------------------------------------------------------------
(* The steps of the root list.                                             *)

LEMMA ListStarts == Init => ListInv
<1> SUFFICES ASSUME Init PROVE ListInv
  OBVIOUS
<1>2. ListTyped
  BY EmptyTyped, RootConstants DEF Init, ListTyped, Fresh, NoPanel
<1>3. AimInv
  BY DEF Init, AimInv, Fresh
<1>4. PanelInv
  BY DEF Init, PanelInv, NoPanel
<1> QED
  BY <1>2, <1>3, <1>4 DEF ListInv

\* A step that leaves the list and the panel alone.
LEMMA OutsideStep ==
  ASSUME ListInv, UNCHANGED <<st, rows, sel, shown, panel, view>>, ListTyped'
  PROVE  ListInv'
<1>1. AimInv'
  BY DEF ListInv, AimInv, Keeps, OnRow
<1>2. PanelInv'
  BY DEF ListInv, PanelInv, Keeps
<1> QED
  BY <1>1, <1>2 DEF ListInv

\* A step that begins a generation while no panel is open.
LEMMA FreshStep ==
  ASSUME ListInv, NEW text \in Queries, StartGeneration(text),
         panel = NoPanel, UNCHANGED panel
  PROVE  ListInv'
<1>1. ListTyped
  BY DEF ListInv
<1>2. ListTyped' /\ st'.key = NoKey
  BY <1>1, StartFacts DEF ListTyped
<1>3. AimInv' /\ PanelInv'
  BY <1>2 DEF AimInv, PanelInv, NoPanel
<1> QED
  BY <1>2, <1>3 DEF ListInv

LEMMA FrameStep ==
  ASSUME ListInv, ApplyBuffered, buffers # <<>>
  PROVE  ListInv'
<1>1. ListTyped /\ AimInv /\ PanelInv
  BY DEF ListInv
<1>2. /\ st' = [st EXCEPT !.apps = st'.apps, !.files = st'.files]
      /\ st'.apps \in Seq(ListRow) /\ st'.files \in Seq(ListRow)
      /\ rows' = MergeRows(st'.apps, st'.files, st.frozen, st.key)
      /\ sel' = SelectionIndex(rows', st.key)
  BY <1>1, FrameFacts
<1>3. st \in [apps : Seq(ListRow), files : Seq(ListRow), frozen : Seq(ListRow), key : AnyKey]
  BY <1>1 DEF ListTyped
<1>4. /\ rows' \in Seq(ListRow) /\ Len(st.frozen) <= Len(rows')
      /\ \A i \in 1..Len(st.frozen) : rows'[i].key = st.frozen[i].key
  <2> DEFINE apps == st'.apps
             files == st'.files
             frozen == st.frozen
             key == st.key
  <2>1. /\ frozen \in Seq(ListRow) /\ apps \in Seq(ListRow) /\ files \in Seq(ListRow)
        /\ rows' = MergeRows(apps, files, frozen, key)
    BY <1>2, <1>3
  <2> HIDE DEF apps, files, frozen, key
  <2>2. /\ MergeRows(apps, files, frozen, key) \in Seq(ListRow)
        /\ Len(frozen) <= Len(MergeRows(apps, files, frozen, key))
        /\ \A i \in 1..Len(frozen) : MergeRows(apps, files, frozen, key)[i].key = frozen[i].key
    BY <2>1, MergeKeeps
  <2> QED
    BY <2>1, <2>2 DEF frozen
<1>5. /\ st' \in [apps : Seq(ListRow), files : Seq(ListRow), frozen : Seq(ListRow), key : AnyKey]
      /\ st'.frozen = st.frozen /\ st'.key = st.key
  BY <1>2, <1>3
<1>6. ASSUME st.key # NoKey PROVE sel' \in 1..Len(st.frozen) /\ st.frozen[sel'].key = st.key
  <2>1. sel \in 1..Len(st.frozen) /\ st.frozen[sel].key = st.key
    BY <1>1, <1>6 DEF AimInv, OnRow
  <2>2. Len(st.frozen) \in Nat /\ Len(rows') \in Nat
    BY <1>3, <1>4
  <2>3. sel \in 1..Len(rows') /\ rows'[sel].key = st.key
    BY <1>4, <2>1, <2>2
  <2>4. sel' \in 1..sel /\ rows'[sel'].key = st.key
    BY <1>2, <1>4, <1>6, <2>3, FirstIndex
  <2>5. sel' \in 1..Len(st.frozen)
    BY <2>1, <2>2, <2>4
  <2> QED
    BY <1>4, <2>4, <2>5
<1>7. sel' \in Nat
  <2>1. CASE st.key # NoKey
    BY <1>6, <2>1
  <2>2. CASE st.key = NoKey
    BY <1>2, <2>2 DEF SelectionIndex
  <2> QED
    BY <2>1, <2>2
<1>8. buffers' = <<>> /\ UNCHANGED <<gen, query, shown, panel, view, other>>
  BY DEF ApplyBuffered
<1>9. ListTyped'
  BY <1>1, <1>4, <1>5, <1>7, <1>8 DEF ListTyped, other
<1>10. AimInv'
  BY <1>1, <1>4, <1>5, <1>6, <1>8 DEF AimInv, Keeps, OnRow
<1>11. PanelInv'
  BY <1>1, <1>5, <1>8 DEF PanelInv, Keeps
<1> QED
  BY <1>9, <1>10, <1>11 DEF ListInv

\* An arrow key.
LEMMA MoveStep ==
  ASSUME ListInv, NEW delta, MoveSelection(delta)
  PROVE  /\ ListInv' /\ rows' = rows
         /\ rows # <<>> => rows'[sel'].key = st'.key
         /\ st.key # NoKey => rows # <<>>
<1> DEFINE next == Clamp(IF delta = "down" THEN sel + 1 ELSE sel - 1, rows)
<1>1. ListTyped /\ AimInv /\ PanelInv
  BY DEF ListInv
<1>2. /\ sel' = next /\ shown' = [shown EXCEPT !.sel = next]
      /\ st' = IF rows = <<>> THEN st ELSE [st EXCEPT !.key = rows[next].key, !.frozen = rows]
      /\ UNCHANGED <<gen, query, buffers, rows, panel, view, lastGen, wire, stream>>
      /\ panel = NoPanel
  BY DEF MoveSelection, InList
<1>3. /\ rows \in Seq(ListRow) /\ sel \in Nat /\ shown \in [rows : Seq(ListRow), sel : Nat]
      /\ st \in [apps : Seq(ListRow), files : Seq(ListRow), frozen : Seq(ListRow), key : AnyKey]
  BY <1>1 DEF ListTyped
<1>4. next \in Nat /\ (rows # <<>> => next \in 1..Len(rows))
  <2>1. Len(rows) \in Nat /\ (rows # <<>> => Len(rows) > 0)
    BY <1>3
  <2> QED
    BY <1>3, <2>1 DEF Clamp
<1> HIDE DEF next
<1>5. /\ sel' \in Nat /\ shown' \in [rows : Seq(ListRow), sel : Nat]
      /\ shown'.sel = next
  BY <1>2, <1>3, <1>4
<1>6. CASE rows = <<>>
  <2>1. st.key = NoKey
    <3>1. SUFFICES ASSUME st.key # NoKey PROVE FALSE
      OBVIOUS
    <3>2. sel \in 1..Len(st.frozen) /\ Len(st.frozen) <= 0 /\ Len(st.frozen) \in Nat
      BY <1>1, <1>3, <1>6, <3>1 DEF AimInv, OnRow, Keeps
    <3> QED
      BY <3>2
  <2>2. st' = st
    BY <1>2, <1>6
  <2>3. ListTyped'
    BY <1>1, <1>2, <1>5, <2>2 DEF ListTyped
  <2>4. AimInv' /\ PanelInv'
    BY <1>2, <2>1, <2>2 DEF AimInv, PanelInv, NoPanel
  <2> QED
    BY <1>2, <2>1, <2>2, <2>3, <2>4 DEF ListInv
<1>7. CASE rows # <<>>
  <2>1. st' = [st EXCEPT !.key = rows[next].key, !.frozen = rows]
    BY <1>2, <1>7
  <2>2. next \in 1..Len(rows) /\ rows[next].key \in AnyKey
    BY <1>3, <1>4, <1>7, RowFacts
  <2>3. /\ st' \in [apps : Seq(ListRow), files : Seq(ListRow), frozen : Seq(ListRow), key : AnyKey]
        /\ st'.key = rows[next].key /\ st'.frozen = rows
    BY <1>3, <2>1, <2>2
  <2>4. ListTyped'
    BY <1>1, <1>2, <1>5, <2>3 DEF ListTyped
  <2>5. rows' = rows /\ sel' = next /\ Len(rows) \in Nat
    BY <1>2, <1>3
  <2>6. Keeps(rows)' /\ OnRow(sel)' /\ OnRow(shown.sel)'
    BY <1>5, <2>2, <2>3, <2>5 DEF Keeps, OnRow
  <2>7. AimInv'
    BY <2>6 DEF AimInv
  <2>8. PanelInv'
    BY <1>2 DEF PanelInv, NoPanel
  <2> QED
    BY <1>7, <2>3, <2>4, <2>5, <2>7, <2>8 DEF ListInv
<1> QED
  BY <1>6, <1>7

\* Over a frozen list as it was merged, the row pointed at is the one chosen.
LEMMA PointedFacts ==
  ASSUME ListInv, st.key # NoKey, Keeps(shown.rows)
  PROVE  Pointed = st.key
<1>1. /\ shown \in [rows : Seq(ListRow), sel : Nat] /\ OnRow(shown.sel)
      /\ st.frozen \in Seq(ListRow)
  BY DEF ListInv, ListTyped, AimInv
<1>2. Len(st.frozen) \in Nat /\ Len(shown.rows) \in Nat
  BY <1>1
<1>3. shown.sel \in 1..Len(shown.rows) /\ shown.rows[shown.sel].key = st.key
  BY <1>1, <1>2 DEF OnRow, Keeps
<1>4. Clamp(shown.sel, shown.rows) = shown.sel /\ shown.rows # <<>>
  BY <1>1, <1>3, ClampFacts
<1> QED
  BY <1>3, <1>4 DEF Pointed

\* The panel is opened, used or closed, an action is run, a view changes: the list stays.
LEMMA PageStays ==
  ASSUME ListInv, ListTyped', PanelInv', UNCHANGED <<st, rows, sel, shown>>
  PROVE  ListInv'
<1>1. AimInv'
  BY DEF ListInv, AimInv, Keeps, OnRow
<1> QED
  BY <1>1 DEF ListInv

LEMMA ListStep ==
  ASSUME ListInv, [Next]_vars
  PROVE  ListInv'
<1> USE DEF page, other
<1>1. ListTyped /\ AimInv /\ PanelInv
  BY DEF ListInv
<1>2. wire \in Seq(Arrival) /\ buffers \in Seq(Arrival) /\ lastGen \in Nat /\ gen \in 0..lastGen
  BY <1>1 DEF ListTyped
<1>3. CASE SendBatch
  <2> DEFINE e == [gen |-> stream.gen, from |-> "files", rows |-> Head(stream.batches),
                   final |-> Len(stream.batches) = 1]
             T == Seq(ListRow)
  <2>1. stream \in [gen : Nat, batches : Seq(T)] /\ stream.batches # <<>>
    BY <1>1, <1>3 DEF ListTyped, SendBatch
  <2>2. Head(stream.batches) \in T /\ Tail(stream.batches) \in Seq(T)
    <3> HIDE DEF T
    <3> QED
      BY <2>1
  <2>3. e \in Arrival
    BY <2>1, <2>2 DEF Arrival
  <2>4. wire' = Append(wire, e) /\ stream' = [stream EXCEPT !.batches = Tail(@)]
        /\ UNCHANGED <<page, panel, view, lastGen>>
    BY <1>3 DEF SendBatch
  <2> HIDE DEF e, T
  <2>5. wire' \in Seq(Arrival)
    BY <1>2, <2>3, <2>4
  <2>6. stream' \in [gen : Nat, batches : Seq(T)]
    BY <2>1, <2>2, <2>4
  <2>7. ListTyped'
    BY <1>1, <2>4, <2>5, <2>6 DEF ListTyped, T
  <2> QED
    BY <2>4, <2>7, OutsideStep
<1>4. CASE Receive
  <2>1. wire # <<>> /\ wire' = Tail(wire) /\ buffers' \in {buffers, Append(buffers, Head(wire))}
        /\ UNCHANGED <<gen, query, st, rows, sel, shown, panel, view, lastGen, stream>>
    BY <1>4 DEF Receive
  <2>2. Head(wire) \in Arrival /\ wire' \in Seq(Arrival)
    BY <1>2, <2>1
  <2>3. buffers' \in Seq(Arrival)
    <3>1. buffers \in Seq(Arrival)
      BY <1>2
    <3>2. Append(buffers, Head(wire)) \in Seq(Arrival)
      BY <2>2, <3>1
    <3> QED
      BY <2>1, <3>1, <3>2, Zenon
  <2>4. ListTyped'
    BY <1>1, <2>1, <2>2, <2>3 DEF ListTyped
  <2> QED
    BY <2>1, <2>4, OutsideStep
<1>5. CASE ApplyBuffered
  <2>1. CASE buffers = <<>>
    <3>1. buffers' = buffers /\ UNCHANGED <<gen, query, st, rows, sel, shown, panel, view, other>>
      BY <1>5, <2>1 DEF ApplyBuffered
    <3>2. ListTyped'
      BY <1>1, <3>1 DEF ListTyped
    <3> QED
      BY <3>1, <3>2, OutsideStep
  <2>2. CASE buffers # <<>>
    BY <1>5, <2>2, FrameStep
  <2> QED
    BY <2>1, <2>2
<1>6. CASE Render
  <2>1. /\ shown' = [rows |-> rows, sel |-> sel]
        /\ UNCHANGED <<gen, query, st, buffers, rows, sel, panel, view, other>>
    BY <1>6 DEF Render
  <2>2. shown'.rows = rows /\ shown'.sel = sel
    BY <2>1
  <2>3. ListTyped'
    BY <1>1, <2>1 DEF ListTyped
  <2>4. AimInv'
    BY <1>1, <2>1, <2>2 DEF AimInv, Keeps, OnRow
  <2>5. PanelInv'
    BY <1>1, <2>1, <2>2 DEF PanelInv, Keeps, AimInv
  <2> QED
    BY <2>3, <2>4, <2>5 DEF ListInv
<1>7. ASSUME NEW q \in Queries, Type(q) PROVE ListInv'
  <2>1. StartGeneration(q) /\ panel = NoPanel /\ UNCHANGED panel
    BY <1>7 DEF Type, InList
  <2> QED
    BY <2>1, FreshStep
<1>8. ASSUME NEW d \in {"up", "down"}, MoveSelection(d) PROVE ListInv'
  BY <1>8, MoveStep
<1>9. CASE Enter
  <2>1. UNCHANGED <<page, panel, view, lastGen, wire, stream>>
    BY <1>9 DEF Enter
  <2>2. ListTyped'
    BY <1>1, <2>1 DEF ListTyped
  <2> QED
    BY <2>1, <2>2, OutsideStep
<1>10. CASE OpenPanel
  <2>1. /\ panel' = [key |-> Pointed, held |-> st.key # NoKey /\ shown.rows = rows]
        /\ view = "search" /\ Pointed # NoKey /\ UNCHANGED <<page, view, other>>
    BY <1>10 DEF OpenPanel, InList
  <2>2. panel'.key = Pointed /\ (panel'.held <=> st.key # NoKey /\ shown.rows = rows)
        /\ panel'.held \in BOOLEAN
    BY <2>1
  <2>3. Pointed \in AnyKey
    <3>1. shown.rows # <<>>
      BY <2>1 DEF Pointed
    <3>2. shown.rows \in Seq(ListRow) /\ shown.sel \in Nat
      BY <1>1 DEF ListTyped
    <3>3. Clamp(shown.sel, shown.rows) \in 1..Len(shown.rows)
      BY <3>1, <3>2, ClampFacts
    <3> QED
      BY <3>1, <3>2, <3>3, RowFacts DEF Pointed
  <2>4. ListTyped'
    BY <1>1, <2>1, <2>3 DEF ListTyped
  <2>5. ASSUME st.key # NoKey, shown.rows = rows PROVE Pointed = st.key /\ Keeps(shown.rows)
    <3>1. Keeps(shown.rows)
      BY <1>1, <2>5 DEF AimInv
    <3> QED
      BY <2>5, <3>1, PointedFacts
  <2>6. PanelInv'
    BY <2>1, <2>2, <2>5 DEF PanelInv, Keeps
  <2> QED
    BY <2>1, <2>4, <2>6, PageStays
<1>11. ASSUME panel' = NoPanel, UNCHANGED <<st, rows, sel, shown>>, ListTyped' PROVE ListInv'
  <2>1. PanelInv'
    BY <1>11 DEF PanelInv, NoPanel
  <2> QED
    BY <1>11, <2>1, PageStays
<1>12. CASE RunPanelAction
  <2>1. panel' = NoPanel /\ UNCHANGED <<page, view, lastGen, wire, stream>>
    BY <1>12 DEF RunPanelAction
  <2>2. ListTyped'
    BY <1>1, <2>1, EmptyTyped DEF ListTyped, NoPanel
  <2> QED
    BY <1>11, <2>1, <2>2
<1>13. CASE ClosePanel
  <2>1. panel' = NoPanel /\ UNCHANGED <<page, view, other>>
    BY <1>13 DEF ClosePanel
  <2>2. ListTyped'
    BY <1>1, <2>1, EmptyTyped DEF ListTyped, NoPanel
  <2> QED
    BY <1>11, <2>1, <2>2
<1>14. CASE OpenView
  <2>1. panel = NoPanel /\ UNCHANGED <<page, panel, other>>
    BY <1>14 DEF OpenView, InList
  <2>2. ListTyped'
    BY <1>1, <2>1 DEF ListTyped
  <2> QED
    BY <1>11, <2>1, <2>2
<1>15. CASE FilesQuery
  <2>1. /\ lastGen' = lastGen + 1 /\ stream' = [gen |-> lastGen + 1, batches |-> <<>>]
        /\ UNCHANGED <<page, panel, view, wire>>
    BY <1>15 DEF FilesQuery
  <2>2. lastGen' \in Nat /\ gen' \in 0..lastGen'
        /\ stream' \in [gen : Nat, batches : Seq(Seq(ListRow))]
    BY <1>2, <2>1, EmptyTyped
  <2>3. ListTyped'
    BY <1>1, <2>1, <2>2 DEF ListTyped
  <2> QED
    BY <2>1, <2>3, OutsideStep
<1>16. CASE CloseView
  <2>1. panel = NoPanel /\ UNCHANGED panel
    BY <1>1, <1>16 DEF CloseView, PanelInv
  <2>2. CASE query = Empty
    <3>1. UNCHANGED <<page, lastGen, wire, stream>>
      BY <1>16, <2>2 DEF CloseView
    <3>2. ListTyped'
      BY <1>1, <2>1, <3>1 DEF ListTyped
    <3> QED
      BY <1>11, <2>1, <3>1, <3>2
  <2>3. CASE query # Empty
    <3>1. StartGeneration(query) /\ query \in Queries
      BY <1>1, <1>16, <2>3 DEF CloseView, ListTyped
    <3> QED
      BY <2>1, <3>1, FreshStep
  <2> QED
    BY <2>2, <2>3
<1>17. CASE ViewReset
  <2>1. panel' = NoPanel
        /\ UNCHANGED <<gen, query, st, buffers, rows, sel, shown, other>>
    BY <1>17 DEF ViewReset
  <2>2. ListTyped'
    BY <1>1, <2>1, EmptyTyped DEF ListTyped, NoPanel
  <2> QED
    BY <1>11, <2>1, <2>2
<1>18. CASE UNCHANGED vars
  <2>1. ListTyped'
    BY <1>1, <1>18 DEF ListTyped, vars
  <2> QED
    BY <1>18, <2>1, OutsideStep DEF vars
<1> QED
  BY <1>3, <1>4, <1>5, <1>6, <1>7, <1>8, <1>9, <1>10, <1>12, <1>13, <1>14, <1>15, <1>16, <1>17,
     <1>18 DEF Next, Arrivals, Keys, Views

\* A step of the same generation leaves the row chosen where it is, and all the frozen
\* ones.
LEMMA StepSticks ==
  ASSUME ListInv, [Next]_vars, gen' = gen, st.key # NoKey
  PROVE  /\ rows' # <<>> /\ rows'[sel'].key = st'.key
         /\ \A i \in DOMAIN st.frozen : rows'[i].key = rows[i].key
<1> USE DEF page, other
<1>1. /\ ListTyped /\ ListTyped' /\ AimInv /\ AimInv' /\ st.frozen \in Seq(ListRow)
      /\ rows \in Seq(ListRow) /\ rows' \in Seq(ListRow)
  BY ListStep DEF ListInv, ListTyped
<1>2. /\ OnRow(sel) /\ Keeps(rows) /\ DOMAIN st.frozen = 1..Len(st.frozen)
      /\ Len(st.frozen) \in Nat
  BY <1>1 DEF AimInv
<1>3. ASSUME st'.key # NoKey PROVE rows' # <<>> /\ rows'[sel'].key = st'.key
  <2>1. OnRow(sel)' /\ Keeps(rows)' /\ Len(st'.frozen) \in Nat
    BY <1>1, <1>3 DEF AimInv, ListTyped
  <2>2. sel' \in 1..Len(st'.frozen) /\ Len(st'.frozen) <= Len(rows') /\ Len(rows') \in Nat
        /\ rows'[sel'].key = st'.key
    BY <1>1, <2>1 DEF OnRow, Keeps
  <2> QED
    BY <2>2
<1>4. ASSUME st'.key = st.key, rows' = rows
      PROVE  /\ rows' # <<>> /\ rows'[sel'].key = st'.key
             /\ \A i \in DOMAIN st.frozen : rows'[i].key = rows[i].key
  BY <1>3, <1>4
<1>5. CASE UNCHANGED <<st, rows>>
  BY <1>4, <1>5
<1>6. CASE ApplyBuffered /\ buffers # <<>>
  <2>1. /\ st' = [st EXCEPT !.apps = st'.apps, !.files = st'.files]
        /\ st \in [apps : Seq(ListRow), files : Seq(ListRow), frozen : Seq(ListRow), key : AnyKey]
    BY <1>1, <1>6, FrameFacts DEF ListTyped
  <2>2. st'.frozen = st.frozen /\ st'.key = st.key
    BY <2>1
  <2>3. Keeps(rows)'
    BY <1>1, <2>2 DEF AimInv
  <2> QED
    BY <1>2, <1>3, <2>2, <2>3 DEF Keeps
<1>7. ASSUME NEW d \in {"up", "down"}, MoveSelection(d)
      PROVE  /\ rows' # <<>> /\ rows'[sel'].key = st'.key
             /\ \A i \in DOMAIN st.frozen : rows'[i].key = rows[i].key
  <2>1. rows' = rows /\ rows # <<>> /\ rows'[sel'].key = st'.key
    BY <1>7, MoveStep
  <2> QED
    BY <2>1
<1>8. ASSUME NEW q \in Queries, StartGeneration(q) PROVE FALSE
  BY <1>1, <1>8, StartFacts
<1>9. ASSUME NEW q \in Queries, Type(q) PROVE FALSE
  BY <1>8, <1>9 DEF Type
<1>10. CASE CloseView
  <2>1. CASE query = Empty
    BY <1>5, <1>10, <2>1 DEF CloseView
  <2>2. CASE query # Empty
    BY <1>1, <1>8, <1>10, <2>2 DEF CloseView, ListTyped
  <2> QED
    BY <2>1, <2>2
<1>11. CASE Render
  BY <1>5, <1>11 DEF Render
<1>12. CASE SendBatch \/ Receive \/ (ApplyBuffered /\ buffers = <<>>)
  BY <1>5, <1>12 DEF SendBatch, Receive, ApplyBuffered
<1>13. CASE Enter \/ OpenPanel \/ RunPanelAction \/ ClosePanel
  BY <1>5, <1>13 DEF Enter, OpenPanel, RunPanelAction, ClosePanel
<1>14. CASE OpenView \/ FilesQuery \/ ViewReset
  BY <1>5, <1>14 DEF OpenView, FilesQuery, ViewReset
<1>15. CASE UNCHANGED vars
  BY <1>5, <1>15 DEF vars
<1> QED
  BY <1>6, <1>7, <1>9, <1>10, <1>11, <1>12, <1>13, <1>14, <1>15 DEF Next, Arrivals, Keys, Views

\* An action runs on the row it was aimed at.
LEMMA StepHits ==
  ASSUME ListInv, [Next]_vars, runs' # runs, ran'.held
  PROVE  ran'.key = ran'.aimed
<1> USE DEF page, other
<1>1. CASE Enter
  <2>1. ran' = [key |-> Pointed, aimed |-> Pointed, held |-> TRUE]
    BY <1>1 DEF Enter, Runs
  <2> QED
    BY <2>1
<1>2. CASE RunPanelAction
  <2>1. ran' = [key |-> Pointed, aimed |-> panel.key, held |-> panel.held]
    BY <1>2 DEF RunPanelAction, Runs
  <2>2. ran'.key = Pointed /\ ran'.aimed = panel.key /\ panel.held
    BY <2>1
  <2>3. st.key # NoKey /\ panel.key = st.key /\ Keeps(shown.rows)
    BY <2>2 DEF ListInv, PanelInv
  <2>4. Pointed = st.key
    BY <2>3, PointedFacts
  <2> QED
    BY <2>2, <2>3, <2>4
<1>3. CASE UNCHANGED runs
  BY <1>3
<1>4. CASE CloseView
  BY <1>3, <1>4 DEF CloseView
<1>5. CASE SendBatch \/ Receive \/ ApplyBuffered \/ Render
  BY <1>3, <1>5 DEF SendBatch, Receive, ApplyBuffered, Render
<1>6. CASE \E q \in Queries : Type(q)
  BY <1>3, <1>6 DEF Type
<1>7. CASE \E d \in {"up", "down"} : MoveSelection(d)
  BY <1>3, <1>7 DEF MoveSelection
<1>8. CASE OpenPanel \/ ClosePanel \/ OpenView \/ FilesQuery \/ ViewReset
  BY <1>3, <1>8 DEF OpenPanel, ClosePanel, OpenView, FilesQuery, ViewReset
<1>9. CASE UNCHANGED vars
  BY <1>3, <1>9 DEF vars
<1> QED
  BY <1>1, <1>2, <1>4, <1>5, <1>6, <1>7, <1>8, <1>9 DEF Next, Arrivals, Keys, Views

-----------------------------------------------------------------------------
(* The theorems of the root list.                                          *)

\* The invariant behind the selection rules of App.tsx and merge.ts.
THEOREM ListInvariant == Spec => []ListInv
<1>1. Init => ListInv
  BY ListStarts
<1>2. ListInv /\ [Next]_vars => ListInv'
  BY ListStep
<1> QED
  BY <1>1, <1>2, PTL DEF Spec

\* "Merge never moves the selection" (merge.ts): once the user has moved, the row
\* chosen and all the rows frozen with it stay where they are through every batch, frame
\* and rendering of the generation, and an action runs on the row it was aimed at.
THEOREM SelectionStays == Spec => SelectionIsKept
<1>1. ListInv /\ [Next]_vars =>
        [gen' = gen /\ st.key # NoKey =>
           /\ rows' # <<>> /\ rows'[sel'].key = st'.key
           /\ \A i \in DOMAIN st.frozen : rows'[i].key = rows[i].key]_vars
  BY StepSticks
<1>2. ListInv /\ [Next]_vars => [runs' # runs /\ ran'.held => ran'.key = ran'.aimed]_vars
  BY StepHits
<1>3. Spec => []ListInv
  BY ListInvariant
<1>4. Spec => [][Next]_vars
  BY PTL DEF Spec
<1>5. Spec => SelectionSticks
  BY <1>1, <1>3, <1>4, PTL DEF SelectionSticks
<1>6. Spec => AimedActionsHit
  BY <1>2, <1>3, <1>4, PTL DEF AimedActionsHit
<1> QED
  BY <1>5, <1>6 DEF SelectionIsKept

=============================================================================
