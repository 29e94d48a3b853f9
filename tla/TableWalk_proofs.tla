---------------------------- MODULE TableWalk_proofs ----------------------------
(***************************************************************************)
(* Proofs about TableWalk, for any catalogue of tables and any number of   *)
(* rows: the keys stay keys of their table, and a walk shows each row that *)
(* is there all the time, if T_BTreeNodeCmp can tell the rows apart.       *)
(*                                                                         *)
(* The walk rests on one fact about the code: between keys that it can     *)
(* tell apart T_BTreeNodeCmp decides as the first part in which they       *)
(* differ (BeforeIs), which is the order of the names that T_getNext       *)
(* writes (SameOrder).  That order is strict and total (Irreflexive,       *)
(* Transitive, Total), so that what goes where a search ends leaves the    *)
(* tree in order (CreateEntryOrdered).                                     *)
(***************************************************************************)
EXTENDS TableWalk, WellFoundedInduction, SequenceTheorems, TLAPS

-----------------------------------------------------------------------------
(* Numbers and sequences.                                                  *)

\* A set of numbers has a least element.
LEMMA Least ==
  ASSUME NEW S \in SUBSET Nat, S # {}
  PROVE  \E n \in S : \A m \in S : n <= m
<1> DEFINE R == OpToRel(<, Nat)
<1>1. \E n \in S : \A m \in S : ~(<<m, n>> \in R)
  BY NatLessThanWellFounded, WFMin
<1>2. \A m, n \in S : m < n => <<m, n>> \in R
  BY DEF OpToRel
<1>3. PICK n \in S : \A m \in S : ~(<<m, n>> \in R)
  BY <1>1
<1>4. \A m \in S : ~(m < n)
  <2> HIDE DEF R
  <2> QED BY <1>2, <1>3
<1> QED
  <2> HIDE DEF R
  <2> QED BY <1>4

\* Two sequences of one length that differ do so at a first place.
LEMMA FirstPlace ==
  ASSUME NEW x \in Seq(Nat), NEW y \in Seq(Nat), Len(x) = Len(y), NEW i \in 1 .. Len(x), x[i] # y[i]
  PROVE  \E j \in 1 .. Len(x) : x[j] # y[j] /\ \A h \in 1 .. j - 1 : x[h] = y[h]
<1> DEFINE S == {j \in 1 .. Len(x) : x[j] # y[j]}
<1>1. S \in SUBSET Nat /\ S # {}
  <2>1. i \in S
    OBVIOUS
  <2>2. S \in SUBSET Nat
    <3>1. Len(x) \in Nat
      OBVIOUS
    <3>2. 1 .. Len(x) \subseteq Nat
      BY <3>1
    <3>3. QED BY <3>2
  <2> HIDE DEF S
  <2>3. QED BY <2>1, <2>2
<1>2. PICK n \in S : \A m \in S : n <= m
  <2> HIDE DEF S
  <2> QED BY <1>1, Least
<1>3. \A h \in 1 .. n - 1 : h \notin S
  <2> HIDE DEF S
  <2> QED BY <1>1, <1>2
<1>4. n \in 1 .. Len(x) /\ x[n] # y[n] /\ Len(x) \in Nat
  BY <1>2
<1>5. \A h \in 1 .. n - 1 : x[h] = y[h]
  BY <1>3, <1>4
<1>6. QED BY <1>4, <1>5

\* FirstDifference is that place, whichever of the two is named first.
LEMMA FirstDifferenceAt ==
  ASSUME NEW x \in Seq(Nat), NEW y \in Seq(Nat), NEW j \in Nat,
         1 <= j, j <= Len(x),
         x[j] # y[j], \A h \in 1 .. j - 1 : x[h] = y[h]
  PROVE  FirstDifference(x, y) = j
<1> DEFINE First(i) == x[i] # y[i] /\ \A h \in 1 .. i - 1 : x[h] = y[h]
           d == CHOOSE i \in DOMAIN x : First(i)
<1>1. j \in DOMAIN x /\ First(j)
  OBVIOUS
<1>2. \A i \in DOMAIN x : i \in Nat /\ i >= 1
  OBVIOUS
<1>3. ASSUME NEW i \in DOMAIN x, First(i)
      PROVE  i = j
  <2>1. i \in Nat /\ i >= 1
    OBVIOUS
  <2>2. ~(i < j)
    BY <1>3, <2>1
  <2>3. ~(j < i)
    BY <1>3, <2>1
  <2>4. QED BY <2>1, <2>2, <2>3
<1>4. FirstDifference(x, y) = d
  BY DEF FirstDifference
<1> HIDE DEF First
<1>5. d = j
  BY <1>1, <1>3
<1>6. QED BY <1>4, <1>5

LEMMA FirstDifferenceIs ==
  ASSUME NEW x \in Seq(Nat), NEW y \in Seq(Nat), NEW j \in Nat,
         1 <= j, j <= Len(x), j <= Len(y),
         x[j] # y[j], \A h \in 1 .. j - 1 : x[h] = y[h]
  PROVE  FirstDifference(x, y) = j /\ FirstDifference(y, x) = j
<1>1. FirstDifference(x, y) = j
  BY FirstDifferenceAt
<1>2. y[j] # x[j] /\ \A h \in 1 .. j - 1 : y[h] = x[h]
  OBVIOUS
<1>3. FirstDifference(y, x) = j
  BY <1>2, FirstDifferenceAt
<1>4. QED BY <1>1, <1>3

-----------------------------------------------------------------------------
(* The order of the names, on parts of keys and on keys.                   *)

\* Fewer octets first, then the octets.
Precedes(x, y) ==
  \/ Len(x) < Len(y)
  \/ /\ Len(x) = Len(y)
     /\ x # y
     /\ x[FirstDifference(x, y)] < y[FirstDifference(x, y)]

Lower(k, x, y) == IF IsNumber(k) THEN x < y ELSE Precedes(x, y)

\* The first part in which two keys differ decides.
Ahead(a, b) ==
  \E j \in DOMAIN parts : Lower(parts[j], a[j], b[j]) /\ \A h \in 1 .. j - 1 : a[h] = b[h]

-----------------------------------------------------------------------------
(* Parts of a key, and the sub-identifiers that name them.                 *)

Widths == {0, 8, 16, 32, 64}

PartOK(k, x) == IF IsNumber(k) THEN x \in Nat ELSE x \in Seq(Nat)

SubIds(k, x) == IF IsNumber(k) THEN <<x>> ELSE <<Len(x)>> \o x

LEMMA GivenOK ==
  ASSUME NEW k, NEW x \in Given(k)
  PROVE  PartOK(k, x)
<1>1. CASE IsNumber(k)
  BY <1>1 DEF Given, PartOK
<1>2. CASE ~IsNumber(k)
  <2>1. x \in {<<2>>, <<2, 0>>, <<2, 1>>, <<2, 3>>, <<1, 1>>, <<1, 2>>, <<1, 4>>}
    BY <1>2 DEF Given
  <2>2. \A a, b \in Nat : <<a>> \in Seq(Nat) /\ <<a, b>> \in Seq(Nat)
    OBVIOUS
  <2>3. /\ <<2>> \in Seq(Nat) /\ <<2, 0>> \in Seq(Nat) /\ <<2, 1>> \in Seq(Nat) /\ <<2, 3>> \in Seq(Nat)
        /\ <<1, 1>> \in Seq(Nat) /\ <<1, 2>> \in Seq(Nat) /\ <<1, 4>> \in Seq(Nat)
    BY <2>2
  <2>4. x \in Seq(Nat)
    BY <2>1, <2>2, <2>3, Zenon
  <2>5. QED BY <1>2, <2>4, Zenon DEF PartOK
<1>3. QED BY <1>1, <1>2

\* Octets that are filled up are octets.
LEMMA FilledUp ==
  ASSUME NEW x \in Seq(Nat), Len(x) = 1
  PROVE  Append(x, 0) \in Seq(Nat) /\ Len(Append(x, 0)) = 2
<1>1. 0 \in Nat
  OBVIOUS
<1>2. Append(x, 0) \in Seq(Nat) /\ Len(Append(x, 0)) = Len(x) + 1
  BY ZenonT(60), <1>1, AppendProperties
<1>3. QED BY <1>2

\* What is stored is stored as it is.
LEMMA StoredOK ==
  ASSUME NEW k, k.bits \in Widths, NEW x, PartOK(k, x)
  PROVE  PartOK(k, Stored(k, x)) /\ Stored(k, Stored(k, x)) = Stored(k, x)
<1>1. CASE IsNumber(k) /\ k.bits >= 32
  BY <1>1 DEF Stored, PartOK
<1>2. CASE IsNumber(k) /\ ~(k.bits >= 32)
  <2>1. k.bits \in {0, 8, 16} /\ x \in Nat
    BY <1>2 DEF Widths, PartOK
  <2>2. 2 ^ 0 = 1 /\ 2 ^ 8 = 256 /\ 2 ^ 16 = 65536
    OBVIOUS
  <2>3. 2 ^ k.bits \in {1, 256, 65536}
    <3>1. CASE k.bits = 0
      BY <2>2, <3>1
    <3>2. CASE k.bits = 8
      BY <2>2, <3>2
    <3>3. CASE k.bits = 16
      BY <2>2, <3>3
    <3>4. QED BY <2>1, <3>1, <3>2, <3>3
  <2>4. PICK m \in {1, 256, 65536} : 2 ^ k.bits = m
    BY <2>3
  <2>5. Stored(k, x) = x % m /\ Stored(k, Stored(k, x)) = (x % m) % m
    BY <1>2, <2>4 DEF Stored
  <2>6. x % m \in Nat /\ (x % m) % m = x % m
    BY <2>1
  <2>7. QED BY <1>2, <2>5, <2>6 DEF PartOK
<1>3. CASE ~IsNumber(k)
  <2>1. x \in Seq(Nat)
    BY <1>3 DEF PartOK
  <2>2. CASE k.type = "PADDED" /\ Len(x) = 1
    <3>1. Stored(k, x) = Append(x, 0)
      BY <1>3, <2>2 DEF Stored
    <3>2. Append(x, 0) \in Seq(Nat) /\ Len(Append(x, 0)) = 2
      BY <2>1, <2>2, FilledUp
    <3>3. QED BY <1>3, <3>1, <3>2 DEF Stored, PartOK
  <2>3. CASE ~(k.type = "PADDED" /\ Len(x) = 1)
    BY <1>3, <2>1, <2>3 DEF Stored, PartOK
  <2>4. QED BY <2>2, <2>3
<1>4. QED BY <1>1, <1>2, <1>3

\* Of two sequences of one length that differ somewhere one precedes the other:
\* the one that has the smaller number where they differ first.
LEMMA OneFirst ==
  ASSUME NEW x \in Seq(Nat), NEW y \in Seq(Nat), Len(x) = Len(y),
         NEW i \in 1 .. Len(x), x[i] # y[i]
  PROVE  \E j \in 1 .. Len(x) :
           /\ x[j] # y[j] /\ x[j] \in Nat /\ y[j] \in Nat
           /\ \A h \in 1 .. j - 1 : x[h] = y[h]
           /\ Precedes(x, y) <=> x[j] < y[j]
           /\ Precedes(y, x) <=> y[j] < x[j]
<1>1. PICK j \in 1 .. Len(x) : x[j] # y[j] /\ \A h \in 1 .. j - 1 : x[h] = y[h]
  BY FirstPlace
<1>2. /\ x[j] \in Nat /\ y[j] \in Nat /\ Len(x) \in Nat
      /\ j \in Nat /\ 1 <= j /\ j <= Len(x) /\ j <= Len(y)
  OBVIOUS
<1>3. FirstDifference(x, y) = j /\ FirstDifference(y, x) = j
  BY <1>1, <1>2, FirstDifferenceIs
<1>4. Precedes(x, y) <=> x[j] < y[j]
  BY SMTT(60), <1>2, <1>3 DEF Precedes
<1>5. Precedes(y, x) <=> y[j] < x[j]
  BY SMTT(60), <1>2, <1>3 DEF Precedes
<1>6. QED BY <1>1, <1>2, <1>4, <1>5

\* The first of two octets that differ decides.
LEMMA PrecedesAt ==
  ASSUME NEW x \in Seq(Nat), NEW y \in Seq(Nat), Len(x) = Len(y),
         NEW j \in 1 .. Len(x), x[j] < y[j], \A h \in 1 .. j - 1 : x[h] = y[h]
  PROVE  Precedes(x, y)
<1>1. /\ x[j] \in Nat /\ y[j] \in Nat /\ Len(x) \in Nat
      /\ j \in Nat /\ 1 <= j /\ j <= Len(x) /\ j <= Len(y)
  OBVIOUS
<1>2. x[j] # y[j]
  BY <1>1
<1>3. FirstDifference(x, y) = j
  BY <1>1, <1>2, FirstDifferenceIs
<1>4. QED BY <1>2, <1>3 DEF Precedes

LEMMA PrecedesTransitive ==
  ASSUME NEW x \in Seq(Nat), NEW y \in Seq(Nat), NEW z \in Seq(Nat),
         Precedes(x, y), Precedes(y, z)
  PROVE  Precedes(x, z)
<1>1. Len(x) \in Nat /\ Len(y) \in Nat /\ Len(z) \in Nat /\ Len(x) <= Len(y) /\ Len(y) <= Len(z)
  BY DEF Precedes
<1>2. CASE Len(x) < Len(z)
  BY <1>2 DEF Precedes
<1>3. CASE Len(x) = Len(y) /\ Len(y) = Len(z)
  <2>1. PICK i \in 1 .. Len(x) : x[i] < y[i] /\ \A h \in 1 .. i - 1 : x[h] = y[h]
    <3>1. x # y
      BY <1>1, <1>3 DEF Precedes
    <3>2. PICK i \in 1 .. Len(x) : x[i] # y[i]
      BY <1>3, <3>1, SeqEqual
    <3>3. QED BY <1>3, <3>2, OneFirst
  <2>2. PICK j \in 1 .. Len(y) : y[j] < z[j] /\ \A h \in 1 .. j - 1 : y[h] = z[h]
    <3>1. y # z
      BY <1>1, <1>3 DEF Precedes
    <3>2. PICK j \in 1 .. Len(y) : y[j] # z[j]
      BY <1>3, <3>1, SeqEqual
    <3>3. QED BY ZenonT(60), <1>3, <3>2, OneFirst
  <2>3. PICK d \in 1 .. Len(x) : d <= i /\ d <= j /\ d \in {i, j}
    BY <1>1, <1>3
  <2>4. x[d] \in Nat /\ y[d] \in Nat /\ z[d] \in Nat
    <3>1. d \in 1 .. Len(x) /\ d \in 1 .. Len(y) /\ d \in 1 .. Len(z)
      BY <1>3
    <3>2. x[d] \in Nat
      BY <3>1
    <3>3. y[d] \in Nat
      BY <3>1
    <3>4. z[d] \in Nat
      BY <3>1
    <3>5. QED BY <3>2, <3>3, <3>4
  <2>5. x[d] < z[d]
    <3>1. (d = i /\ x[d] < y[d]) \/ (d # i /\ x[d] = y[d])
      <4>1. CASE d = i
        BY <2>1, <4>1
      <4>2. CASE d # i
        <5>1. d \in 1 .. i - 1
          BY <2>3, <4>2
        <5>2. QED BY <2>1, <4>2, <5>1
      <4>3. QED BY <4>1, <4>2
    <3>2. (d = j /\ y[d] < z[d]) \/ (d # j /\ y[d] = z[d])
      <4>1. CASE d = j
        BY <2>2, <4>1
      <4>2. CASE d # j
        <5>1. d \in 1 .. j - 1
          BY <2>3, <4>2
        <5>2. QED BY <2>2, <4>2, <5>1
      <4>3. QED BY <4>1, <4>2
    <3>3. QED BY <2>3, <2>4, <3>1, <3>2
  <2>6. \A h \in 1 .. d - 1 : x[h] = z[h]
    BY <2>1, <2>2, <2>3
  <2>7. Len(x) = Len(z)
    BY <1>3
  <2>8. QED BY <2>5, <2>6, <2>7, PrecedesAt
<1>4. QED BY <1>1, <1>2, <1>3

\* The sub-identifiers of octets: their number, then each.
Names(w, z) ==
  /\ w \in Seq(Nat) /\ Len(w) = Len(z) + 1 /\ w[1] = Len(z)
  /\ \A h \in 1 .. Len(z) : w[h + 1] = z[h]

LEMMA OctetsNamed ==
  ASSUME NEW z \in Seq(Nat)
  PROVE  Names(<<Len(z)>> \o z, z)
<1>1. <<Len(z)>> \in Seq(Nat) /\ Len(<<Len(z)>>) = 1 /\ <<Len(z)>>[1] = Len(z)
  OBVIOUS
<1>2. <<Len(z)>> \o z \in Seq(Nat) /\ Len(<<Len(z)>> \o z) = Len(z) + 1
  BY <1>1, ConcatProperties
<1>3. \A i \in 1 .. 1 + Len(z) : (<<Len(z)>> \o z)[i] = IF i <= 1 THEN <<Len(z)>>[i] ELSE z[i - 1]
  BY <1>1, ConcatProperties
<1>5. Len(z) \in Nat
  OBVIOUS
<1>6. (<<Len(z)>> \o z)[1] = Len(z)
  BY <1>1, <1>3, <1>5
<1>7. ASSUME NEW h \in 1 .. Len(z)
      PROVE  (<<Len(z)>> \o z)[h + 1] = z[h]
  <2>1. h + 1 \in 1 .. 1 + Len(z) /\ ~(h + 1 <= 1) /\ (h + 1) - 1 = h
    BY <1>5
  <2>2. QED BY <1>3, <1>5, <2>1
<1>8. QED BY <1>2, <1>6, <1>7 DEF Names

\* Octets compare as the sub-identifiers that name them do, where these differ
\* first.
Decisive(d, x, y, u, v) ==
  /\ FirstDifference(u, v) = d /\ FirstDifference(v, u) = d
  /\ u[d] \in Nat /\ v[d] \in Nat /\ u[d] # v[d]
  /\ Precedes(x, y) <=> u[d] < v[d]
  /\ Precedes(y, x) <=> v[d] < u[d]

LEMMA CountsCompare ==
  ASSUME NEW x \in Seq(Nat), NEW y \in Seq(Nat), NEW u \in Seq(Nat), NEW v \in Seq(Nat),
         Names(u, x), Names(v, y), Len(x) # Len(y)
  PROVE  Decisive(1, x, y, u, v)
<1>1. Len(x) \in Nat /\ Len(y) \in Nat
  OBVIOUS
<1>2. u[1] = Len(x) /\ v[1] = Len(y) /\ Len(u) = Len(x) + 1 /\ Len(v) = Len(y) + 1
  BY DEF Names
<1>3. u[1] # v[1] /\ u[1] \in Nat /\ v[1] \in Nat /\ 1 <= Len(u) /\ 1 <= Len(v)
  BY <1>1, <1>2
<1>4. \A h \in 1 .. 1 - 1 : u[h] = v[h]
  OBVIOUS
<1>5. FirstDifference(u, v) = 1 /\ FirstDifference(v, u) = 1
  BY <1>3, <1>4, FirstDifferenceIs
<1>6. (Precedes(x, y) <=> u[1] < v[1]) /\ (Precedes(y, x) <=> v[1] < u[1])
  BY <1>1, <1>2 DEF Precedes
<1>7. QED BY <1>3, <1>5, <1>6 DEF Decisive

LEMMA OctetsCompare ==
  ASSUME NEW x \in Seq(Nat), NEW y \in Seq(Nat), NEW u \in Seq(Nat), NEW v \in Seq(Nat),
         Names(u, x), Names(v, y), Len(x) = Len(y), NEW i \in 1 .. Len(x), x[i] # y[i]
  PROVE  \E d \in Nat : Decisive(d, x, y, u, v)
<1>1. PICK j \in 1 .. Len(x) :
        /\ x[j] # y[j] /\ x[j] \in Nat /\ y[j] \in Nat
        /\ \A h \in 1 .. j - 1 : x[h] = y[h]
        /\ Precedes(x, y) <=> x[j] < y[j]
        /\ Precedes(y, x) <=> y[j] < x[j]
  BY ZenonT(60), OneFirst
<1>2. Len(x) \in Nat /\ j \in Nat /\ j <= Len(x) /\ 1 <= j
  OBVIOUS
<1> DEFINE d == j + 1
<1>3. u[1] = v[1] /\ Len(u) = Len(x) + 1 /\ Len(v) = Len(x) + 1
  BY DEF Names
<1>4. \A h \in 1 .. Len(x) : u[h + 1] = x[h] /\ v[h + 1] = y[h]
  BY DEF Names
<1>5. u[d] = x[j] /\ v[d] = y[j]
  BY <1>4
<1>6. d \in Nat /\ 1 <= d /\ d <= Len(u) /\ d <= Len(v)
  BY <1>2, <1>3
<1>7. \A h \in 1 .. d - 1 : u[h] = v[h]
  <2>1. TAKE h \in 1 .. d - 1
  <2>2. CASE h = 1
    BY <1>3, <2>2
  <2>3. CASE h # 1
    <3>1. h - 1 \in 1 .. j - 1 /\ h - 1 \in 1 .. Len(x) /\ (h - 1) + 1 = h
      BY <1>2, <2>3
    <3>2. u[(h - 1) + 1] = x[h - 1] /\ v[(h - 1) + 1] = y[h - 1]
      BY <1>4, <3>1
    <3>3. x[h - 1] = y[h - 1]
      BY <1>1, <3>1
    <3>4. QED BY <3>1, <3>2, <3>3
  <2>4. QED BY <2>2, <2>3
<1>8. u[d] # v[d]
  BY <1>1, <1>5
<1> HIDE DEF d
<1>9. FirstDifference(u, v) = d /\ FirstDifference(v, u) = d
  BY <1>6, <1>7, <1>8, FirstDifferenceIs
<1>10. Decisive(d, x, y, u, v)
  BY <1>1, <1>5, <1>8, <1>9 DEF Decisive
<1>11. QED BY <1>6, <1>10

LEMMA NamesCompare ==
  ASSUME NEW x \in Seq(Nat), NEW y \in Seq(Nat), ~(x = y)
  PROVE  \E d \in Nat : Decisive(d, x, y, <<Len(x)>> \o x, <<Len(y)>> \o y)
<1> DEFINE u == <<Len(x)>> \o x
           v == <<Len(y)>> \o y
<1>1. Names(u, x) /\ Names(v, y)
  BY OctetsNamed
<1>2. u \in Seq(Nat) /\ v \in Seq(Nat)
  BY <1>1 DEF Names
<1>3. Len(x) # Len(y) \/ \E i \in 1 .. Len(x) : x[i] # y[i]
  BY SeqEqual
<1> SUFFICES \E d \in Nat : Decisive(d, x, y, u, v)
  OBVIOUS
<1> HIDE DEF u, v
<1>4. CASE Len(x) # Len(y)
  <2>1. Decisive(1, x, y, u, v)
    BY <1>1, <1>2, <1>4, CountsCompare
  <2>2. QED BY <2>1
<1>5. CASE Len(x) = Len(y)
  <2>1. PICK i \in 1 .. Len(x) : x[i] # y[i]
    BY <1>3, <1>5
  <2>2. QED BY <1>1, <1>2, <1>5, <2>1, OctetsCompare
<1>6. QED BY <1>4, <1>5

\* Parts of a key compare as the sub-identifiers that name them do, where these
\* differ first.
Decides(d, k, x, y) ==
  LET u == SubIds(k, x)
      v == SubIds(k, y)
  IN  /\ FirstDifference(u, v) = d /\ FirstDifference(v, u) = d
      /\ u[d] \in Nat /\ v[d] \in Nat /\ u[d] # v[d]
      /\ Lower(k, x, y) <=> u[d] < v[d]
      /\ Lower(k, y, x) <=> v[d] < u[d]

LEMMA PartsCompare ==
  ASSUME NEW k, NEW x, NEW y, PartOK(k, x), PartOK(k, y), x # y
  PROVE  \E d \in Nat : Decides(d, k, x, y)
<1>1. CASE IsNumber(k)
  <2>1. ASSUME NEW a \in Nat, NEW b \in Nat, a # b
        PROVE  /\ FirstDifference(<<a>>, <<b>>) = 1
               /\ <<a>>[1] = a /\ <<b>>[1] = b
    <3>1. /\ <<a>> \in Seq(Nat) /\ <<b>> \in Seq(Nat) /\ 1 <= Len(<<a>>)
          /\ <<a>>[1] # <<b>>[1] /\ \A h \in 1 .. 1 - 1 : <<a>>[h] = <<b>>[h]
      BY <2>1
    <3>2. FirstDifference(<<a>>, <<b>>) = 1
      BY <3>1, FirstDifferenceAt
    <3>3. QED BY <3>2
  <2>2. x \in Nat /\ y \in Nat /\ SubIds(k, x) = <<x>> /\ SubIds(k, y) = <<y>>
    BY <1>1 DEF PartOK, SubIds
  <2>3. (Lower(k, x, y) <=> x < y) /\ (Lower(k, y, x) <=> y < x)
    BY <1>1 DEF Lower
  <2>4. /\ FirstDifference(<<x>>, <<y>>) = 1 /\ FirstDifference(<<y>>, <<x>>) = 1
        /\ <<x>>[1] = x /\ <<y>>[1] = y
    BY <2>1, <2>2
  <2>5. Decides(1, k, x, y)
    BY <2>2, <2>3, <2>4 DEF Decides
  <2>6. QED BY <2>5
<1>2. CASE ~IsNumber(k)
  <2>1. /\ x \in Seq(Nat) /\ y \in Seq(Nat)
        /\ SubIds(k, x) = <<Len(x)>> \o x /\ SubIds(k, y) = <<Len(y)>> \o y
    BY <1>2 DEF PartOK, SubIds
  <2>2. Lower(k, x, y) = Precedes(x, y) /\ Lower(k, y, x) = Precedes(y, x)
    BY <1>2 DEF Lower
  <2>3. \E d \in Nat : Decisive(d, x, y, <<Len(x)>> \o x, <<Len(y)>> \o y)
    BY <2>1, NamesCompare
  <2>4. PICK d \in Nat : Decisive(d, x, y, <<Len(x)>> \o x, <<Len(y)>> \o y)
    BY <2>3
  <2>5. Decides(d, k, x, y)
    BY <2>1, <2>2, <2>4 DEF Decides, Decisive
  <2>6. QED BY <2>5
<1>3. QED BY <1>1, <1>2

LEMMA PartsTransitive ==
  ASSUME NEW k, NEW x, NEW y, NEW z, PartOK(k, x), PartOK(k, y), PartOK(k, z),
         Lower(k, x, y), Lower(k, y, z)
  PROVE  Lower(k, x, z)
<1>1. CASE IsNumber(k)
  BY <1>1 DEF Lower, PartOK
<1>2. CASE ~IsNumber(k)
  BY <1>2, PrecedesTransitive DEF PartOK, Lower
<1>3. QED BY <1>1, <1>2

-----------------------------------------------------------------------------
(* Keys: their order in the tree is the one of the names.                  *)

PartsOK ==
  /\ Len(parts) \in Nat /\ Len(parts) > 0
  /\ DOMAIN parts = 1 .. Len(parts)
  /\ \A j \in DOMAIN parts : parts[j].bits \in Widths

KeyOK(r) ==
  /\ r = [j \in DOMAIN parts |-> r[j]]
  /\ \A j \in DOMAIN parts : PartOK(parts[j], r[j])

DiffersAt(j, a, b) ==
  j \in DOMAIN parts /\ a[j] # b[j] /\ \A h \in 1 .. j - 1 : a[h] = b[h]

LEMMA FirstPart ==
  ASSUME PartsOK, NEW a, NEW b, KeyOK(a), KeyOK(b), ~(a = b)
  PROVE  \E j : DiffersAt(j, a, b)
<1> DEFINE S == {j \in DOMAIN parts : a[j] # b[j]}
<1>1. S # {}
  BY DEF KeyOK
<1>2. S \in SUBSET Nat
  BY DEF PartsOK
<1>3. PICK n \in S : \A m \in S : n <= m
  <2> HIDE DEF S
  <2> QED BY <1>1, <1>2, Least
<1>4. \A h \in 1 .. n - 1 : h \notin S
  <2>1. n \in Nat
    BY <1>2
  <2> HIDE DEF S
  <2>2. QED BY <1>3, <2>1
<1>5. \A h \in 1 .. n - 1 : a[h] = b[h]
  <2>1. n \in 1 .. Len(parts) /\ Len(parts) \in Nat /\ DOMAIN parts = 1 .. Len(parts)
    BY DEF PartsOK
  <2>2. \A h \in 1 .. n - 1 : h \in DOMAIN parts
    BY <2>1
  <2>3. QED BY <1>4, <2>2
<1>6. QED BY <1>5 DEF DiffersAt

LEMMA OnePart ==
  ASSUME PartsOK, NEW a, NEW b, NEW i, NEW j, DiffersAt(i, a, b), DiffersAt(j, a, b)
  PROVE  i = j
<1>1. i \in Nat /\ j \in Nat /\ i >= 1 /\ j >= 1
  BY DEF PartsOK, DiffersAt
<1>2. ~(i < j)
  BY <1>1 DEF DiffersAt
<1>3. ~(j < i)
  BY <1>1 DEF DiffersAt
<1>4. QED BY <1>1, <1>2, <1>3

LEMMA PartIrreflexive ==
  ASSUME NEW k, NEW x, PartOK(k, x)
  PROVE  ~Lower(k, x, x)
<1>1. CASE IsNumber(k)
  BY <1>1 DEF Lower, PartOK
<1>2. CASE ~IsNumber(k)
  <2>1. Len(x) \in Nat
    BY <1>2 DEF PartOK
  <2>2. QED BY <1>2, <2>1 DEF Lower, Precedes
<1>3. QED BY <1>1, <1>2

\* The part in which two keys differ first decides which is before the other.
LEMMA AheadAt ==
  ASSUME PartsOK, NEW a, NEW b, KeyOK(a), KeyOK(b), NEW j, DiffersAt(j, a, b)
  PROVE  Ahead(a, b) <=> Lower(parts[j], a[j], b[j])
<1>1. ASSUME Lower(parts[j], a[j], b[j])
      PROVE  Ahead(a, b)
  BY <1>1 DEF Ahead, DiffersAt
<1>2. ASSUME Ahead(a, b)
      PROVE  Lower(parts[j], a[j], b[j])
  <2>1. PICK i \in DOMAIN parts : Lower(parts[i], a[i], b[i]) /\ \A h \in 1 .. i - 1 : a[h] = b[h]
    BY <1>2 DEF Ahead
  <2>2. a[i] # b[i]
    BY <2>1, PartIrreflexive DEF KeyOK
  <2>3. DiffersAt(i, a, b)
    BY <2>1, <2>2 DEF DiffersAt
  <2>4. i = j
    BY <2>3, OnePart
  <2>5. QED BY <2>1, <2>4
<1>3. QED BY <1>1, <1>2

\* And it decides which name is beyond the other.
LEMMA BeyondAt ==
  ASSUME PartsOK, NEW a, NEW b, KeyOK(a), KeyOK(b), NEW j, DiffersAt(j, a, b)
  PROVE  Beyond(Name(b), Name(a)) <=> Lower(parts[j], a[j], b[j])
<1> DEFINE m == Name(b)
           n == Name(a)
<1>1. DOMAIN a = DOMAIN parts /\ DOMAIN b = DOMAIN parts
  BY DEF KeyOK
<1>2. /\ DOMAIN m = DOMAIN parts /\ DOMAIN n = DOMAIN parts
      /\ \A i \in DOMAIN parts : m[i] = SubIds(parts[i], b[i]) /\ n[i] = SubIds(parts[i], a[i])
  BY <1>1 DEF Name, SubIds
<1>3. n # <<>>
  <2>1. 1 \in DOMAIN n
    BY <1>2 DEF PartsOK
  <2> HIDE DEF n
  <2>2. QED BY <2>1
<1> HIDE DEF m, n
<1>4. ASSUME NEW i \in DOMAIN parts
      PROVE  m[i] # n[i] <=> a[i] # b[i]
  <2>1. a[i] = b[i] => m[i] = n[i]
    BY <1>2
  <2>2. ASSUME ~(a[i] = b[i])
        PROVE  m[i] # n[i]
    <3>1. PICK d \in Nat : Decides(d, parts[i], a[i], b[i])
      BY <2>2, PartsCompare DEF KeyOK
    <3>2. n[i][d] # m[i][d]
      BY <1>2, <3>1 DEF Decides
    <3>3. QED BY <3>2
  <2>3. QED BY <2>1, <2>2
<1>5. PICK d \in Nat : Decides(d, parts[j], a[j], b[j])
  <2>1. j \in DOMAIN parts /\ a[j] # b[j]
    BY DEF DiffersAt
  <2>2. QED BY <2>1, PartsCompare DEF KeyOK
<1>6. j \in DOMAIN parts
  BY DEF DiffersAt
<1>7. /\ FirstDifference(m[j], n[j]) = d
      /\ m[j][d] \in Nat /\ n[j][d] \in Nat
      /\ Lower(parts[j], a[j], b[j]) <=> n[j][d] < m[j][d]
  BY <1>2, <1>5, <1>6 DEF Decides
<1>8. \A h \in 1 .. j - 1 : h \in DOMAIN parts
  BY <1>6 DEF PartsOK
<1>9. m[j] # n[j] /\ \A h \in 1 .. j - 1 : m[h] = n[h]
  BY <1>4, <1>6, <1>8 DEF DiffersAt
<1>10. ASSUME Lower(parts[j], a[j], b[j])
       PROVE  Beyond(m, n)
  <2>1. m[j][d] > n[j][d]
    BY <1>7, <1>10
  <2>2. QED BY <1>2, <1>6, <1>7, <1>9, <2>1 DEF Beyond
<1>11. ASSUME Beyond(m, n)
       PROVE  Lower(parts[j], a[j], b[j])
  <2>1. PICK i \in DOMAIN m \cap DOMAIN n :
          /\ m[i] # n[i] /\ \A h \in 1 .. i - 1 : m[h] = n[h]
          /\ m[i][FirstDifference(m[i], n[i])] > n[i][FirstDifference(m[i], n[i])]
    BY <1>3, <1>11 DEF Beyond
  <2>2. i \in DOMAIN parts
    BY <1>2
  <2>3. \A h \in 1 .. i - 1 : h \in DOMAIN parts
    BY <2>2 DEF PartsOK
  <2>4. a[i] # b[i] /\ \A h \in 1 .. i - 1 : a[h] = b[h]
    BY <1>4, <2>1, <2>2, <2>3
  <2>5. i = j
    BY <2>2, <2>4, OnePart DEF DiffersAt
  <2>6. QED BY <1>7, <2>1, <2>5
<1>12. QED BY <1>10, <1>11 DEF m, n

LEMMA Irreflexive ==
  ASSUME PartsOK, NEW a, KeyOK(a)
  PROVE  ~Ahead(a, a) /\ ~Beyond(Name(a), Name(a))
<1>1. ~Ahead(a, a)
  BY PartIrreflexive DEF Ahead, KeyOK
<1>2. Name(a) # <<>>
  <2>1. DOMAIN Name(a) = DOMAIN parts
    BY DEF KeyOK, Name
  <2>2. 1 \in DOMAIN Name(a)
    BY <2>1 DEF PartsOK
  <2>3. QED BY <2>2
<1>3. ~Beyond(Name(a), Name(a))
  BY <1>2 DEF Beyond
<1>4. QED BY <1>1, <1>3

\* The tree is in the order of the names.
LEMMA SameOrder ==
  ASSUME PartsOK, NEW a, NEW b, KeyOK(a), KeyOK(b)
  PROVE  Ahead(a, b) <=> Beyond(Name(b), Name(a))
<1>1. CASE a = b
  BY <1>1, Irreflexive
<1>2. CASE ~(a = b)
  <2>1. PICK j : DiffersAt(j, a, b)
    BY <1>2, FirstPart
  <2>2. QED BY <2>1, AheadAt, BeyondAt
<1>3. QED BY <1>1, <1>2

LEMMA Total ==
  ASSUME PartsOK, NEW a, NEW b, KeyOK(a), KeyOK(b), ~(a = b)
  PROVE  Ahead(a, b) \/ Ahead(b, a)
<1>1. PICK j : DiffersAt(j, a, b)
  BY FirstPart
<1>2. DiffersAt(j, b, a) /\ j \in DOMAIN parts /\ a[j] # b[j]
  BY <1>1 DEF DiffersAt
<1>3. PICK d \in Nat : Decides(d, parts[j], a[j], b[j])
  BY <1>2, PartsCompare DEF KeyOK
<1>4. Lower(parts[j], a[j], b[j]) \/ Lower(parts[j], b[j], a[j])
  BY <1>3 DEF Decides
<1>5. QED BY <1>1, <1>2, <1>4, AheadAt

LEMMA Transitive ==
  ASSUME PartsOK, NEW a, NEW b, NEW c, KeyOK(a), KeyOK(b), KeyOK(c), Ahead(a, b), Ahead(b, c)
  PROVE  Ahead(a, c)
<1>1. PICK i \in DOMAIN parts : Lower(parts[i], a[i], b[i]) /\ \A h \in 1 .. i - 1 : a[h] = b[h]
  BY DEF Ahead
<1>2. PICK j \in DOMAIN parts : Lower(parts[j], b[j], c[j]) /\ \A h \in 1 .. j - 1 : b[h] = c[h]
  BY DEF Ahead
<1>3. i \in Nat /\ j \in Nat /\ i >= 1 /\ j >= 1
  BY DEF PartsOK
<1>4. CASE i = j
  <2>1. Lower(parts[i], a[i], c[i])
    BY <1>1, <1>2, <1>4, PartsTransitive DEF KeyOK
  <2>2. \A h \in 1 .. i - 1 : a[h] = c[h]
    BY <1>1, <1>2, <1>4
  <2>3. QED BY <2>1, <2>2 DEF Ahead
<1>5. CASE i < j
  <2>1. i \in 1 .. j - 1 /\ \A h \in 1 .. i - 1 : h \in 1 .. j - 1
    BY <1>3, <1>5
  <2>2. Lower(parts[i], a[i], c[i]) /\ \A h \in 1 .. i - 1 : a[h] = c[h]
    BY <1>1, <1>2, <2>1
  <2>3. QED BY <2>2 DEF Ahead
<1>6. CASE j < i
  <2>1. j \in 1 .. i - 1 /\ \A h \in 1 .. j - 1 : h \in 1 .. i - 1
    BY <1>3, <1>6
  <2>2. Lower(parts[j], a[j], c[j]) /\ \A h \in 1 .. j - 1 : a[h] = c[h]
    BY <1>1, <1>2, <2>1
  <2>3. QED BY <2>2 DEF Ahead
<1>7. QED BY <1>3, <1>4, <1>5, <1>6

-----------------------------------------------------------------------------
(* T_BTreeNodeCmp: the same order between keys that it can tell apart.     *)

\* xBinCmp and xOidCmp answer -1 for octets that precede, if they do not answer
\* with a greater difference.
LEMMA CmpIs ==
  ASSUME NEW k, NEW x \in Seq(Nat), NEW y \in Seq(Nat), Cmp(k, x, y) \in -1 .. 1
  PROVE  Cmp(k, x, y) = -1 <=> Precedes(x, y)
<1>1. Len(x) \in Nat /\ Len(y) \in Nat
  OBVIOUS
<1>2. CASE Len(x) # Len(y)
  BY <1>1, <1>2 DEF Cmp, Sign, Precedes
<1>3. CASE x = y
  BY <1>1, <1>3 DEF Cmp, Precedes
<1>4. CASE Len(x) = Len(y) /\ ~(x = y)
  <2>1. PICK i \in 1 .. Len(x) : x[i] # y[i]
    BY <1>4, SeqEqual
  <2>2. PICK j \in 1 .. Len(x) : x[j] # y[j] /\ \A h \in 1 .. j - 1 : x[h] = y[h]
    BY <1>4, <2>1, FirstPlace
  <2>3. /\ x[j] \in Nat /\ y[j] \in Nat
        /\ j \in Nat /\ 1 <= j /\ j <= Len(x) /\ j <= Len(y)
    BY <1>1, <1>4
  <2>4. FirstDifference(x, y) = j
    BY <2>2, <2>3, FirstDifferenceIs
  <2>5. Precedes(x, y) <=> x[j] < y[j]
    BY <1>1, <1>4, <2>4 DEF Precedes
  <2>6. Cmp(k, x, y) = x[j] - y[j] \/ Cmp(k, x, y) = Sign(x[j] - y[j])
    BY <1>4, <2>4 DEF Cmp
  <2>7. x[j] - y[j] \in Int /\ x[j] # y[j]
    BY <2>2, <2>3
  <2>8. CASE Cmp(k, x, y) = x[j] - y[j]
    BY <2>3, <2>5, <2>7, <2>8
  <2>9. CASE Cmp(k, x, y) = Sign(x[j] - y[j])
    BY <2>3, <2>5, <2>7, <2>9 DEF Sign
  <2>10. QED BY <2>6, <2>8, <2>9
<1>5. QED BY <1>2, <1>3, <1>4

LEMMA BeforeIs ==
  ASSUME PartsOK, NEW a, NEW b, KeyOK(a), KeyOK(b), Comparable(a, b)
  PROVE  Before(a, b) <=> Ahead(a, b)
<1>1. ASSUME NEW j \in DOMAIN parts, \A h \in 1 .. j - 1 : a[h] = b[h]
      PROVE  Less(parts[j], a[j], b[j]) <=> Lower(parts[j], a[j], b[j])
  <2>1. CASE IsNumber(parts[j])
    BY <2>1 DEF Less, Lower
  <2>2. CASE ~IsNumber(parts[j])
    <3>1. a[j] \in Seq(Nat) /\ b[j] \in Seq(Nat)
      BY <2>2 DEF KeyOK, PartOK
    <3>2. Cmp(parts[j], a[j], b[j]) \in -1 .. 1
      BY <1>1, <2>2 DEF Comparable
    <3>3. Cmp(parts[j], a[j], b[j]) = -1 <=> Precedes(a[j], b[j])
      BY <3>1, <3>2, CmpIs
    <3>4. QED BY <2>2, <3>3 DEF Less, Lower
  <2>3. QED BY <2>1, <2>2
<1>2. ASSUME Before(a, b) PROVE Ahead(a, b)
  BY <1>1, <1>2 DEF Before, Ahead
<1>3. ASSUME Ahead(a, b) PROVE Before(a, b)
  BY <1>1, <1>3 DEF Before, Ahead
<1>4. QED BY <1>2, <1>3

-----------------------------------------------------------------------------
(* Indices, and the keys that are made of them.                            *)

IndexOK(n) ==
  /\ n = [j \in DOMAIN parts |-> n[j]]
  /\ \A j \in DOMAIN parts : n[j] \in Given(parts[j])

TableWalkable == table \in DOMAIN Catalogue /\ Walkable(Catalogue[table])

LEMMA WalkableParts ==
  ASSUME TableWalkable
  PROVE  PartsOK
<1> DEFINE K == [type  : {"UNSIGNED", "INTEGER", "TIMETICKS", "OCTET_STR", "PADDED", "OBJECT_ID", "WITHIN"},
                 bits  : {0, 8, 16, 32, 64},
                 field : STRING]
<1>1. parts \in Seq(K) /\ parts # <<>>
  BY KeysAssumption DEF parts, TableWalkable, Walkable
<1>2. \A k \in K : k.bits \in Widths
  BY DEF Widths
<1> HIDE DEF K
<1>3. Len(parts) \in Nat /\ DOMAIN parts = 1 .. Len(parts) /\ Len(parts) > 0
  BY <1>1, EmptySeq, LenProperties
<1>4. \A j \in DOMAIN parts : parts[j] \in K
  BY <1>1, <1>3, ElementOfSeq
<1>5. QED BY <1>2, <1>3, <1>4 DEF PartsOK

LEMMA IndicesOK ==
  ASSUME TableWalkable, NEW n \in Indices[table]
  PROVE  IndexOK(n)
<1> DEFINE t == Catalogue[table]
<1>1. PICK p \in (DOMAIN parts) \X (DOMAIN parts) :
        \E x \in Given(parts[p[1]]), y \in Given(parts[p[2]]) :
          n = [Base(t) EXCEPT ![p[2]] = y, ![p[1]] = x]
  BY DEF Indices, Varied, parts, TableWalkable
<1>2. PICK x \in Given(parts[p[1]]), y \in Given(parts[p[2]]) :
        n = [Base(t) EXCEPT ![p[2]] = y, ![p[1]] = x]
  BY <1>1
<1>3. Base(t) = [j \in DOMAIN parts |-> CHOOSE z \in Given(parts[j]) : TRUE]
  BY DEF Base, parts
<1>4. ASSUME NEW k
      PROVE  (CHOOSE z \in Given(k) : TRUE) \in Given(k)
  <2>1. IsNumber(k) => 1 \in Given(k)
    BY DEF Given
  <2>2. ~IsNumber(k) => <<2>> \in Given(k)
    BY DEF Given
  <2>3. QED BY <2>1, <2>2
<1>5. \A j \in DOMAIN parts : Base(t)[j] \in Given(parts[j])
  BY <1>3, <1>4
<1>6. DOMAIN Base(t) = DOMAIN parts /\ Base(t) = [j \in DOMAIN parts |-> Base(t)[j]]
  BY <1>3
<1> HIDE DEF t
<1>7. n = [j \in DOMAIN parts |-> n[j]]
  BY <1>2, <1>6
<1>8. \A j \in DOMAIN parts : n[j] = IF j = p[1] THEN x ELSE IF j = p[2] THEN y ELSE Base(t)[j]
  BY <1>2, <1>6
<1>9. \A j \in DOMAIN parts : n[j] \in Given(parts[j])
  BY <1>2, <1>5, <1>8
<1>10. QED BY <1>7, <1>9 DEF IndexOK

\* A key is made as it is kept.
LEMMA KeysMade ==
  ASSUME PartsOK, NEW n, IndexOK(n), NEW k, k = Key(Catalogue[table], n)
  PROVE  KeyOK(k) /\ k = Key(Catalogue[table], k)
<1>1. DOMAIN n = DOMAIN parts
  BY DEF IndexOK
<1>2. k = [j \in DOMAIN parts |-> Stored(parts[j], n[j])]
  BY <1>1 DEF Key, parts
<1>3. ASSUME NEW j \in DOMAIN parts
      PROVE  PartOK(parts[j], k[j]) /\ Stored(parts[j], k[j]) = k[j]
  <2>1. parts[j].bits \in Widths /\ PartOK(parts[j], n[j])
    BY GivenOK DEF PartsOK, IndexOK
  <2>2. QED BY <1>2, <2>1, StoredOK
<1>4. DOMAIN k = DOMAIN parts /\ k = [j \in DOMAIN parts |-> k[j]]
  BY <1>2
<1>5. Key(Catalogue[table], k) = [j \in DOMAIN parts |-> Stored(parts[j], k[j])]
  BY <1>4 DEF Key, parts
<1>6. QED BY <1>3, <1>4, <1>5 DEF KeyOK

-----------------------------------------------------------------------------
(* Rows that go into a sequence and out of it.                             *)

LEMMA Wider ==
  ASSUME NEW S, NEW T, S \subseteq T, NEW s \in Seq(S)
  PROVE  s \in Seq(T)
OBVIOUS

LEMMA Inserted ==
  ASSUME NEW S, NEW s \in Seq(S), NEW e \in S, NEW p \in 1 .. Len(s) + 1
  PROVE  /\ InsertAt(s, p, e) \in Seq(S)
         /\ Len(InsertAt(s, p, e)) = Len(s) + 1
         /\ \A i \in 1 .. Len(s) + 1 :
              InsertAt(s, p, e)[i] = IF i < p THEN s[i] ELSE IF i = p THEN e ELSE s[i - 1]
<1> DEFINE u == SubSeq(s, 1, p - 1)
           v == SubSeq(s, p, Len(s))
           w == u \o <<e>>
<1>1. Len(s) \in Nat /\ p \in Nat /\ p >= 1 /\ p <= Len(s) + 1
  OBVIOUS
<1>2. /\ u \in Seq(S) /\ Len(u) = p - 1 /\ \A i \in 1 .. p - 1 : u[i] = s[i]
      /\ v \in Seq(S) /\ Len(v) = Len(s) - p + 1 /\ \A i \in 1 .. Len(s) - p + 1 : v[i] = s[p + i - 1]
  <2>1. p - 1 \in Int /\ Len(s) \in Int /\ 1 \in Int /\ p \in Int
    BY <1>1
  <2>2. (\A i \in 1 .. p - 1 : s[i] \in S) /\ (\A i \in p .. Len(s) : s[i] \in S)
    BY <1>1, LenProperties
  <2>3. /\ SubSeq(s, 1, p - 1) \in Seq(S)
        /\ Len(SubSeq(s, 1, p - 1)) = IF 1 <= p - 1 THEN p - 1 - 1 + 1 ELSE 0
        /\ \A i \in 1 .. p - 1 - 1 + 1 : SubSeq(s, 1, p - 1)[i] = s[1 + i - 1]
    BY <2>1, <2>2, SubSeqProperties
  <2>4. /\ SubSeq(s, p, Len(s)) \in Seq(S)
        /\ Len(SubSeq(s, p, Len(s))) = IF p <= Len(s) THEN Len(s) - p + 1 ELSE 0
        /\ \A i \in 1 .. Len(s) - p + 1 : SubSeq(s, p, Len(s))[i] = s[p + i - 1]
    BY <2>1, <2>2, SubSeqProperties
  <2>5. u \in Seq(S) /\ Len(u) = p - 1 /\ \A i \in 1 .. p - 1 : u[i] = s[i]
    BY <1>1, <2>3
  <2>6. v \in Seq(S) /\ Len(v) = Len(s) - p + 1 /\ \A i \in 1 .. Len(s) - p + 1 : v[i] = s[p + i - 1]
    BY <1>1, <2>4
  <2>7. QED BY <2>5, <2>6
<1>3. <<e>> \in Seq(S) /\ Len(<<e>>) = 1 /\ <<e>>[1] = e
  OBVIOUS
<1>4. InsertAt(s, p, e) = w \o v
  BY DEF InsertAt
<1> HIDE DEF u, v
<1>5. /\ w \in Seq(S) /\ Len(w) = Len(u) + 1
      /\ \A i \in 1 .. Len(u) + 1 : w[i] = IF i <= Len(u) THEN u[i] ELSE <<e>>[i - Len(u)]
  BY <1>2, <1>3, ConcatProperties
<1>6. Len(w) = p /\ \A i \in 1 .. p : w[i] = IF i < p THEN s[i] ELSE e
  BY <1>1, <1>2, <1>3, <1>5
<1> HIDE DEF w
<1>7. /\ w \o v \in Seq(S) /\ Len(w \o v) = Len(w) + Len(v)
      /\ \A i \in 1 .. Len(w) + Len(v) : (w \o v)[i] = IF i <= Len(w) THEN w[i] ELSE v[i - Len(w)]
  BY <1>2, <1>5, ConcatProperties
<1>8. Len(w) + Len(v) = Len(s) + 1
  BY <1>1, <1>2, <1>6
<1>9. ASSUME NEW i \in 1 .. Len(s) + 1
      PROVE  (w \o v)[i] = IF i < p THEN s[i] ELSE IF i = p THEN e ELSE s[i - 1]
  <2>1. CASE i <= p
    <3>1. (w \o v)[i] = w[i] /\ i \in 1 .. p
      BY <1>1, <1>6, <1>7, <1>8, <2>1
    <3>2. w[i] = IF i < p THEN s[i] ELSE e
      BY <1>6, <3>1
    <3>3. QED BY <1>1, <2>1, <3>1, <3>2
  <2>2. CASE i > p
    <3>1. (w \o v)[i] = v[i - p] /\ i - p \in 1 .. Len(s) - p + 1
      BY <1>1, <1>6, <1>7, <1>8, <2>2
    <3>2. v[i - p] = s[p + (i - p) - 1] /\ p + (i - p) - 1 = i - 1
      BY <1>1, <1>2, <3>1
    <3>3. ~(i < p) /\ ~(i = p)
      BY <1>1, <2>2
    <3>4. QED BY <3>1, <3>2, <3>3
  <2>3. i <= p \/ i > p
    BY <1>1
  <2>4. QED BY <2>1, <2>2, <2>3
<1>10. QED BY <1>4, <1>7, <1>8, <1>9

LEMMA Removed ==
  ASSUME NEW S, NEW s \in Seq(S), NEW p \in 1 .. Len(s)
  PROVE  /\ RemoveAt(s, p) \in Seq(S)
         /\ Len(RemoveAt(s, p)) = Len(s) - 1
         /\ \A i \in 1 .. Len(s) - 1 : RemoveAt(s, p)[i] = IF i < p THEN s[i] ELSE s[i + 1]
<1> DEFINE u == SubSeq(s, 1, p - 1)
           v == SubSeq(s, p + 1, Len(s))
<1>1. Len(s) \in Nat /\ p \in Nat /\ p >= 1 /\ p <= Len(s)
  OBVIOUS
<1>2. /\ u \in Seq(S) /\ Len(u) = p - 1 /\ \A i \in 1 .. p - 1 : u[i] = s[i]
      /\ v \in Seq(S) /\ Len(v) = Len(s) - p /\ \A i \in 1 .. Len(s) - p : v[i] = s[p + i]
  <2>1. p - 1 \in Int /\ Len(s) \in Int /\ 1 \in Int /\ p + 1 \in Int
    BY <1>1
  <2>2. (\A i \in 1 .. p - 1 : s[i] \in S) /\ (\A i \in p + 1 .. Len(s) : s[i] \in S)
    BY <1>1, LenProperties
  <2>3. /\ SubSeq(s, 1, p - 1) \in Seq(S)
        /\ Len(SubSeq(s, 1, p - 1)) = IF 1 <= p - 1 THEN p - 1 - 1 + 1 ELSE 0
        /\ \A i \in 1 .. p - 1 - 1 + 1 : SubSeq(s, 1, p - 1)[i] = s[1 + i - 1]
    BY <2>1, <2>2, SubSeqProperties
  <2>4. /\ SubSeq(s, p + 1, Len(s)) \in Seq(S)
        /\ Len(SubSeq(s, p + 1, Len(s))) = IF p + 1 <= Len(s) THEN Len(s) - (p + 1) + 1 ELSE 0
        /\ \A i \in 1 .. Len(s) - (p + 1) + 1 : SubSeq(s, p + 1, Len(s))[i] = s[(p + 1) + i - 1]
    BY <2>1, <2>2, SubSeqProperties
  <2>5. u \in Seq(S) /\ Len(u) = p - 1 /\ \A i \in 1 .. p - 1 : u[i] = s[i]
    BY <1>1, <2>3
  <2>6. v \in Seq(S) /\ Len(v) = Len(s) - p /\ \A i \in 1 .. Len(s) - p : v[i] = s[p + i]
    <3>1. \A i \in 1 .. Len(s) - p : (p + 1) + i - 1 = p + i
      BY <1>1
    <3>2. Len(s) - (p + 1) + 1 = Len(s) - p
      BY <1>1
    <3>3. QED BY <1>1, <2>4, <3>1, <3>2
  <2>7. QED BY <2>5, <2>6
<1>3. RemoveAt(s, p) = u \o v
  BY DEF RemoveAt
<1> HIDE DEF u, v
<1>4. /\ u \o v \in Seq(S) /\ Len(u \o v) = Len(u) + Len(v)
      /\ \A i \in 1 .. Len(u) + Len(v) : (u \o v)[i] = IF i <= Len(u) THEN u[i] ELSE v[i - Len(u)]
  BY <1>2, ConcatProperties
<1>5. Len(u) + Len(v) = Len(s) - 1
  BY <1>1, <1>2
<1>6. ASSUME NEW i \in 1 .. Len(s) - 1
      PROVE  (u \o v)[i] = IF i < p THEN s[i] ELSE s[i + 1]
  <2>1. CASE i < p
    BY <1>1, <1>2, <1>4, <1>5, <2>1
  <2>2. CASE ~(i < p)
    <3>1. (u \o v)[i] = v[i - (p - 1)] /\ i - (p - 1) \in 1 .. Len(s) - p
      BY <1>1, <1>2, <1>4, <1>5, <2>2
    <3>2. v[i - (p - 1)] = s[p + (i - (p - 1))] /\ p + (i - (p - 1)) = i + 1
      BY <1>1, <1>2, <3>1
    <3>3. QED BY <2>2, <3>1, <3>2
  <2>3. QED BY <2>1, <2>2
<1>7. QED BY <1>3, <1>4, <1>5, <1>6

\* The rows of a sequence are those at its places.
LEMMA Places ==
  ASSUME NEW S, NEW s \in Seq(S)
  PROVE  /\ DOMAIN s = 1 .. Len(s) /\ Len(s) \in Nat
         /\ \A i \in 1 .. Len(s) : s[i] \in S /\ s[i] \in ToSet(s)
         /\ \A r \in ToSet(s) : \E i \in 1 .. Len(s) : s[i] = r
<1>1. DOMAIN s = 1 .. Len(s) /\ Len(s) \in Nat /\ \A i \in 1 .. Len(s) : s[i] \in S
  BY LenProperties
<1>2. QED BY <1>1 DEF ToSet

-----------------------------------------------------------------------------
(* The walk.                                                               *)

\* T_BTreeNodeCmp can tell any two of the rows apart that ever were there.
AllComparable == \A a, b \in made : Comparable(a, b)

\* The tree is in the order of the names.
Ordered == \A q \in 1 .. Len(entries) : \A p \in 1 .. q - 1 : Ahead(entries[p], entries[q])

KeptOK == \A r \in kept : r \in ToSet(seen) \/ Beyond(Name(r), last)

\* The rows, the request and what was answered.
RowsOK ==
  /\ entries \in Seq(made)
  /\ \A r \in made : KeyOK(r) /\ r = Key(Catalogue[table], r)
  /\ kept \subseteq ToSet(entries)
  /\ changes \in 0 .. MaxChanges

AnswersOK ==
  /\ seen \in Seq(made)
  /\ last = IF seen = <<>> THEN <<>> ELSE Name(Last(seen))

\* As long as the rows can be told apart the tree is in order, and what the
\* manager has not been shown of the rows that stay is still beyond the name it
\* asks with: the walk goes upward and misses none.
WalkOK ==
  AllComparable =>
    /\ Ordered
    /\ KeptOK
    /\ ended => kept \subseteq ToSet(seen)

IInv == TableWalkable /\ RowsOK /\ AnswersOK /\ WalkOK

LEMMA InitInv == Init => IInv
<1> SUFFICES ASSUME Init PROVE IInv
  OBVIOUS
<1>1. TableWalkable
  BY DEF Init, TableWalkable
<1>2. /\ entries = <<>> /\ seen = <<>> /\ last = <<>> /\ kept = {} /\ made = {}
      /\ ended = FALSE /\ changes = 0
  BY DEF Init
<1>3. entries \in Seq(made) /\ seen \in Seq(made) /\ Len(entries) = 0
  BY <1>2, EmptySeq
<1>4. changes \in 0 .. MaxChanges
  BY <1>2, WalkAssumption
<1>5. RowsOK /\ AnswersOK
  BY <1>2, <1>3, <1>4 DEF RowsOK, AnswersOK
<1>6. Ordered /\ KeptOK /\ kept \subseteq ToSet(seen)
  BY <1>2, <1>3 DEF Ordered, KeptOK
<1>7. QED BY <1>1, <1>5, <1>6 DEF IInv, WalkOK

\* The parts of the keys are those of the table.
LEMMA SameParts ==
  ASSUME table' = table
  PROVE  /\ parts' = parts
         /\ \A r : KeyOK(r)' <=> KeyOK(r)
         /\ \A r : Name(r)' = Name(r)
         /\ \A a, b : Comparable(a, b)' <=> Comparable(a, b)
         /\ \A a, b : Ahead(a, b)' <=> Ahead(a, b)
<1>1. parts' = parts
  BY DEF parts
<1>2. QED BY <1>1 DEF KeyOK, Name, Comparable, Ahead

\* Rows that can be told apart could be before there were more of them.
LEMMA Narrower ==
  ASSUME table' = table, made \subseteq made', AllComparable'
  PROVE  AllComparable
<1>1. \A a, b \in made' : Comparable(a, b)'
  BY DEF AllComparable
<1>2. \A a, b \in made' : Comparable(a, b)
  BY <1>1, SameParts
<1>3. QED BY <1>2 DEF AllComparable

\* What was answered stays.
LEMMA SameAnswers ==
  ASSUME AnswersOK, UNCHANGED <<table, seen, last>>, made \subseteq made'
  PROVE  AnswersOK'
<1>1. seen' \in Seq(made')
  BY Wider DEF AnswersOK
<1>2. (last = IF seen = <<>> THEN <<>> ELSE Name(Last(seen)))'
  BY SameParts DEF AnswersOK
<1>3. QED BY <1>1, <1>2 DEF AnswersOK

\* The new key goes between those that it is behind and those that it is ahead of.
LEMMA EndsInOrder ==
  ASSUME IInv, AllComparable, Ordered,
         NEW k, KeyOK(k), \A r \in made : Comparable(k, r),
         NEW p \in 1 .. Len(entries) + 1, Ends(k, p)
  PROVE  /\ \A i \in 1 .. Len(entries) : i < p => Ahead(entries[i], k)
         /\ \A i \in 1 .. Len(entries) : ~(i < p) => Ahead(k, entries[i])
<1>1. PartsOK
  BY WalkableParts DEF IInv
<1>2. /\ Len(entries) \in Nat
      /\ \A i \in 1 .. Len(entries) : entries[i] \in made /\ KeyOK(entries[i])
  BY Places DEF IInv, RowsOK
<1>3. \A i \in 1 .. Len(entries) : Before(k, entries[i]) <=> Ahead(k, entries[i])
  BY <1>1, <1>2, BeforeIs
<1>4. \A i, j \in 1 .. Len(entries) : i < j => Ahead(entries[i], entries[j])
  <2>1. TAKE i, j \in 1 .. Len(entries)
  <2>2. HAVE i < j
  <2>3. i \in 1 .. j - 1
    BY <2>2
  <2>4. QED BY <2>3 DEF Ordered
<1>5. ASSUME NEW i \in 1 .. Len(entries), i < p
      PROVE  Ahead(entries[i], k)
  <2>1. p - 1 \in 1 .. Len(entries) /\ p > 1
    BY <1>2, <1>5
  <2>2. ~Before(k, entries[p - 1]) /\ k # entries[p - 1]
    BY <2>1 DEF Ends
  <2>3. Ahead(entries[p - 1], k)
    BY <1>1, <1>2, <1>3, <2>1, <2>2, Total
  <2>4. CASE i = p - 1
    BY <2>3, <2>4
  <2>5. CASE i # p - 1
    <3>1. i < p - 1
      BY <1>2, <1>5, <2>1, <2>5
    <3>2. Ahead(entries[i], entries[p - 1])
      BY <1>4, <2>1, <3>1
    <3>3. QED BY <1>1, <1>2, <2>1, <2>3, <3>2, Transitive
  <2>6. QED BY <2>4, <2>5
<1>6. ASSUME NEW i \in 1 .. Len(entries), ~(i < p)
      PROVE  Ahead(k, entries[i])
  <2>1. p \in 1 .. Len(entries) /\ p <= Len(entries)
    BY <1>2, <1>6
  <2>2. Ahead(k, entries[p])
    BY <1>3, <2>1 DEF Ends
  <2>3. CASE i = p
    BY <2>2, <2>3
  <2>4. CASE i # p
    <3>1. p < i
      BY <1>2, <1>6, <2>1, <2>4
    <3>2. Ahead(entries[p], entries[i])
      BY <1>4, <2>1, <3>1
    <3>3. QED BY <1>1, <1>2, <2>1, <2>2, <3>2, Transitive
  <2>5. QED BY <2>3, <2>4
<1>7. QED BY <1>5, <1>6

LEMMA CreateEntryOrdered ==
  ASSUME IInv, AllComparable, Ordered, table' = table,
         NEW k, KeyOK(k), \A r \in made : Comparable(k, r),
         NEW p \in 1 .. Len(entries) + 1, Ends(k, p), entries' = InsertAt(entries, p, k)
  PROVE  Ordered'
<1>1. PICK S : entries \in Seq(S) /\ k \in S
  <2>1. PICK S : S = made \cup {k}
    OBVIOUS
  <2>2. made \subseteq S /\ k \in S /\ entries \in Seq(made)
    BY <2>1 DEF IInv, RowsOK
  <2>3. QED BY <2>2, Wider
<1>2. /\ Len(entries') = Len(entries) + 1 /\ Len(entries) \in Nat
      /\ \A i \in 1 .. Len(entries) + 1 :
           entries'[i] = IF i < p THEN entries[i] ELSE IF i = p THEN k ELSE entries[i - 1]
  <2>1. Len(entries) \in Nat
    BY <1>1, LenProperties
  <2>2. /\ Len(InsertAt(entries, p, k)) = Len(entries) + 1
        /\ \A i \in 1 .. Len(entries) + 1 :
             InsertAt(entries, p, k)[i] = IF i < p THEN entries[i] ELSE IF i = p THEN k ELSE entries[i - 1]
    BY <1>1, Inserted
  <2>3. QED BY <2>1, <2>2
<1>3. /\ \A i \in 1 .. Len(entries) : i < p => Ahead(entries[i], k)
      /\ \A i \in 1 .. Len(entries) : ~(i < p) => Ahead(k, entries[i])
  BY EndsInOrder
<1>4. ASSUME NEW q \in 1 .. Len(entries) + 1, NEW i \in 1 .. q - 1
      PROVE  Ahead(entries'[i], entries'[q])
  <2>1. i \in 1 .. Len(entries) + 1 /\ i < q /\ i >= 1 /\ q \in Nat /\ i \in Nat /\ p \in Nat
    BY <1>2
  <2>2. CASE q < p
    <3>1. entries'[i] = entries[i] /\ entries'[q] = entries[q] /\ q \in 1 .. Len(entries)
      BY <1>2, <2>1, <2>2
    <3>2. QED BY <3>1 DEF Ordered
  <2>3. CASE q = p
    <3>1. entries'[i] = entries[i] /\ entries'[q] = k /\ i \in 1 .. Len(entries) /\ i < p
      BY <1>2, <2>1, <2>3
    <3>2. QED BY <1>3, <3>1
  <2>4. CASE q > p
    <3>1. entries'[q] = entries[q - 1] /\ q - 1 \in 1 .. Len(entries) /\ ~(q - 1 < p)
      BY <1>2, <2>1, <2>4
    <3>2. CASE i < p
      <4>1. entries'[i] = entries[i] /\ i \in 1 .. (q - 1) - 1
        BY <1>2, <2>1, <2>4, <3>2
      <4>2. QED BY <3>1, <4>1 DEF Ordered
    <3>3. CASE i = p
      <4>1. entries'[i] = k
        BY <1>2, <2>1, <3>3
      <4>2. QED BY <1>3, <3>1, <4>1
    <3>4. CASE i > p
      <4>1. entries'[i] = entries[i - 1] /\ i - 1 \in 1 .. (q - 1) - 1
        BY <1>2, <2>1, <3>4
      <4>2. QED BY <3>1, <4>1 DEF Ordered
    <3>5. QED BY <2>1, <3>2, <3>3, <3>4
  <2>5. QED BY <2>1, <2>2, <2>3, <2>4
<1>5. QED BY <1>2, <1>4, SameParts DEF Ordered

LEMMA CreateEntryInv ==
  ASSUME IInv, NEW n \in Indices[table], CreateEntry(n)
  PROVE  IInv'
<1> DEFINE k == Key(Catalogue[table], n)
<1>1. /\ made' = made \cup {k} /\ changes' = changes + 1 /\ changes < MaxChanges
      /\ kept' = IF Begun THEN kept ELSE kept \cup {k}
      /\ UNCHANGED <<table, last, seen, ended>>
  BY DEF CreateEntry
<1>2. PICK p \in 1 .. Len(entries) + 1 : Ends(k, p) /\ entries' = InsertAt(entries, p, k)
  BY DEF CreateEntry
<1>3. KeyOK(k) /\ k = Key(Catalogue[table], k)
  <2>1. TableWalkable
    BY DEF IInv
  <2>2. PartsOK /\ IndexOK(n)
    BY <2>1, WalkableParts, IndicesOK
  <2>3. QED BY <2>2, KeysMade
<1> HIDE DEF k
<1>4. entries \in Seq(made') /\ k \in made' /\ made \subseteq made'
  <2>1. k \in made' /\ made \subseteq made'
    BY <1>1
  <2>2. QED BY <2>1, Wider DEF IInv, RowsOK
<1>5. /\ entries' \in Seq(made') /\ Len(entries') = Len(entries) + 1 /\ Len(entries) \in Nat
      /\ \A i \in 1 .. Len(entries) + 1 :
           entries'[i] = IF i < p THEN entries[i] ELSE IF i = p THEN k ELSE entries[i - 1]
  <2>1. Len(entries) \in Nat
    BY <1>4, LenProperties
  <2>2. QED BY <1>2, <1>4, <2>1, Inserted
<1>6. k \in ToSet(entries') /\ ToSet(entries) \subseteq ToSet(entries')
  <2>1. \A i \in 1 .. Len(entries) + 1 : entries'[i] \in ToSet(entries')
    BY <1>5, Places
  <2>2. entries'[p] = k
    BY <1>5
  <2>3. ASSUME NEW r \in ToSet(entries)
        PROVE  r \in ToSet(entries')
    <3>1. PICK i \in 1 .. Len(entries) : entries[i] = r
      BY <1>4, Places
    <3>2. CASE i < p
      <4>1. entries'[i] = r /\ i \in 1 .. Len(entries) + 1
        BY <1>5, <3>1, <3>2
      <4>2. QED BY <2>1, <4>1
    <3>3. CASE ~(i < p)
      <4>1. i + 1 \in 1 .. Len(entries) + 1 /\ ~(i + 1 < p) /\ ~(i + 1 = p) /\ (i + 1) - 1 = i
        BY <1>5, <3>3
      <4>2. entries'[i + 1] = r
        BY <1>5, <3>1, <4>1
      <4>3. QED BY <2>1, <4>1, <4>2
    <3>4. QED BY <3>2, <3>3
  <2>4. QED BY <2>1, <2>2, <2>3
<1>7. RowsOK'
  <2>1. kept' \subseteq ToSet(entries')
    BY <1>1, <1>6 DEF IInv, RowsOK
  <2>2. changes' \in 0 .. MaxChanges
    BY <1>1, WalkAssumption DEF IInv, RowsOK
  <2>3. \A r \in made' : KeyOK(r)' /\ r = Key(Catalogue[table'], r)
    <3>1. TAKE r \in made'
    <3>2. KeyOK(r) /\ r = Key(Catalogue[table], r)
      BY <1>1, <1>3 DEF IInv, RowsOK
    <3>3. QED BY <1>1, <3>2, SameParts
  <2>4. QED BY <1>5, <2>1, <2>2, <2>3 DEF RowsOK
<1>8. AnswersOK'
  BY <1>1, <1>4, SameAnswers DEF IInv
<1>9. WalkOK'
  <2>1. SUFFICES ASSUME AllComparable'
                 PROVE  Ordered' /\ KeptOK' /\ (ended' => kept' \subseteq ToSet(seen'))
    BY DEF WalkOK
  <2>2. AllComparable
    BY <1>1, <1>4, <2>1, Narrower
  <2>3. Ordered /\ KeptOK /\ (ended => kept \subseteq ToSet(seen))
    BY <2>2 DEF IInv, WalkOK
  <2>4. \A r \in made : Comparable(k, r)
    <3>1. \A a, b \in made' : Comparable(a, b)'
      BY <2>1 DEF AllComparable
    <3>2. \A a, b \in made' : Comparable(a, b)
      BY <1>1, <3>1, SameParts
    <3>3. QED BY <1>4, <3>2
  <2>5. Ordered'
    BY <1>1, <1>2, <1>3, <2>2, <2>3, <2>4, CreateEntryOrdered
  <2>6. KeptOK'
    <3>1. ASSUME NEW r \in kept'
          PROVE  r \in ToSet(seen) \/ Beyond(Name(r), last)
      <4>1. CASE r \in kept
        BY <2>3, <4>1 DEF KeptOK
      <4>2. CASE r \notin kept
        <5>1. ~Begun
          BY <1>1, <3>1, <4>2
        <5>2. last = <<>>
          BY <5>1 DEF Begun, IInv, AnswersOK
        <5>3. QED BY <5>2 DEF Beyond
      <4>3. QED BY <4>1, <4>2
    <3>2. \A r : Name(r)' = Name(r)
      BY <1>1, SameParts
    <3>3. QED BY <1>1, <3>1, <3>2 DEF KeptOK
  <2>7. ended' => kept' \subseteq ToSet(seen')
    BY <1>1, <2>3 DEF Begun
  <2>8. QED BY <2>5, <2>6, <2>7
<1>10. TableWalkable'
  BY <1>1 DEF IInv, TableWalkable
<1>11. QED BY <1>7, <1>8, <1>9, <1>10 DEF IInv

LEMMA RemoveEntryInv ==
  ASSUME IInv, NEW p \in DOMAIN entries, RemoveEntry(p)
  PROVE  IInv'
<1>1. /\ entries' = RemoveAt(entries, p) /\ kept' = kept \ {entries[p]}
      /\ changes' = changes + 1 /\ changes < MaxChanges
      /\ UNCHANGED <<table, last, seen, ended, made>>
  BY DEF RemoveEntry
<1>2. entries \in Seq(made) /\ p \in 1 .. Len(entries) /\ Len(entries) \in Nat
  BY LenProperties DEF IInv, RowsOK
<1>3. /\ entries' \in Seq(made) /\ Len(entries') = Len(entries) - 1
      /\ \A i \in 1 .. Len(entries) - 1 : entries'[i] = IF i < p THEN entries[i] ELSE entries[i + 1]
  BY <1>1, <1>2, Removed
<1>4. ASSUME NEW r \in kept'
      PROVE  r \in ToSet(entries')
  <2>1. r \in ToSet(entries) /\ r # entries[p]
    BY <1>1 DEF IInv, RowsOK
  <2>2. PICK i \in 1 .. Len(entries) : entries[i] = r
    BY <1>2, <2>1, Places
  <2>3. \A j \in 1 .. Len(entries) - 1 : entries'[j] \in ToSet(entries')
    BY <1>3, Places
  <2>4. i # p
    BY <2>1, <2>2
  <2>5. CASE i < p
    <3>1. i \in 1 .. Len(entries) - 1 /\ entries'[i] = r
      BY <1>2, <1>3, <2>2, <2>5
    <3>2. QED BY <2>3, <3>1
  <2>6. CASE ~(i < p)
    <3>1. i - 1 \in 1 .. Len(entries) - 1 /\ ~(i - 1 < p) /\ (i - 1) + 1 = i
      BY <1>2, <2>4, <2>6
    <3>2. entries'[i - 1] = r
      BY <1>3, <2>2, <3>1
    <3>3. QED BY <2>3, <3>1, <3>2
  <2>7. QED BY <2>5, <2>6
<1>5. RowsOK'
  <2>1. changes' \in 0 .. MaxChanges
    BY <1>1, WalkAssumption DEF IInv, RowsOK
  <2>2. \A r \in made' : KeyOK(r)' /\ r = Key(Catalogue[table'], r)
    BY <1>1, SameParts DEF IInv, RowsOK
  <2>3. entries' \in Seq(made') /\ kept' \subseteq ToSet(entries')
    BY <1>1, <1>3, <1>4
  <2>4. QED BY <2>1, <2>2, <2>3 DEF RowsOK
<1>6. AnswersOK'
  BY <1>1, SameAnswers DEF IInv
<1>7. WalkOK'
  <2>1. SUFFICES ASSUME AllComparable'
                 PROVE  Ordered' /\ KeptOK' /\ (ended' => kept' \subseteq ToSet(seen'))
    BY DEF WalkOK
  <2>2. AllComparable
    BY <1>1, <2>1, Narrower
  <2>3. Ordered /\ KeptOK /\ (ended => kept \subseteq ToSet(seen))
    BY <2>2 DEF IInv, WalkOK
  <2>4. ASSUME NEW q \in 1 .. Len(entries'), NEW i \in 1 .. q - 1
        PROVE  Ahead(entries'[i], entries'[q])
    <3>1. i \in 1 .. Len(entries) - 1 /\ q \in 1 .. Len(entries) - 1 /\ i < q
      BY <1>2, <1>3
    <3>2. PICK a \in 1 .. Len(entries) : entries'[i] = entries[a] /\ a \in {i, i + 1} /\ (a = i + 1 => ~(i < p))
      BY <1>2, <1>3, <3>1
    <3>3. PICK b \in 1 .. Len(entries) : entries'[q] = entries[b] /\ b \in {q, q + 1} /\ (b = q => q < p)
      BY <1>2, <1>3, <3>1
    <3>4. a \in 1 .. b - 1
      BY <1>2, <3>1, <3>2, <3>3
    <3>5. QED BY <2>3, <3>2, <3>3, <3>4 DEF Ordered
  <2>5. Ordered'
    BY <1>1, <2>4, SameParts DEF Ordered
  <2>6. KeptOK'
    BY <1>1, <2>3, SameParts DEF KeptOK
  <2>7. ended' => kept' \subseteq ToSet(seen')
    BY <1>1, <2>3
  <2>8. QED BY <2>5, <2>6, <2>7
<1>8. TableWalkable'
  BY <1>1 DEF IInv, TableWalkable
<1>9. QED BY <1>5, <1>6, <1>7, <1>8 DEF IInv

\* The walk ends where no row is beyond the name: of the rows beyond it, the
\* first in the tree would be answered.
LEMMA EndOfWalk ==
  ASSUME IInv, KeptOK, \A p \in DOMAIN entries : ~Stops(p)
  PROVE  kept \subseteq ToSet(seen)
<1> DEFINE S == {p \in 1 .. Len(entries) : Beyond(Name(entries[p]), last)}
<1>1. entries \in Seq(made) /\ DOMAIN entries = 1 .. Len(entries) /\ Len(entries) \in Nat
  BY LenProperties DEF IInv, RowsOK
<1>2. S = {}
  <2>1. ASSUME S # {} PROVE FALSE
    <3>1. S \in SUBSET Nat
      BY <1>1
    <3>2. PICK p \in S : \A q \in S : p <= q
      <4> HIDE DEF S
      <4> QED BY <2>1, <3>1, Least
    <3>3. p \in 1 .. Len(entries) /\ Beyond(Name(entries[p]), last)
      OBVIOUS
    <3>4. ASSUME NEW q \in 1 .. p - 1
          PROVE  ~Beyond(Name(entries[q]), last)
      <4>1. q \in 1 .. Len(entries) /\ ~(p <= q)
        BY <1>1, <3>3
      <4>2. q \notin S
        <5> HIDE DEF S
        <5> QED BY <3>2, <4>1
      <4>3. QED BY <4>1, <4>2
    <3>5. Stops(p)
      BY <3>3, <3>4 DEF Stops
    <3>6. QED BY <1>1, <3>3, <3>5
  <2>2. QED BY <2>1
<1>3. ASSUME NEW r \in kept
      PROVE  r \in ToSet(seen)
  <2>1. r \in ToSet(entries)
    BY DEF IInv, RowsOK
  <2>2. PICK i \in 1 .. Len(entries) : entries[i] = r
    BY <1>1, <2>1, Places
  <2>3. ~Beyond(Name(r), last)
    BY <1>2, <2>2
  <2>4. QED BY <2>3 DEF KeptOK
<1>4. QED BY <1>3

\* The row that is answered is the first beyond the name: what stays is the
\* row itself, or beyond it.
LEMMA NextOfWalk ==
  ASSUME IInv, Ordered, KeptOK, NEW p \in DOMAIN entries, Stops(p), NEW r \in kept
  PROVE  r \in ToSet(seen) \/ r = entries[p] \/ Beyond(Name(r), Name(entries[p]))
<1>1. PartsOK
  BY WalkableParts DEF IInv
<1>2. /\ DOMAIN entries = 1 .. Len(entries) /\ Len(entries) \in Nat
      /\ \A i \in 1 .. Len(entries) : KeyOK(entries[i])
  BY Places DEF IInv, RowsOK
<1>3. PICK i \in 1 .. Len(entries) : entries[i] = r
  BY Places DEF IInv, RowsOK
<1>4. CASE i < p
  <2>1. i \in 1 .. p - 1
    BY <1>2, <1>4
  <2>2. ~Beyond(Name(r), last)
    BY <1>3, <2>1 DEF Stops
  <2>3. QED BY <2>2 DEF KeptOK
<1>5. CASE i = p
  BY <1>3, <1>5
<1>6. CASE i > p
  <2>1. p \in 1 .. i - 1
    BY <1>2, <1>6
  <2>2. Ahead(entries[p], r)
    BY <1>3, <2>1 DEF Ordered
  <2>3. QED BY <1>1, <1>2, <1>3, <2>2, SameOrder
<1>7. QED BY <1>2, <1>4, <1>5, <1>6

LEMMA GetNextInv ==
  ASSUME IInv, GetNext
  PROVE  IInv'
<1>1. UNCHANGED <<table, entries, kept, made, changes>> /\ ~ended
  BY DEF GetNext
<1>2. TableWalkable'
  BY <1>1 DEF IInv, TableWalkable
<1>3. RowsOK'
  <2>1. \A r \in made' : KeyOK(r)' /\ r = Key(Catalogue[table'], r)
    BY <1>1, SameParts DEF IInv, RowsOK
  <2>2. QED BY <1>1, <2>1 DEF IInv, RowsOK
<1>4. AllComparable' => AllComparable /\ Ordered /\ KeptOK
  BY <1>1, Narrower DEF IInv, WalkOK
<1>5. Ordered => Ordered'
  BY <1>1, SameParts DEF Ordered
<1>6. ASSUME NEW p \in DOMAIN entries, Stops(p),
             seen' = Append(seen, entries[p]), last' = Name(entries[p]), UNCHANGED ended
      PROVE  AnswersOK' /\ WalkOK'
  <2>1. entries[p] \in made
    BY Places DEF IInv, RowsOK
  <2>2. /\ seen \in Seq(made) /\ seen' \in Seq(made) /\ seen' # <<>> /\ Len(seen') = Len(seen) + 1
        /\ \A j \in 1 .. Len(seen) : seen'[j] = seen[j]
        /\ seen'[Len(seen) + 1] = entries[p]
    BY <1>6, <2>1, AppendProperties DEF IInv, AnswersOK
  <2>3. Last(seen') = entries[p]
    BY <2>2 DEF Last
  <2>4. AnswersOK'
    <3>1. Name(Last(seen))' = Name(entries[p])
      BY <1>1, <2>3, SameParts
    <3>2. QED BY <1>1, <1>6, <2>2, <3>1 DEF AnswersOK
  <2>5. ToSet(seen) \subseteq ToSet(seen') /\ entries[p] \in ToSet(seen')
    <3>1. DOMAIN seen' = 1 .. Len(seen) + 1 /\ DOMAIN seen = 1 .. Len(seen) /\ Len(seen) \in Nat
      BY <2>2, LenProperties
    <3>2. QED BY <2>2, <3>1 DEF ToSet
  <2>6. AllComparable' => KeptOK'
    <3>1. SUFFICES ASSUME AllComparable' PROVE KeptOK'
      OBVIOUS
    <3>2. \A r \in kept : r \in ToSet(seen) \/ r = entries[p] \/ Beyond(Name(r), Name(entries[p]))
      BY <1>4, <1>6, <3>1, NextOfWalk
    <3>3. \A r : Name(r)' = Name(r)
      BY <1>1, SameParts
    <3>4. QED BY <1>1, <1>6, <2>5, <3>2, <3>3 DEF KeptOK
  <2>7. WalkOK'
    BY <1>1, <1>4, <1>5, <1>6, <2>6 DEF WalkOK
  <2>8. QED BY <2>4, <2>7
<1>7. ASSUME \A p \in DOMAIN entries : ~Stops(p), ended' = TRUE, UNCHANGED <<seen, last>>
      PROVE  AnswersOK' /\ WalkOK'
  <2>1. AnswersOK'
    BY <1>1, <1>7, SameAnswers DEF IInv
  <2>2. AllComparable' => kept \subseteq ToSet(seen)
    BY <1>4, <1>7, EndOfWalk
  <2>3. AllComparable' => KeptOK'
    BY <1>1, <1>7, <2>2 DEF KeptOK
  <2>4. WalkOK'
    BY <1>1, <1>4, <1>5, <1>7, <2>2, <2>3 DEF WalkOK
  <2>5. QED BY <2>1, <2>4
<1>8. AnswersOK' /\ WalkOK'
  BY <1>6, <1>7 DEF GetNext
<1>9. QED BY <1>2, <1>3, <1>8 DEF IInv

LEMMA NextInv == IInv /\ [Next]_vars => IInv'
<1> SUFFICES ASSUME IInv, [Next]_vars
             PROVE  IInv'
  OBVIOUS
<1>1. ASSUME NEW n \in Indices[table], CreateEntry(n)
      PROVE  IInv'
  BY <1>1, CreateEntryInv
<1>2. ASSUME NEW p \in DOMAIN entries, RemoveEntry(p)
      PROVE  IInv'
  BY <1>2, RemoveEntryInv
<1>3. CASE GetNext
  BY <1>3, GetNextInv
<1>4. CASE UNCHANGED vars
  <2>1. UNCHANGED <<table, entries, last, seen, ended, kept, made, changes>>
    BY <1>4 DEF vars
  <2>2. TableWalkable' /\ AnswersOK'
    BY <2>1, SameAnswers DEF IInv, TableWalkable
  <2>3. RowsOK'
    <3>1. \A r \in made' : KeyOK(r)' /\ r = Key(Catalogue[table'], r)
      BY <2>1, SameParts DEF IInv, RowsOK
    <3>2. QED BY <2>1, <3>1 DEF IInv, RowsOK
  <2>4. WalkOK'
    <3>1. AllComparable' => AllComparable
      BY <2>1, Narrower
    <3>2. (Ordered => Ordered') /\ (KeptOK => KeptOK')
      BY <2>1, SameParts DEF Ordered, KeptOK
    <3>3. QED BY <2>1, <3>1, <3>2 DEF IInv, WalkOK
  <2>5. QED BY <2>2, <2>3, <2>4 DEF IInv
<1>5. QED BY <1>1, <1>2, <1>3, <1>4 DEF Next

LEMMA Invariance == Spec => []IInv
BY InitInv, NextInv, PTL DEF Spec

\* The rows of the tree have keys of their table, as these are kept (the widths
\* of the row's fields, T_createEntry), and the manager's name is the one of the
\* row it was shown last.
THEOREM TypeCorrect == Spec => []TypeOK
<1>1. ASSUME IInv PROVE TypeOK
  <2>1. \A r \in made : DOMAIN r = DOMAIN parts
    BY <1>1 DEF IInv, RowsOK, KeyOK
  <2>2. QED BY <1>1, <2>1 DEF IInv, RowsOK, AnswersOK, TypeOK
<1>2. QED BY <1>1, Invariance, PTL

\* A walk with GETNEXT that has ended has shown each row that was there all the
\* time, whatever rows came and went, unless T_BTreeNodeCmp could not tell two of
\* them apart: the order of the tree is the one of the names that T_getNext writes.
THEOREM WalksSeeAll == Spec => []WalkSeesAll
<1>1. IInv => WalkSeesAll
  BY DEF IInv, WalkOK, AllComparable, WalkSeesAll
<1>2. QED BY <1>1, Invariance, PTL

\* Where all parts of the index are numbers, as in most tables, T_BTreeNodeCmp
\* can tell all rows apart, and a walk that has ended has missed none.
THEOREM NumbersMissNone ==
  Spec => []((\A j \in DOMAIN parts : IsNumber(parts[j])) /\ ended => kept \subseteq ToSet(seen))
<1>1. ASSUME IInv, \A j \in DOMAIN parts : IsNumber(parts[j]), ended
      PROVE  kept \subseteq ToSet(seen)
  <2>1. AllComparable
    BY <1>1 DEF AllComparable, Comparable
  <2>2. QED BY <1>1, <2>1 DEF IInv, WalkOK
<1>2. QED BY <1>1, Invariance, PTL
=============================================================================
