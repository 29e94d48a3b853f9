---------------------------- MODULE BinaryTree_proofs ----------------------------
(***************************************************************************)
(* Proofs about BinaryTree, for any number of nodes and any keys, where    *)
(* removed nodes are freed: the tree stays balanced, no pointer that is    *)
(* followed is null, and look-ups and scans are right between two calls.   *)
(*                                                                         *)
(* Each node has a place, a number, and an interval of places that its     *)
(* subtree has for itself; each has a height, the black nodes on a path    *)
(* down from it.  Places and heights are no part of the state: the         *)
(* invariant says that there are some, and each step shows others.         *)
(***************************************************************************)
EXTENDS BinaryTree, FiniteSetTheorems, NaturalsInduction, WellFoundedInduction, TLAPS

-----------------------------------------------------------------------------
(* The recursive functions of the module: repeated steps that end.         *)

\* Of some numbers one is the least.
LEMMA Least ==
  ASSUME NEW T \in SUBSET Nat, T # {}
  PROVE  \E n \in T : \A m \in T : n <= m
<1> DEFINE W == OpToRel(<, Nat)
<1>1. \E n \in T : \A m \in T : ~(<<m, n>> \in W)
  BY NatLessThanWellFounded, WFMin
<1>2. \A m, n \in T : m < n => <<m, n>> \in W
  BY DEF OpToRel
<1>3. PICK n \in T : \A m \in T : ~(<<m, n>> \in W)
  BY <1>1
<1> HIDE DEF W
<1>4. \A m \in T : ~(m < n)
  BY <1>2, <1>3
<1> QED BY <1>4

\* s is a, g[a], g[g[a]] and so on.
Repeats(s, g, a, N) == s = [k \in 0 .. N |-> IF k = 0 THEN a ELSE g[s[k - 1]]]

LEMMA RepeatStep ==
  ASSUME NEW s, NEW g, NEW a, NEW N \in Nat, Repeats(s, g, a, N)
  PROVE  s[0] = a /\ \A k \in 1 .. N : s[k] = g[s[k - 1]]
<1>1. \A k \in 0 .. N : s[k] = IF k = 0 THEN a ELSE g[s[k - 1]]
  BY DEF Repeats
<1> QED BY <1>1

LEMMA RepeatExists ==
  ASSUME NEW g, NEW a, NEW N \in Nat
  PROVE  \E s : Repeats(s, g, a, N)
<1> DEFINE Bad == {M \in Nat : ~\E s : Repeats(s, g, a, M)}
<1> SUFFICES ASSUME Bad # {} PROVE FALSE
  OBVIOUS
<1>1. PICK M \in Bad : \A m \in Bad : M <= m
  BY Least
<1>2. M # 0
  <2>1. Repeats([k \in 0 .. 0 |-> a], g, a, 0)
    BY DEF Repeats
  <2> QED BY <2>1
<1>3. M - 1 \in Nat /\ M - 1 \notin Bad
  BY <1>1, <1>2
<1>4. PICK s : Repeats(s, g, a, M - 1)
  BY <1>3
<1> DEFINE z == [k \in 0 .. M |-> IF k = 0 THEN a ELSE g[s[k - 1]]]
<1>5. \A k \in 0 .. M : z[k] = IF k = 0 THEN a ELSE g[s[k - 1]]
  OBVIOUS
<1>6. \A k \in 0 .. (M - 1) : s[k] = IF k = 0 THEN a ELSE g[s[k - 1]]
  BY <1>4 DEF Repeats
<1>7. \A k \in 0 .. (M - 1) : z[k] = s[k]
  BY <1>3, <1>5, <1>6
<1>8. \A k \in 1 .. M : k - 1 \in 0 .. (M - 1)
  BY <1>3
<1>9. z = [k \in 0 .. M |-> IF k = 0 THEN a ELSE g[z[k - 1]]]
  <2>1. \A k \in 0 .. M : k # 0 => k \in 1 .. M
    BY <1>3
  <2>2. \A k \in 0 .. M : (IF k = 0 THEN a ELSE g[s[k - 1]]) = (IF k = 0 THEN a ELSE g[z[k - 1]])
    <3> HIDE DEF z
    <3> QED BY <1>7, <1>8, <2>1
  <2>3. z = [k \in 0 .. M |-> IF k = 0 THEN a ELSE g[s[k - 1]]]
    OBVIOUS
  <2> HIDE DEF z
  <2> QED BY <2>2, <2>3
<1>10. Repeats(z, g, a, M)
  <2> HIDE DEF z
  <2> QED BY <1>9 DEF Repeats
<1>11. M \notin Bad
  <2> HIDE DEF z
  <2> QED BY <1>10
<1> QED BY <1>11

\* What no step leaves is never left.
LEMMA RepeatIn ==
  ASSUME NEW s, NEW N \in Nat, NEW C,
         s[0] \in C, \A k \in 1 .. N : s[k - 1] \in C => s[k] \in C
  PROVE  \A k \in 0 .. N : s[k] \in C
<1> DEFINE Bad == {k \in 0 .. N : s[k] \notin C}
<1> SUFFICES ASSUME Bad # {} PROVE FALSE
  OBVIOUS
<1>1. PICK k \in Bad : \A m \in Bad : k <= m
  <2>1. Bad \in SUBSET Nat
    OBVIOUS
  <2> HIDE DEF Bad
  <2> QED BY <2>1, Least
<1>2. k \in 0 .. N /\ s[k] \notin C /\ k # 0
  OBVIOUS
<1>3. k \in 1 .. N /\ k - 1 \in 0 .. N /\ ~(k <= k - 1)
  BY <1>2
<1>4. k - 1 \notin Bad
  <2> HIDE DEF Bad
  <2> QED BY <1>1, <1>3
<1>5. s[k - 1] \in C
  BY <1>3, <1>4
<1> QED BY <1>2, <1>3, <1>5

\* Where each step goes down, at most as many steps change something as there are
\* members of C, less one.
LEMMA RepeatEnds ==
  ASSUME NEW s, NEW g, NEW a, NEW N \in Nat,
         s[0] = a, \A k \in 1 .. N : s[k] = g[s[k - 1]],
         NEW C, IsFiniteSet(C), Cardinality(C) <= N + 1, a \in C, \A x \in C : g[x] \in C,
         NEW m \in [C -> Int], \A x \in C : g[x] # x => m[g[x]] < m[x]
  PROVE  g[s[N]] = s[N] /\ s[N] \in C
<1> DEFINE A(k) == {x \in C : m[x] < m[s[k]]}
<1> DEFINE Bad == {k \in 0 .. N : ~(g[s[k]] = s[k] \/ Cardinality(A(k)) <= N - k)}
<1>1. \A k \in 0 .. N : s[k] \in C
  <2>1. \A k \in 1 .. N : s[k - 1] \in C => s[k] \in C
    OBVIOUS
  <2> QED BY <2>1, RepeatIn
<1>2. \A k \in 0 .. N : IsFiniteSet(A(k)) /\ Cardinality(A(k)) \in Nat
  BY FS_Subset, FS_CardinalityType
<1>3. Bad = {}
  <2> SUFFICES ASSUME Bad # {} PROVE FALSE
    OBVIOUS
  <2>1. PICK k \in Bad : \A j \in Bad : k <= j
    <3>1. Bad \in SUBSET Nat
      OBVIOUS
    <3> HIDE DEF Bad
    <3> QED BY <3>1, Least
  <2>2. k \in 0 .. N /\ g[s[k]] # s[k] /\ ~(Cardinality(A(k)) <= N - k)
    BY <2>1
  <2>3. k # 0
    <3>1. s[0] \in C /\ 0 \in 0 .. N
      BY <1>1
    <3>2. IsFiniteSet(C \ {s[0]}) /\ Cardinality(C \ {s[0]}) = Cardinality(C) - 1
      BY <3>1, FS_RemoveElement
    <3>3. A(0) \in SUBSET (C \ {s[0]})
      BY <3>1
    <3>4. Cardinality(A(0)) <= Cardinality(C \ {s[0]})
      BY <3>2, <3>3, FS_Subset
    <3>5. Cardinality(C) \in Nat /\ Cardinality(A(0)) \in Nat
      BY <3>1, <1>2, FS_CardinalityType
    <3>6. Cardinality(A(0)) <= N - 0
      <4> HIDE DEF A
      <4> QED BY <3>2, <3>4, <3>5
    <3> QED BY <3>6, <2>2
  <2>4. k \in 1 .. N /\ k - 1 \in 0 .. N /\ ~(k <= k - 1)
    BY <2>2, <2>3
  <2>5. k - 1 \notin Bad
    <3> HIDE DEF Bad
    <3> QED BY <2>1, <2>4
  <2>6. g[s[k - 1]] = s[k - 1] \/ Cardinality(A(k - 1)) <= N - (k - 1)
    BY <2>4, <2>5
  <2>7. s[k] = g[s[k - 1]]
    BY <2>4
  <2>8. g[s[k - 1]] # s[k - 1]
    BY <2>2, <2>7
  <2>9. Cardinality(A(k - 1)) <= N - (k - 1)
    BY <2>6, <2>8
  <2>10. m[s[k]] < m[s[k - 1]] /\ s[k] \in C /\ s[k - 1] \in C
    BY <1>1, <2>4, <2>2, <2>7, <2>8
  <2>11. A(k) \in SUBSET (A(k - 1) \ {s[k]}) /\ s[k] \in A(k - 1)
    BY <2>10
  <2>12. /\ IsFiniteSet(A(k - 1) \ {s[k]})
         /\ Cardinality(A(k - 1) \ {s[k]}) = Cardinality(A(k - 1)) - 1
    BY <1>2, <2>4, <2>11, FS_RemoveElement
  <2>13. Cardinality(A(k)) <= Cardinality(A(k - 1) \ {s[k]})
    BY <2>11, <2>12, FS_Subset
  <2>14. Cardinality(A(k)) \in Nat /\ Cardinality(A(k - 1)) \in Nat
    BY <1>2, <2>2, <2>4
  <2>15. Cardinality(A(k)) <= N - k
    <3> HIDE DEF A
    <3> QED BY <2>9, <2>12, <2>13, <2>14, <2>4
  <2> QED BY <2>15, <2>2
<1>4. s[N] \in C /\ N \in 0 .. N
  BY <1>1
<1>5. ASSUME g[s[N]] # s[N] PROVE FALSE
  <2>1. Cardinality(A(N)) <= N - N
    BY <1>3, <1>4, <1>5
  <2>2. g[s[N]] \in A(N)
    BY <1>4, <1>5
  <2>3. IsFiniteSet(A(N)) /\ Cardinality(A(N)) \in Nat
    BY <1>2, <1>4
  <2>4. Cardinality(A(N)) = 0
    <3> HIDE DEF A
    <3> QED BY <2>1, <2>3
  <2>5. A(N) = {}
    <3> HIDE DEF A
    <3> QED BY SMTT(60), <2>3, <2>4, FS_EmptySet
  <2> QED BY <2>2, <2>5
<1> QED BY <1>4, <1>5

\* The last node of a path that stays in C.
LEMMA LastAlongEnds ==
  ASSUME NEW f, NEW C \in SUBSET Node, NEW a \in C,
         NEW m \in [C -> Int], \A x \in C : f[x] # NULL => f[x] \in C /\ m[f[x]] < m[x]
  PROVE  LastAlong(f, a) \in C /\ f[LastAlong(f, a)] = NULL
<1> DEFINE g == [x \in C |-> IF f[x] = NULL THEN x ELSE f[x]]
<1> DEFINE N == Cardinality(Node)
<1> DEFINE st == CHOOSE step : step = [k \in Depth |-> IF k = 0 THEN a
                           ELSE IF f[step[k - 1]] = NULL THEN step[k - 1]
                           ELSE f[step[k - 1]]]
<1>1. LastAlong(f, a) = st[N]
  BY Zenon DEF LastAlong
<1>2. IsFiniteSet(Node) /\ N \in Nat /\ IsFiniteSet(C) /\ Cardinality(C) \in Nat /\ Cardinality(C) <= N
  BY BinaryTreeAssumption, FS_CardinalityType, FS_Subset
<1>3. \A x \in C : g[x] = (IF f[x] = NULL THEN x ELSE f[x]) /\ g[x] \in C
  OBVIOUS
<1>4. PICK s : Repeats(s, g, a, N)
  BY <1>2, RepeatExists
<1>5. s[0] = a /\ \A k \in 1 .. N : s[k] = g[s[k - 1]]
  <2> HIDE DEF N, g
  <2> QED BY <1>2, <1>4, RepeatStep
<1>6. \A k \in 0 .. N : s[k] \in C
  <2>1. \A k \in 1 .. N : s[k - 1] \in C => s[k] \in C
    BY <1>3, <1>5
  <2> HIDE DEF N, g
  <2> QED BY <1>2, <1>5, <2>1, RepeatIn
<1>7. s = [k \in Depth |-> IF k = 0 THEN a ELSE IF f[s[k - 1]] = NULL THEN s[k - 1]
                           ELSE f[s[k - 1]]]
  <2>1. s = [k \in 0 .. N |-> IF k = 0 THEN a ELSE g[s[k - 1]]]
    BY <1>4 DEF Repeats
  <2>2. \A k \in 0 .. N : (IF k = 0 THEN a ELSE g[s[k - 1]]) = 
           (IF k = 0 THEN a ELSE IF f[s[k - 1]] = NULL THEN s[k - 1] ELSE f[s[k - 1]])
    <3>1. \A k \in 0 .. N : k # 0 => k - 1 \in 0 .. N
      BY <1>2
    <3> HIDE DEF N, g
    <3> QED BY <3>1, <1>3, <1>6
  <2> HIDE DEF g
  <2> QED BY <2>1, <2>2 DEF Depth
<1>8. st = [k \in Depth |-> IF k = 0 THEN a ELSE IF f[st[k - 1]] = NULL THEN st[k - 1]
                            ELSE f[st[k - 1]]]
  BY <1>7, Zenon
<1>9. \A k \in 0 .. N : st[k] = IF k = 0 THEN a ELSE IF f[st[k - 1]] = NULL THEN st[k - 1]
                            ELSE f[st[k - 1]]
  <2> HIDE DEF st
  <2> QED BY <1>8 DEF Depth
<1>10. st[0] = a /\ \A k \in 1 .. N : st[k] = IF f[st[k - 1]] = NULL THEN st[k - 1]
                            ELSE f[st[k - 1]]
  <2> HIDE DEF st, N
  <2> QED BY <1>9, <1>2
<1>11. \A k \in 0 .. N : st[k] \in C
  <2>1. \A k \in 1 .. N : st[k - 1] \in C => st[k] \in C
    <3> HIDE DEF st, N
    <3> QED BY <1>10
  <2> HIDE DEF st, N
  <2> QED BY <1>2, <1>10, <2>1, RepeatIn
<1>12. \A k \in 1 .. N : st[k] = g[st[k - 1]]
  <2>1. \A k \in 1 .. N : k - 1 \in 0 .. N
    BY <1>2
  <2> HIDE DEF st, N, g
  <2> QED BY <1>3, <1>10, <1>11, <2>1
<1>13. \A x \in C : g[x] # x => m[g[x]] < m[x]
  BY <1>3
<1>14. g[st[N]] = st[N] /\ st[N] \in C
  <2>1. Cardinality(C) <= N + 1
    BY <1>2
  <2> HIDE DEF st, N, g
  <2> QED BY <1>2, <1>3, <1>10, <1>12, <1>13, <2>1, RepeatEnds
<1>15. f[st[N]] = NULL
  <2>1. ASSUME f[st[N]] # NULL PROVE FALSE
    <3>1. m[f[st[N]]] < m[st[N]] /\ g[st[N]] = f[st[N]] /\ m[st[N]] \in Int
      BY Zenon, <1>3, <1>14, <2>1
    <3> HIDE DEF st, g, N
    <3> QED BY SMTT(60), <3>1, <1>14
  <2> QED BY <2>1
<1> QED BY <1>1, <1>14, <1>15

-----------------------------------------------------------------------------
(* The shape of a tree, of the nodes S with root r and pointers L, R, P.   *)

LinksOK(S, r, L, R, P) ==
  /\ r \in S \cup {NULL} /\ (r = NULL => S = {})
  /\ \A n \in S : L[n] \in S \cup {NULL} /\ R[n] \in S \cup {NULL} /\ P[n] \in S \cup {NULL}
  /\ \A n \in S : P[n] = NULL <=> n = r
  /\ \A n \in S : P[n] # NULL => n = L[P[n]] \/ n = R[P[n]]
  /\ \A n \in S : L[n] # NULL => P[L[n]] = n
  /\ \A n \in S : R[n] # NULL => P[R[n]] = n

\* The interval of b is inside the one of a, on the left or on the right.
Inside(L, R, pos, lo, hi, a, b) ==
  \/ L[a] # NULL /\ lo[a] <= lo[b] /\ hi[b] <= pos[a]
  \/ R[a] # NULL /\ pos[a] <= lo[b] /\ hi[b] <= hi[a]

\* Two nodes: one is below the other, or their intervals have nothing in common.
Apart(L, R, pos, lo, hi, a, b) ==
  \/ Inside(L, R, pos, lo, hi, a, b)
  \/ Inside(L, R, pos, lo, hi, b, a)
  \/ hi[a] <= lo[b]
  \/ hi[b] <= lo[a]

\* A child has the part of its parent's interval on its side of the parent.
PlacesOK(S, r, L, R, pos, lo, hi) ==
  /\ \A n \in S : lo[n] < pos[n] /\ pos[n] < hi[n]
  /\ \A n \in S : L[n] # NULL => lo[L[n]] = lo[n] /\ hi[L[n]] = pos[n]
  /\ \A n \in S : R[n] # NULL => lo[R[n]] = pos[n] /\ hi[R[n]] = hi[n]
  /\ \A n \in S : lo[r] <= lo[n] /\ hi[n] <= hi[r]
  /\ \A a, b \in S : a # b => Apart(L, R, pos, lo, hi, a, b)

-----------------------------------------------------------------------------
(* The state of a call.                                                    *)

\* The nodes that are linked.
Linked == IF pc = "nodeAdd" THEN members \ {pNode} ELSE members

Inserting == {"insertRootCheck", "insertParentCheck", "insertUncleCheck",
              "insertParentAdjust", "insertGrandParentCheck"}
\* The black nodes below pNode are one too few once pOut is gone.
Short == {"removeRootCheck", "removeSiblingAdjust", "removeSiblingCheck",
          "removeParentCheck", "removeSiblingChildAdjust", "removeSiblingChildCheck"}
Removing == Short \cup {"removeChildCheck", "removeUnlink"}

\* The argument of the call and what it has read.
CallOK ==
  /\ pc \in {"idle", "nodeAdd"} \cup Inserting \cup Removing
  /\ pc = "idle" => pNode = NULL /\ pDown = NULL
  /\ pc = "nodeAdd" => pNode \in members /\ pDown \in Linked \cup {NULL}
  /\ pc \in Inserting => pNode \in members
  /\ pc \notin Removing => pOut = NULL /\ pChild = NULL
  /\ pc \in Removing => pOut \in members /\ pNode \in members
  /\ pc = "removeChildCheck" => pNode = pOut /\ (pLeft[pOut] = NULL \/ pRight[pOut] = NULL)
  /\ pc = "removeUnlink" =>
       /\ pChild \in members \cup {NULL}
       /\ \/ pLeft[pOut] = NULL /\ pRight[pOut] = pChild
          \/ pRight[pOut] = NULL /\ pLeft[pOut] = pChild
       /\ pChild # NULL => ~red[pChild] /\ pLeft[pChild] = NULL /\ pRight[pChild] = NULL
  /\ pc \in Short =>
       pChild = NULL /\ pLeft[pOut] = NULL /\ pRight[pOut] = NULL /\ ~red[pOut] /\ ~red[pNode]

\* Nodes outside the tree are as xBuffer_cAlloc returns them.
ZeroedOK ==
  \A n \in Node \ Linked : pLeft[n] = NULL /\ pRight[n] = NULL /\ pParent[n] = NULL /\ ~red[n]

\* Where a function of the rebalancing is in the tree.
PhaseOK ==
  /\ pc \in Inserting \ {"insertRootCheck"} => red[pNode] /\ pParent[pNode] # NULL
  /\ pc \in {"insertUncleCheck", "insertParentAdjust", "insertGrandParentCheck"} =>
       red[pParent[pNode]]
  /\ pc \in {"insertParentAdjust", "insertGrandParentCheck"} => ~IsRed(Uncle(pNode))
  /\ pc = "insertGrandParentCheck" =>
       \/ pNode = pLeft[pParent[pNode]] /\ pParent[pNode] = pLeft[GrandParent(pNode)]
       \/ pNode = pRight[pParent[pNode]] /\ pParent[pNode] = pRight[GrandParent(pNode)]
  /\ pc \in Short \ {"removeRootCheck"} => pParent[pNode] # NULL
  /\ pc \in Short \ {"removeRootCheck", "removeSiblingAdjust"} => ~IsRed(Sibling(pNode))
  /\ pc = "removeParentCheck" => red[pParent[pNode]] \/ ~HasBlackChildren(Sibling(pNode))
  /\ pc = "removeSiblingChildAdjust" => ~HasBlackChildren(Sibling(pNode))
  /\ pc = "removeSiblingChildCheck" =>
       IsRed(IF IsLeft(pNode) THEN pRight[Sibling(pNode)] ELSE pLeft[Sibling(pNode)])

\* insertRootCheck paints pNode, which counts as red before.
Painted == IF pc = "insertRootCheck" THEN pNode ELSE NULL
Ruddy(rd, w, n) == n # NULL /\ (rd[n] \/ n = w)

\* No red node has a red child but e, the one that is being inserted.
ColourRule(S, r, L, R, rd, w, e) ==
  /\ Ruddy(rd, w, r) => r = w
  /\ \A n \in S : Ruddy(rd, w, n) =>
       /\ Ruddy(rd, w, L[n]) => L[n] = e
       /\ Ruddy(rd, w, R[n]) => R[n] = e

Excused == IF pc \in Inserting THEN pNode ELSE NULL
ColoursOK == ColourRule(Linked, pRoot, pLeft, pRight, red, Painted, Excused)

H(h, n) == IF n = NULL THEN 0 ELSE h[n]
Black(rd, w, n) == IF Ruddy(rd, w, n) THEN 0 ELSE 1
Lacks(s, n) == IF n = s THEN 1 ELSE 0

\* Both sides of a node have the same height, and s has one more than it will
\* keep; g, which is to be unlinked, has the height of its child.
HeightRule(S, L, R, rd, w, s, g, child, h) ==
  \A n \in S :
    IF n = g THEN h[n] = H(h, child) + Lacks(s, n)
    ELSE /\ H(h, L[n]) = H(h, R[n])
         /\ h[n] = H(h, L[n]) + Black(rd, w, n) + Lacks(s, n)

\* There are such heights.
Level(S, L, R, rd, w, s, g, child) ==
  \E h \in [Node -> Nat] : HeightRule(S, L, R, rd, w, s, g, child, h)

ShortAt == IF pc \in Short THEN pNode ELSE NULL
Leaving == IF pc \in Short \cup {"removeUnlink"} THEN pOut ELSE NULL
HeightsOK(h) ==
  HeightRule(Linked, pLeft, pRight, red, Painted, ShortAt, Leaving, pChild, h)

\* The keys are in the order of the places, but for a node that has traded places.
SortedOK(pos) ==
  ~Differences =>
    \A a, b \in Linked \ {pOut} : pos[a] < pos[b] => Key[a] <= Key[b]

\* The descent has gone to the side where the key belongs.
DescentOK(pos, lo, hi) ==
  ~Differences /\ pc = "nodeAdd" /\ pDown # NULL =>
    \A n \in Linked :
      /\ pos[n] <= lo[pDown] => Key[n] <= Key[pNode]
      /\ hi[pDown] <= pos[n] => Key[pNode] <= Key[n]

ShapeOK(pos, lo, hi) ==
  /\ LinksOK(Linked, pRoot, pLeft, pRight, pParent)
  /\ PlacesOK(Linked, pRoot, pLeft, pRight, pos, lo, hi)
  /\ SortedOK(pos)
  /\ DescentOK(pos, lo, hi)

TypedOK ==
  /\ pRoot \in Ref
  /\ pLeft \in [Node -> Ref] /\ pRight \in [Node -> Ref] /\ pParent \in [Node -> Ref]
  /\ red \in [Node -> BOOLEAN]
  /\ pNode \in Ref /\ pDown \in Ref /\ pOut \in Ref /\ pChild \in Ref
  /\ members \in SUBSET Node
  /\ u32NumNode = Cardinality(Linked)

IInv ==
  /\ TypedOK
  /\ CallOK
  /\ ZeroedOK
  /\ PhaseOK
  /\ ColoursOK
  /\ \E pos, lo, hi \in [Node -> Int] : ShapeOK(pos, lo, hi)
  /\ \E h \in [Node -> Nat] : HeightsOK(h)

-----------------------------------------------------------------------------
(* Rotations.                                                              *)

\* The nodes are numbers other than NULL.
LEMMA NullOutside == NULL \notin Node
BY BinaryTreeAssumption

\* R[n] comes up and n goes down to its left; what was left of R[n] is n's now.
Rotated(S, n, c, r, L, R, P, r2, L2, R2, P2) ==
  /\ n \in S /\ c = R[n] /\ c # NULL
  /\ r2 = IF P[n] = NULL THEN c ELSE r
  /\ \A x \in S :
       /\ L2[x] = IF x = c THEN n ELSE IF x = P[n] /\ L[x] = n THEN c ELSE L[x]
       /\ R2[x] = IF x = n THEN L[c] ELSE IF x = P[n] /\ R[x] = n THEN c ELSE R[x]
       /\ P2[x] = IF x = n THEN c ELSE IF x = c THEN P[n] ELSE IF x = L[c] THEN n ELSE P[x]

\* The nodes around a rotation are different ones.
LEMMA AroundRotation ==
  ASSUME NEW S \in SUBSET Node, NULL \notin S, NEW r, NEW L, NEW R, NEW P,
         NEW pos \in [Node -> Int], NEW lo \in [Node -> Int], NEW hi \in [Node -> Int],
         LinksOK(S, r, L, R, P), PlacesOK(S, r, L, R, pos, lo, hi),
         NEW n \in S, R[n] # NULL
  PROVE  /\ R[n] \in S /\ R[n] # n /\ P[R[n]] = n
         /\ L[R[n]] \in S \cup {NULL} /\ L[R[n]] # n /\ L[R[n]] # R[n] 
         /\ P[n] \in S \cup {NULL} /\ P[n] # n /\ P[n] # R[n] /\ (P[n] # NULL => P[n] # L[R[n]])
         /\ L[n] # n /\ L[n] # R[n]
         /\ R[R[n]] # n /\ R[R[n]] # R[n] /\ (R[R[n]] # NULL => R[R[n]] # L[R[n]])
         /\ pos[n] < pos[R[n]]
<1> DEFINE c == R[n]
<1> DEFINE g == L[c]
<1> DEFINE u == P[n]
<1>1. c \in S /\ g \in S \cup {NULL} /\ u \in S \cup {NULL} /\ P[c] = n /\ R[c] \in S \cup {NULL} /\ L[n] \in S \cup {NULL}
  BY DEF LinksOK
<1>2. \A x \in S : lo[x] \in Int /\ pos[x] \in Int /\ hi[x] \in Int /\ lo[x] < pos[x] /\ pos[x] < hi[x]
  BY DEF PlacesOK
<1>3. lo[c] = pos[n] /\ hi[c] = hi[n]
  BY DEF PlacesOK
<1>4. g # NULL => lo[g] = lo[c] /\ hi[g] = pos[c]
  BY <1>1 DEF PlacesOK
<1>5. u # NULL => \/ lo[n] = lo[u] /\ hi[n] = pos[u]
                  \/ lo[n] = pos[u] /\ hi[n] = hi[u]
  BY <1>1 DEF PlacesOK, LinksOK
<1>6. L[n] # NULL => hi[L[n]] = pos[n]
  BY <1>1 DEF PlacesOK
<1>7. R[c] # NULL => lo[R[c]] = pos[c]
  BY <1>1 DEF PlacesOK
<1> HIDE DEF c, g, u
<1>8. c # n
  BY <1>1, <1>2, <1>3
<1>9. g # n /\ g # c
  BY <1>1, <1>2, <1>3, <1>4
<1>10. u # n /\ u # c /\ (u # NULL => u # g)
  BY <1>1, <1>2, <1>3, <1>4, <1>5
<1>11. L[n] # n /\ L[n] # c
  BY <1>1, <1>2, <1>3, <1>6
<1>12. R[c] # n /\ R[c] # c /\ (R[c] # NULL => R[c] # g)
  BY <1>1, <1>2, <1>3, <1>4, <1>7
<1>13. pos[n] < pos[c]
  BY <1>1, <1>2, <1>3
<1> QED BY <1>1, <1>8, <1>9, <1>10, <1>11, <1>12, <1>13 DEF c, g, u

LEMMA RotateLinks ==
  ASSUME NEW S \in SUBSET Node, NULL \notin S, NEW r, NEW L, NEW R, NEW P,
         NEW pos \in [Node -> Int], NEW lo \in [Node -> Int], NEW hi \in [Node -> Int],
         LinksOK(S, r, L, R, P), PlacesOK(S, r, L, R, pos, lo, hi),
         NEW n, NEW c, NEW r2, NEW L2, NEW R2, NEW P2,
         Rotated(S, n, c, r, L, R, P, r2, L2, R2, P2)
  PROVE  LinksOK(S, r2, L2, R2, P2)
<1> DEFINE g == L[c]
<1> DEFINE u == P[n]
<1>1. n \in S /\ c = R[n] /\ c # NULL /\ c \in S
  BY DEF Rotated, LinksOK
<1>2. /\ c # n /\ P[c] = n /\ g \in S \cup {NULL} /\ g # n /\ g # c
      /\ u \in S \cup {NULL} /\ u # n /\ u # c /\ (u # NULL => u # g) /\ L[n] # n /\ L[n] # c
      /\ R[c] # n /\ R[c] # c /\ (R[c] # NULL => R[c] # g)
  BY <1>1, AroundRotation
<1>3. r2 = IF u = NULL THEN c ELSE r
  BY DEF Rotated
<1>4. \A x \in S :
       /\ L2[x] = IF x = c THEN n ELSE IF x = u /\ L[x] = n THEN c ELSE L[x]
       /\ R2[x] = IF x = n THEN g ELSE IF x = u /\ R[x] = n THEN c ELSE R[x]
       /\ P2[x] = IF x = n THEN c ELSE IF x = c THEN u ELSE IF x = g THEN n ELSE P[x]
  BY DEF Rotated
<1>5. g # NULL => P[g] = c
  BY <1>1 DEF LinksOK
<1> HIDE DEF g, u
<1>6. r2 \in S \cup {NULL} /\ (r2 = NULL => S = {})
  BY <1>1, <1>3 DEF LinksOK
<1>7. ASSUME NEW x \in S
      PROVE  /\ L2[x] \in S \cup {NULL} /\ R2[x] \in S \cup {NULL} /\ P2[x] \in S \cup {NULL}
             /\ P2[x] = NULL <=> x = r2
             /\ P2[x] # NULL => x = L2[P2[x]] \/ x = R2[P2[x]]
             /\ L2[x] # NULL => P2[L2[x]] = x
             /\ R2[x] # NULL => P2[R2[x]] = x
  <2>1. L[x] \in S \cup {NULL} /\ R[x] \in S \cup {NULL} /\ P[x] \in S \cup {NULL}
    BY DEF LinksOK
  <2>2. P[x] = NULL <=> x = r
    BY DEF LinksOK
  <2>3. P[x] # NULL => x = L[P[x]] \/ x = R[P[x]]
    BY DEF LinksOK
  <2>4. L[x] # NULL => P[L[x]] = x
    BY DEF LinksOK
  <2>5. R[x] # NULL => P[R[x]] = x
    BY DEF LinksOK
  <2>6. u # NULL => n = L[u] \/ n = R[u]
    BY <1>1 DEF LinksOK, u
  <2>7. u = P[n] /\ (u = NULL <=> n = r)
    BY <1>1 DEF LinksOK, u
  <2>8. g = L[c]
    BY DEF g
  <2>9. L2[x] \in S \cup {NULL} /\ R2[x] \in S \cup {NULL} /\ P2[x] \in S \cup {NULL}
    BY <1>1, <1>2, <1>4, <2>1
  <2>10. P2[x] = NULL <=> x = r2
    BY <1>1, <1>2, <1>3, <1>4, <2>2, <2>7, <2>1, <1>5
  <2>11. P2[x] # NULL => x = L2[P2[x]] \/ x = R2[P2[x]]
    <3> SUFFICES ASSUME P2[x] # NULL PROVE x = L2[P2[x]] \/ x = R2[P2[x]]
      OBVIOUS
    <3>1. CASE x = n
      BY <3>1, <1>4, <1>1
    <3>2. CASE x = c
      BY <3>2, <1>4, <1>1, <1>2, <2>6
    <3>3. CASE x = g /\ x # n /\ x # c
      BY <3>3, <1>4, <1>1, <1>2
    <3>4. CASE x # n /\ x # c /\ x # g
      BY <3>4, <1>4, <1>1, <1>2, <2>1, <2>3, <2>8
    <3> QED BY <3>1, <3>2, <3>3, <3>4
  <2>12. L2[x] # NULL => P2[L2[x]] = x
    BY <1>1, <1>2, <1>4, <2>1, <2>4, <2>6, <2>7, <2>8, <1>5
  <2>13. R2[x] # NULL => P2[R2[x]] = x
    BY <1>1, <1>2, <1>4, <2>1, <2>5, <2>6, <2>7, <2>8, <1>5
  <2> QED BY <2>9, <2>10, <2>11, <2>12, <2>13
<1> QED BY <1>6, <1>7 DEF LinksOK

\* Where no pointer leads out of a place, none does after a rotation.
LEMMA RotatePlaces ==
  ASSUME NEW S \in SUBSET Node, NULL \notin S, NEW r, NEW L, NEW R, NEW P,
         NEW pos \in [Node -> Int], NEW lo \in [Node -> Int], NEW hi \in [Node -> Int],
         LinksOK(S, r, L, R, P), PlacesOK(S, r, L, R, pos, lo, hi),
         NEW n, NEW c, NEW r2, NEW L2, NEW R2, NEW P2,
         Rotated(S, n, c, r, L, R, P, r2, L2, R2, P2)
  PROVE  \E lo2, hi2 \in [Node -> Int] : PlacesOK(S, r2, L2, R2, pos, lo2, hi2)
<1> DEFINE g == L[c]
<1> DEFINE u == P[n]
<1> DEFINE lo2 == [x \in Node |-> IF x = c THEN lo[n] ELSE lo[x]]
<1> DEFINE hi2 == [x \in Node |-> IF x = n THEN pos[c] ELSE hi[x]]
<1>1. n \in S /\ c = R[n] /\ c # NULL /\ c \in S
  BY DEF Rotated, LinksOK
<1>2. /\ c # n /\ P[c] = n /\ g \in S \cup {NULL} /\ g # n /\ g # c
      /\ u \in S \cup {NULL} /\ u # n /\ u # c /\ (u # NULL => u # g) /\ L[n] # n /\ L[n] # c
      /\ R[c] # n /\ R[c] # c /\ (R[c] # NULL => R[c] # g) /\ pos[n] < pos[c]
  BY <1>1, AroundRotation
<1>3. r2 = IF u = NULL THEN c ELSE r
  BY DEF Rotated
<1>4. \A x \in S :
       /\ L2[x] = IF x = c THEN n ELSE IF x = u /\ L[x] = n THEN c ELSE L[x]
       /\ R2[x] = IF x = n THEN g ELSE IF x = u /\ R[x] = n THEN c ELSE R[x]
  BY DEF Rotated
<1>5. lo2 \in [Node -> Int] /\ hi2 \in [Node -> Int]
  BY <1>1
<1>6. \A x \in S : lo2[x] = IF x = c THEN lo[n] ELSE lo[x]
  OBVIOUS
<1>7. \A x \in S : hi2[x] = IF x = n THEN pos[c] ELSE hi[x]
  OBVIOUS
<1>8. \A x \in S : L[x] \in S \cup {NULL} /\ R[x] \in S \cup {NULL} /\ P[x] \in S \cup {NULL}
  BY DEF LinksOK
<1>9. \A x \in S : (L[x] # NULL => P[L[x]] = x) /\ (R[x] # NULL => P[R[x]] = x)
  BY DEF LinksOK
<1>10. u = P[n] /\ g = L[c]
  OBVIOUS
<1>11. \A x \in S : lo[x] \in Int /\ pos[x] \in Int /\ hi[x] \in Int /\ lo[x] < pos[x] /\ pos[x] < hi[x]
  BY DEF PlacesOK
<1>12. lo[c] = pos[n] /\ hi[c] = hi[n]
  BY <1>1 DEF PlacesOK
<1> HIDE DEF g, u, lo2, hi2
<1>13. ASSUME NEW x \in S
       PROVE  /\ lo2[x] < pos[x] /\ pos[x] < hi2[x]
              /\ L2[x] # NULL => lo2[L2[x]] = lo2[x] /\ hi2[L2[x]] = pos[x]
              /\ R2[x] # NULL => lo2[R2[x]] = pos[x] /\ hi2[R2[x]] = hi2[x]
  <2>1. lo2[x] < pos[x] /\ pos[x] < hi2[x]
    BY <1>1, <1>2, <1>6, <1>7, <1>11, <1>12
  <2>2. L[x] # NULL => lo[L[x]] = lo[x] /\ hi[L[x]] = pos[x]
    BY DEF PlacesOK
  <2>3. R[x] # NULL => lo[R[x]] = pos[x] /\ hi[R[x]] = hi[x]
    BY DEF PlacesOK
  <2>4. g # NULL => lo[g] = lo[c] /\ hi[g] = pos[c]
    BY <1>1, <1>10 DEF PlacesOK
  <2>5. L2[x] # NULL => lo2[L2[x]] = lo2[x] /\ hi2[L2[x]] = pos[x]
    BY <1>1, <1>2, <1>4, <1>6, <1>7, <1>8, <1>9, <1>10, <1>12, <2>2
  <2>6. R2[x] # NULL => lo2[R2[x]] = pos[x] /\ hi2[R2[x]] = hi2[x]
    BY <1>1, <1>2, <1>4, <1>6, <1>7, <1>8, <1>9, <1>10, <1>12, <2>3, <2>4
  <2> QED BY <2>1, <2>5, <2>6
<1>14. ASSUME NEW x \in S PROVE lo2[r2] <= lo2[x] /\ hi2[x] <= hi2[r2]
  <2>1. lo[r] <= lo[x] /\ hi[x] <= hi[r] /\ lo[r] <= lo[n] /\ hi[n] <= hi[r]
    BY <1>1 DEF PlacesOK
  <2>2. r \in S /\ (u = NULL => r = n)
    BY <1>1, <1>10 DEF LinksOK
  <2>3. u # NULL => r # n
    BY <1>1, <1>10 DEF LinksOK
  <2>4. r # c
    BY <1>1, <1>2 DEF LinksOK
  <2> QED BY <1>1, <1>2, <1>3, <1>6, <1>7, <1>11, <1>12, <2>1, <2>2, <2>3, <2>4
<1>15. ASSUME NEW x \in S
       PROVE  /\ x # c /\ L[x] # NULL => L2[x] # NULL
              /\ x # n /\ R[x] # NULL => R2[x] # NULL
  BY <1>1, <1>4
<1>16. L2[c] # NULL /\ (L[c] # NULL => R2[n] # NULL) /\ L2[n] = L[n] /\ R2[c] = R[c]
  BY <1>1, <1>2, <1>4, <1>10
<1>17. ASSUME NEW b \in S, b # n, b # c
       PROVE  Apart(L2, R2, pos, lo2, hi2, n, b) /\ Apart(L2, R2, pos, lo2, hi2, c, b)
  <2>1. Apart(L, R, pos, lo, hi, n, b)
    BY <1>17, <1>1 DEF PlacesOK
  <2>2. Apart(L, R, pos, lo, hi, c, b)
    BY <1>17, <1>1 DEF PlacesOK
  <2>3. /\ lo2[b] = lo[b] /\ hi2[b] = hi[b] /\ lo2[n] = lo[n] /\ hi2[n] = pos[c]
        /\ lo2[c] = lo[n] /\ hi2[c] = hi[n]
    BY <1>17, <1>1, <1>2, <1>6, <1>7, <1>12
  <2>4. (L[b] # NULL => L2[b] # NULL) /\ (R[b] # NULL => R2[b] # NULL)
    BY <1>17, <1>15
  <2>5. /\ lo[b] \in Int /\ pos[b] \in Int /\ hi[b] \in Int /\ lo[b] < pos[b] /\ pos[b] < hi[b]
        /\ lo[n] \in Int /\ pos[n] \in Int /\ hi[n] \in Int /\ lo[n] < pos[n] /\ pos[n] < hi[n]
        /\ lo[c] \in Int /\ pos[c] \in Int /\ hi[c] \in Int /\ lo[c] < pos[c] /\ pos[c] < hi[c]
    BY <1>1, <1>11
  <2>6. Apart(L2, R2, pos, lo2, hi2, n, b)
    BY <1>1, <1>2, <1>12, <1>16, <2>1, <2>2, <2>3, <2>4, <2>5 DEF Apart, Inside
  <2>7. Apart(L2, R2, pos, lo2, hi2, c, b)
    BY <1>1, <1>2, <1>12, <1>16, <2>1, <2>2, <2>3, <2>4, <2>5 DEF Apart, Inside
  <2> QED BY <2>6, <2>7
<1>18. Apart(L2, R2, pos, lo2, hi2, c, n)
  BY <1>1, <1>2, <1>6, <1>7, <1>11, <1>12, <1>16 DEF Apart, Inside
<1>19. ASSUME NEW a \in S, NEW b \in S, a # b
       PROVE  Apart(L2, R2, pos, lo2, hi2, a, b)
  <2>1. CASE a \in {n, c} /\ b \notin {n, c}
    BY <2>1, <1>17
  <2>2. CASE b \in {n, c} /\ a \notin {n, c}
    <3>1. Apart(L2, R2, pos, lo2, hi2, b, a)
      BY <2>2, <1>17
    <3> QED BY <3>1 DEF Apart
  <2>3. CASE a \in {n, c} /\ b \in {n, c}
    BY <1>19, <2>3, <1>18 DEF Apart
  <2>4. CASE a \notin {n, c} /\ b \notin {n, c}
    <3>1. Apart(L, R, pos, lo, hi, a, b)
      BY <1>19 DEF PlacesOK
    <3>2. lo2[a] = lo[a] /\ hi2[a] = hi[a] /\ lo2[b] = lo[b] /\ hi2[b] = hi[b]
      BY <2>4, <1>6, <1>7
    <3>3. /\ L[a] # NULL => L2[a] # NULL
          /\ R[a] # NULL => R2[a] # NULL
          /\ L[b] # NULL => L2[b] # NULL
          /\ R[b] # NULL => R2[b] # NULL
      BY <2>4, <1>15
    <3> QED BY <3>1, <3>2, <3>3 DEF Apart, Inside
  <2> QED BY <2>1, <2>2, <2>3, <2>4
<1>20. PlacesOK(S, r2, L2, R2, pos, lo2, hi2)
  BY <1>13, <1>14, <1>19 DEF PlacesOK
<1> QED BY <1>5, <1>20
\* The same with left and right exchanged.
Mirror(f) == [x \in Node |-> -f[x]]

LEMMA MirrorLinks ==
  ASSUME NEW S, NEW r, NEW L, NEW R, NEW P, LinksOK(S, r, L, R, P)
  PROVE  LinksOK(S, r, R, L, P)
BY DEF LinksOK

LEMMA MirrorPlaces ==
  ASSUME NEW S \in SUBSET Node, NEW r \in S \cup {NULL}, NEW L, NEW R, r = NULL => S = {},
         NEW pos \in [Node -> Int], NEW lo \in [Node -> Int], NEW hi \in [Node -> Int],
         PlacesOK(S, r, L, R, pos, lo, hi), 
         \A n \in S : L[n] \in S \cup {NULL} /\ R[n] \in S \cup {NULL}
  PROVE  PlacesOK(S, r, R, L, Mirror(pos), Mirror(hi), Mirror(lo))
<1>1. \A x \in Node : /\ pos[x] \in Int /\ lo[x] \in Int /\ hi[x] \in Int
                      /\ Mirror(pos)[x] = -pos[x] /\ Mirror(lo)[x] = -lo[x] /\ Mirror(hi)[x] = -hi[x]
  BY DEF Mirror
<1>2. ASSUME NEW x \in S
      PROVE  /\ Mirror(hi)[x] < Mirror(pos)[x] /\ Mirror(pos)[x] < Mirror(lo)[x]
             /\ R[x] # NULL => /\ Mirror(hi)[R[x]] = Mirror(hi)[x]
                              /\ Mirror(lo)[R[x]] = Mirror(pos)[x]
             /\ L[x] # NULL => /\ Mirror(hi)[L[x]] = Mirror(pos)[x]
                              /\ Mirror(lo)[L[x]] = Mirror(lo)[x]
             /\ Mirror(hi)[r] <= Mirror(hi)[x] /\ Mirror(lo)[x] <= Mirror(lo)[r]
  <2>1. lo[x] < pos[x] /\ pos[x] < hi[x] /\ lo[r] <= lo[x] /\ hi[x] <= hi[r] /\ r \in S
    BY DEF PlacesOK
  <2>2. R[x] # NULL => lo[R[x]] = pos[x] /\ hi[R[x]] = hi[x] /\ R[x] \in S
    BY DEF PlacesOK
  <2>3. L[x] # NULL => lo[L[x]] = lo[x] /\ hi[L[x]] = pos[x] /\ L[x] \in S
    BY DEF PlacesOK
  <2> QED BY <1>1, <2>1, <2>2, <2>3
<1>3. ASSUME NEW a \in S, NEW b \in S, a # b
      PROVE  Apart(R, L, Mirror(pos), Mirror(hi), Mirror(lo), a, b)
  <2>1. Apart(L, R, pos, lo, hi, a, b)
    BY <1>3 DEF PlacesOK
  <2>2. /\ pos[a] \in Int /\ lo[a] \in Int /\ hi[a] \in Int
        /\ Mirror(pos)[a] = -pos[a] /\ Mirror(lo)[a] = -lo[a] /\ Mirror(hi)[a] = -hi[a]
        /\ pos[b] \in Int /\ lo[b] \in Int /\ hi[b] \in Int
        /\ Mirror(pos)[b] = -pos[b] /\ Mirror(lo)[b] = -lo[b] /\ Mirror(hi)[b] = -hi[b]
    BY <1>1
  <2> QED BY <2>1, <2>2 DEF Apart, Inside
<1> QED BY <1>2, <1>3 DEF PlacesOK

LEMMA MirrorTwice ==
  ASSUME NEW f \in [Node -> Int]
  PROVE  Mirror(f) \in [Node -> Int] /\ Mirror(Mirror(f)) = f
<1>1. \A x \in Node : f[x] \in Int /\ -(-f[x]) = f[x]
  OBVIOUS
<1> QED BY <1>1 DEF Mirror

Tree(r, L, R, P) == [root |-> r, left |-> L, right |-> R, parent |-> P]

IsTree(t) ==
  /\ t.root \in Ref /\ t.left \in [Node -> Ref] /\ t.right \in [Node -> Ref]
  /\ t.parent \in [Node -> Ref]

\* The nodes outside S have the same pointers.
Elsewhere(S, L, R, P, L2, R2, P2) ==
  \A x \in Node \ S : L2[x] = L[x] /\ R2[x] = R[x] /\ P2[x] = P[x]

LEMMA RotateLeftIs ==
  ASSUME NEW S \in SUBSET Node, NEW r \in Ref, NEW L \in [Node -> Ref],
         NEW R \in [Node -> Ref], NEW P \in [Node -> Ref],
         NEW pos \in [Node -> Int], NEW lo \in [Node -> Int], NEW hi \in [Node -> Int],
         LinksOK(S, r, L, R, P), PlacesOK(S, r, L, R, pos, lo, hi),
         NEW n \in S, R[n] # NULL,
         NEW t, t = RotateLeft(Tree(r, L, R, P), n)
  PROVE  /\ Rotated(S, n, R[n], r, L, R, P, t.root, t.left, t.right, t.parent)
         /\ IsTree(t)
         /\ Elsewhere(S, L, R, P, t.left, t.right, t.parent)
<1> DEFINE c == R[n]
<1> DEFINE g == L[c]
<1> DEFINE v == P[n]
<1>1. NULL \notin S /\ NULL \notin Node
  BY NullOutside
<1>2. /\ c \in S /\ c # n /\ P[c] = n /\ g \in S \cup {NULL} /\ g # n /\ g # c
      /\ v \in S \cup {NULL} /\ v # n /\ v # c /\ (v # NULL => v # g) /\ L[n] # n /\ L[n] # c
      /\ R[c] # n /\ R[c] # c /\ (R[c] # NULL => R[c] # g)
  BY <1>1, AroundRotation
<1>3. v # NULL => (L[v] = n <=> R[v] # n)
  <2>1. v # NULL => L[v] = n \/ R[v] = n
    BY DEF LinksOK
  <2>2. v # NULL /\ L[v] = n => hi[n] = pos[v]
    BY <1>1, <1>2 DEF PlacesOK
  <2>3. v # NULL /\ R[v] = n => hi[n] = hi[v]
    BY <1>1, <1>2 DEF PlacesOK
  <2>4. v # NULL => pos[v] < hi[v] /\ pos[v] \in Int /\ hi[v] \in Int
    BY SMTT(60), <1>2 DEF PlacesOK
  <2> QED BY <2>1, <2>2, <2>3, <2>4
<1> DEFINE R1 == [R EXCEPT ![n] = g]
<1> DEFINE P1 == IF g = NULL THEN P ELSE [P EXCEPT ![g] = n]
<1> DEFINE L1 == [L EXCEPT ![c] = n]
<1> DEFINE t1 == [root |-> r, left |-> L1, right |-> R1, parent |-> P1]
<1>4. t = LET u == ParentUpdate(t1, n, c) IN [u EXCEPT !.parent[n] = c]
  <2> DEFINE t0 == [root |-> r, left |-> L, right |-> R, parent |-> P]
  <2>1. c # NULL
    BY <1>1, <1>2
  <2>2. t0.root = r /\ t0.left = L /\ t0.right = R /\ t0.parent = P
    OBVIOUS
  <2>4. Tree(r, L, R, P) = t0
    BY DEF Tree
  <2>5. t = RotateLeft(t0, n)
    BY <2>4
  <2>6. t1 = [root |-> t0.root, right |-> [t0.right EXCEPT ![n] = g],
             left |-> [t0.left EXCEPT ![c] = n],
             parent |-> IF g = NULL THEN t0.parent ELSE [t0.parent EXCEPT ![g] = n]]
    BY <2>2
  <2> HIDE DEF t0, t1
  <2> QED BY Zenon, <2>1, <2>2, <2>5, <2>6 DEF RotateLeft
<1>5. P1[n] = v
  BY <1>2
<1> DEFINE L2 == IF v # NULL /\ L1[v] = n THEN [L1 EXCEPT ![v] = c] ELSE L1
<1> DEFINE R2 == IF v # NULL /\ L1[v] # n /\ R1[v] = n THEN [R1 EXCEPT ![v] = c] ELSE R1
<1> DEFINE P2 == [P1 EXCEPT ![c] = v]
<1>6. ParentUpdate(t1, n, c) = [root |-> IF v = NULL THEN c ELSE r, left |-> L2,
                                right |-> R2, parent |-> P2]
  BY <1>5, <1>2, <1>1 DEF ParentUpdate
<1>7. /\ t.root = (IF v = NULL THEN c ELSE r) /\ t.left = L2 /\ t.right = R2
      /\ t.parent = [P2 EXCEPT ![n] = c]
  <2> HIDE DEF L2, R2, P2, t1, v, c
  <2> QED BY <1>4, <1>6
<1>8. P1 \in [Node -> Ref] /\ L1 \in [Node -> Ref] /\ R1 \in [Node -> Ref]
  BY <1>2 DEF Ref
<1>9. P2 \in [Node -> Ref] /\ L2 \in [Node -> Ref] /\ R2 \in [Node -> Ref]
  <2> HIDE DEF P1, L1, R1
  <2> QED BY <1>2, <1>8 DEF Ref
<1>10. \A x \in Node : /\ L1[x] = IF x = c THEN n ELSE L[x]
                       /\ R1[x] = IF x = n THEN g ELSE R[x]
                       /\ P1[x] = IF g # NULL /\ x = g THEN n ELSE P[x]
  OBVIOUS
<1>11. \A x \in Node : /\ L2[x] = IF v # NULL /\ L1[v] = n /\ x = v THEN c ELSE L1[x]
                       /\ R2[x] = IF v # NULL /\ L1[v] # n /\ R1[v] = n /\ x = v THEN c ELSE R1[x]
                       /\ P2[x] = IF x = c THEN v ELSE P1[x]
                       /\ t.parent[x] = IF x = n THEN c ELSE P2[x]
  <2> HIDE DEF P1, L1, R1, c, v, g
  <2> QED BY <1>7, <1>8, <1>9
<1> HIDE DEF c, g, v, R1, P1, L1, R2, P2, L2, t1
<1>12. IsTree(t)
  <2>1. [P2 EXCEPT ![n] = c] \in [Node -> Ref]
    BY <1>9, <1>2 DEF Ref
  <2> QED BY <2>1, <1>7, <1>9, <1>2 DEF IsTree, Ref
<1>13. ASSUME NEW x \in Node
       PROVE  /\ t.left[x] = IF x = c THEN n ELSE IF x = v /\ L[x] = n THEN c ELSE L[x]
              /\ t.right[x] = IF x = n THEN g ELSE IF x = v /\ R[x] = n THEN c ELSE R[x]
              /\ t.parent[x] = IF x = n THEN c ELSE IF x = c THEN v
                               ELSE IF x = g THEN n ELSE P[x]
  <2>1. v # NULL => L1[v] = L[v] /\ R1[v] = R[v]
    BY <1>2, <1>10
  <2> QED BY <1>1, <1>2, <1>3, <1>7, <1>10, <1>11, <2>1
<1>14. Rotated(S, n, R[n], r, L, R, P, t.root, t.left, t.right, t.parent)
  BY <1>13, <1>7 DEF Rotated, c, v, g
<1>15. \A x \in Node \ S : /\ t.left[x] = L[x] /\ t.right[x] = R[x] /\ t.parent[x] = P[x]
  BY <1>1, <1>2, <1>13
<1> QED BY <1>12, <1>14, <1>15 DEF Elsewhere
LEMMA RotateRightIs ==
  ASSUME NEW S \in SUBSET Node, NEW r \in Ref, NEW L \in [Node -> Ref],
         NEW R \in [Node -> Ref], NEW P \in [Node -> Ref],
         NEW pos \in [Node -> Int], NEW lo \in [Node -> Int], NEW hi \in [Node -> Int],
         LinksOK(S, r, L, R, P), PlacesOK(S, r, L, R, pos, lo, hi),
         NEW n \in S, L[n] # NULL,
         NEW t, t = RotateRight(Tree(r, L, R, P), n)
  PROVE  /\ Rotated(S, n, L[n], r, R, L, P, t.root, t.right, t.left, t.parent)
         /\ IsTree(t)
         /\ Elsewhere(S, L, R, P, t.left, t.right, t.parent)
<1> DEFINE c == L[n]
<1> DEFINE g == R[c]
<1> DEFINE v == P[n]
<1>1. NULL \notin S /\ NULL \notin Node
  BY NullOutside
<1>2. /\ c \in S /\ c # n /\ P[c] = n /\ g \in S \cup {NULL} /\ g # n /\ g # c
      /\ v \in S \cup {NULL} /\ v # n /\ v # c /\ (v # NULL => v # g) /\ R[n] # n /\ R[n] # c
      /\ L[c] # n /\ L[c] # c /\ (L[c] # NULL => L[c] # g)
  <2>1. LinksOK(S, r, R, L, P)
    BY MirrorLinks
  <2>2. PlacesOK(S, r, R, L, Mirror(pos), Mirror(hi), Mirror(lo))
    BY MirrorPlaces DEF LinksOK
  <2>3. Mirror(pos) \in [Node -> Int] /\ Mirror(hi) \in [Node -> Int] /\ Mirror(lo) \in [Node -> Int]
    BY MirrorTwice
  <2> QED BY <1>1, <2>1, <2>2, <2>3, AroundRotation
<1>3. v # NULL => (L[v] = n <=> R[v] # n)
  <2>1. v # NULL => L[v] = n \/ R[v] = n
    BY DEF LinksOK
  <2>2. v # NULL /\ L[v] = n => hi[n] = pos[v]
    BY <1>1, <1>2 DEF PlacesOK
  <2>3. v # NULL /\ R[v] = n => hi[n] = hi[v]
    BY <1>1, <1>2 DEF PlacesOK
  <2>4. v # NULL => pos[v] < hi[v] /\ pos[v] \in Int /\ hi[v] \in Int
    BY SMTT(60), <1>2 DEF PlacesOK
  <2> QED BY <2>1, <2>2, <2>3, <2>4
<1> DEFINE L1 == [L EXCEPT ![n] = g]
<1> DEFINE P1 == IF g = NULL THEN P ELSE [P EXCEPT ![g] = n]
<1> DEFINE R1 == [R EXCEPT ![c] = n]
<1> DEFINE t1 == [root |-> r, left |-> L1, right |-> R1, parent |-> P1]
<1>4. t = LET u == ParentUpdate(t1, n, c) IN [u EXCEPT !.parent[n] = c]
  <2> DEFINE t0 == [root |-> r, left |-> L, right |-> R, parent |-> P]
  <2>1. c # NULL
    BY <1>1, <1>2
  <2>2. t0.root = r /\ t0.left = L /\ t0.right = R /\ t0.parent = P
    OBVIOUS
  <2>4. Tree(r, L, R, P) = t0
    BY DEF Tree
  <2>5. t = RotateRight(t0, n)
    BY <2>4
  <2>6. t1 = [root |-> t0.root, left |-> [t0.left EXCEPT ![n] = g],
             right |-> [t0.right EXCEPT ![c] = n],
             parent |-> IF g = NULL THEN t0.parent ELSE [t0.parent EXCEPT ![g] = n]]
    BY <2>2
  <2> HIDE DEF t0, t1
  <2> QED BY Zenon, <2>1, <2>2, <2>5, <2>6 DEF RotateRight
<1>5. P1[n] = v
  BY <1>2
<1> DEFINE L2 == IF v # NULL /\ L1[v] = n THEN [L1 EXCEPT ![v] = c] ELSE L1
<1> DEFINE R2 == IF v # NULL /\ L1[v] # n /\ R1[v] = n THEN [R1 EXCEPT ![v] = c] ELSE R1
<1> DEFINE P2 == [P1 EXCEPT ![c] = v]
<1>6. ParentUpdate(t1, n, c) = [root |-> IF v = NULL THEN c ELSE r, left |-> L2,
                                right |-> R2, parent |-> P2]
  BY <1>5, <1>2, <1>1 DEF ParentUpdate
<1>7. /\ t.root = (IF v = NULL THEN c ELSE r) /\ t.left = L2 /\ t.right = R2
      /\ t.parent = [P2 EXCEPT ![n] = c]
  <2> HIDE DEF L2, R2, P2, t1, v, c
  <2> QED BY <1>4, <1>6
<1>8. P1 \in [Node -> Ref] /\ L1 \in [Node -> Ref] /\ R1 \in [Node -> Ref]
  BY <1>2 DEF Ref
<1>9. P2 \in [Node -> Ref] /\ L2 \in [Node -> Ref] /\ R2 \in [Node -> Ref]
  <2> HIDE DEF P1, L1, R1
  <2> QED BY <1>2, <1>8 DEF Ref
<1>10. \A x \in Node : /\ R1[x] = IF x = c THEN n ELSE R[x]
                       /\ L1[x] = IF x = n THEN g ELSE L[x]
                       /\ P1[x] = IF g # NULL /\ x = g THEN n ELSE P[x]
  OBVIOUS
<1>11. \A x \in Node : /\ L2[x] = IF v # NULL /\ L1[v] = n /\ x = v THEN c ELSE L1[x]
                       /\ R2[x] = IF v # NULL /\ L1[v] # n /\ R1[v] = n /\ x = v THEN c ELSE R1[x]
                       /\ P2[x] = IF x = c THEN v ELSE P1[x]
                       /\ t.parent[x] = IF x = n THEN c ELSE P2[x]
  <2> HIDE DEF P1, L1, R1, c, v, g
  <2> QED BY <1>7, <1>8, <1>9
<1> HIDE DEF c, g, v, R1, P1, L1, R2, P2, L2, t1
<1>12. IsTree(t)
  <2>1. [P2 EXCEPT ![n] = c] \in [Node -> Ref]
    BY <1>9, <1>2 DEF Ref
  <2> QED BY <2>1, <1>7, <1>9, <1>2 DEF IsTree, Ref
<1>13. ASSUME NEW x \in Node
       PROVE  /\ t.right[x] = IF x = c THEN n ELSE IF x = v /\ R[x] = n THEN c ELSE R[x]
              /\ t.left[x] = IF x = n THEN g ELSE IF x = v /\ L[x] = n THEN c ELSE L[x]
              /\ t.parent[x] = IF x = n THEN c ELSE IF x = c THEN v
                               ELSE IF x = g THEN n ELSE P[x]
  <2>1. v # NULL => L1[v] = L[v] /\ R1[v] = R[v]
    BY <1>2, <1>10
  <2> QED BY <1>1, <1>2, <1>3, <1>7, <1>10, <1>11, <2>1
<1>14. Rotated(S, n, L[n], r, R, L, P, t.root, t.right, t.left, t.parent)
  BY <1>13, <1>7 DEF Rotated, c, v, g
<1>15. \A x \in Node \ S : /\ t.left[x] = L[x] /\ t.right[x] = R[x] /\ t.parent[x] = P[x]
  BY <1>1, <1>2, <1>13
<1> QED BY <1>12, <1>14, <1>15 DEF Elsewhere
\* A rotation keeps the tree a tree, with every node in its place.
LEMMA RotateLeftKeeps ==
  ASSUME NEW S \in SUBSET Node, NEW r \in Ref, NEW L \in [Node -> Ref],
         NEW R \in [Node -> Ref], NEW P \in [Node -> Ref],
         NEW pos \in [Node -> Int], NEW lo \in [Node -> Int], NEW hi \in [Node -> Int],
         LinksOK(S, r, L, R, P), PlacesOK(S, r, L, R, pos, lo, hi),
         NEW n \in S, R[n] # NULL,
         NEW t, t = RotateLeft(Tree(r, L, R, P), n)
  PROVE  /\ LinksOK(S, t.root, t.left, t.right, t.parent)
         /\ \E lo2, hi2 \in [Node -> Int] :
              PlacesOK(S, t.root, t.left, t.right, pos, lo2, hi2)
<1>1. NULL \notin S
  BY NullOutside
<1>2. Rotated(S, n, R[n], r, L, R, P, t.root, t.left, t.right, t.parent)
  BY RotateLeftIs
<1> QED BY <1>1, <1>2, RotateLinks, RotatePlaces

LEMMA RotateRightKeeps ==
  ASSUME NEW S \in SUBSET Node, NEW r \in Ref, NEW L \in [Node -> Ref],
         NEW R \in [Node -> Ref], NEW P \in [Node -> Ref],
         NEW pos \in [Node -> Int], NEW lo \in [Node -> Int], NEW hi \in [Node -> Int],
         LinksOK(S, r, L, R, P), PlacesOK(S, r, L, R, pos, lo, hi),
         NEW n \in S, L[n] # NULL,
         NEW t, t = RotateRight(Tree(r, L, R, P), n)
  PROVE  /\ LinksOK(S, t.root, t.left, t.right, t.parent)
         /\ \E lo2, hi2 \in [Node -> Int] :
              PlacesOK(S, t.root, t.left, t.right, pos, lo2, hi2)
<1>1. NULL \notin S
  BY NullOutside
<1>2. Rotated(S, n, L[n], r, R, L, P, t.root, t.right, t.left, t.parent)
  BY RotateRightIs
<1>3. LinksOK(S, r, R, L, P)
  BY MirrorLinks
<1>4. PlacesOK(S, r, R, L, Mirror(pos), Mirror(hi), Mirror(lo))
  BY MirrorPlaces DEF LinksOK
<1>5. Mirror(pos) \in [Node -> Int] /\ Mirror(hi) \in [Node -> Int] /\ Mirror(lo) \in [Node -> Int]
  BY MirrorTwice
<1>6. LinksOK(S, t.root, t.right, t.left, t.parent)
  BY <1>1, <1>2, <1>3, <1>4, <1>5, RotateLinks
<1>7. LinksOK(S, t.root, t.left, t.right, t.parent)
  BY <1>6, MirrorLinks
<1>8. \E lo2, hi2 \in [Node -> Int] : PlacesOK(S, t.root, t.right, t.left, Mirror(pos), lo2, hi2)
  BY <1>1, <1>2, <1>3, <1>4, <1>5, RotatePlaces
<1>9. PICK lo2 \in [Node -> Int], hi2 \in [Node -> Int] :
        PlacesOK(S, t.root, t.right, t.left, Mirror(pos), lo2, hi2)
  BY <1>8
<1>10. /\ t.root \in S \cup {NULL} /\ (t.root = NULL => S = {})
       /\ \A x \in S : t.right[x] \in S \cup {NULL} /\ t.left[x] \in S \cup {NULL}
  BY <1>7 DEF LinksOK
<1>11. PlacesOK(S, t.root, t.left, t.right, Mirror(Mirror(pos)), Mirror(hi2), Mirror(lo2))
  BY <1>5, <1>9, <1>10, MirrorPlaces
<1>12. Mirror(hi2) \in [Node -> Int] /\ Mirror(lo2) \in [Node -> Int] /\ Mirror(Mirror(pos)) = pos
  BY MirrorTwice
<1> QED BY <1>7, <1>11, <1>12

-----------------------------------------------------------------------------
(* Two nodes trade places.                                                 *)

Other(a, b, x) == IF x = a THEN b ELSE IF x = b THEN a ELSE x
Traded(f, a, b) == [x \in Node |-> f[Other(a, b, x)]]

\* The pointers after a and b have traded places.
Swapped(S, a, b, r, L, R, P, r2, L2, R2, P2) ==
  /\ r2 = Other(a, b, r)
  /\ \A x \in S : /\ L2[x] = Other(a, b, L[Other(a, b, x)])
                  /\ R2[x] = Other(a, b, R[Other(a, b, x)])
                  /\ P2[x] = Other(a, b, P[Other(a, b, x)])

LEMMA SwapIs ==
  ASSUME NEW r \in Ref, NEW L \in [Node -> Ref], NEW R \in [Node -> Ref], NEW P \in [Node -> Ref],
         members \in SUBSET Node, NEW a \in members, NEW b \in members,
         NEW t, t = Swap(Tree(r, L, R, P), a, b)
  PROVE  /\ IsTree(t)
         /\ Swapped(members, a, b, r, L, R, P, t.root, t.left, t.right, t.parent)
         /\ Elsewhere(members, L, R, P, t.left, t.right, t.parent)
<1> DEFINE T(f) == [x \in Node |-> IF x \in members THEN Other(a, b, f[Other(a, b, x)]) ELSE f[x]]
<1>1. t = [root |-> Other(a, b, r), left |-> T(L), right |-> T(R), parent |-> T(P)]
  BY DEF Swap, Tree, Other
<1>2. \A x \in Node : x \in members => Other(a, b, x) \in members
  BY DEF Other
<1>3. \A x \in Ref : Other(a, b, x) \in Ref
  BY DEF Other, Ref
<1>4. ASSUME NEW f \in [Node -> Ref] PROVE T(f) \in [Node -> Ref]
  BY <1>2, <1>3
<1>5. IsTree(t)
  <2>1. T(L) \in [Node -> Ref] /\ T(R) \in [Node -> Ref] /\ T(P) \in [Node -> Ref]
    <3> HIDE DEF T
    <3> QED BY <1>4
  <2> HIDE DEF T
  <2> QED BY <1>1, <1>3, <2>1 DEF IsTree
<1>6. \A x \in Node : /\ T(L)[x] = IF x \in members THEN Other(a, b, L[Other(a, b, x)]) ELSE L[x]
                      /\ T(R)[x] = IF x \in members THEN Other(a, b, R[Other(a, b, x)]) ELSE R[x]
                      /\ T(P)[x] = IF x \in members THEN Other(a, b, P[Other(a, b, x)]) ELSE P[x]
  OBVIOUS
<1>7. t.root = Other(a, b, r) /\ t.left = T(L) /\ t.right = T(R) /\ t.parent = T(P)
  <2> HIDE DEF T
  <2> QED BY <1>1
<1> HIDE DEF T
<1>8. \A x \in members : /\ t.left[x] = Other(a, b, L[Other(a, b, x)])
                         /\ t.right[x] = Other(a, b, R[Other(a, b, x)])
                         /\ t.parent[x] = Other(a, b, P[Other(a, b, x)])
  BY <1>6, <1>7
<1>9. \A x \in Node \ members : t.left[x] = L[x] /\ t.right[x] = R[x] /\ t.parent[x] = P[x]
  BY <1>6, <1>7
<1> QED BY <1>5, <1>7, <1>8, <1>9 DEF Swapped, Elsewhere

\* A trade of places is a renaming of the nodes.
LEMMA SwapKeeps ==
  ASSUME NEW S \in SUBSET Node, NEW r \in Ref, NEW L \in [Node -> Ref],
         NEW R \in [Node -> Ref], NEW P \in [Node -> Ref],
         NEW pos \in [Node -> Int], NEW lo \in [Node -> Int], NEW hi \in [Node -> Int],
         LinksOK(S, r, L, R, P), PlacesOK(S, r, L, R, pos, lo, hi),
         NEW a \in S, NEW b \in S, NEW r2, NEW L2, NEW R2, NEW P2,
         Swapped(S, a, b, r, L, R, P, r2, L2, R2, P2)
  PROVE  /\ LinksOK(S, r2, L2, R2, P2)
         /\ PlacesOK(S, r2, L2, R2, Traded(pos, a, b), Traded(lo, a, b),
                     Traded(hi, a, b))
<1> DEFINE o(x) == Other(a, b, x)
<1>1. NULL \notin S
  BY NullOutside
<1>2. /\ \A x : o(o(x)) = x /\ (x \in S => o(x) \in S)
      /\ o(NULL) = NULL
  BY <1>1 DEF Other
<1>3. /\ r2 = o(r)
      /\ \A x \in S : L2[x] = o(L[o(x)]) /\ R2[x] = o(R[o(x)]) /\ P2[x] = o(P[o(x)])
  BY DEF Swapped
<1>4. \A x \in S : /\ Traded(pos, a, b)[x] = pos[o(x)]
                   /\ Traded(lo, a, b)[x] = lo[o(x)]
                   /\ Traded(hi, a, b)[x] = hi[o(x)]
  BY DEF Traded
<1> HIDE DEF o
<1>5. \A x : o(x) = NULL <=> x = NULL
  BY <1>2
<1>6. ASSUME NEW x \in S
      PROVE  /\ L2[x] \in S \cup {NULL} /\ R2[x] \in S \cup {NULL} /\ P2[x] \in S \cup {NULL}
             /\ P2[x] = NULL <=> x = o(r)
             /\ P2[x] # NULL => x = L2[P2[x]] \/ x = R2[P2[x]]
             /\ L2[x] # NULL => P2[L2[x]] = x
             /\ R2[x] # NULL => P2[R2[x]] = x
  <2> DEFINE y == o(x)
  <2>1. y \in S /\ o(y) = x /\ L2[x] = o(L[y]) /\ R2[x] = o(R[y]) /\ P2[x] = o(P[y])
    BY <1>2, <1>3
  <2> HIDE DEF y
  <2>2. /\ L[y] \in S \cup {NULL} /\ R[y] \in S \cup {NULL} /\ P[y] \in S \cup {NULL}
        /\ P[y] = NULL <=> y = r
        /\ P[y] # NULL => y = L[P[y]] \/ y = R[P[y]]
        /\ L[y] # NULL => P[L[y]] = y
        /\ R[y] # NULL => P[R[y]] = y
    BY <2>1 DEF LinksOK
  <2>3. \A z \in S : L2[o(z)] = o(L[z]) /\ R2[o(z)] = o(R[z]) /\ P2[o(z)] = o(P[z])
    BY <1>2, <1>3
  <2>4. L2[x] \in S \cup {NULL} /\ R2[x] \in S \cup {NULL} /\ P2[x] \in S \cup {NULL}
    BY <1>2, <2>1, <2>2
  <2>5. P2[x] = NULL <=> x = o(r)
    BY <1>2, <1>5, <2>1, <2>2
  <2>6. P2[x] # NULL => x = L2[P2[x]] \/ x = R2[P2[x]]
    BY <1>2, <1>5, <2>1, <2>2, <2>3
  <2>7. L2[x] # NULL => P2[L2[x]] = x
    BY <1>2, <1>5, <2>1, <2>2, <2>3
  <2>8. R2[x] # NULL => P2[R2[x]] = x
    BY <1>2, <1>5, <2>1, <2>2, <2>3
  <2> QED BY <2>4, <2>5, <2>6, <2>7, <2>8
<1>7. o(r) \in S \cup {NULL} /\ (o(r) = NULL => S = {})
  BY <1>2, <1>5 DEF LinksOK
<1>8. LinksOK(S, o(r), L2, R2, P2)
  BY <1>6, <1>7 DEF LinksOK
<1> DEFINE pos2 == Traded(pos, a, b)
<1> DEFINE lo2 == Traded(lo, a, b)
<1> DEFINE hi2 == Traded(hi, a, b)
<1>9. \A x \in S : pos2[x] = pos[o(x)] /\ lo2[x] = lo[o(x)] /\ hi2[x] = hi[o(x)]
  BY <1>4
<1> HIDE DEF pos2, lo2, hi2
<1>10. ASSUME NEW x \in S
       PROVE  /\ lo2[x] < pos2[x] /\ pos2[x] < hi2[x]
              /\ L2[x] # NULL => lo2[L2[x]] = lo2[x] /\ hi2[L2[x]] = pos2[x]
              /\ R2[x] # NULL => lo2[R2[x]] = pos2[x] /\ hi2[R2[x]] = hi2[x]
              /\ lo2[o(r)] <= lo2[x] /\ hi2[x] <= hi2[o(r)]
  <2> DEFINE y == o(x)
  <2>1. y \in S /\ o(y) = x /\ L2[x] = o(L[y]) /\ R2[x] = o(R[y])
    BY <1>2, <1>3
  <2>2. pos2[x] = pos[y] /\ lo2[x] = lo[y] /\ hi2[x] = hi[y]
    BY <1>9
  <2> HIDE DEF y
  <2>3. /\ lo[y] < pos[y] /\ pos[y] < hi[y]
        /\ L[y] # NULL => lo[L[y]] = lo[y] /\ hi[L[y]] = pos[y]
        /\ R[y] # NULL => lo[R[y]] = pos[y] /\ hi[R[y]] = hi[y]
        /\ lo[r] <= lo[y] /\ hi[y] <= hi[r]
    BY <2>1 DEF PlacesOK
  <2>4. L[y] \in S \cup {NULL} /\ R[y] \in S \cup {NULL} /\ r \in S
    BY <2>1 DEF LinksOK
  <2>5. \A z \in S : lo2[o(z)] = lo[z] /\ hi2[o(z)] = hi[z]
    BY <1>2, <1>9
  <2>6. L2[x] # NULL => lo2[L2[x]] = lo2[x] /\ hi2[L2[x]] = pos2[x]
    BY <1>5, <2>1, <2>2, <2>3, <2>4, <2>5
  <2>7. R2[x] # NULL => lo2[R2[x]] = pos2[x] /\ hi2[R2[x]] = hi2[x]
    BY <1>5, <2>1, <2>2, <2>3, <2>4, <2>5
  <2> QED BY <2>2, <2>3, <2>4, <2>5, <2>6, <2>7
<1>11. ASSUME NEW x \in S, NEW y \in S, x # y
       PROVE  Apart(L2, R2, pos2, lo2, hi2, x, y)
  <2>1. o(x) \in S /\ o(y) \in S /\ o(x) # o(y)
    BY <1>2, <1>11
  <2>2. Apart(L, R, pos, lo, hi, o(x), o(y))
    BY <2>1 DEF PlacesOK
  <2>3. L2[x] = o(L[o(x)]) /\ R2[x] = o(R[o(x)]) /\ L2[y] = o(L[o(y)]) /\ R2[y] = o(R[o(y)])
    BY <1>3
  <2>4. /\ L2[x] = NULL <=> L[o(x)] = NULL
        /\ R2[x] = NULL <=> R[o(x)] = NULL
        /\ L2[y] = NULL <=> L[o(y)] = NULL
        /\ R2[y] = NULL <=> R[o(y)] = NULL
    BY <2>3, <1>5
  <2>5. /\ pos2[x] = pos[o(x)] /\ lo2[x] = lo[o(x)] /\ hi2[x] = hi[o(x)]
        /\ pos2[y] = pos[o(y)] /\ lo2[y] = lo[o(y)] /\ hi2[y] = hi[o(y)]
    BY <1>9
  <2> QED BY <2>2, <2>4, <2>5 DEF Apart, Inside
<1>12. PlacesOK(S, o(r), L2, R2, pos2, lo2, hi2)
  BY <1>10, <1>11 DEF PlacesOK
<1> QED BY <1>3, <1>8, <1>12 DEF o, pos2, lo2, hi2
-----------------------------------------------------------------------------
(* A node comes and a node goes.                                           *)

\* x is new among the places, after those up to low and before those from high.
NewPlace(S, x, pos, low, high, pos2) ==
  /\ \A y, z \in S : pos2[y] < pos2[z] => pos[y] < pos[z]
  /\ \A y \in S : pos2[y] < pos2[x] => pos[y] <= low
  /\ \A y \in S : pos2[x] < pos2[y] => high <= pos[y]

\* A new leaf x to the left of d: twice as many places leave one for it.
LEMMA LeftLeafPlaces ==
  ASSUME NEW S \in SUBSET Node, NEW r, NEW L \in [Node -> Ref], NEW R \in [Node -> Ref], NEW P,
         NEW pos \in [Node -> Int], NEW lo \in [Node -> Int], NEW hi \in [Node -> Int],
         LinksOK(S, r, L, R, P), PlacesOK(S, r, L, R, pos, lo, hi),
         NEW x \in Node \ S, NEW d \in S, L[d] = NULL, L[x] = NULL, R[x] = NULL
  PROVE  \E pos2, lo2, hi2 \in [Node -> Int] :
           /\ PlacesOK(S \cup {x}, r, [L EXCEPT ![d] = x], R, pos2, lo2, hi2)
           /\ NewPlace(S, x, pos, lo[d], pos[d], pos2)
<1> DEFINE pos2 == [y \in Node |-> IF y = x THEN 2 * lo[d] + 1 ELSE 2 * pos[y]]
<1> DEFINE lo2 == [y \in Node |-> IF y = x THEN 2 * lo[d] ELSE 2 * lo[y]]
<1> DEFINE hi2 == [y \in Node |-> IF y = x THEN 2 * pos[d] ELSE 2 * hi[y]]
<1> DEFINE L2 == [L EXCEPT ![d] = x]
<1>1. NULL \notin Node /\ NULL \notin S /\ x # NULL /\ x \notin S /\ x # d
  BY NullOutside
<1>2. pos2 \in [Node -> Int] /\ lo2 \in [Node -> Int] /\ hi2 \in [Node -> Int]
  OBVIOUS
<1>3. /\ pos2[x] = 2 * lo[d] + 1 /\ lo2[x] = 2 * lo[d] /\ hi2[x] = 2 * pos[d]
      /\ \A y \in S : pos2[y] = 2 * pos[y] /\ lo2[y] = 2 * lo[y] /\ hi2[y] = 2 * hi[y]
  BY <1>1
<1>4. /\ L2[d] = x
      /\ \A y \in Node : y # d => L2[y] = L[y]
  OBVIOUS
<1> HIDE DEF pos2, lo2, hi2, L2
<1>5. \A y \in S : /\ pos[y] \in Int /\ lo[y] \in Int /\ hi[y] \in Int
                   /\ lo[y] < pos[y] /\ pos[y] < hi[y]
  BY DEF PlacesOK
<1>6. \A y \in S : L[y] \in S \cup {NULL} /\ R[y] \in S \cup {NULL}
  BY DEF LinksOK
<1>7. ASSUME NEW y \in S, y # d
      PROVE  \/ R[d] # NULL /\ pos[d] <= lo[y] /\ hi[y] <= hi[d]
             \/ Inside(L, R, pos, lo, hi, y, d)
             \/ hi[d] <= lo[y]
             \/ hi[y] <= lo[d]
  <2>1. Apart(L, R, pos, lo, hi, d, y)
    BY <1>7 DEF PlacesOK
  <2> QED BY <2>1 DEF Apart, Inside
<1>8. ASSUME NEW y \in S
      PROVE  (pos2[y] < pos2[x] => pos[y] <= lo[d]) /\ (pos2[x] < pos2[y] => pos[d] <= pos[y])
  <2>1. pos[y] \in Int /\ lo[y] \in Int /\ hi[y] \in Int /\ pos[d] \in Int /\ lo[d] \in Int
        /\ hi[d] \in Int /\ lo[d] < pos[d] /\ pos[d] < hi[d] /\ lo[y] < pos[y] /\ pos[y] < hi[y]
    BY <1>5
  <2>2. y = d \/ pos[d] <= pos[y] \/ pos[y] <= lo[d]
    BY <1>7, <2>1 DEF Inside
  <2> QED BY <1>3, <2>1, <2>2
<1>9. \A y, z \in S : pos2[y] < pos2[z] => pos[y] < pos[z]
  BY <1>3, <1>5
<1>10. ASSUME NEW y \in S \cup {x}
       PROVE  /\ lo2[y] < pos2[y] /\ pos2[y] < hi2[y]
              /\ L2[y] # NULL => lo2[L2[y]] = lo2[y] /\ hi2[L2[y]] = pos2[y]
              /\ R[y] # NULL => lo2[R[y]] = pos2[y] /\ hi2[R[y]] = hi2[y]
              /\ lo2[r] <= lo2[y] /\ hi2[y] <= hi2[r]
  <2>1. y \in S => /\ L[y] # NULL => lo[L[y]] = lo[y] /\ hi[L[y]] = pos[y]
                   /\ R[y] # NULL => lo[R[y]] = pos[y] /\ hi[R[y]] = hi[y]
                   /\ lo[r] <= lo[y] /\ hi[y] <= hi[r]
    BY DEF PlacesOK
  <2>2. r \in S /\ lo[r] <= lo[d] /\ hi[d] <= hi[r]
    BY <1>1 DEF LinksOK, PlacesOK
  <2>3. lo2[y] < pos2[y] /\ pos2[y] < hi2[y]
    BY <1>3, <1>5
  <2>4. L2[y] # NULL => lo2[L2[y]] = lo2[y] /\ hi2[L2[y]] = pos2[y]
    BY <1>1, <1>3, <1>4, <1>6, <2>1
  <2>5. R[y] # NULL => lo2[R[y]] = pos2[y] /\ hi2[R[y]] = hi2[y]
    BY <1>1, <1>3, <1>6, <2>1
  <2>6. lo2[r] <= lo2[y] /\ hi2[y] <= hi2[r]
    BY <1>3, <1>5, <2>1, <2>2
  <2> QED BY <2>3, <2>4, <2>5, <2>6
<1>11. ASSUME NEW y \in S PROVE Apart(L2, R, pos2, lo2, hi2, x, y)
  <2>1. pos[y] \in Int /\ lo[y] \in Int /\ hi[y] \in Int /\ pos[d] \in Int /\ lo[d] \in Int
        /\ hi[d] \in Int /\ lo[d] < pos[d] /\ pos[d] < hi[d] /\ lo[y] < pos[y] /\ pos[y] < hi[y]
    BY <1>5
  <2>2. CASE y = d
    BY <2>1, <2>2, <1>1, <1>3, <1>4 DEF Apart, Inside
  <2>3. CASE y # d
    <3>1. L2[y] = L[y] /\ pos2[y] = 2 * pos[y] /\ lo2[y] = 2 * lo[y] /\ hi2[y] = 2 * hi[y]
      BY <2>3, <1>3, <1>4
    <3> QED BY <2>3, <1>7, <1>3, <2>1, <3>1 DEF Apart, Inside
  <2> QED BY <2>2, <2>3
<1>12. ASSUME NEW y \in S, NEW z \in S, y # z PROVE Apart(L2, R, pos2, lo2, hi2, y, z)
  <2>1. Apart(L, R, pos, lo, hi, y, z)
    BY <1>12 DEF PlacesOK
  <2>2. (L[y] # NULL => L2[y] # NULL) /\ (L[z] # NULL => L2[z] # NULL)
    BY <1>1, <1>4
  <2>3. /\ pos[y] \in Int /\ lo[y] \in Int /\ hi[y] \in Int
        /\ pos[z] \in Int /\ lo[z] \in Int /\ hi[z] \in Int
    BY <1>5
  <2> QED BY <1>3, <2>1, <2>2, <2>3 DEF Apart, Inside
<1>13. ASSUME NEW y \in S \cup {x}, NEW z \in S \cup {x}, y # z
       PROVE  Apart(L2, R, pos2, lo2, hi2, y, z)
  <2>1. CASE y = x
    BY <2>1, <1>11, <1>13
  <2>2. CASE z = x
    <3>1. Apart(L2, R, pos2, lo2, hi2, z, y)
      BY <2>2, <1>11, <1>13
    <3> QED BY <3>1 DEF Apart
  <2> QED BY <2>1, <2>2, <1>12, <1>13
<1>14. PlacesOK(S \cup {x}, r, L2, R, pos2, lo2, hi2)
  BY <1>10, <1>13 DEF PlacesOK
<1>15. PlacesOK(S \cup {x}, r, [L EXCEPT ![d] = x], R, pos2, lo2, hi2)
  BY <1>14 DEF L2
<1>16. NewPlace(S, x, pos, lo[d], pos[d], pos2)
  BY <1>8, <1>9 DEF NewPlace
<1> QED BY <1>2, <1>15, <1>16

LEMMA RightLeafPlaces ==
  ASSUME NEW S \in SUBSET Node, NEW r, NEW L \in [Node -> Ref], NEW R \in [Node -> Ref], NEW P,
         NEW pos \in [Node -> Int], NEW lo \in [Node -> Int], NEW hi \in [Node -> Int],
         LinksOK(S, r, L, R, P), PlacesOK(S, r, L, R, pos, lo, hi),
         NEW x \in Node \ S, NEW d \in S, R[d] = NULL, L[x] = NULL, R[x] = NULL
  PROVE  \E pos2, lo2, hi2 \in [Node -> Int] :
           /\ PlacesOK(S \cup {x}, r, L, [R EXCEPT ![d] = x], pos2, lo2, hi2)
           /\ NewPlace(S, x, pos, pos[d], hi[d], pos2)
<1>1. LinksOK(S, r, R, L, P)
  BY MirrorLinks
<1>2. PlacesOK(S, r, R, L, Mirror(pos), Mirror(hi), Mirror(lo))
  BY MirrorPlaces DEF LinksOK
<1>3. Mirror(pos) \in [Node -> Int] /\ Mirror(hi) \in [Node -> Int] /\ Mirror(lo) \in [Node -> Int]
  BY MirrorTwice
<1>4. \E pos2, lo2, hi2 \in [Node -> Int] :
           /\ PlacesOK(S \cup {x}, r, [R EXCEPT ![d] = x], L, pos2, lo2, hi2)
           /\ NewPlace(S, x, Mirror(pos), Mirror(hi)[d], Mirror(pos)[d], pos2)
  <2> DEFINE mp == Mirror(pos)
  <2> DEFINE ml == Mirror(hi)
  <2> DEFINE mh == Mirror(lo)
  <2>1. mp \in [Node -> Int] /\ ml \in [Node -> Int] /\ mh \in [Node -> Int]
    BY <1>3
  <2>2. PlacesOK(S, r, R, L, mp, ml, mh)
    BY <1>2
  <2> HIDE DEF mp, ml, mh
  <2>3. \E pos2, lo2, hi2 \in [Node -> Int] :
           /\ PlacesOK(S \cup {x}, r, [R EXCEPT ![d] = x], L, pos2, lo2, hi2)
           /\ NewPlace(S, x, mp, ml[d], mp[d], pos2)
    BY <1>1, <2>1, <2>2, LeftLeafPlaces
  <2> QED BY <2>3 DEF mp, ml
<1>5. PICK pos2 \in [Node -> Int], lo2 \in [Node -> Int], hi2 \in [Node -> Int] :
           /\ PlacesOK(S \cup {x}, r, [R EXCEPT ![d] = x], L, pos2, lo2, hi2)
           /\ NewPlace(S, x, Mirror(pos), Mirror(hi)[d], Mirror(pos)[d], pos2)
  BY <1>4
<1>6. /\ Mirror(pos2) \in [Node -> Int] /\ Mirror(hi2) \in [Node -> Int]
      /\ Mirror(lo2) \in [Node -> Int]
  BY MirrorTwice
<1>7. PlacesOK(S \cup {x}, r, L, [R EXCEPT ![d] = x], Mirror(pos2), Mirror(hi2), Mirror(lo2))
  <2>1. r \in S
    BY NullOutside DEF LinksOK
  <2> DEFINE R2 == [R EXCEPT ![d] = x]
  <2>2. \A y \in S \cup {x} : R2[y] \in S \cup {x} \cup {NULL} /\ L[y] \in S \cup {x} \cup {NULL}
    BY DEF LinksOK
  <2>3. PlacesOK(S \cup {x}, r, R2, L, pos2, lo2, hi2)
    BY <1>5
  <2> HIDE DEF R2
  <2>4. PlacesOK(S \cup {x}, r, L, R2, Mirror(pos2), Mirror(hi2), Mirror(lo2))
    BY <2>1, <2>2, <2>3, NullOutside, MirrorPlaces
  <2> QED BY <2>4 DEF R2
<1>8. \A y \in Node : /\ Mirror(pos)[y] = -pos[y] /\ Mirror(hi)[y] = -hi[y]
                      /\ Mirror(pos2)[y] = -pos2[y] /\ pos2[y] \in Int
                      /\ pos[y] \in Int /\ hi[y] \in Int
  BY DEF Mirror
<1>9. \A y, z \in S : Mirror(pos2)[y] < Mirror(pos2)[z] => pos[y] < pos[z]
  <2> SUFFICES ASSUME NEW y \in S, NEW z \in S, Mirror(pos2)[y] < Mirror(pos2)[z]
               PROVE  pos[y] < pos[z]
    OBVIOUS
  <2>1. pos2[z] < pos2[y]
    BY <1>8
  <2>2. Mirror(pos)[z] < Mirror(pos)[y]
    BY <2>1, <1>5 DEF NewPlace
  <2> QED BY <2>2, <1>8
<1>10. \A y \in S : Mirror(pos2)[x] < Mirror(pos2)[y] => hi[d] <= pos[y]
  <2> SUFFICES ASSUME NEW y \in S, Mirror(pos2)[x] < Mirror(pos2)[y] PROVE hi[d] <= pos[y]
    OBVIOUS
  <2>1. pos2[y] < pos2[x]
    BY <1>8
  <2>2. Mirror(pos)[y] <= Mirror(hi)[d]
    BY <2>1, <1>5 DEF NewPlace
  <2> QED BY <2>2, <1>8
<1>11. \A y \in S : Mirror(pos2)[y] < Mirror(pos2)[x] => pos[y] <= pos[d]
  <2> SUFFICES ASSUME NEW y \in S, Mirror(pos2)[y] < Mirror(pos2)[x] PROVE pos[y] <= pos[d]
    OBVIOUS
  <2>1. pos2[x] < pos2[y]
    BY <1>8
  <2>2. Mirror(pos)[d] <= Mirror(pos)[y]
    BY <2>1, <1>5 DEF NewPlace
  <2> QED BY <2>2, <1>8
<1>12. NewPlace(S, x, pos, pos[d], hi[d], Mirror(pos2))
  BY <1>9, <1>10, <1>11 DEF NewPlace
<1> QED BY <1>6, <1>7, <1>12

LEMMA LeftLeafLinks ==
  ASSUME NEW S \in SUBSET Node, NEW r, NEW L \in [Node -> Ref], NEW R \in [Node -> Ref],
         NEW P \in [Node -> Ref], LinksOK(S, r, L, R, P),
         NEW x \in Node \ S, NEW d \in S, L[d] = NULL, L[x] = NULL, R[x] = NULL
  PROVE  LinksOK(S \cup {x}, r, [L EXCEPT ![d] = x], R, [P EXCEPT ![x] = d])
<1> DEFINE L2 == [L EXCEPT ![d] = x]
<1> DEFINE P2 == [P EXCEPT ![x] = d]
<1>1. NULL \notin S /\ NULL \notin Node /\ x # d /\ x \notin S /\ x # NULL
  BY NullOutside
<1>2. /\ L2[d] = x /\ \A y \in Node : y # d => L2[y] = L[y]
      /\ P2[x] = d /\ \A y \in Node : y # x => P2[y] = P[y]
  OBVIOUS
<1> HIDE DEF L2, P2
<1>3. r \in S
  BY <1>1 DEF LinksOK
<1>4. ASSUME NEW y \in S \cup {x}
      PROVE  /\ L2[y] \in S \cup {x} \cup {NULL} /\ R[y] \in S \cup {x} \cup {NULL}
             /\ P2[y] \in S \cup {x} \cup {NULL}
             /\ P2[y] = NULL <=> y = r
             /\ P2[y] # NULL => y = L2[P2[y]] \/ y = R[P2[y]]
             /\ L2[y] # NULL => P2[L2[y]] = y
             /\ R[y] # NULL => P2[R[y]] = y
  <2>1. CASE y = x
    BY <2>1, <1>1, <1>2, <1>3
  <2>2. CASE y \in S
    <3>1. /\ L[y] \in S \cup {NULL} /\ R[y] \in S \cup {NULL} /\ P[y] \in S \cup {NULL}
          /\ P[y] = NULL <=> y = r
          /\ P[y] # NULL => y = L[P[y]] \/ y = R[P[y]]
          /\ L[y] # NULL => P[L[y]] = y
          /\ R[y] # NULL => P[R[y]] = y
      BY <2>2 DEF LinksOK
    <3> QED BY <2>2, <3>1, <1>1, <1>2, <1>3
  <2> QED BY <2>1, <2>2
<1>5. LinksOK(S \cup {x}, r, L2, R, P2)
  BY <1>3, <1>4, <1>1 DEF LinksOK
<1> QED BY <1>5 DEF L2, P2

LEMMA RightLeafLinks ==
  ASSUME NEW S \in SUBSET Node, NEW r, NEW L \in [Node -> Ref], NEW R \in [Node -> Ref],
         NEW P \in [Node -> Ref], LinksOK(S, r, L, R, P),
         NEW x \in Node \ S, NEW d \in S, R[d] = NULL, L[x] = NULL, R[x] = NULL
  PROVE  LinksOK(S \cup {x}, r, L, [R EXCEPT ![d] = x], [P EXCEPT ![x] = d])
BY MirrorLinks, LeftLeafLinks

\* c, a leaf or nothing, takes the place of its only parent a.
Unlinked(S, a, c, r, L, R, P, r2, L2, R2, P2) ==
  /\ a \in S /\ c \in S \cup {NULL}
  /\ (L[a] = NULL /\ R[a] = c) \/ (R[a] = NULL /\ L[a] = c)
  /\ c # NULL => L[c] = NULL /\ R[c] = NULL
  /\ r2 = IF P[a] = NULL THEN c ELSE r
  /\ \A x \in S \ {a} :
       /\ L2[x] = IF x = P[a] /\ L[x] = a THEN c ELSE L[x]
       /\ R2[x] = IF x = P[a] /\ R[x] = a THEN c ELSE R[x]
       /\ P2[x] = IF x = c THEN P[a] ELSE P[x]

\* The nodes around the one that goes.
LEMMA AroundUnlink ==
  ASSUME NEW S \in SUBSET Node, NEW r, NEW L, NEW R, NEW P,
         NEW pos \in [Node -> Int], NEW lo \in [Node -> Int], NEW hi \in [Node -> Int],
         LinksOK(S, r, L, R, P), PlacesOK(S, r, L, R, pos, lo, hi),
         NEW a, NEW c, NEW r2, NEW L2, NEW R2, NEW P2,
         Unlinked(S, a, c, r, L, R, P, r2, L2, R2, P2)
  PROVE  /\ a \in S /\ c \in S \cup {NULL} /\ c # a /\ (c # NULL => P[c] = a)
         /\ P[a] \in S \cup {NULL} /\ P[a] # a /\ (P[a] # NULL => P[a] # c)
         /\ c # NULL => lo[a] <= lo[c] /\ hi[c] <= hi[a] 
         /\ P[a] # NULL => /\ L[P[a]] = a => lo[a] = lo[P[a]] /\ hi[a] = pos[P[a]]
                           /\ R[P[a]] = a => lo[a] = pos[P[a]] /\ hi[a] = hi[P[a]]
<1>1. NULL \notin S
  BY NullOutside
<1>2. a \in S /\ c \in S \cup {NULL} /\ ((L[a] = NULL /\ R[a] = c) \/ (R[a] = NULL /\ L[a] = c))
  BY DEF Unlinked
<1>3. c # NULL => P[c] = a
  BY <1>1, <1>2 DEF LinksOK
<1>4. \A x \in S : lo[x] \in Int /\ pos[x] \in Int /\ hi[x] \in Int /\ lo[x] < pos[x] /\ pos[x] < hi[x]
  BY DEF PlacesOK
<1>5. c # NULL => \/ lo[c] = lo[a] /\ hi[c] = pos[a]
                  \/ lo[c] = pos[a] /\ hi[c] = hi[a]
  BY <1>2 DEF PlacesOK
<1>6. P[a] \in S \cup {NULL} /\ (P[a] # NULL => a = L[P[a]] \/ a = R[P[a]])
  BY <1>2 DEF LinksOK
<1>7. P[a] # NULL => /\ L[P[a]] = a => lo[a] = lo[P[a]] /\ hi[a] = pos[P[a]]
                     /\ R[P[a]] = a => lo[a] = pos[P[a]] /\ hi[a] = hi[P[a]]
  BY <1>1, <1>2, <1>6 DEF PlacesOK
<1>8. c # a
  BY <1>1, <1>2, <1>4, <1>5
<1>9. P[a] # a
  BY <1>1, <1>2, <1>4, <1>6, <1>7
<1>10. P[a] # NULL => P[a] # c
  BY <1>1, <1>2, <1>4, <1>5, <1>6, <1>7
<1>11. c # NULL => lo[a] <= lo[c] /\ hi[c] <= hi[a]
  BY <1>1, <1>2, <1>4, <1>5
<1> QED BY <1>2, <1>3, <1>6, <1>7, <1>8, <1>9, <1>10, <1>11

\* Nothing else is in the interval of the node that goes.
LEMMA NothingElse ==
  ASSUME NEW S \in SUBSET Node, NEW r, NEW L, NEW R, NEW P,
         NEW pos \in [Node -> Int], NEW lo \in [Node -> Int], NEW hi \in [Node -> Int],
         LinksOK(S, r, L, R, P), PlacesOK(S, r, L, R, pos, lo, hi),
         NEW a, NEW c, NEW r2, NEW L2, NEW R2, NEW P2,
         Unlinked(S, a, c, r, L, R, P, r2, L2, R2, P2),
         NEW z \in S, z # a, z # c
  PROVE  \/ Inside(L, R, pos, lo, hi, z, a)
         \/ hi[a] <= lo[z]
         \/ hi[z] <= lo[a]
<1>1. NULL \notin S
  BY NullOutside
<1>2. a \in S /\ c \in S \cup {NULL} /\ ((L[a] = NULL /\ R[a] = c) \/ (R[a] = NULL /\ L[a] = c))
  BY DEF Unlinked
<1>3. \A x \in S : lo[x] \in Int /\ pos[x] \in Int /\ hi[x] \in Int /\ lo[x] < pos[x] /\ pos[x] < hi[x]
  BY DEF PlacesOK
<1>4. Apart(L, R, pos, lo, hi, a, z)
  BY <1>2 DEF PlacesOK
<1>5. c = NULL => ~Inside(L, R, pos, lo, hi, a, z)
  BY <1>2 DEF Inside
<1>6. CASE c # NULL
  <2>1. Apart(L, R, pos, lo, hi, c, z)
    BY <1>2, <1>6 DEF PlacesOK
  <2>2. L[c] = NULL /\ R[c] = NULL
    BY <1>6 DEF Unlinked
  <2>3. \/ L[a] = c /\ R[a] = NULL /\ lo[c] = lo[a] /\ hi[c] = pos[a]
        \/ R[a] = c /\ L[a] = NULL /\ lo[c] = pos[a] /\ hi[c] = hi[a]
    BY <1>2, <1>6 DEF PlacesOK
  <2>4. /\ lo[a] \in Int /\ pos[a] \in Int /\ hi[a] \in Int /\ lo[a] < pos[a] /\ pos[a] < hi[a]
        /\ lo[z] \in Int /\ pos[z] \in Int /\ hi[z] \in Int /\ lo[z] < pos[z] /\ pos[z] < hi[z]
        /\ lo[c] \in Int /\ pos[c] \in Int /\ hi[c] \in Int /\ lo[c] < pos[c] /\ pos[c] < hi[c]
    BY <1>2, <1>3, <1>6
  <2> QED BY <1>4, <2>1, <2>2, <2>3, <2>4 DEF Apart, Inside
<1> QED BY <1>4, <1>5, <1>6 DEF Apart

LEMMA UnlinkLinks ==
  ASSUME NEW S \in SUBSET Node, NEW r, NEW L, NEW R, NEW P,
         NEW pos \in [Node -> Int], NEW lo \in [Node -> Int], NEW hi \in [Node -> Int],
         LinksOK(S, r, L, R, P), PlacesOK(S, r, L, R, pos, lo, hi),
         NEW a, NEW c, NEW r2, NEW L2, NEW R2, NEW P2,
         Unlinked(S, a, c, r, L, R, P, r2, L2, R2, P2)
  PROVE  LinksOK(S \ {a}, r2, L2, R2, P2)
<1> DEFINE v == P[a]
<1>1. NULL \notin S
  BY NullOutside
<1>2. /\ a \in S /\ c \in S \cup {NULL} /\ c # a /\ (c # NULL => P[c] = a)
      /\ v \in S \cup {NULL} /\ v # a /\ (v # NULL => v # c)
  BY AroundUnlink
<1>3. /\ (L[a] = NULL /\ R[a] = c) \/ (R[a] = NULL /\ L[a] = c)
      /\ c # NULL => L[c] = NULL /\ R[c] = NULL
      /\ r2 = IF v = NULL THEN c ELSE r
  BY DEF Unlinked
<1>4. \A x \in S \ {a} :
       /\ L2[x] = IF x = v /\ L[x] = a THEN c ELSE L[x]
       /\ R2[x] = IF x = v /\ R[x] = a THEN c ELSE R[x]
       /\ P2[x] = IF x = c THEN v ELSE P[x]
  BY DEF Unlinked
<1>5. \A y \in S :
          /\ L[y] \in S \cup {NULL} /\ R[y] \in S \cup {NULL} /\ P[y] \in S \cup {NULL}
          /\ P[y] = NULL <=> y = r
          /\ P[y] # NULL => y = L[P[y]] \/ y = R[P[y]]
          /\ L[y] # NULL => P[L[y]] = y
          /\ R[y] # NULL => P[R[y]] = y
  BY DEF LinksOK
<1>6. v = NULL <=> a = r
  BY <1>2, <1>5
<1>7. v # NULL => a = L[v] \/ a = R[v]
  BY <1>2, <1>5
<1>8. v = P[a]
  OBVIOUS
<1> HIDE DEF v
<1>9. r2 \in (S \ {a}) \cup {NULL} 
  BY <1>1, <1>2, <1>3, <1>6 DEF LinksOK
<1>10. r2 = NULL => S \ {a} = {}
  <2> SUFFICES ASSUME r2 = NULL, NEW z \in S \ {a} PROVE FALSE
    OBVIOUS
  <2>1. v = NULL /\ c = NULL /\ a = r
    BY <1>1, <1>2, <1>3, <1>6 DEF LinksOK
  <2>2. \/ Inside(L, R, pos, lo, hi, z, a)
        \/ hi[a] <= lo[z]
        \/ hi[z] <= lo[a]
    BY <1>1, <2>1, NothingElse
  <2>3. lo[r] <= lo[z] /\ hi[z] <= hi[r]
    BY DEF PlacesOK
  <2>4. /\ lo[a] \in Int /\ pos[a] \in Int /\ hi[a] \in Int /\ lo[a] < pos[a] /\ pos[a] < hi[a]
        /\ lo[z] \in Int /\ pos[z] \in Int /\ hi[z] \in Int /\ lo[z] < pos[z] /\ pos[z] < hi[z]
    BY <1>2 DEF PlacesOK
  <2> QED BY <2>1, <2>2, <2>3, <2>4 DEF Inside
<1>11. ASSUME NEW x \in S \ {a}
      PROVE  /\ L2[x] \in (S \ {a}) \cup {NULL} /\ R2[x] \in (S \ {a}) \cup {NULL}
             /\ P2[x] \in (S \ {a}) \cup {NULL}
             /\ P2[x] = NULL <=> x = r2
             /\ P2[x] # NULL => x = L2[P2[x]] \/ x = R2[P2[x]]
             /\ L2[x] # NULL => P2[L2[x]] = x
             /\ R2[x] # NULL => P2[R2[x]] = x
  <2>1. /\ L[x] \in S \cup {NULL} /\ R[x] \in S \cup {NULL} /\ P[x] \in S \cup {NULL}
        /\ P[x] = NULL <=> x = r
        /\ P[x] # NULL => x = L[P[x]] \/ x = R[P[x]]
        /\ L[x] # NULL => P[L[x]] = x
        /\ R[x] # NULL => P[R[x]] = x
    BY <1>5
  <2>2. L2[x] \in (S \ {a}) \cup {NULL} /\ R2[x] \in (S \ {a}) \cup {NULL}
    BY <1>1, <1>2, <1>4, <1>8, <2>1
  <2>3. P[x] = a => x = c
    BY <1>1, <1>2, <1>3, <2>1
  <2>4. P2[x] \in (S \ {a}) \cup {NULL}
    BY <1>1, <1>2, <1>4, <2>1, <2>3
  <2>5. P2[x] = NULL <=> x = r2
    BY <1>1, <1>2, <1>3, <1>4, <1>6, <2>1
  <2>6. P2[x] # NULL => x = L2[P2[x]] \/ x = R2[P2[x]]
    BY <1>1, <1>2, <1>4, <1>7, <2>1, <2>3
  <2>7. L2[x] # NULL => P2[L2[x]] = x
    BY <1>1, <1>2, <1>4, <1>8, <2>1
  <2>8. R2[x] # NULL => P2[R2[x]] = x
    BY <1>1, <1>2, <1>4, <1>8, <2>1
  <2> QED BY <2>2, <2>4, <2>5, <2>6, <2>7, <2>8
<1> QED BY <1>9, <1>10, <1>11 DEF LinksOK

LEMMA UnlinkPlaces ==
  ASSUME NEW S \in SUBSET Node, NEW r, NEW L, NEW R, NEW P,
         NEW pos \in [Node -> Int], NEW lo \in [Node -> Int], NEW hi \in [Node -> Int],
         LinksOK(S, r, L, R, P), PlacesOK(S, r, L, R, pos, lo, hi),
         NEW a, NEW c, NEW r2, NEW L2, NEW R2, NEW P2,
         Unlinked(S, a, c, r, L, R, P, r2, L2, R2, P2)
  PROVE  \E lo2, hi2 \in [Node -> Int] : PlacesOK(S \ {a}, r2, L2, R2, pos, lo2, hi2)
<1> DEFINE v == P[a]
<1> DEFINE lo2 == [x \in Node |-> IF x = c THEN lo[a] ELSE lo[x]]
<1> DEFINE hi2 == [x \in Node |-> IF x = c THEN hi[a] ELSE hi[x]]
<1>1. NULL \notin S
  BY NullOutside
<1>2. /\ a \in S /\ c \in S \cup {NULL} /\ c # a /\ (c # NULL => P[c] = a)
      /\ v \in S \cup {NULL} /\ v # a /\ (v # NULL => v # c)
      /\ c # NULL => lo[a] <= lo[c] /\ hi[c] <= hi[a] 
      /\ v # NULL => /\ L[v] = a => lo[a] = lo[v] /\ hi[a] = pos[v]
                     /\ R[v] = a => lo[a] = pos[v] /\ hi[a] = hi[v]
  BY AroundUnlink
<1>3. /\ (L[a] = NULL /\ R[a] = c) \/ (R[a] = NULL /\ L[a] = c)
      /\ c # NULL => L[c] = NULL /\ R[c] = NULL
      /\ r2 = IF v = NULL THEN c ELSE r
  BY DEF Unlinked
<1>4. \A x \in S \ {a} :
       /\ L2[x] = IF x = v /\ L[x] = a THEN c ELSE L[x]
       /\ R2[x] = IF x = v /\ R[x] = a THEN c ELSE R[x]
  BY DEF Unlinked
<1>5. lo2 \in [Node -> Int] /\ hi2 \in [Node -> Int]
  BY <1>2
<1>6. \A x \in S : /\ lo2[x] = IF x = c THEN lo[a] ELSE lo[x]
                   /\ hi2[x] = IF x = c THEN hi[a] ELSE hi[x]
  OBVIOUS
<1>7. v = P[a]
  OBVIOUS
<1> HIDE DEF v, lo2, hi2
<1>8. \A x \in S : lo[x] \in Int /\ pos[x] \in Int /\ hi[x] \in Int /\ lo[x] < pos[x] /\ pos[x] < hi[x]
  BY DEF PlacesOK
<1>9. ASSUME NEW x \in S \ {a}
      PROVE  /\ lo2[x] < pos[x] /\ pos[x] < hi2[x]
             /\ L2[x] # NULL => lo2[L2[x]] = lo2[x] /\ hi2[L2[x]] = pos[x]
             /\ R2[x] # NULL => lo2[R2[x]] = pos[x] /\ hi2[R2[x]] = hi2[x]
             /\ lo2[r2] <= lo2[x] /\ hi2[x] <= hi2[r2]
  <2>1. /\ L[x] # NULL => lo[L[x]] = lo[x] /\ hi[L[x]] = pos[x] /\ P[L[x]] = x /\ L[x] \in S
        /\ R[x] # NULL => lo[R[x]] = pos[x] /\ hi[R[x]] = hi[x] /\ P[R[x]] = x /\ R[x] \in S
        /\ lo[r] <= lo[x] /\ hi[x] <= hi[r]
        /\ lo[r] <= lo[a] /\ hi[a] <= hi[r]
    BY <1>2 DEF PlacesOK, LinksOK
  <2>2. lo2[x] < pos[x] /\ pos[x] < hi2[x]
    BY <1>1, <1>2, <1>6, <1>8
  <2>3. L2[x] # NULL => lo2[L2[x]] = lo2[x] /\ hi2[L2[x]] = pos[x]
    BY <1>1, <1>2, <1>3, <1>4, <1>6, <1>7, <2>1
  <2>4. R2[x] # NULL => lo2[R2[x]] = pos[x] /\ hi2[R2[x]] = hi2[x]
    BY <1>1, <1>2, <1>3, <1>4, <1>6, <1>7, <2>1
  <2>5. lo2[r2] <= lo2[x] /\ hi2[x] <= hi2[r2]
    <3>1. CASE v # NULL
      <4>1. r2 = r /\ r \in S /\ r # a /\ r # c
        BY <3>1, <1>1, <1>2, <1>3, <1>7 DEF LinksOK
      <4>2. lo2[r2] = lo[r] /\ hi2[r2] = hi[r]
        BY <4>1, <1>6
      <4> QED BY <4>2, <1>6, <2>1
    <3>2. CASE v = NULL
      <4>1. r = a /\ r2 = c
        BY <3>2, <1>2, <1>3, <1>7 DEF LinksOK
      <4>2. c # NULL
        <5>1. LinksOK(S \ {a}, r2, L2, R2, P2)
          BY UnlinkLinks
        <5> QED BY <5>1, <4>1 DEF LinksOK
      <4>3. lo2[r2] = lo[a] /\ hi2[r2] = hi[a]
        BY <4>1, <4>2, <1>2, <1>6
      <4>4. lo2[x] = (IF x = c THEN lo[a] ELSE lo[x]) /\ hi2[x] = (IF x = c THEN hi[a] ELSE hi[x])
        BY <1>6
      <4>5. lo[a] \in Int /\ hi[a] \in Int
        BY <1>2, <1>8
      <4> QED BY <4>1, <4>3, <4>4, <4>5, <2>1
    <3> QED BY <3>1, <3>2
  <2> QED BY <2>2, <2>3, <2>4, <2>5
<1>10. ASSUME NEW y \in S, NEW z \in S, y # a, z # a, y # c, z # c, y # z
       PROVE  Apart(L2, R2, pos, lo2, hi2, y, z)
  <2>1. Apart(L, R, pos, lo, hi, y, z)
    BY <1>10 DEF PlacesOK
  <2>2. /\ lo2[y] = lo[y] /\ hi2[y] = hi[y] /\ lo2[z] = lo[z] /\ hi2[z] = hi[z]
    BY <1>6, <1>10
  <2>3. /\ lo[y] \in Int /\ pos[y] \in Int /\ hi[y] \in Int /\ lo[y] < pos[y] /\ pos[y] < hi[y]
        /\ lo[z] \in Int /\ pos[z] \in Int /\ hi[z] \in Int /\ lo[z] < pos[z] /\ pos[z] < hi[z]
        /\ lo[a] \in Int /\ pos[a] \in Int /\ hi[a] \in Int /\ lo[a] < pos[a] /\ pos[a] < hi[a]
    BY <1>2, <1>8
  <2>4. /\ L2[y] = NULL => L[y] = NULL \/ (y = v /\ L[v] = a)
        /\ R2[y] = NULL => R[y] = NULL \/ (y = v /\ R[v] = a)
        /\ L2[z] = NULL => L[z] = NULL \/ (z = v /\ L[v] = a)
        /\ R2[z] = NULL => R[z] = NULL \/ (z = v /\ R[v] = a)
    BY <1>4, <1>10
  <2>5. /\ Inside(L, R, pos, lo, hi, z, a) \/ hi[a] <= lo[z] \/ hi[z] <= lo[a]
        /\ Inside(L, R, pos, lo, hi, y, a) \/ hi[a] <= lo[y] \/ hi[y] <= lo[a]
    BY <1>10, NothingElse
  <2>6. v = y => /\ L[y] = a => lo[a] = lo[y] /\ hi[a] = pos[y]
                 /\ R[y] = a => lo[a] = pos[y] /\ hi[a] = hi[y]
    BY <1>1, <1>2
  <2>7. v = z => /\ L[z] = a => lo[a] = lo[z] /\ hi[a] = pos[z]
                 /\ R[z] = a => lo[a] = pos[z] /\ hi[a] = hi[z]
    BY <1>1, <1>2
  <2>8. CASE Inside(L, R, pos, lo, hi, y, z)
    <3>1. Inside(L2, R2, pos, lo2, hi2, y, z)
      BY <2>8, <2>2, <2>3, <2>4, <2>5, <2>6 DEF Inside
    <3> QED BY <3>1 DEF Apart
  <2>9. CASE Inside(L, R, pos, lo, hi, z, y)
    <3>1. Inside(L2, R2, pos, lo2, hi2, z, y)
      BY <2>9, <2>2, <2>3, <2>4, <2>5, <2>7 DEF Inside
    <3> QED BY <3>1 DEF Apart
  <2> QED BY <2>1, <2>2, <2>8, <2>9 DEF Apart
<1>11. ASSUME NEW z \in S, z # a, z # c, c # NULL
       PROVE  Apart(L2, R2, pos, lo2, hi2, c, z)
  <2>1. Inside(L, R, pos, lo, hi, z, a) \/ hi[a] <= lo[z] \/ hi[z] <= lo[a]
    BY <1>11, NothingElse
  <2>2. lo2[c] = lo[a] /\ hi2[c] = hi[a] /\ lo2[z] = lo[z] /\ hi2[z] = hi[z]
    BY <1>2, <1>6, <1>11
  <2>3. (L2[z] = NULL => L[z] = NULL) /\ (R2[z] = NULL => R[z] = NULL)
    BY <1>4, <1>11
  <2> QED BY <2>1, <2>2, <2>3 DEF Apart, Inside
<1>12. ASSUME NEW y \in S \ {a}, NEW z \in S \ {a}, y # z
       PROVE  Apart(L2, R2, pos, lo2, hi2, y, z)
  <2>1. CASE y = c
    BY <2>1, <1>11, <1>12, <1>1
  <2>2. CASE z = c
    <3>1. Apart(L2, R2, pos, lo2, hi2, z, y)
      BY <2>2, <1>11, <1>12, <1>1
    <3> QED BY <3>1 DEF Apart
  <2> QED BY <2>1, <2>2, <1>10, <1>12
<1>13. PlacesOK(S \ {a}, r2, L2, R2, pos, lo2, hi2)
  BY <1>9, <1>12 DEF PlacesOK
<1> QED BY <1>5, <1>13

-----------------------------------------------------------------------------
(* The invariant at the start and in the steps that move no node.          *)

LEMMA Start == Init => IInv
<1> SUFFICES ASSUME Init PROVE IInv
  OBVIOUS
<1>1. /\ Linked = {} /\ pc = "idle" /\ pRoot = NULL /\ members = {}
      /\ pNode = NULL /\ pDown = NULL /\ pOut = NULL /\ pChild = NULL
  BY DEF Init, Linked
<1>2. TypedOK
  <2>1. Cardinality({}) = 0
    BY FS_EmptySet
  <2> QED BY <1>1, <2>1 DEF Init, TypedOK, Ref
<1>3. CallOK /\ PhaseOK
  BY <1>1 DEF CallOK, PhaseOK, Removing, Inserting, Short
<1>4. ZeroedOK /\ ColoursOK
  BY <1>1 DEF Init, ZeroedOK, ColoursOK, ColourRule, Ruddy
<1> DEFINE z == [n \in Node |-> 0]
<1>5. z \in [Node -> Int] /\ z \in [Node -> Nat]
  OBVIOUS
<1>6. ShapeOK(z, z, z)
  BY <1>1 DEF ShapeOK, LinksOK, PlacesOK, SortedOK, DescentOK
<1>7. HeightsOK(z)
  BY <1>1 DEF HeightsOK, HeightRule
<1> HIDE DEF z
<1> QED BY <1>2, <1>3, <1>4, <1>5, <1>6, <1>7 DEF IInv

\* The shape of a tree that nothing has moved.
LEMMA ShapeStays ==
  ASSUME NEW pos, NEW lo, NEW hi, ShapeOK(pos, lo, hi), UNCHANGED tree,
         Linked' = Linked, pc' # "nodeAdd", pOut' = pOut
  PROVE  ShapeOK(pos, lo, hi)'
<1>1. LinksOK(Linked', pRoot', pLeft', pRight', pParent')
  BY DEF ShapeOK, tree
<1>2. PlacesOK(Linked', pRoot', pLeft', pRight', pos, lo, hi)
  BY DEF ShapeOK, tree
<1>3. SortedOK(pos)'
  BY DEF ShapeOK, SortedOK
<1>4. DescentOK(pos, lo, hi)'
  BY DEF DescentOK
<1> QED BY <1>1, <1>2, <1>3, <1>4 DEF ShapeOK

LEMMA AddKeeps ==
  ASSUME IInv, NEW n \in Node, Add(n)
  PROVE  IInv'
<1>1. PICK pos \in [Node -> Int], lo \in [Node -> Int], hi \in [Node -> Int] : ShapeOK(pos, lo, hi)
  BY DEF IInv
<1>2. PICK h \in [Node -> Nat] : HeightsOK(h)
  BY DEF IInv
<1>3. TypedOK /\ CallOK /\ ZeroedOK /\ PhaseOK /\ ColoursOK
  BY DEF IInv
<1>4. /\ pc = "idle" /\ pc' = "nodeAdd" /\ pNode' = n /\ n \notin members /\ members' = members \cup {n}
      /\ pRoot' = pRoot /\ pLeft' = pLeft /\ pRight' = pRight /\ pParent' = pParent
      /\ u32NumNode' = u32NumNode /\ red' = red /\ pDown' = pDown /\ pOut' = pOut /\ pChild' = pChild
  BY DEF Add, Goto, tree
<1>5. Linked = members /\ Linked' = members
  BY <1>4 DEF Linked
<1>6. pDown = NULL /\ pOut = NULL /\ pChild = NULL
  BY <1>3, <1>4 DEF CallOK, Removing, Short
<1>7. TypedOK'
  BY <1>3, <1>4, <1>5 DEF TypedOK, Ref
<1>8. CallOK' /\ PhaseOK'
  BY <1>4, <1>5, <1>6 DEF CallOK, PhaseOK, Removing, Short, Inserting
<1>9. ZeroedOK'
  BY <1>3, <1>4, <1>5 DEF ZeroedOK
<1>10. ColoursOK'
  BY <1>3, <1>4, <1>5 DEF ColoursOK, Painted, Excused, Inserting
<1>11. ShapeOK(pos, lo, hi)'
  BY <1>1, <1>4, <1>5, <1>6 DEF ShapeOK, SortedOK, DescentOK
<1>12. HeightsOK(h)'
  BY <1>2, <1>4, <1>5 DEF HeightsOK, Painted, ShortAt, Leaving, Short
<1> QED BY <1>7, <1>8, <1>9, <1>10, <1>11, <1>12 DEF IInv

\* The descent goes down on the side of the key, and the key belongs there.
LEMMA DescendKeeps ==
  ASSUME IInv, Descend
  PROVE  IInv'
<1>1. PICK pos \in [Node -> Int], lo \in [Node -> Int], hi \in [Node -> Int] : ShapeOK(pos, lo, hi)
  BY DEF IInv
<1>2. PICK h \in [Node -> Nat] : HeightsOK(h)
  BY DEF IInv
<1>3. TypedOK /\ CallOK /\ ZeroedOK /\ PhaseOK /\ ColoursOK
  BY DEF IInv
<1>4. /\ pc = "nodeAdd" /\ pc' = "nodeAdd" /\ pNode' = pNode /\ members' = members
      /\ pRoot' = pRoot /\ pLeft' = pLeft /\ pRight' = pRight /\ pParent' = pParent
      /\ u32NumNode' = u32NumNode /\ red' = red /\ pOut' = pOut /\ pChild' = pChild
      /\ pDown' = Below(pNode, pDown) /\ pDown' # NULL
  BY DEF Descend, tree
<1>5. Linked = members \ {pNode} /\ Linked' = Linked
  BY <1>4 DEF Linked
<1>6. LinksOK(Linked, pRoot, pLeft, pRight, pParent)
  BY <1>1 DEF ShapeOK
<1>7. pDown' \in Linked
  BY <1>3, <1>4, <1>6 DEF CallOK, Below, LinksOK
<1>8. TypedOK'
  BY <1>3, <1>4, <1>5, <1>7 DEF TypedOK, Ref
<1>9. CallOK' /\ PhaseOK'
  BY <1>3, <1>4, <1>5, <1>7 DEF CallOK, PhaseOK, Removing, Short, Inserting
<1>10. ZeroedOK'
  BY <1>3, <1>4, <1>5 DEF ZeroedOK
<1>11. ColoursOK'
  BY <1>3, <1>4, <1>5 DEF ColoursOK, Painted, Excused, Inserting
<1>12. HeightsOK(h)'
  BY <1>2, <1>4, <1>5 DEF HeightsOK, Painted, ShortAt, Leaving, Short
<1>13. PlacesOK(Linked, pRoot, pLeft, pRight, pos, lo, hi) /\ SortedOK(pos)
  BY <1>1 DEF ShapeOK
<1>14. SortedOK(pos)'
  BY <1>13, <1>4, <1>5 DEF SortedOK
<1>15. DescentOK(pos, lo, hi)'
  <2> SUFFICES ASSUME ~Differences, NEW x \in Linked
               PROVE  /\ pos[x] <= lo[pDown'] => Key[x] <= Key[pNode]
                      /\ hi[pDown'] <= pos[x] => Key[pNode] <= Key[x]
    BY <1>4, <1>5 DEF DescentOK
  <2>1. /\ x \in Node /\ pos[x] \in Int /\ lo[x] \in Int /\ hi[x] \in Int
        /\ lo[x] < pos[x] /\ pos[x] < hi[x] /\ Key[x] \in Nat
    BY <1>3, <1>5, <1>13, BinaryTreeAssumption DEF PlacesOK, TypedOK
  <2>2. CASE pDown = NULL
    <3>1. pDown' = pRoot
      BY <2>2, <1>4 DEF Below
    <3>2. lo[pRoot] <= lo[x] /\ hi[x] <= hi[pRoot] /\ pRoot \in Node
      BY <1>3, <1>13, <3>1, <1>7 DEF PlacesOK, TypedOK, Linked
    <3> QED BY <2>1, <3>1, <3>2
  <2>3. CASE pDown # NULL
    <3> DEFINE d == pDown
    <3>1. d \in Linked /\ d \in Node /\ pNode \in Node
      BY <2>3, <1>3, <1>4, <1>5 DEF CallOK, TypedOK
    <3>2. /\ pos[x] <= lo[d] => Key[x] <= Key[pNode]
          /\ hi[d] <= pos[x] => Key[pNode] <= Key[x]
      BY <1>1, <1>4, <2>3 DEF ShapeOK, DescentOK
    <3>3. Key[d] \in Nat /\ Key[pNode] \in Nat /\ lo[d] \in Int /\ pos[d] \in Int /\ hi[d] \in Int
      BY <3>1, BinaryTreeAssumption
    <3>4. pOut = NULL /\ pOut \notin Linked
      BY <1>3, <1>4, NullOutside DEF CallOK, TypedOK, Removing, Short, Linked
    <3>5. /\ pos[x] < pos[d] => Key[x] <= Key[d]
          /\ pos[d] < pos[x] => Key[d] <= Key[x]
      BY <1>13, <3>1, <3>4 DEF SortedOK
    <3>6. x = d \/ Apart(pLeft, pRight, pos, lo, hi, d, x)
      BY <1>13, <3>1 DEF PlacesOK
    <3>7. CASE GoesLeft(pNode, d)
      <4>1. Key[pNode] <= Key[d]
        BY <3>7, <3>3 DEF GoesLeft, pNodeCmp
      <4>2. pDown' = pLeft[d]
        BY <3>7, <2>3, <1>4 DEF Below
      <4>3. lo[pDown'] = lo[d] /\ hi[pDown'] = pos[d]
        BY <4>2, <1>4, <1>13, <3>1 DEF PlacesOK
      <4>4. pos[d] <= pos[x] => x = d \/ pos[d] < pos[x]
        BY <2>1, <3>3, <3>6, <1>13, <3>1 DEF Apart, Inside, PlacesOK
      <4> QED BY <2>1, <3>2, <3>3, <3>5, <4>1, <4>3, <4>4
    <3>8. CASE ~GoesLeft(pNode, d)
      <4>1. Key[d] <= Key[pNode]
        BY <3>8, <3>3 DEF GoesLeft, pNodeCmp
      <4>2. pDown' = pRight[d]
        BY <3>8, <2>3, <1>4 DEF Below
      <4>3. lo[pDown'] = pos[d] /\ hi[pDown'] = hi[d]
        BY <4>2, <1>4, <1>13, <3>1 DEF PlacesOK
      <4>4. pos[x] <= pos[d] => x = d \/ pos[x] < pos[d]
        BY <2>1, <3>3, <3>6, <1>13, <3>1 DEF Apart, Inside, PlacesOK
      <4> QED BY <2>1, <3>2, <3>3, <3>5, <4>1, <4>3, <4>4
    <3> QED BY <3>7, <3>8
  <2> QED BY <2>2, <2>3
<1>16. ShapeOK(pos, lo, hi)'
  BY <1>4, <1>5, <1>6, <1>13, <1>14, <1>15 DEF ShapeOK
<1> QED BY <1>8, <1>9, <1>10, <1>11, <1>12, <1>16 DEF IInv
\* The new node hangs below the last node of the descent, in the order of the keys.
LEMMA LinkLeafKeeps ==
  ASSUME IInv, LinkLeaf
  PROVE  IInv'
<1>1. PICK pos \in [Node -> Int], lo \in [Node -> Int], hi \in [Node -> Int] : ShapeOK(pos, lo, hi)
  BY DEF IInv
<1>2. PICK h \in [Node -> Nat] : HeightsOK(h)
  BY DEF IInv
<1>3. TypedOK /\ CallOK /\ ZeroedOK /\ PhaseOK /\ ColoursOK
  BY DEF IInv
<1> DEFINE x == pNode
<1> DEFINE d == pDown
<1>4. /\ pc = "nodeAdd" /\ pc' = "insertRootCheck" /\ pNode' = x /\ members' = members
      /\ u32NumNode' = u32NumNode + 1 /\ red' = red /\ pOut' = pOut /\ pChild' = pChild
      /\ pDown' = pDown /\ Below(x, d) = NULL
      /\ pRoot' = IF d = NULL THEN x ELSE pRoot
      /\ pLeft' = IF d # NULL /\ GoesLeft(x, d) THEN [pLeft EXCEPT ![d] = x] ELSE pLeft
      /\ pRight' = IF d # NULL /\ ~GoesLeft(x, d) THEN [pRight EXCEPT ![d] = x] ELSE pRight
      /\ pParent' = [pParent EXCEPT ![x] = d]
  BY DEF LinkLeaf, call, Goto
<1>5. x \in Node /\ x \notin Linked /\ Linked' = Linked \cup {x} /\ Linked \in SUBSET Node
      /\ members = Linked \cup {x} /\ d \in Linked \cup {NULL} /\ NULL \notin Node
      /\ pOut = NULL /\ pChild = NULL
  BY <1>3, <1>4, NullOutside DEF Linked, TypedOK, CallOK, Removing, Short
<1>6. /\ pRoot \in Ref /\ pLeft \in [Node -> Ref] /\ pRight \in [Node -> Ref]
      /\ pParent \in [Node -> Ref] /\ red \in [Node -> BOOLEAN]
  BY <1>3 DEF TypedOK
<1>7. pLeft[x] = NULL /\ pRight[x] = NULL /\ pParent[x] = NULL /\ ~red[x]
  BY <1>3, <1>5 DEF ZeroedOK
<1>8. /\ LinksOK(Linked, pRoot, pLeft, pRight, pParent)
      /\ PlacesOK(Linked, pRoot, pLeft, pRight, pos, lo, hi) /\ SortedOK(pos)
      /\ DescentOK(pos, lo, hi)
  BY <1>1 DEF ShapeOK
<1> HIDE DEF x, d
<1>9. d = NULL => pRoot = NULL /\ Linked = {}
  BY <1>4, <1>8 DEF Below, LinksOK
<1>10. d # NULL => IF GoesLeft(x, d) THEN pLeft[d] = NULL ELSE pRight[d] = NULL
  BY <1>4 DEF Below
<1>11. TypedOK'
  <2>1. Cardinality(Linked') = Cardinality(Linked) + 1
    <3>1. IsFiniteSet(Linked)
      BY <1>5, BinaryTreeAssumption, FS_Subset
    <3> QED BY <3>1, <1>5, FS_AddElement
  <2>2. u32NumNode' = Cardinality(Linked')
    BY <1>3, <1>4, <2>1 DEF TypedOK
  <2>3. pRoot' \in Ref /\ pLeft' \in [Node -> Ref] /\ pRight' \in [Node -> Ref] /\ pParent' \in [Node -> Ref]
    BY <1>4, <1>5, <1>6 DEF Ref
  <2> QED BY <1>3, <1>4, <2>2, <2>3 DEF TypedOK, x
<1>12. CallOK' /\ PhaseOK'
  BY <1>3, <1>4, <1>5 DEF CallOK, PhaseOK, Removing, Short, Inserting
<1>13. \A y \in Node : /\ pLeft'[y] = IF y = d /\ GoesLeft(x, d) THEN x ELSE pLeft[y]
                       /\ pRight'[y] = IF y = d /\ ~GoesLeft(x, d) THEN x ELSE pRight[y]
                       /\ pParent'[y] = IF y = x THEN d ELSE pParent[y]
  BY <1>4, <1>5, <1>6
<1>14. ZeroedOK'
  <2> SUFFICES ASSUME NEW y \in Node, y \notin Linked'
               PROVE  pLeft'[y] = NULL /\ pRight'[y] = NULL /\ pParent'[y] = NULL /\ ~red'[y]
    BY DEF ZeroedOK
  <2>1. pLeft[y] = NULL /\ pRight[y] = NULL /\ pParent[y] = NULL /\ ~red[y]
    BY <1>3, <1>5 DEF ZeroedOK
  <2> QED BY <2>1, <1>4, <1>5, <1>13
<1>15. \A y \in Linked : pLeft[y] \in Linked \cup {NULL} /\ pRight[y] \in Linked \cup {NULL}
  BY <1>8 DEF LinksOK
<1>16. /\ Painted = NULL /\ Excused = NULL /\ ShortAt = NULL /\ Leaving = NULL
       /\ Painted' = x /\ Excused' = x /\ ShortAt' = NULL /\ Leaving' = NULL
  BY <1>4 DEF Painted, Excused, ShortAt, Leaving, Inserting, Short
<1>17. ColoursOK'
  <2>1. ColourRule(Linked, pRoot, pLeft, pRight, red, NULL, NULL)
    BY <1>3, <1>16 DEF ColoursOK
  <2>2. pRoot # NULL => pRoot \in Linked
    BY <1>8 DEF LinksOK
  <2>3. Ruddy(red, x, pRoot') => pRoot' = x
    BY <2>1, <2>2, <1>4, <1>5, <1>9 DEF ColourRule, Ruddy
  <2>4. ASSUME NEW y \in Linked \cup {x}, Ruddy(red, x, y)
        PROVE  /\ Ruddy(red, x, pLeft'[y]) => pLeft'[y] = x
               /\ Ruddy(red, x, pRight'[y]) => pRight'[y] = x
    <3>1. CASE y = x
      BY <3>1, <1>5, <1>7, <1>13, <1>10 DEF Ruddy
    <3>2. CASE y # x
      BY <3>2, <2>4, <2>1, <1>5, <1>13, <1>15 DEF ColourRule, Ruddy
    <3> QED BY <3>1, <3>2
  <2>5. ColourRule(Linked \cup {x}, pRoot', pLeft', pRight', red, x, x)
    BY <2>3, <2>4 DEF ColourRule
  <2> QED BY <2>5, <1>4, <1>5, <1>16 DEF ColoursOK
<1>19. \E g \in [Node -> Nat] : HeightRule(Linked', pLeft', pRight', red', Painted', ShortAt',
                                        Leaving', pChild', g)
  <2> DEFINE g == [h EXCEPT ![x] = 0]
  <2>1. g \in [Node -> Nat] /\ g[x] = 0 /\ \A y \in Node : y # x => g[y] = h[y]
    BY <1>5
  <2> HIDE DEF g
  <2>2. HeightRule(Linked, pLeft, pRight, red, NULL, NULL, NULL, NULL, h)
    BY <1>2, <1>5, <1>16 DEF HeightsOK
  <2>3. ASSUME NEW y \in Linked \cup {x}
        PROVE  /\ H(g, pLeft'[y]) = H(g, pRight'[y])
               /\ g[y] = H(g, pLeft'[y]) + Black(red, x, y) + Lacks(NULL, y)
    <3>1. CASE y = x
      <4>1. y # d
        BY <3>1, <1>5
      <4>2. pLeft'[y] = NULL /\ pRight'[y] = NULL /\ Ruddy(red, x, y) /\ y # NULL
        BY <3>1, <4>1, <1>5, <1>7, <1>13 DEF Ruddy
      <4> QED BY <4>2, <3>1, <2>1 DEF H, Black, Lacks
    <3>2. CASE y # x
      <4>1. y \in Linked /\ y # NULL
        BY <3>2, <1>5
      <4>2. H(h, pLeft[y]) = H(h, pRight[y]) /\ h[y] = H(h, pLeft[y]) + Black(red, NULL, y) + Lacks(NULL, y)
        BY <4>1, <2>2 DEF HeightRule
      <4>3. Black(red, x, y) = Black(red, NULL, y)
        BY <3>2, <4>1 DEF Black, Ruddy
      <4>4. pLeft[y] \in Linked \cup {NULL} /\ pRight[y] \in Linked \cup {NULL}
        BY <4>1, <1>15
      <4>5. H(g, pLeft[y]) = H(h, pLeft[y]) /\ H(g, pRight[y]) = H(h, pRight[y])
        BY <4>4, <2>1, <1>5 DEF H
      <4>6. H(g, pLeft'[y]) = H(h, pLeft[y]) /\ H(g, pRight'[y]) = H(h, pRight[y])
        BY <4>1, <4>5, <2>1, <1>4, <1>5, <1>10, <1>13 DEF H
      <4> QED BY <4>1, <4>2, <4>3, <4>6, <2>1, <3>2, <1>5
    <3> QED BY <3>1, <3>2
  <2>4. HeightRule(Linked \cup {x}, pLeft', pRight', red, x, NULL, NULL, NULL, g)
    BY <2>3, <1>5 DEF HeightRule
  <2>5. HeightRule(Linked', pLeft', pRight', red', Painted', ShortAt', Leaving', pChild', g)
    BY <2>4, <1>4, <1>5, <1>16
  <2> QED BY <2>1, <2>5
<1>18. \E pos2, lo2, hi2 \in [Node -> Int] : ShapeOK(pos2, lo2, hi2)'
  <2>1. CASE d = NULL
    <3> DEFINE pos2 == [y \in Node |-> 1]
    <3> DEFINE lo2 == [y \in Node |-> 0]
    <3> DEFINE hi2 == [y \in Node |-> 2]
    <3>1. Linked' = {x} /\ pRoot' = x /\ pLeft'[x] = NULL /\ pRight'[x] = NULL /\ pParent'[x] = NULL
      BY <2>1, <1>4, <1>5, <1>7, <1>9, <1>13
    <3>2. LinksOK(Linked', pRoot', pLeft', pRight', pParent')
      BY <3>1, <1>5 DEF LinksOK
    <3>3. PlacesOK(Linked', pRoot', pLeft', pRight', pos2, lo2, hi2)
      BY <3>1, <1>5 DEF PlacesOK
    <3>4. SortedOK(pos2)' /\ DescentOK(pos2, lo2, hi2)'
      BY <3>1, <1>4, <1>5 DEF SortedOK, DescentOK
    <3>5. pos2 \in [Node -> Int] /\ lo2 \in [Node -> Int] /\ hi2 \in [Node -> Int]
      OBVIOUS
    <3> HIDE DEF pos2, lo2, hi2
    <3> QED BY <3>2, <3>3, <3>4, <3>5 DEF ShapeOK
  <2>2. CASE d # NULL
    <3>1. d \in Linked /\ d \in Node /\ Key[d] \in Nat /\ Key[x] \in Nat
      BY <2>2, <1>5, BinaryTreeAssumption
    <3>2. ~Differences => \A y \in Linked : /\ pos[y] <= lo[d] => Key[y] <= Key[x]
                                            /\ hi[d] <= pos[y] => Key[x] <= Key[y]
      BY <2>2, <1>4, <1>8 DEF DescentOK, x, d
    <3>3. ~Differences => \A y, z \in Linked : pos[y] < pos[z] => Key[y] <= Key[z]
      BY <1>5, <1>8 DEF SortedOK
    <3>4. \E pos2, lo2, hi2 \in [Node -> Int] :
            /\ PlacesOK(Linked', pRoot', pLeft', pRight', pos2, lo2, hi2)
            /\ IF GoesLeft(x, d) THEN NewPlace(Linked, x, pos, lo[d], pos[d], pos2)
               ELSE NewPlace(Linked, x, pos, pos[d], hi[d], pos2)
      <4>1. CASE GoesLeft(x, d)
        <5>1. pRoot' = pRoot /\ pLeft' = [pLeft EXCEPT ![d] = x] /\ pRight' = pRight /\ pLeft[d] = NULL
          BY <4>1, <2>2, <1>4, <1>10
        <5>2. \E pos2, lo2, hi2 \in [Node -> Int] :
            /\ PlacesOK(Linked \cup {x}, pRoot, [pLeft EXCEPT ![d] = x], pRight, pos2, lo2, hi2)
            /\ NewPlace(Linked, x, pos, lo[d], pos[d], pos2)
          BY <5>1, <3>1, <1>5, <1>6, <1>7, <1>8, LeftLeafPlaces
        <5> QED BY <5>1, <5>2, <4>1, <1>5
      <4>2. CASE ~GoesLeft(x, d)
        <5>1. pRoot' = pRoot /\ pRight' = [pRight EXCEPT ![d] = x] /\ pLeft' = pLeft /\ pRight[d] = NULL
          BY <4>2, <2>2, <1>4, <1>10
        <5>2. \E pos2, lo2, hi2 \in [Node -> Int] :
            /\ PlacesOK(Linked \cup {x}, pRoot, pLeft, [pRight EXCEPT ![d] = x], pos2, lo2, hi2)
            /\ NewPlace(Linked, x, pos, pos[d], hi[d], pos2)
          BY <5>1, <3>1, <1>5, <1>6, <1>7, <1>8, RightLeafPlaces
        <5> QED BY <5>1, <5>2, <4>2, <1>5
      <4> QED BY <4>1, <4>2
    <3>5. PICK pos2 \in [Node -> Int], lo2 \in [Node -> Int], hi2 \in [Node -> Int] :
            /\ PlacesOK(Linked', pRoot', pLeft', pRight', pos2, lo2, hi2)
            /\ IF GoesLeft(x, d) THEN NewPlace(Linked, x, pos, lo[d], pos[d], pos2)
               ELSE NewPlace(Linked, x, pos, pos[d], hi[d], pos2)
      BY <3>4
    <3>6. LinksOK(Linked', pRoot', pLeft', pRight', pParent')
      <4>1. CASE GoesLeft(x, d)
        BY <4>1, <2>2, <3>1, <1>4, <1>5, <1>6, <1>7, <1>8, <1>10, LeftLeafLinks
      <4>2. CASE ~GoesLeft(x, d)
        BY <4>2, <2>2, <3>1, <1>4, <1>5, <1>6, <1>7, <1>8, <1>10, RightLeafLinks
      <4> QED BY <4>1, <4>2
    <3>7. ASSUME ~Differences, NEW y \in Linked
          PROVE  /\ pos2[y] < pos2[x] => Key[y] <= Key[x]
                 /\ pos2[x] < pos2[y] => Key[x] <= Key[y]
      <4>1. /\ y \in Node /\ Key[y] \in Nat /\ pos[y] \in Int /\ pos[d] \in Int
            /\ lo[y] \in Int /\ hi[y] \in Int /\ lo[d] \in Int /\ hi[d] \in Int
            /\ lo[y] < pos[y] /\ pos[y] < hi[y] /\ lo[d] < pos[d] /\ pos[d] < hi[d]
        BY <3>1, <1>5, <1>8, BinaryTreeAssumption DEF PlacesOK
      <4>2. y = d \/ Apart(pLeft, pRight, pos, lo, hi, d, y)
        BY <3>1, <1>8 DEF PlacesOK
      <4>3. pos[y] = pos[d] => y = d
        BY <4>1, <4>2 DEF Apart, Inside
      <4>4. (pos[d] < pos[y] => Key[d] <= Key[y]) /\ (pos[y] < pos[d] => Key[y] <= Key[d])
        BY <3>1, <3>3, <3>7
      <4>5. (pos[y] <= lo[d] => Key[y] <= Key[x]) /\ (hi[d] <= pos[y] => Key[x] <= Key[y])
        BY <3>2, <3>7
      <4>6. CASE GoesLeft(x, d)
        <5>1. Key[x] <= Key[d]
          BY <4>6, <3>1, <3>7 DEF GoesLeft, pNodeCmp
        <5>2. /\ pos2[y] < pos2[x] => pos[y] <= lo[d]
              /\ pos2[x] < pos2[y] => pos[d] <= pos[y]
          BY <4>6, <3>5 DEF NewPlace
        <5> QED BY <5>1, <5>2, <4>1, <4>3, <4>4, <4>5, <3>1
      <4>7. CASE ~GoesLeft(x, d)
        <5>1. Key[d] <= Key[x]
          BY <4>7, <3>1, <3>7 DEF GoesLeft, pNodeCmp
        <5>2. /\ pos2[y] < pos2[x] => pos[y] <= pos[d]
              /\ pos2[x] < pos2[y] => hi[d] <= pos[y]
          BY <4>7, <3>5 DEF NewPlace
        <5> QED BY <5>1, <5>2, <4>1, <4>3, <4>4, <4>5, <3>1
      <4> QED BY <4>6, <4>7
    <3>8. SortedOK(pos2)'
      <4> SUFFICES ASSUME ~Differences, NEW y \in Linked', NEW z \in Linked', pos2[y] < pos2[z]
                   PROVE  Key[y] <= Key[z]
        BY DEF SortedOK
      <4>1. CASE y \in Linked /\ z \in Linked
        <5>1. pos[y] < pos[z]
          BY <4>1, <3>5 DEF NewPlace
        <5> QED BY <5>1, <4>1, <3>3
      <4>2. CASE y = x /\ z = x
        <5>1. Key[x] \in Nat
          BY <3>1
        <5> QED BY <4>2, <5>1
      <4> QED BY <4>1, <4>2, <3>7, <1>5
    <3>9. DescentOK(pos2, lo2, hi2)'
      BY <1>4 DEF DescentOK
    <3> QED BY <3>5, <3>6, <3>8, <3>9 DEF ShapeOK
  <2> QED BY <2>1, <2>2
<1> QED BY <1>11, <1>12, <1>14, <1>17, <1>18, <1>19 DEF IInv, HeightsOK
-----------------------------------------------------------------------------
(* Colours and heights under rotations.                                    *)

\* A node, its parent and its children are different nodes.
KinOK(S, L, R, P) ==
  \A n \in S :
    /\ n # NULL /\ L[n] \in S \cup {NULL} /\ R[n] \in S \cup {NULL} /\ P[n] \in S \cup {NULL}
    /\ L[n] # n /\ R[n] # n /\ P[n] # n
    /\ L[n] # NULL => L[n] # R[n]
    /\ P[n] # NULL => P[P[n]] # n
    /\ P[n] # NULL => n = L[P[n]] \/ n = R[P[n]]

LEMMA Kin ==
  ASSUME NEW S \in SUBSET Node, NEW r, NEW L, NEW R, NEW P,
         NEW pos \in [Node -> Int], NEW lo \in [Node -> Int], NEW hi \in [Node -> Int],
         LinksOK(S, r, L, R, P), PlacesOK(S, r, L, R, pos, lo, hi)
  PROVE  KinOK(S, L, R, P)
<1> SUFFICES ASSUME NEW n \in S
             PROVE  /\ n # NULL /\ L[n] \in S \cup {NULL} /\ R[n] \in S \cup {NULL}
                       /\ P[n] \in S \cup {NULL}
                    /\ L[n] # n /\ R[n] # n /\ P[n] # n
                    /\ L[n] # NULL => L[n] # R[n]
                    /\ P[n] # NULL => P[P[n]] # n
                    /\ P[n] # NULL => n = L[P[n]] \/ n = R[P[n]]
  BY DEF KinOK
<1>1. NULL \notin S
  BY NullOutside
<1>2. L[n] \in S \cup {NULL} /\ R[n] \in S \cup {NULL} /\ P[n] \in S \cup {NULL}
  BY DEF LinksOK
<1>3. \A x \in S : lo[x] \in Int /\ pos[x] \in Int /\ hi[x] \in Int /\ lo[x] < pos[x] /\ pos[x] < hi[x]
  BY DEF PlacesOK
<1>4. ASSUME NEW x \in S
      PROVE  P[x] # NULL => \/ lo[x] = lo[P[x]] /\ hi[x] = pos[P[x]]
                            \/ lo[x] = pos[P[x]] /\ hi[x] = hi[P[x]]
  <2>1. x # NULL /\ P[x] \in S \cup {NULL} /\ (P[x] # NULL => x = L[P[x]] \/ x = R[P[x]])
    BY <1>1 DEF LinksOK
  <2> QED BY <2>1 DEF PlacesOK
<1>5. L[n] # NULL => hi[L[n]] = pos[n]
  BY DEF PlacesOK
<1>6. R[n] # NULL => lo[R[n]] = pos[n]
  BY DEF PlacesOK
<1>7. L[n] # n /\ R[n] # n
  BY <1>1, <1>2, <1>3, <1>5, <1>6
<1>8. P[n] # n
  BY <1>1, <1>2, <1>3, <1>4
<1>9. L[n] # NULL => L[n] # R[n]
  BY <1>1, <1>2, <1>3, <1>5, <1>6
<1>10. P[n] # NULL => P[P[n]] # n
  <2> SUFFICES ASSUME P[n] # NULL, P[P[n]] = n PROVE FALSE
    OBVIOUS
  <2> DEFINE q == P[n]
  <2>1. q \in S /\ P[q] = n /\ n # NULL
    BY <1>1, <1>2
  <2>2. \/ lo[n] = lo[q] /\ hi[n] = pos[q]
        \/ lo[n] = pos[q] /\ hi[n] = hi[q]
    BY <1>4
  <2>3. \/ lo[q] = lo[n] /\ hi[q] = pos[n]
        \/ lo[q] = pos[n] /\ hi[q] = hi[n]
    BY <2>1, <1>4
  <2> HIDE DEF q
  <2> QED BY <2>1, <2>2, <2>3, <1>3
<1>11. P[n] # NULL => n = L[P[n]] \/ n = R[P[n]]
  BY DEF LinksOK
<1> QED BY <1>1, <1>2, <1>7, <1>8, <1>9, <1>10, <1>11

LEMMA MirrorColours ==
  ASSUME NEW S, NEW r, NEW L, NEW R, NEW rd, NEW w, NEW e, ColourRule(S, r, L, R, rd, w, e)
  PROVE  ColourRule(S, r, R, L, rd, w, e)
BY DEF ColourRule

LEMMA MirrorLevel ==
  ASSUME NEW S, NEW L, NEW R, NEW rd, NEW w, NEW s, NEW g, NEW child,
         Level(S, L, R, rd, w, s, g, child)
  PROVE  Level(S, R, L, rd, w, s, g, child)
BY DEF Level, HeightRule

LEMMA MirrorHeights ==
  ASSUME NEW S, NEW L, NEW R, NEW rd, NEW w, NEW s, NEW g, NEW child, NEW h,
         HeightRule(S, L, R, rd, w, s, g, child, h)
  PROVE  HeightRule(S, R, L, rd, w, s, g, child, h)
BY DEF HeightRule

\* A black node n and its red child c trade places and colours.
LEMMA RotateColours ==
  ASSUME NEW S \in SUBSET Node, NEW r, NEW L, NEW R, NEW P,
         NEW pos \in [Node -> Int], NEW lo \in [Node -> Int], NEW hi \in [Node -> Int],
         LinksOK(S, r, L, R, P), PlacesOK(S, r, L, R, pos, lo, hi),
         NEW n, NEW c, NEW r2, NEW L2, NEW R2, NEW P2,
         Rotated(S, n, c, r, L, R, P, r2, L2, R2, P2),
         NEW rd \in [Node -> BOOLEAN], rd[c], NEW e, e \in S => P[e] = c,
         ColourRule(S, r, L, R, rd, NULL, e),
         ~Ruddy(rd, NULL, L[n]), ~Ruddy(rd, NULL, L[c])
  PROVE  ColourRule(S, r2, L2, R2, [rd EXCEPT ![n] = TRUE, ![c] = FALSE], NULL, NULL)
<1> DEFINE rd2 == [rd EXCEPT ![n] = TRUE, ![c] = FALSE]
<1>1. NULL \notin S
  BY NullOutside
<1>2. n \in S /\ c = R[n] /\ c \in S /\ c # n
  BY <1>1, AroundRotation DEF Rotated
<1>3. r2 = IF P[n] = NULL THEN c ELSE r
  BY DEF Rotated
<1>4. \A x \in S :
       /\ L2[x] = IF x = c THEN n ELSE IF x = P[n] /\ L[x] = n THEN c ELSE L[x]
       /\ R2[x] = IF x = n THEN L[c] ELSE IF x = P[n] /\ R[x] = n THEN c ELSE R[x]
  BY DEF Rotated
<1>5. /\ ~rd2[c]
      /\ \A x \in S : x # n /\ x # c => rd2[x] = rd[x]
  BY <1>2
<1> HIDE DEF rd2
<1>6. ~Ruddy(rd2, NULL, r2)
  BY <1>1, <1>2, <1>3, <1>5 DEF LinksOK, ColourRule, Ruddy
<1>7. ASSUME NEW y \in S, Ruddy(rd2, NULL, y)
      PROVE  ~Ruddy(rd2, NULL, L2[y]) /\ ~Ruddy(rd2, NULL, R2[y])
  <2>1. y # c
    BY <1>7, <1>5 DEF Ruddy
  <2>2. CASE y = n
    <3>1. L2[n] = L[n] /\ L[n] # n
      BY <1>1, <1>2, <1>4, AroundRotation
    <3>2. R2[n] = L[c] /\ L[c] # n
      BY <1>1, <1>2, <1>4, AroundRotation
    <3>3. L[n] \in S \cup {NULL} /\ L[c] \in S \cup {NULL}
      BY <1>2 DEF LinksOK
    <3> QED BY <2>2, <3>1, <3>2, <3>3, <1>5 DEF Ruddy
  <2>3. CASE y # n
    <3>1. Ruddy(rd, NULL, y) /\ y # NULL
      BY <2>1, <2>3, <1>5, <1>7 DEF Ruddy
    <3>2. /\ Ruddy(rd, NULL, L[y]) => L[y] = e
          /\ Ruddy(rd, NULL, R[y]) => R[y] = e
      BY <3>1 DEF ColourRule
    <3>3. /\ L[y] \in S \cup {NULL} /\ R[y] \in S \cup {NULL}
          /\ L[y] # NULL => P[L[y]] = y
          /\ R[y] # NULL => P[R[y]] = y
      BY DEF LinksOK
    <3>4. ~Ruddy(rd, NULL, L[y]) /\ ~Ruddy(rd, NULL, R[y])
      BY <3>2, <3>3, <2>1, <1>1 DEF Ruddy
    <3>5. ~Ruddy(rd2, NULL, L2[y])
      BY <2>1, <2>3, <3>3, <3>4, <1>2, <1>4, <1>5 DEF Ruddy
    <3>6. ~Ruddy(rd2, NULL, R2[y])
      BY <2>1, <2>3, <3>3, <3>4, <1>2, <1>4, <1>5 DEF Ruddy
    <3> QED BY <3>5, <3>6
  <2> QED BY <2>2, <2>3
<1>8. ColourRule(S, r2, L2, R2, rd2, NULL, NULL)
  BY <1>6, <1>7 DEF ColourRule
<1> QED BY <1>8 DEF rd2

LEMMA RotateHeights ==
  ASSUME NEW S \in SUBSET Node, NEW r, NEW L, NEW R, NEW P,
         NEW pos \in [Node -> Int], NEW lo \in [Node -> Int], NEW hi \in [Node -> Int],
         LinksOK(S, r, L, R, P), PlacesOK(S, r, L, R, pos, lo, hi),
         NEW n, NEW c, NEW r2, NEW L2, NEW R2, NEW P2,
         Rotated(S, n, c, r, L, R, P, r2, L2, R2, P2),
         NEW rd \in [Node -> BOOLEAN], rd[c], ~rd[n],
         NEW s, NEW g, NEW h \in [Node -> Nat], n # s, n # g, c # s, c # g,
         HeightRule(S, L, R, rd, NULL, s, g, NULL, h)
  PROVE  Level(S, L2, R2, [rd EXCEPT ![n] = TRUE, ![c] = FALSE], NULL, s, g, NULL)
<1> DEFINE rd2 == [rd EXCEPT ![n] = TRUE, ![c] = FALSE]
<1> DEFINE h2 == [h EXCEPT ![n] = h[c], ![c] = h[n]]
<1>1. NULL \notin S
  BY NullOutside
<1>2. n \in S /\ c = R[n] /\ c \in S /\ c # n
  BY <1>1, AroundRotation DEF Rotated
<1>3. \A x \in S :
       /\ L2[x] = IF x = c THEN n ELSE IF x = P[n] /\ L[x] = n THEN c ELSE L[x]
       /\ R2[x] = IF x = n THEN L[c] ELSE IF x = P[n] /\ R[x] = n THEN c ELSE R[x]
  BY DEF Rotated
<1>4. /\ ~rd2[c] /\ rd2[n]
      /\ \A x \in S : x # n /\ x # c => rd2[x] = rd[x]
  BY <1>2
<1>5. /\ h2 \in [Node -> Nat] /\ h2[n] = h[c] /\ h2[c] = h[n]
      /\ \A x \in S : x # n /\ x # c => h2[x] = h[x]
  BY <1>2
<1> HIDE DEF rd2, h2
<1>6. /\ L[n] \in S \cup {NULL} /\ L[n] # n /\ L[n] # c
      /\ L[c] \in S \cup {NULL} /\ L[c] # n /\ L[c] # c
      /\ R[c] \in S \cup {NULL} /\ R[c] # n /\ R[c] # c /\ P[n] # c /\ P[n] # n /\ P[c] = n
  <2>1. L[n] \in S \cup {NULL} /\ L[c] \in S \cup {NULL} /\ R[c] \in S \cup {NULL}
    BY <1>2 DEF LinksOK
  <2>2. R[n] # NULL
    BY <1>1, <1>2
  <2> QED BY <1>1, <1>2, <2>1, <2>2, AroundRotation
<1>7. \A z \in S \cup {NULL} : H(h, z) \in Nat
  BY <1>1 DEF H
<1>8. \A z \in S \cup {NULL} : z # n /\ z # c => H(h2, z) = H(h, z)
  BY <1>5 DEF H
<1>9. /\ H(h, L[n]) = h[c] /\ h[n] = h[c] + 1 /\ H(h, L[c]) = H(h, R[c]) /\ h[c] = H(h, L[c])
  <2>1. /\ H(h, L[n]) = H(h, R[n])
        /\ h[n] = H(h, L[n]) + Black(rd, NULL, n) + Lacks(s, n)
    BY <1>2 DEF HeightRule
  <2>2. /\ H(h, L[c]) = H(h, R[c])
        /\ h[c] = H(h, L[c]) + Black(rd, NULL, c) + Lacks(s, c)
    BY <1>2 DEF HeightRule
  <2>3. Black(rd, NULL, n) = 1 /\ Black(rd, NULL, c) = 0 /\ Lacks(s, n) = 0 /\ Lacks(s, c) = 0
    BY <1>1, <1>2 DEF Black, Ruddy, Lacks
  <2>4. H(h, R[n]) = h[c]
    BY <1>1, <1>2 DEF H
  <2> QED BY <2>1, <2>2, <2>3, <2>4, <1>2, <1>6, <1>7
<1>10. ASSUME NEW y \in S
       PROVE  IF y = g THEN h2[y] = H(h2, NULL) + Lacks(s, y)
              ELSE /\ H(h2, L2[y]) = H(h2, R2[y])
                   /\ h2[y] = H(h2, L2[y]) + Black(rd2, NULL, y) + Lacks(s, y)
  <2>1. CASE y = n
    <3>1. L2[n] = L[n] /\ R2[n] = L[c]
      BY <1>2, <1>3, <1>6
    <3>2. H(h2, L2[n]) = h[c] /\ H(h2, R2[n]) = h[c]
      BY <3>1, <1>6, <1>8, <1>9
    <3>3. Black(rd2, NULL, n) = 0 /\ Lacks(s, n) = 0 /\ h[c] \in Nat
      BY <1>1, <1>2, <1>4 DEF Black, Ruddy, Lacks
    <3> QED BY <2>1, <3>2, <3>3, <1>5
  <2>2. CASE y = c
    <3>1. L2[c] = n /\ R2[c] = R[c]
      BY <1>2, <1>3, <1>6
    <3>2. H(h2, L2[c]) = h[c] /\ H(h2, R2[c]) = h[c]
      <4>1. H(h2, R[c]) = H(h, R[c])
        BY <1>6, <1>8
      <4>2. H(h2, n) = h2[n]
        BY <1>1, <1>2 DEF H
      <4> QED BY <3>1, <4>1, <4>2, <1>5, <1>9
    <3>3. Black(rd2, NULL, c) = 1 /\ Lacks(s, c) = 0 /\ h[c] \in Nat
      BY <1>1, <1>2, <1>4 DEF Black, Ruddy, Lacks
    <3> QED BY <2>2, <3>2, <3>3, <1>5, <1>9
  <2>3. CASE y # n /\ y # c
    <3>1. IF y = g THEN h[y] = H(h, NULL) + Lacks(s, y)
          ELSE /\ H(h, L[y]) = H(h, R[y])
               /\ h[y] = H(h, L[y]) + Black(rd, NULL, y) + Lacks(s, y)
      BY DEF HeightRule
    <3>2. Black(rd2, NULL, y) = Black(rd, NULL, y) /\ h2[y] = h[y] /\ H(h2, NULL) = H(h, NULL)
      BY <2>3, <1>4, <1>5 DEF Black, Ruddy, H
    <3>3. /\ L[y] \in S \cup {NULL} /\ (L[y] # NULL => P[L[y]] = y)
          /\ R[y] \in S \cup {NULL} /\ (R[y] # NULL => P[R[y]] = y)
      BY DEF LinksOK
    <3>4. H(h2, c) = H(h, n)
      BY <1>1, <1>2, <1>5 DEF H
    <3>5. H(h2, L2[y]) = H(h, L[y])
      BY <2>3, <3>3, <3>4, <1>1, <1>2, <1>3, <1>6, <1>8
    <3>6. H(h2, R2[y]) = H(h, R[y])
      BY <2>3, <3>3, <3>4, <1>1, <1>2, <1>3, <1>6, <1>8
    <3> QED BY <3>1, <3>2, <3>5, <3>6
  <2> QED BY <2>1, <2>2, <2>3
<1>11. HeightRule(S, L2, R2, rd2, NULL, s, g, NULL, h2)
  BY <1>10 DEF HeightRule
<1> QED BY <1>5, <1>11 DEF rd2, Level

\* A red node n and its red child c, the one that is inserted, trade places.
LEMMA AdjustColours ==
  ASSUME NEW S \in SUBSET Node, NEW r, NEW L, NEW R, NEW P,
         NEW pos \in [Node -> Int], NEW lo \in [Node -> Int], NEW hi \in [Node -> Int],
         LinksOK(S, r, L, R, P), PlacesOK(S, r, L, R, pos, lo, hi),
         NEW n, NEW c, NEW r2, NEW L2, NEW R2, NEW P2,
         Rotated(S, n, c, r, L, R, P, r2, L2, R2, P2), P[n] # NULL,
         NEW rd \in [Node -> BOOLEAN], rd[n], rd[c],
         ColourRule(S, r, L, R, rd, NULL, c)
  PROVE  ColourRule(S, r2, L2, R2, rd, NULL, n)
<1>1. NULL \notin S
  BY NullOutside
<1>2. n \in S /\ c = R[n] /\ c \in S /\ c # n
  BY <1>1, AroundRotation DEF Rotated
<1>3. r2 = r
  BY DEF Rotated
<1>4. \A x \in S :
       /\ L2[x] = IF x = c THEN n ELSE IF x = P[n] /\ L[x] = n THEN c ELSE L[x]
       /\ R2[x] = IF x = n THEN L[c] ELSE IF x = P[n] /\ R[x] = n THEN c ELSE R[x]
  BY DEF Rotated
<1>5. /\ L[n] \in S \cup {NULL} /\ L[n] # n /\ L[n] # c
      /\ L[c] \in S \cup {NULL} /\ L[c] # n /\ L[c] # c
      /\ R[c] \in S \cup {NULL} /\ R[c] # n /\ R[c] # c /\ P[n] # c /\ P[n] # n /\ P[c] = n
  <2>1. L[n] \in S \cup {NULL} /\ L[c] \in S \cup {NULL} /\ R[c] \in S \cup {NULL}
    BY <1>2 DEF LinksOK
  <2>2. R[n] # NULL
    BY <1>1, <1>2
  <2> QED BY <1>1, <1>2, <2>1, <2>2, AroundRotation
<1>6. ASSUME NEW y \in S, Ruddy(rd, NULL, y)
      PROVE  /\ Ruddy(rd, NULL, L2[y]) => L2[y] = n
             /\ Ruddy(rd, NULL, R2[y]) => R2[y] = n
  <2>1. /\ Ruddy(rd, NULL, L[y]) => L[y] = c
        /\ Ruddy(rd, NULL, R[y]) => R[y] = c
    BY <1>6 DEF ColourRule
  <2>2. /\ L[y] \in S \cup {NULL} /\ (L[y] # NULL => P[L[y]] = y)
        /\ R[y] \in S \cup {NULL} /\ (R[y] # NULL => P[R[y]] = y)
    BY DEF LinksOK
  <2>3. Ruddy(rd, NULL, c) /\ Ruddy(rd, NULL, n)
    BY <1>1, <1>2 DEF Ruddy
  <2>4. CASE y = n
    <3>1. ~Ruddy(rd, NULL, L[n]) /\ ~Ruddy(rd, NULL, L[c])
      BY <2>3, <1>2, <1>5 DEF ColourRule
    <3> QED BY <3>1, <2>4, <1>2, <1>4, <1>5
  <2>5. CASE y = c
    <3>1. ~Ruddy(rd, NULL, R[c])
      BY <2>3, <1>2, <1>5 DEF ColourRule
    <3> QED BY <3>1, <2>5, <1>2, <1>4, <1>5
  <2>6. CASE y # n /\ y # c
    <3>1. L[y] # c /\ R[y] # c
      BY <2>2, <2>6, <1>1, <1>2, <1>5
    <3>2. L[y] # n /\ R[y] # n
      BY <2>1, <2>3, <3>1
    <3> QED BY <2>1, <2>6, <3>1, <3>2, <1>4
  <2> QED BY <2>4, <2>5, <2>6
<1>7. ~Ruddy(rd, NULL, r2)
  BY <1>1, <1>3 DEF ColourRule, Ruddy
<1> QED BY <1>6, <1>7 DEF ColourRule

LEMMA AdjustHeights ==
  ASSUME NEW S \in SUBSET Node, NEW r, NEW L, NEW R, NEW P,
         NEW pos \in [Node -> Int], NEW lo \in [Node -> Int], NEW hi \in [Node -> Int],
         LinksOK(S, r, L, R, P), PlacesOK(S, r, L, R, pos, lo, hi),
         NEW n, NEW c, NEW r2, NEW L2, NEW R2, NEW P2,
         Rotated(S, n, c, r, L, R, P, r2, L2, R2, P2),
         NEW rd \in [Node -> BOOLEAN], rd[n], rd[c], NEW h \in [Node -> Nat],
         HeightRule(S, L, R, rd, NULL, NULL, NULL, NULL, h)
  PROVE  HeightRule(S, L2, R2, rd, NULL, NULL, NULL, NULL, h)
<1>1. NULL \notin S
  BY NullOutside
<1>2. n \in S /\ c = R[n] /\ c \in S /\ c # n
  BY <1>1, AroundRotation DEF Rotated
<1>3. \A x \in S :
       /\ L2[x] = IF x = c THEN n ELSE IF x = P[n] /\ L[x] = n THEN c ELSE L[x]
       /\ R2[x] = IF x = n THEN L[c] ELSE IF x = P[n] /\ R[x] = n THEN c ELSE R[x]
  BY DEF Rotated
<1>4. /\ L[n] \in S \cup {NULL} /\ L[n] # n /\ L[n] # c
      /\ L[c] \in S \cup {NULL} /\ L[c] # n /\ L[c] # c
      /\ R[c] \in S \cup {NULL} /\ R[c] # n /\ R[c] # c /\ P[n] # c /\ P[n] # n /\ P[c] = n
  <2>1. L[n] \in S \cup {NULL} /\ L[c] \in S \cup {NULL} /\ R[c] \in S \cup {NULL}
    BY <1>2 DEF LinksOK
  <2>2. R[n] # NULL
    BY <1>1, <1>2
  <2> QED BY <1>1, <1>2, <2>1, <2>2, AroundRotation
<1>5. \A y \in S : /\ H(h, L[y]) = H(h, R[y])
                   /\ h[y] = H(h, L[y]) + Black(rd, NULL, y) + Lacks(NULL, y)
  BY <1>1 DEF HeightRule
<1>6. H(h, n) = h[n] /\ H(h, c) = h[c] /\ \A z \in S \cup {NULL} : H(h, z) \in Nat
  BY <1>1, <1>2 DEF H
<1>7. \A y \in {n, c} : Black(rd, NULL, y) = 0 /\ Lacks(NULL, y) = 0
  BY <1>1, <1>2 DEF Black, Ruddy, Lacks
<1>8. /\ H(h, L[n]) = h[n] /\ H(h, c) = h[n] /\ H(h, L[c]) = h[c] /\ H(h, R[c]) = h[c]
  BY <1>2, <1>4, <1>5, <1>6, <1>7
<1>9. ASSUME NEW y \in S PROVE H(h, L2[y]) = H(h, L[y]) /\ H(h, R2[y]) = H(h, R[y])
  BY <1>2, <1>3, <1>4, <1>6, <1>8
<1> QED BY <1>1, <1>5, <1>9 DEF HeightRule

\* The last rotation of a removal: n goes down to its child m that lacks one, its
\* other child c comes up in n's colour, and c's far child f turns black.
LEMMA LastColours ==
  ASSUME NEW S \in SUBSET Node, NEW r, NEW L, NEW R, NEW P,
         NEW pos \in [Node -> Int], NEW lo \in [Node -> Int], NEW hi \in [Node -> Int],
         LinksOK(S, r, L, R, P), PlacesOK(S, r, L, R, pos, lo, hi),
         NEW n, NEW c, NEW r2, NEW L2, NEW R2, NEW P2,
         Rotated(S, n, c, r, L, R, P, r2, L2, R2, P2),
         NEW rd \in [Node -> BOOLEAN], NEW f \in S, f = R[c],
         ColourRule(S, r, L, R, rd, NULL, NULL)
  PROVE  ColourRule(S, r2, L2, R2, [rd EXCEPT ![c] = rd[n], ![n] = FALSE, ![f] = FALSE],
                    NULL, NULL)
<1> DEFINE rd2 == [rd EXCEPT ![c] = rd[n], ![n] = FALSE, ![f] = FALSE]
<1>1. NULL \notin S
  BY NullOutside
<1>2. n \in S /\ c = R[n] /\ c \in S /\ c # n
  BY <1>1, AroundRotation DEF Rotated
<1>3. r2 = IF P[n] = NULL THEN c ELSE r
  BY DEF Rotated
<1>4. \A x \in S :
       /\ L2[x] = IF x = c THEN n ELSE IF x = P[n] /\ L[x] = n THEN c ELSE L[x]
       /\ R2[x] = IF x = n THEN L[c] ELSE IF x = P[n] /\ R[x] = n THEN c ELSE R[x]
  BY DEF Rotated
<1>5. /\ R[c] # n /\ R[c] # c /\ P[n] # c /\ P[n] # n /\ P[c] = n /\ P[f] = c
  <2>1. R[n] # NULL
    BY <1>1, <1>2
  <2>2. P[f] = c
    BY <1>1, <1>2 DEF LinksOK
  <2> QED BY <1>1, <1>2, <2>1, <2>2, AroundRotation
<1>6. /\ ~rd2[n] /\ ~rd2[f] /\ (rd2[c] <=> rd[n])
      /\ \A x \in S : x # n /\ x # c /\ x # f => rd2[x] = rd[x]
  BY <1>2, <1>5
<1> HIDE DEF rd2
<1>7. ~Ruddy(rd2, NULL, r2)
  <2>1. ~Ruddy(rd, NULL, r) /\ r \in S /\ (P[n] = NULL => n = r) /\ P[r] = NULL /\ r # NULL
    BY <1>1, <1>2 DEF ColourRule, Ruddy, LinksOK
  <2>2. P[n] # NULL => r # n /\ r # c /\ r # f
    BY <2>1, <1>2, <1>5, <1>1
  <2> QED BY <2>1, <2>2, <1>1, <1>2, <1>3, <1>6 DEF Ruddy
<1>8. ASSUME NEW y \in S, Ruddy(rd2, NULL, y)
      PROVE  ~Ruddy(rd2, NULL, L2[y]) /\ ~Ruddy(rd2, NULL, R2[y])
  <2>1. y # n /\ y # f
    BY <1>8, <1>6 DEF Ruddy
  <2>2. /\ L[y] \in S \cup {NULL} /\ (L[y] # NULL => P[L[y]] = y)
        /\ R[y] \in S \cup {NULL} /\ (R[y] # NULL => P[R[y]] = y)
    BY DEF LinksOK
  <2>3. CASE y = c
    <3>1. L2[c] = n /\ R2[c] = f
      BY <1>2, <1>4, <1>5
    <3> QED BY <3>1, <2>3, <1>6 DEF Ruddy
  <2>4. CASE y # c
    <3>1. Ruddy(rd, NULL, y)
      BY <2>1, <2>4, <1>6, <1>8 DEF Ruddy
    <3>2. ~Ruddy(rd, NULL, L[y]) /\ ~Ruddy(rd, NULL, R[y])
      BY <3>1 DEF ColourRule, Ruddy
    <3>3. ~Ruddy(rd2, NULL, L2[y])
      BY <2>1, <2>2, <2>4, <3>2, <1>1, <1>2, <1>4, <1>5, <1>6 DEF Ruddy
    <3>4. ~Ruddy(rd2, NULL, R2[y])
      BY <2>1, <2>2, <2>4, <3>2, <1>1, <1>2, <1>4, <1>5, <1>6 DEF Ruddy
    <3> QED BY <3>3, <3>4
  <2> QED BY <2>3, <2>4
<1>9. ColourRule(S, r2, L2, R2, rd2, NULL, NULL)
  BY <1>7, <1>8 DEF ColourRule
<1> QED BY <1>9 DEF rd2

LEMMA LastHeights ==
  ASSUME NEW S \in SUBSET Node, NEW r, NEW L, NEW R, NEW P,
         NEW pos \in [Node -> Int], NEW lo \in [Node -> Int], NEW hi \in [Node -> Int],
         LinksOK(S, r, L, R, P), PlacesOK(S, r, L, R, pos, lo, hi),
         NEW n, NEW c, NEW r2, NEW L2, NEW R2, NEW P2,
         Rotated(S, n, c, r, L, R, P, r2, L2, R2, P2),
         NEW rd \in [Node -> BOOLEAN], NEW f \in S, f = R[c], rd[f], ~rd[c],
         NEW m \in S, m = L[n], NEW g, g # n, g # c, g # f, NEW h \in [Node -> Nat],
         HeightRule(S, L, R, rd, NULL, m, g, NULL, h)
  PROVE  Level(S, L2, R2, [rd EXCEPT ![c] = rd[n], ![n] = FALSE, ![f] = FALSE],
               NULL, NULL, g, NULL)
<1> DEFINE rd2 == [rd EXCEPT ![c] = rd[n], ![n] = FALSE, ![f] = FALSE]
<1> DEFINE h2 == [h EXCEPT ![m] = h[m] - 1, ![n] = h[c], ![c] = h[n], ![f] = h[f] + 1]
<1>1. NULL \notin S
  BY NullOutside
<1>2. n \in S /\ c = R[n] /\ c \in S /\ c # n
  BY <1>1, AroundRotation DEF Rotated
<1>3. \A x \in S :
       /\ L2[x] = IF x = c THEN n ELSE IF x = P[n] /\ L[x] = n THEN c ELSE L[x]
       /\ R2[x] = IF x = n THEN L[c] ELSE IF x = P[n] /\ R[x] = n THEN c ELSE R[x]
  BY DEF Rotated
<1>4. /\ m # n /\ m # c /\ f # n /\ f # c /\ P[n] # c /\ P[n] # n /\ P[c] = n /\ P[f] = c
      /\ L[c] \in S \cup {NULL} /\ L[c] # n /\ L[c] # c /\ (L[c] # NULL => L[c] # f /\ P[L[c]] = c)
      /\ P[m] = n
  <2>1. R[n] # NULL
    BY <1>1, <1>2
  <2>2. P[f] = c /\ P[m] = n /\ L[c] \in S \cup {NULL} /\ (L[c] # NULL => P[L[c]] = c)
    BY <1>1, <1>2 DEF LinksOK
  <2> QED BY <1>1, <1>2, <2>1, <2>2, AroundRotation
<1>5. m # f /\ L[c] # m
  BY <1>1, <1>2, <1>4
<1>6. \A y \in S : IF y = g THEN h[y] = 0 + Lacks(m, y)
                   ELSE /\ H(h, L[y]) = H(h, R[y])
                        /\ h[y] = H(h, L[y]) + Black(rd, NULL, y) + Lacks(m, y)
  BY DEF HeightRule, H
<1>7. \A z \in S \cup {NULL} : H(h, z) \in Nat /\ (z # NULL => H(h, z) = h[z])
  BY <1>1 DEF H
<1>8. Lacks(m, m) = 1 /\ \A y \in S : (y # m => Lacks(m, y) = 0) /\ Lacks(NULL, y) = 0
  BY <1>1 DEF Lacks
<1>9. \A y \in S : Black(rd, NULL, y) = IF rd[y] THEN 0 ELSE 1
  BY <1>1 DEF Black, Ruddy
<1>10. \A y \in S : L[y] \in S \cup {NULL} /\ R[y] \in S \cup {NULL}
  BY DEF LinksOK
<1>11. h[m] \in Nat /\ h[n] \in Nat /\ h[c] \in Nat /\ h[f] \in Nat
  BY <1>2
<1>12. h[m] >= 1
  BY <1>6, <1>7, <1>8, <1>9, <1>10, <1>11
<1>13. h[m] = h[c] /\ h[n] = h[m] + Black(rd, NULL, n)
  <2>1. H(h, L[n]) = h[m] /\ H(h, R[n]) = h[c]
    BY <1>1, <1>2, <1>7
  <2>2. Black(rd, NULL, n) \in Nat
    BY <1>2, <1>9
  <2> QED BY <2>1, <2>2, <1>2, <1>4, <1>6, <1>8, <1>11
<1>14. h[c] = h[f] + 1 /\ H(h, L[c]) = h[f]
  <2>1. H(h, R[c]) = h[f] /\ Black(rd, NULL, c) = 1
    BY <1>1, <1>2, <1>7, <1>9
  <2> QED BY <2>1, <1>2, <1>4, <1>6, <1>8, <1>11
<1>15. H(h, L[f]) = h[f] /\ H(h, R[f]) = h[f]
  <2>1. Black(rd, NULL, f) = 0 /\ Lacks(m, f) = 0
    BY <1>5, <1>8, <1>9
  <2> QED BY <2>1, <1>6, <1>7, <1>10, <1>11
<1>16. h2 \in [Node -> Nat]
  BY <1>11, <1>12
<1>17. /\ h2[m] = h[m] - 1 /\ h2[n] = h[c] /\ h2[c] = h[n] /\ h2[f] = h[f] + 1
       /\ \A x \in S : x # m /\ x # n /\ x # c /\ x # f => h2[x] = h[x]
  BY <1>2, <1>4, <1>5
<1>18. /\ ~rd2[n] /\ ~rd2[f] /\ (rd2[c] <=> rd[n])
       /\ \A x \in S : x # n /\ x # c /\ x # f => rd2[x] = rd[x]
  BY <1>2, <1>4
<1> HIDE DEF rd2, h2
<1>19. /\ H(h2, m) = h[m] - 1 /\ H(h2, n) = h[c] /\ H(h2, c) = h[n] /\ H(h2, f) = h[f] + 1
       /\ \A x \in S \cup {NULL} : x # m /\ x # n /\ x # c /\ x # f => H(h2, x) = H(h, x)
  BY <1>1, <1>2, <1>17 DEF H
<1>20. \A y \in S : Black(rd2, NULL, y) = IF rd2[y] THEN 0 ELSE 1
  BY <1>1 DEF Black, Ruddy
<1>21. ASSUME NEW y \in S
       PROVE  IF y = g THEN h2[y] = H(h2, NULL) + Lacks(NULL, y)
              ELSE /\ H(h2, L2[y]) = H(h2, R2[y])
                   /\ h2[y] = H(h2, L2[y]) + Black(rd2, NULL, y) + Lacks(NULL, y)
  <2>1. H(h2, NULL) = 0 /\ Lacks(NULL, y) = 0
    BY <1>8 DEF H
  <2>2. /\ L[y] \in S \cup {NULL} /\ (L[y] # NULL => P[L[y]] = y)
        /\ R[y] \in S \cup {NULL} /\ (R[y] # NULL => P[R[y]] = y)
    BY DEF LinksOK
  <2>3. CASE y = n
    <3>1. L2[n] = m /\ R2[n] = L[c]
      BY <1>2, <1>3, <1>4
    <3>2. H(h2, L2[n]) = h[m] - 1 /\ H(h2, R2[n]) = h[f]
      BY <3>1, <1>4, <1>5, <1>14, <1>19, <1>1
    <3>3. Black(rd2, NULL, n) = 1
      BY <1>2, <1>18, <1>20
    <3> QED BY <2>1, <2>3, <3>2, <3>3, <1>11, <1>13, <1>14, <1>17
  <2>4. CASE y = c
    <3>1. L2[c] = n /\ R2[c] = f
      BY <1>2, <1>3, <1>4
    <3>2. H(h2, L2[c]) = h[c] /\ H(h2, R2[c]) = h[f] + 1
      BY <3>1, <1>19
    <3>3. Black(rd2, NULL, c) = Black(rd, NULL, n) /\ Black(rd, NULL, n) \in Nat
      BY <1>2, <1>9, <1>18, <1>20
    <3> QED BY <2>1, <2>4, <3>2, <3>3, <1>11, <1>13, <1>14, <1>17
  <2>5. CASE y = f
    <3>4. lo[n] < lo[f] /\ lo[f] < pos[f] /\ lo[n] \in Int /\ lo[f] \in Int /\ pos[f] \in Int
      <4>1. lo[n] < pos[n] /\ lo[c] = pos[n] /\ lo[c] < pos[c] /\ lo[f] = pos[c] /\ lo[f] < pos[f]
        BY <1>1, <1>2 DEF PlacesOK
      <4>2. lo[n] \in Int /\ pos[n] \in Int /\ pos[c] \in Int /\ pos[f] \in Int
        BY <1>2
      <4> QED BY <4>1, <4>2
    <3>5. L[f] # n /\ R[f] # n
      <4>1. (L[f] = n => lo[n] = lo[f]) /\ (R[f] = n => lo[n] = pos[f])
        BY <1>1, <1>2 DEF PlacesOK
      <4> QED BY <4>1, <3>4
    <3>1. L2[f] = L[f] /\ R2[f] = R[f]
      BY <3>5, <1>2, <1>3, <1>4
    <3>6. \A z \in S \cup {NULL} : (z # NULL => P[z] = f) => z # m /\ z # c /\ z # f
      BY <2>2, <2>5, <1>1, <1>2, <1>4
    <3>2. H(h2, L[f]) = H(h, L[f]) /\ H(h2, R[f]) = H(h, R[f])
      BY <2>2, <2>5, <3>5, <3>6, <1>19
    <3>3. Black(rd2, NULL, f) = 1
      BY <1>18, <1>20
    <3> QED BY <2>1, <2>5, <3>1, <3>2, <3>3, <1>11, <1>15, <1>17
  <2>6. CASE y # n /\ y # c /\ y # f
    <3>10. \A z \in S \cup {NULL} : (z # NULL => P[z] = y) => z # m /\ z # c /\ z # f
      BY <2>6, <1>1, <1>2, <1>4
    <3>11. \A z \in S \cup {NULL} : (z # NULL => P[z] = y) /\ z # n => H(h2, z) = H(h, z)
      BY <3>10, <1>19
    <3>12. H(h2, c) = H(h, n)
      BY <1>1, <1>2, <1>7, <1>19
    <3>13. L2[y] = (IF L[y] = n THEN c ELSE L[y]) /\ R2[y] = IF R[y] = n THEN c ELSE R[y]
      BY <2>2, <2>6, <1>1, <1>2, <1>3
    <3>1. H(h2, L2[y]) = H(h, L[y])
      BY <2>2, <3>11, <3>12, <3>13
    <3>2. H(h2, R2[y]) = H(h, R[y])
      BY <2>2, <3>11, <3>12, <3>13
    <3>3. Black(rd2, NULL, y) = Black(rd, NULL, y) /\ Black(rd, NULL, y) \in Nat
      BY <2>6, <1>9, <1>18, <1>20
    <3>4. h2[y] + Lacks(m, y) = h[y]
      BY <2>6, <1>8, <1>11, <1>12, <1>17
    <3>5. H(h, L[y]) \in Nat /\ h2[y] \in Nat /\ Lacks(m, y) \in Nat
      BY <2>2, <1>7, <1>8, <1>16
    <3>6. IF y = g THEN h[y] = 0 + Lacks(m, y)
                   ELSE /\ H(h, L[y]) = H(h, R[y])
                        /\ h[y] = H(h, L[y]) + Black(rd, NULL, y) + Lacks(m, y)
      BY <1>6
    <3> QED BY <2>1, <3>1, <3>2, <3>3, <3>4, <3>5, <3>6
  <2> QED BY <2>3, <2>4, <2>5, <2>6
<1>22. HeightRule(S, L2, R2, rd2, NULL, NULL, g, NULL, h2)
  BY <1>21 DEF HeightRule
<1> QED BY <1>16, <1>22 DEF rd2, Level
-----------------------------------------------------------------------------
(* Steps of the rebalancing.                                               *)

\* What the invariant says of a tree whose members are all linked.
LEMMA Between ==
  ASSUME IInv, pc # "nodeAdd"
  PROVE  /\ TypedOK /\ CallOK /\ ZeroedOK /\ PhaseOK
         /\ Linked = members /\ members \in SUBSET Node /\ NULL \notin members
         /\ pRoot \in Ref /\ pLeft \in [Node -> Ref] /\ pRight \in [Node -> Ref]
         /\ pParent \in [Node -> Ref] /\ red \in [Node -> BOOLEAN]
         /\ LinksOK(members, pRoot, pLeft, pRight, pParent)
         /\ \E pos, lo, hi \in [Node -> Int] :
              /\ PlacesOK(members, pRoot, pLeft, pRight, pos, lo, hi)
              /\ SortedOK(pos) /\ ShapeOK(pos, lo, hi)
         /\ ColourRule(members, pRoot, pLeft, pRight, red, Painted, Excused)
         /\ \E h \in [Node -> Nat] :
              HeightRule(members, pLeft, pRight, red, Painted, ShortAt, Leaving, pChild, h)
<1>1. Linked = members
  BY DEF Linked
<1>2. members \in SUBSET Node /\ NULL \notin members
  BY NullOutside DEF IInv, TypedOK
<1>3. PICK pos \in [Node -> Int], lo \in [Node -> Int], hi \in [Node -> Int] : ShapeOK(pos, lo, hi)
  BY DEF IInv
<1>4. /\ LinksOK(members, pRoot, pLeft, pRight, pParent)
      /\ PlacesOK(members, pRoot, pLeft, pRight, pos, lo, hi) /\ SortedOK(pos)
  BY <1>1, <1>3 DEF ShapeOK
<1>5. \E p, l, u \in [Node -> Int] :
        /\ PlacesOK(members, pRoot, pLeft, pRight, p, l, u)
        /\ SortedOK(p) /\ ShapeOK(p, l, u)
  BY <1>3, <1>4
<1>6. TypedOK /\ CallOK /\ ZeroedOK /\ PhaseOK /\ ColoursOK
  BY DEF IInv
<1>7. PICK h \in [Node -> Nat] : HeightsOK(h)
  BY DEF IInv
<1>8. HeightRule(members, pLeft, pRight, red, Painted, ShortAt, Leaving, pChild, h)
  BY <1>1, <1>7 DEF HeightsOK
<1>9. ColourRule(members, pRoot, pLeft, pRight, red, Painted, Excused)
  BY <1>1, <1>6 DEF ColoursOK
<1> QED BY <1>1, <1>2, <1>4, <1>5, <1>6, <1>8, <1>9 DEF TypedOK

\* A step that neither links nor unlinks a node leaves the others alone.
LEMMA OthersStay ==
  ASSUME TypedOK, ZeroedOK, pc # "nodeAdd", pc' # "nodeAdd", members' = members,
         u32NumNode' = u32NumNode,
         pRoot' \in Ref, pLeft' \in [Node -> Ref], pRight' \in [Node -> Ref],
         pParent' \in [Node -> Ref], red' \in [Node -> BOOLEAN],
         pNode' \in Ref, pDown' \in Ref, pOut' \in Ref, pChild' \in Ref,
         \A x \in Node \ members :
           /\ pLeft'[x] = pLeft[x] /\ pRight'[x] = pRight[x] /\ pParent'[x] = pParent[x]
           /\ red'[x] = red[x]
  PROVE  TypedOK' /\ ZeroedOK' /\ Linked' = members
<1>1. Linked = members /\ Linked' = members
  BY DEF Linked
<1>2. TypedOK'
  BY <1>1 DEF TypedOK
<1>3. ZeroedOK'
  BY <1>1 DEF ZeroedOK
<1> QED BY <1>1, <1>2, <1>3

\* The other child of a node's parent.
LEMMA SiblingIs ==
  ASSUME NEW S \in SUBSET Node, LinksOK(S, pRoot, pLeft, pRight, pParent),
         KinOK(S, pLeft, pRight, pParent), NEW n \in S, pParent[n] # NULL
  PROVE  /\ n # NULL /\ pParent[n] \in S /\ pParent[n] # n
         /\ Sibling(n) \in S \cup {NULL} /\ Sibling(n) # n /\ Sibling(n) # pParent[n]
         /\ Sibling(n) # NULL => pParent[Sibling(n)] = pParent[n]
         /\ IF IsLeft(n)
            THEN /\ n = pLeft[pParent[n]] /\ Sibling(n) = pRight[pParent[n]]
                 /\ n # pRight[pParent[n]]
            ELSE /\ n = pRight[pParent[n]] /\ Sibling(n) = pLeft[pParent[n]]
                 /\ n # pLeft[pParent[n]]
<1> DEFINE p == pParent[n]
<1>1. n # NULL /\ p \in S /\ p # n /\ (n = pLeft[p] \/ n = pRight[p])
  BY DEF KinOK
<1>2. /\ pLeft[p] \in S \cup {NULL} /\ pRight[p] \in S \cup {NULL}
      /\ pLeft[p] # p /\ pRight[p] # p /\ (pLeft[p] # NULL => pLeft[p] # pRight[p])
  BY <1>1 DEF KinOK
<1>3. (pLeft[p] # NULL => pParent[pLeft[p]] = p) /\ (pRight[p] # NULL => pParent[pRight[p]] = p)
  BY <1>1 DEF LinksOK
<1>4. IsLeft(n) <=> n = pLeft[p]
  BY DEF IsLeft
<1>5. Sibling(n) = IF IsLeft(n) THEN pRight[p] ELSE pLeft[p]
  BY DEF Sibling
<1>6. CASE IsLeft(n)
  <2>1. n = pLeft[p] /\ Sibling(n) = pRight[p]
    BY <1>4, <1>5, <1>6
  <2> QED BY <1>1, <1>2, <1>3, <2>1, <1>6
<1>7. CASE ~IsLeft(n)
  <2>1. n = pRight[p] /\ Sibling(n) = pLeft[p] /\ n # pLeft[p]
    BY <1>1, <1>4, <1>5, <1>7
  <2> QED BY <1>1, <1>2, <1>3, <2>1, <1>7
<1> QED BY <1>6, <1>7

\* insertRootCheck paints the node red, or black at the root.
LEMMA InsertRootCheckKeeps ==
  ASSUME IInv, InsertRootCheck
  PROVE  IInv'
<1> DEFINE x == pNode
<1>1. /\ pc = "insertRootCheck" /\ members' = members /\ u32NumNode' = u32NumNode
      /\ pRoot' = pRoot /\ pLeft' = pLeft /\ pRight' = pRight /\ pParent' = pParent
      /\ red' = [red EXCEPT ![x] = pParent[x] # NULL]
      /\ IF pParent[x] = NULL
         THEN pc' = "idle" /\ pNode' = NULL /\ pDown' = NULL /\ pOut' = NULL /\ pChild' = NULL
         ELSE /\ pc' = "insertParentCheck" /\ pNode' = x /\ pDown' = pDown /\ pOut' = pOut
              /\ pChild' = pChild
  BY DEF InsertRootCheck, tree, call, Goto, Return
<1>2. /\ TypedOK /\ CallOK /\ ZeroedOK /\ PhaseOK
      /\ Linked = members /\ members \in SUBSET Node /\ NULL \notin members
      /\ pRoot \in Ref /\ pLeft \in [Node -> Ref] /\ pRight \in [Node -> Ref]
      /\ pParent \in [Node -> Ref] /\ red \in [Node -> BOOLEAN]
      /\ LinksOK(members, pRoot, pLeft, pRight, pParent)
      /\ ColourRule(members, pRoot, pLeft, pRight, red, Painted, Excused)
  BY <1>1, Between
<1>3. PICK pos \in [Node -> Int], lo \in [Node -> Int], hi \in [Node -> Int] : ShapeOK(pos, lo, hi)
  BY DEF IInv
<1>4. PICK h \in [Node -> Nat] :
        HeightRule(members, pLeft, pRight, red, Painted, ShortAt, Leaving, pChild, h)
  BY <1>1, Between
<1>5. x \in members /\ x \in Node /\ x # NULL /\ pOut = NULL /\ pChild = NULL
  BY <1>1, <1>2 DEF CallOK, Inserting, Removing, Short
<1>6. /\ Painted = x /\ Excused = x /\ ShortAt = NULL /\ Leaving = NULL
      /\ Painted' = NULL /\ Excused' = pNode' /\ ShortAt' = NULL /\ Leaving' = NULL
  BY <1>1 DEF Painted, Excused, ShortAt, Leaving, Inserting, Short
<1>7. TypedOK' /\ ZeroedOK' /\ Linked' = members
  <2>1. /\ red' \in [Node -> BOOLEAN] /\ pNode' \in Ref /\ pDown' \in Ref /\ pOut' \in Ref
        /\ pChild' \in Ref
    BY <1>1, <1>2 DEF TypedOK, Ref
  <2>2. \A y \in Node \ members : red'[y] = red[y]
    BY <1>1, <1>2, <1>5
  <2> QED BY <2>1, <2>2, <1>1, <1>2, OthersStay
<1>8. CallOK' /\ PhaseOK'
  BY <1>1, <1>2, <1>5 DEF CallOK, PhaseOK, Removing, Short, Inserting
<1>9. ShapeOK(pos, lo, hi)'
  <2>1. pc' # "nodeAdd" /\ pOut' = pOut /\ Linked' = Linked /\ UNCHANGED tree
    BY <1>1, <1>2, <1>5, <1>7 DEF tree
  <2> QED BY <2>1, <1>3, ShapeStays
<1>10. \A y \in members : /\ pLeft[y] \in members \cup {NULL} /\ pRight[y] \in members \cup {NULL}
                          /\ pLeft[y] # NULL => pParent[pLeft[y]] = y
                          /\ pRight[y] # NULL => pParent[pRight[y]] = y
                          /\ y = pRoot <=> pParent[y] = NULL
  BY <1>2 DEF LinksOK
<1>11. CASE pParent[x] = NULL
  <2>1. \A y \in members : pLeft[y] # x /\ pRight[y] # x
    BY <1>5, <1>10, <1>11, <1>2
  <2>2. ~red'[x] /\ (\A y \in members : y # x => red'[y] = red[y]) /\ x = pRoot
    BY <1>1, <1>2, <1>5, <1>10, <1>11
  <2>3. \A y \in members \cup {NULL} : Ruddy(red', NULL, y) => Ruddy(red, x, y) /\ y # x
    BY <2>2, <1>2 DEF Ruddy
  <2>4. ColourRule(members, pRoot, pLeft, pRight, red', NULL, NULL)
    BY <2>1, <2>2, <2>3, <1>2, <1>5, <1>6, <1>10 DEF ColourRule
  <2>5. ColoursOK'
    <3>1. Excused' = NULL
      BY <1>1, <1>6, <1>11
    <3> QED BY <3>1, <2>4, <1>1, <1>6, <1>7 DEF ColoursOK
  <2>6. \E g \in [Node -> Nat] : HeightRule(Linked', pLeft', pRight', red', Painted', ShortAt',
                                            Leaving', pChild', g)
    <3> DEFINE g == [h EXCEPT ![x] = h[x] + 1]
    <3>1. /\ g \in [Node -> Nat] /\ g[x] = h[x] + 1
          /\ \A y \in members : y # x => g[y] = h[y]
      BY <1>2, <1>5
    <3> HIDE DEF g
    <3>2. ASSUME NEW y \in members
          PROVE  /\ H(g, pLeft[y]) = H(g, pRight[y])
                 /\ g[y] = H(g, pLeft[y]) + Black(red', NULL, y) + Lacks(NULL, y)
      <4>1. /\ H(h, pLeft[y]) = H(h, pRight[y])
            /\ h[y] = H(h, pLeft[y]) + Black(red, x, y) + Lacks(NULL, y)
        BY <1>2, <1>4, <1>6 DEF HeightRule
      <4>2. H(g, pLeft[y]) = H(h, pLeft[y]) /\ H(g, pRight[y]) = H(h, pRight[y])
        BY <1>10, <2>1, <3>1 DEF H
      <4>3. H(h, pLeft[y]) \in Nat /\ Lacks(NULL, y) = 0 /\ h[y] \in Nat
        BY <1>2, <1>10 DEF H, Lacks
      <4>4. CASE y = x
        <5>1. Black(red, x, y) = 0 /\ Black(red', NULL, y) = 1
          BY <4>4, <2>2, <1>5 DEF Black, Ruddy
        <5> QED BY <4>1, <4>2, <4>3, <4>4, <5>1, <3>1
      <4>5. CASE y # x
        <5>1. Black(red', NULL, y) = Black(red, x, y)
          BY <4>5, <2>2, <1>2 DEF Black, Ruddy
        <5> QED BY <4>1, <4>2, <4>3, <4>5, <5>1, <3>1
      <4> QED BY <4>4, <4>5
    <3>3. HeightRule(members, pLeft, pRight, red', NULL, NULL, NULL, NULL, g)
      BY <3>2, <1>2 DEF HeightRule
    <3>4. pChild' = NULL
      BY <1>1, <1>5
    <3> QED BY <3>1, <3>3, <3>4, <1>1, <1>6, <1>7
  <2> QED BY <2>5, <2>6, <1>3, <1>7, <1>8, <1>9 DEF IInv, HeightsOK
<1>12. CASE pParent[x] # NULL
  <2>1. red'[x] /\ (\A y \in members : y # x => red'[y] = red[y]) /\ x # pRoot
    BY <1>1, <1>2, <1>5, <1>10, <1>12
  <2>2. \A y \in members \cup {NULL} : Ruddy(red', NULL, y) <=> Ruddy(red, x, y)
    BY <2>1, <1>2 DEF Ruddy
  <2>3. pRoot \in members \cup {NULL}
    BY <1>2 DEF LinksOK
  <2>4. ColourRule(members, pRoot, pLeft, pRight, red', NULL, x)
    BY <2>1, <2>2, <2>3, <1>2, <1>6, <1>10 DEF ColourRule
  <2>5. ColoursOK'
    <3>1. Excused' = x
      BY <1>1, <1>6, <1>12
    <3> QED BY <3>1, <2>4, <1>1, <1>6, <1>7 DEF ColoursOK
  <2>6. HeightRule(members, pLeft, pRight, red', NULL, NULL, NULL, NULL, h)
    <3>1. \A y \in members : Black(red', NULL, y) = Black(red, x, y)
      BY <2>2 DEF Black
    <3> QED BY <3>1, <1>2, <1>4, <1>5, <1>6 DEF HeightRule
  <2>7. \E g \in [Node -> Nat] : HeightRule(Linked', pLeft', pRight', red', Painted', ShortAt',
                                            Leaving', pChild', g)
    <3>1. pChild' = NULL
      BY <1>1, <1>5
    <3> QED BY <3>1, <2>6, <1>1, <1>6, <1>7
  <2> QED BY <2>5, <2>7, <1>3, <1>7, <1>8, <1>9 DEF IInv, HeightsOK
<1> QED BY <1>11, <1>12

\* Below a black parent the red node may stay.
LEMMA InsertParentCheckKeeps ==
  ASSUME IInv, InsertParentCheck
  PROVE  IInv'
<1> DEFINE x == pNode
<1>1. /\ pc = "insertParentCheck" /\ members' = members /\ u32NumNode' = u32NumNode
      /\ pRoot' = pRoot /\ pLeft' = pLeft /\ pRight' = pRight /\ pParent' = pParent
      /\ red' = red
      /\ IF red[pParent[x]]
         THEN /\ pc' = "insertUncleCheck" /\ pNode' = x /\ pDown' = pDown /\ pOut' = pOut
              /\ pChild' = pChild
         ELSE pc' = "idle" /\ pNode' = NULL /\ pDown' = NULL /\ pOut' = NULL /\ pChild' = NULL
  BY DEF InsertParentCheck, tree, call, Goto, Return
<1>2. /\ TypedOK /\ CallOK /\ ZeroedOK /\ PhaseOK
      /\ Linked = members /\ members \in SUBSET Node /\ NULL \notin members
      /\ pRoot \in Ref /\ pLeft \in [Node -> Ref] /\ pRight \in [Node -> Ref]
      /\ pParent \in [Node -> Ref] /\ red \in [Node -> BOOLEAN]
      /\ LinksOK(members, pRoot, pLeft, pRight, pParent)
      /\ ColourRule(members, pRoot, pLeft, pRight, red, Painted, Excused)
  BY <1>1, Between
<1>3. PICK pos \in [Node -> Int], lo \in [Node -> Int], hi \in [Node -> Int] : ShapeOK(pos, lo, hi)
  BY DEF IInv
<1>4. PICK h \in [Node -> Nat] :
        HeightRule(members, pLeft, pRight, red, Painted, ShortAt, Leaving, pChild, h)
  BY <1>1, Between
<1>5. x \in members /\ x \in Node /\ x # NULL /\ pOut = NULL /\ pChild = NULL
  BY <1>1, <1>2 DEF CallOK, Inserting, Removing, Short
<1>6. /\ Painted = NULL /\ Excused = x /\ ShortAt = NULL /\ Leaving = NULL
      /\ Painted' = NULL /\ Excused' = pNode' /\ ShortAt' = NULL /\ Leaving' = NULL
  BY <1>1 DEF Painted, Excused, ShortAt, Leaving, Inserting, Short
<1>7. TypedOK' /\ ZeroedOK' /\ Linked' = members
  <2>1. pNode' \in Ref /\ pDown' \in Ref /\ pOut' \in Ref /\ pChild' \in Ref
    BY <1>1, <1>2 DEF TypedOK, Ref
  <2> QED BY <2>1, <1>1, <1>2, OthersStay
<1>8. CallOK' /\ PhaseOK'
  BY <1>1, <1>2, <1>5 DEF CallOK, PhaseOK, Removing, Short, Inserting
<1>9. ShapeOK(pos, lo, hi)'
  <2>1. pc' # "nodeAdd" /\ pOut' = pOut /\ Linked' = Linked /\ UNCHANGED tree
    BY <1>1, <1>2, <1>5, <1>7 DEF tree
  <2> QED BY <2>1, <1>3, ShapeStays
<1>10. \A y \in members : /\ pLeft[y] \in members \cup {NULL} /\ pRight[y] \in members \cup {NULL}
                          /\ pLeft[y] # NULL => pParent[pLeft[y]] = y
                          /\ pRight[y] # NULL => pParent[pRight[y]] = y
  BY <1>2 DEF LinksOK
<1>11. ColoursOK'
  <2>1. CASE red[pParent[x]]
    BY <2>1, <1>1, <1>2, <1>6, <1>7 DEF ColoursOK
  <2>2. CASE ~red[pParent[x]]
    <3>1. \A y \in members : Ruddy(red, NULL, y) => pLeft[y] # x /\ pRight[y] # x
      BY <2>2, <1>5, <1>10 DEF Ruddy
    <3>2. ColourRule(members, pRoot, pLeft, pRight, red, NULL, NULL)
      BY <3>1, <1>2, <1>6 DEF ColourRule
    <3>3. Excused' = NULL
      BY <2>2, <1>1, <1>6
    <3> QED BY <3>2, <3>3, <1>1, <1>6, <1>7 DEF ColoursOK
  <2> QED BY <2>1, <2>2
<1>12. \E g \in [Node -> Nat] : HeightRule(Linked', pLeft', pRight', red', Painted', ShortAt',
                                           Leaving', pChild', g)
  <2>1. pChild' = NULL
    BY <1>1, <1>5
  <2> QED BY <2>1, <1>1, <1>4, <1>5, <1>6, <1>7
<1> QED BY <1>7, <1>8, <1>9, <1>11, <1>12 DEF IInv, HeightsOK

\* The grandparent of a red node whose parent is red, and its uncle.
LEMMA GrandParentIs ==
  ASSUME NEW S \in SUBSET Node, LinksOK(S, pRoot, pLeft, pRight, pParent),
         KinOK(S, pLeft, pRight, pParent), NULL \notin S,
         NEW n \in S, pParent[n] # NULL, red[pParent[n]],
         ColourRule(S, pRoot, pLeft, pRight, red, NULL, n)
  PROVE  /\ pParent[n] \in S /\ GrandParent(n) \in S /\ GrandParent(n) = pParent[pParent[n]]
         /\ GrandParent(n) # n /\ GrandParent(n) # pParent[n] /\ pParent[n] # n
         /\ ~red[GrandParent(n)] /\ pParent[n] # pRoot
         /\ Uncle(n) \in S \cup {NULL} /\ Uncle(n) # n /\ Uncle(n) # pParent[n]
         /\ Uncle(n) # GrandParent(n)
         /\ Uncle(n) # NULL => pParent[Uncle(n)] = GrandParent(n)
         /\ \/ pParent[n] = pLeft[GrandParent(n)] /\ Uncle(n) = pRight[GrandParent(n)]
            \/ pParent[n] = pRight[GrandParent(n)] /\ Uncle(n) = pLeft[GrandParent(n)]
         /\ n = pLeft[pParent[n]] \/ n = pRight[pParent[n]]
<1> DEFINE p == pParent[n]
<1>1. p \in S /\ p # n /\ pParent[p] \in S \cup {NULL} /\ pParent[p] # p /\ pParent[p] # n
      /\ p # NULL /\ n # NULL /\ (n = pLeft[p] \/ n = pRight[p])
  BY DEF KinOK
<1>2. p # pRoot /\ pRoot # n /\ pRoot \in S
  <2>1. ~Ruddy(red, NULL, pRoot)
    BY DEF ColourRule, Ruddy
  <2>2. Ruddy(red, NULL, p)
    BY <1>1 DEF Ruddy
  <2> QED BY <2>1, <2>2, <1>1 DEF LinksOK
<1>3. pParent[p] # NULL
  BY <1>1, <1>2 DEF LinksOK
<1> DEFINE g == pParent[p]
<1>4. g \in S /\ g = GrandParent(n)
  BY <1>1, <1>3 DEF GrandParent
<1>5. Uncle(n) = Sibling(p)
  BY <1>1 DEF Uncle
<1>6. /\ Sibling(p) \in S \cup {NULL} /\ Sibling(p) # p /\ Sibling(p) # g
      /\ Sibling(p) # NULL => pParent[Sibling(p)] = g
      /\ \/ p = pLeft[g] /\ Sibling(p) = pRight[g]
         \/ p = pRight[g] /\ Sibling(p) = pLeft[g]
  <2>1. p \in S /\ pParent[p] # NULL
    BY <1>1, <1>3
  <2> HIDE DEF p
  <2> QED BY <2>1, SiblingIs
<1>7. Sibling(p) # n
  BY <1>1, <1>6
<1>8. ~red[g]
  <2>1. Ruddy(red, NULL, p) /\ (red[g] => Ruddy(red, NULL, g))
    BY <1>1, <1>3 DEF Ruddy
  <2>2. p = pLeft[g] \/ p = pRight[g]
    BY <1>6
  <2> QED BY <1>1, <1>4, <2>1, <2>2 DEF ColourRule
<1> QED BY <1>1, <1>2, <1>3, <1>4, <1>5, <1>6, <1>7, <1>8

\* A red uncle: the red of the parent and the uncle goes up to the grandparent.
LEMMA InsertUncleCheckKeeps ==
  ASSUME IInv, InsertUncleCheck
  PROVE  IInv'
<1> DEFINE x == pNode
<1> DEFINE p == pParent[x]
<1> DEFINE g == GrandParent(x)
<1> DEFINE u == Uncle(x)
<1>1. /\ pc = "insertUncleCheck" /\ members' = members /\ u32NumNode' = u32NumNode
      /\ pRoot' = pRoot /\ pLeft' = pLeft /\ pRight' = pRight /\ pParent' = pParent
      /\ pDown' = pDown /\ pOut' = pOut /\ pChild' = pChild
      /\ IF IsRed(u)
         THEN /\ red' = [red EXCEPT ![p] = FALSE, ![u] = FALSE, ![g] = TRUE]
              /\ pc' = "insertRootCheck" /\ pNode' = g
         ELSE pc' = "insertParentAdjust" /\ pNode' = x /\ red' = red
  BY DEF InsertUncleCheck, tree, Goto
<1>2. /\ TypedOK /\ CallOK /\ ZeroedOK /\ PhaseOK
      /\ Linked = members /\ members \in SUBSET Node /\ NULL \notin members
      /\ pRoot \in Ref /\ pLeft \in [Node -> Ref] /\ pRight \in [Node -> Ref]
      /\ pParent \in [Node -> Ref] /\ red \in [Node -> BOOLEAN]
      /\ LinksOK(members, pRoot, pLeft, pRight, pParent)
      /\ ColourRule(members, pRoot, pLeft, pRight, red, Painted, Excused)
  BY <1>1, Between
<1>3. PICK pos \in [Node -> Int], lo \in [Node -> Int], hi \in [Node -> Int] :
        PlacesOK(members, pRoot, pLeft, pRight, pos, lo, hi) /\ ShapeOK(pos, lo, hi)
  BY <1>1, Between
<1>4. PICK h \in [Node -> Nat] :
        HeightRule(members, pLeft, pRight, red, Painted, ShortAt, Leaving, pChild, h)
  BY <1>1, Between
<1>5. x \in members /\ x \in Node /\ x # NULL /\ pOut = NULL /\ pChild = NULL
  BY <1>1, <1>2 DEF CallOK, Inserting, Removing, Short
<1>6. /\ Painted = NULL /\ Excused = x /\ ShortAt = NULL /\ Leaving = NULL
      /\ Excused' = pNode' /\ ShortAt' = NULL /\ Leaving' = NULL
      /\ Painted' = IF IsRed(u) THEN g ELSE NULL
  BY <1>1 DEF Painted, Excused, ShortAt, Leaving, Inserting, Short
<1>7. KinOK(members, pLeft, pRight, pParent)
  BY <1>2, <1>3, Kin
<1>8. red[x] /\ pParent[x] # NULL /\ red[p]
  BY <1>1, <1>2 DEF PhaseOK, Inserting
<1>9. /\ p \in members /\ g \in members /\ g = pParent[p]
      /\ g # x /\ g # p /\ p # x /\ ~red[g] /\ p # pRoot
      /\ u \in members \cup {NULL} /\ u # x /\ u # p /\ u # g
      /\ u # NULL => pParent[u] = g
      /\ \/ p = pLeft[g] /\ u = pRight[g]
         \/ p = pRight[g] /\ u = pLeft[g]
  BY <1>2, <1>5, <1>6, <1>7, <1>8, GrandParentIs
<1> HIDE DEF x, p, g, u
<1>10. TypedOK' /\ ZeroedOK' /\ Linked' = members
  <2>1. /\ pNode' \in Ref /\ pDown' \in Ref /\ pOut' \in Ref /\ pChild' \in Ref
        /\ red' \in [Node -> BOOLEAN]
    BY <1>1, <1>2, <1>5, <1>9 DEF TypedOK, Ref
  <2>2. \A y \in Node \ members : red'[y] = red[y]
    <3>1. CASE IsRed(u)
      <4>1. u \in members
        BY <3>1, <1>9 DEF IsRed
      <4> QED BY <4>1, <3>1, <1>1, <1>2, <1>9
    <3>2. CASE ~IsRed(u)
      BY <3>2, <1>1
    <3> QED BY <3>1, <3>2
  <2> QED BY <2>1, <2>2, <1>1, <1>2, OthersStay
<1>11. ShapeOK(pos, lo, hi)'
  <2>1. pc' # "nodeAdd" /\ pOut' = pOut /\ Linked' = Linked /\ UNCHANGED tree
    BY <1>1, <1>2, <1>10 DEF tree
  <2> QED BY <2>1, <1>3, ShapeStays
<1>12. \A y \in members : /\ pLeft[y] \in members \cup {NULL} /\ pRight[y] \in members \cup {NULL}
                          /\ pLeft[y] # NULL => pParent[pLeft[y]] = y
                          /\ pRight[y] # NULL => pParent[pRight[y]] = y
  BY <1>2 DEF LinksOK
<1>13. pChild' = NULL
  BY <1>1, <1>5
<1>14. CASE ~IsRed(u)
  <2>1. CallOK'
    BY <1>1, <1>2, <1>5, <1>14 DEF CallOK, Removing, Short, Inserting
  <2>2. PhaseOK'
    <3>1. ~IsRed(Uncle(pNode))' 
      BY <1>1, <1>14 DEF IsRed, Uncle, Sibling, IsLeft, x, u
    <3>2. pc' = "insertParentAdjust" /\ red'[pNode'] /\ pParent'[pNode'] # NULL /\ red'[pParent'[pNode']]
      BY <1>1, <1>8, <1>14 DEF p
    <3> QED BY <3>1, <3>2 DEF PhaseOK, Inserting, Short
  <2>3. ColoursOK'
    BY <1>1, <1>2, <1>6, <1>10, <1>14 DEF ColoursOK
  <2>4. \E f \in [Node -> Nat] : HeightRule(Linked', pLeft', pRight', red', Painted', ShortAt',
                                            Leaving', pChild', f)
    BY <1>1, <1>4, <1>5, <1>6, <1>10, <1>13, <1>14
  <2> QED BY <2>1, <2>2, <2>3, <2>4, <1>10, <1>11 DEF IInv, HeightsOK
<1>15. CASE IsRed(u)
  <2>1. u \in members /\ red[u]
    BY <1>9, <1>15 DEF IsRed
  <2>2. CallOK' /\ PhaseOK'
    BY <1>1, <1>5, <1>9, <1>15 DEF CallOK, PhaseOK, Removing, Short, Inserting
  <2>3. /\ ~red'[p] /\ ~red'[u] /\ red'[g]
        /\ \A y \in members : y # p /\ y # u /\ y # g => red'[y] = red[y]
    BY <2>1, <1>1, <1>2, <1>9, <1>15
  <2>4. ColoursOK'
    <3>1. pRoot # NULL => pRoot \in members
      BY <1>2 DEF LinksOK
    <3>2. Ruddy(red', g, pRoot) => pRoot = g
      BY <3>1, <2>3, <1>2, <1>6, <1>8 DEF ColourRule, Ruddy
    <3>3. ASSUME NEW y \in members, Ruddy(red', g, y)
          PROVE  /\ Ruddy(red', g, pLeft[y]) => pLeft[y] = g
                 /\ Ruddy(red', g, pRight[y]) => pRight[y] = g
      <4>1. CASE y = g
        BY <4>1, <2>3, <1>9 DEF Ruddy
      <4>2. CASE y # g
        <5>1. Ruddy(red, NULL, y) /\ y # p /\ y # u
          BY <4>2, <3>3, <2>3 DEF Ruddy
        <5>2. pLeft[y] # x /\ pRight[y] # x
          BY <5>1, <1>5, <1>12 DEF p
        <5>3. ~Ruddy(red, NULL, pLeft[y]) /\ ~Ruddy(red, NULL, pRight[y])
          BY <5>1, <5>2, <1>2, <1>6 DEF ColourRule
        <5> QED BY <5>3, <2>3, <1>12 DEF Ruddy
      <4> QED BY <4>1, <4>2
    <3>4. ColourRule(members, pRoot, pLeft, pRight, red', g, g)
      BY <3>2, <3>3 DEF ColourRule
    <3>5. Painted' = g /\ Excused' = g
      BY <1>1, <1>6, <1>15
    <3> QED BY <3>4, <3>5, <1>1, <1>10 DEF ColoursOK
  <2>5. \E f \in [Node -> Nat] : HeightRule(Linked', pLeft', pRight', red', Painted', ShortAt',
                                            Leaving', pChild', f)
    <3> DEFINE f == [h EXCEPT ![p] = h[p] + 1, ![u] = h[u] + 1]
    <3>1. /\ f \in [Node -> Nat] /\ f[p] = h[p] + 1 /\ f[u] = h[u] + 1
          /\ \A y \in members : y # p /\ y # u => f[y] = h[y]
      BY <2>1, <1>2, <1>9
    <3> HIDE DEF f
    <3>2. ASSUME NEW y \in members
          PROVE  /\ H(f, pLeft[y]) = H(f, pRight[y])
                 /\ f[y] = H(f, pLeft[y]) + Black(red', g, y) + Lacks(NULL, y)
      <4>1. /\ H(h, pLeft[y]) = H(h, pRight[y])
            /\ h[y] = H(h, pLeft[y]) + Black(red, NULL, y) + Lacks(NULL, y)
        BY <1>2, <1>4, <1>6 DEF HeightRule
      <4>2. H(h, pLeft[y]) \in Nat /\ Lacks(NULL, y) = 0 /\ h[y] \in Nat
        BY <1>2, <1>12 DEF H, Lacks
      <4>3. CASE y = g
        <5>1. Black(red, NULL, y) = 1 /\ Black(red', g, y) = 0
          BY <4>3, <1>2, <1>9 DEF Black, Ruddy
        <5>2. /\ H(h, pLeft[y]) = h[pLeft[y]] /\ H(h, pRight[y]) = h[pRight[y]]
              /\ H(f, pLeft[y]) = h[pLeft[y]] + 1 /\ H(f, pRight[y]) = h[pRight[y]] + 1
          BY <4>3, <3>1, <2>1, <1>2, <1>9 DEF H
        <5> QED BY <5>1, <5>2, <4>1, <4>2, <4>3, <3>1, <1>9
      <4>4. CASE y # g
        <5>1. /\ pLeft[y] # p /\ pLeft[y] # u /\ pRight[y] # p /\ pRight[y] # u
          BY <4>4, <2>1, <1>2, <1>9, <1>12
        <5>2. H(f, pLeft[y]) = H(h, pLeft[y]) /\ H(f, pRight[y]) = H(h, pRight[y])
          BY <5>1, <3>1, <1>12 DEF H
        <5>3. CASE y = p \/ y = u
          <6>1. Black(red, NULL, y) = 0 /\ Black(red', g, y) = 1 /\ f[y] = h[y] + 1
            BY <5>3, <4>4, <3>1, <2>1, <2>3, <1>2, <1>8 DEF Black, Ruddy, p
          <6> QED BY <6>1, <5>2, <4>1, <4>2
        <5>4. CASE y # p /\ y # u
          <6>1. Black(red', g, y) = Black(red, NULL, y) /\ f[y] = h[y]
            BY <5>4, <4>4, <3>1, <2>3, <1>2 DEF Black, Ruddy
          <6> QED BY <6>1, <5>2, <4>1, <4>2
        <5> QED BY <5>3, <5>4
      <4> QED BY <4>3, <4>4
    <3>3. HeightRule(members, pLeft, pRight, red', g, NULL, NULL, NULL, f)
      BY <3>2, <1>2 DEF HeightRule
    <3>4. Painted' = g
      BY <1>6, <1>15
    <3> QED BY <3>1, <3>3, <3>4, <1>1, <1>6, <1>10, <1>13
  <2> QED BY <2>2, <2>4, <2>5, <1>10, <1>11 DEF IInv, HeightsOK
<1> QED BY <1>14, <1>15

\* A rotation to the left, as the next state of the tree.
LEMMA LeftTurn ==
  ASSUME NEW S \in SUBSET Node, LinksOK(S, pRoot, pLeft, pRight, pParent),
         pRoot \in Ref, pLeft \in [Node -> Ref], pRight \in [Node -> Ref],
         pParent \in [Node -> Ref],
         NEW pos \in [Node -> Int], NEW lo \in [Node -> Int], NEW hi \in [Node -> Int],
         PlacesOK(S, pRoot, pLeft, pRight, pos, lo, hi),
         NEW n \in S, pRight[n] # NULL, SetTree(RotateLeft(Now, n))
  PROVE  /\ Rotated(S, n, pRight[n], pRoot, pLeft, pRight, pParent, pRoot', pLeft', pRight', pParent')
         /\ pRoot' \in Ref /\ pLeft' \in [Node -> Ref] /\ pRight' \in [Node -> Ref]
         /\ pParent' \in [Node -> Ref]
         /\ LinksOK(S, pRoot', pLeft', pRight', pParent')
         /\ \E lo2, hi2 \in [Node -> Int] : PlacesOK(S, pRoot', pLeft', pRight', pos, lo2, hi2)
         /\ Elsewhere(S, pLeft, pRight, pParent, pLeft', pRight', pParent')
<1>1. PICK t : t = RotateLeft(Tree(pRoot, pLeft, pRight, pParent), n)
  OBVIOUS
<1>2. t = RotateLeft(Now, n)
  BY <1>1 DEF Now, Tree
<1>3. pRoot' = t.root /\ pLeft' = t.left /\ pRight' = t.right /\ pParent' = t.parent
  BY <1>2 DEF SetTree
<1>4. /\ Rotated(S, n, pRight[n], pRoot, pLeft, pRight, pParent, t.root, t.left, t.right, t.parent)
      /\ IsTree(t)
      /\ Elsewhere(S, pLeft, pRight, pParent, t.left, t.right, t.parent)
  <2>1. Rotated(S, n, pRight[n], pRoot, pLeft, pRight, pParent, t.root, t.left, t.right, t.parent)
    BY <1>1, RotateLeftIs
  <2>2. IsTree(t)
    BY <1>1, RotateLeftIs
  <2>3. Elsewhere(S, pLeft, pRight, pParent, t.left, t.right, t.parent)
    BY <1>1, RotateLeftIs
  <2> QED BY <2>1, <2>2, <2>3
<1>5. /\ LinksOK(S, t.root, t.left, t.right, t.parent)
      /\ \E lo2, hi2 \in [Node -> Int] : PlacesOK(S, t.root, t.left, t.right, pos, lo2, hi2)
  <2>1. LinksOK(S, t.root, t.left, t.right, t.parent)
    BY <1>1, RotateLeftKeeps
  <2>2. \E lo2, hi2 \in [Node -> Int] : PlacesOK(S, t.root, t.left, t.right, pos, lo2, hi2)
    BY <1>1, RotateLeftKeeps
  <2> QED BY <2>1, <2>2
<1> QED BY <1>3, <1>4, <1>5 DEF IsTree

LEMMA RightTurn ==
  ASSUME NEW S \in SUBSET Node, LinksOK(S, pRoot, pLeft, pRight, pParent),
         pRoot \in Ref, pLeft \in [Node -> Ref], pRight \in [Node -> Ref],
         pParent \in [Node -> Ref],
         NEW pos \in [Node -> Int], NEW lo \in [Node -> Int], NEW hi \in [Node -> Int],
         PlacesOK(S, pRoot, pLeft, pRight, pos, lo, hi),
         NEW n \in S, pLeft[n] # NULL, SetTree(RotateRight(Now, n))
  PROVE  /\ Rotated(S, n, pLeft[n], pRoot, pRight, pLeft, pParent, pRoot', pRight', pLeft', pParent')
         /\ pRoot' \in Ref /\ pLeft' \in [Node -> Ref] /\ pRight' \in [Node -> Ref]
         /\ pParent' \in [Node -> Ref]
         /\ LinksOK(S, pRoot', pLeft', pRight', pParent')
         /\ \E lo2, hi2 \in [Node -> Int] : PlacesOK(S, pRoot', pLeft', pRight', pos, lo2, hi2)
         /\ Elsewhere(S, pLeft, pRight, pParent, pLeft', pRight', pParent')
<1>1. PICK t : t = RotateRight(Tree(pRoot, pLeft, pRight, pParent), n)
  OBVIOUS
<1>2. t = RotateRight(Now, n)
  BY <1>1 DEF Now, Tree
<1>3. pRoot' = t.root /\ pLeft' = t.left /\ pRight' = t.right /\ pParent' = t.parent
  BY <1>2 DEF SetTree
<1>4. /\ Rotated(S, n, pLeft[n], pRoot, pRight, pLeft, pParent, t.root, t.right, t.left, t.parent)
      /\ IsTree(t)
      /\ Elsewhere(S, pLeft, pRight, pParent, t.left, t.right, t.parent)
  <2>1. Rotated(S, n, pLeft[n], pRoot, pRight, pLeft, pParent, t.root, t.right, t.left, t.parent)
    BY <1>1, RotateRightIs
  <2>2. IsTree(t)
    BY <1>1, RotateRightIs
  <2>3. Elsewhere(S, pLeft, pRight, pParent, t.left, t.right, t.parent)
    BY <1>1, RotateRightIs
  <2> QED BY <2>1, <2>2, <2>3
<1>5. /\ LinksOK(S, t.root, t.left, t.right, t.parent)
      /\ \E lo2, hi2 \in [Node -> Int] : PlacesOK(S, t.root, t.left, t.right, pos, lo2, hi2)
  <2>1. LinksOK(S, t.root, t.left, t.right, t.parent)
    BY <1>1, RotateRightKeeps
  <2>2. \E lo2, hi2 \in [Node -> Int] : PlacesOK(S, t.root, t.left, t.right, pos, lo2, hi2)
    BY <1>1, RotateRightKeeps
  <2> QED BY <2>1, <2>2
<1> QED BY <1>3, <1>4, <1>5 DEF IsTree

\* The tree seen in a mirror.
MirroredOK(S, r, L, R, P, pos, lo, hi) ==
  /\ LinksOK(S, r, R, L, P) /\ KinOK(S, R, L, P)
  /\ Mirror(pos) \in [Node -> Int] /\ Mirror(hi) \in [Node -> Int] /\ Mirror(lo) \in [Node -> Int]
  /\ PlacesOK(S, r, R, L, Mirror(pos), Mirror(hi), Mirror(lo))

LEMMA MirrorTree ==
  ASSUME NEW S \in SUBSET Node, NEW r, NEW L, NEW R, NEW P,
         NEW pos \in [Node -> Int], NEW lo \in [Node -> Int], NEW hi \in [Node -> Int],
         LinksOK(S, r, L, R, P), PlacesOK(S, r, L, R, pos, lo, hi)
  PROVE  MirroredOK(S, r, L, R, P, pos, lo, hi)
<1>1. LinksOK(S, r, R, L, P)
  BY MirrorLinks
<1>2. PlacesOK(S, r, R, L, Mirror(pos), Mirror(hi), Mirror(lo))
  BY MirrorPlaces DEF LinksOK
<1>3. Mirror(pos) \in [Node -> Int] /\ Mirror(hi) \in [Node -> Int] /\ Mirror(lo) \in [Node -> Int]
  BY MirrorTwice
<1>4. KinOK(S, R, L, P)
  BY <1>1, <1>2, <1>3, Kin
<1> QED BY <1>1, <1>2, <1>3, <1>4 DEF MirroredOK

\* The pointers around a rotation of a node that has a parent.
LEMMA AfterTurn ==
  ASSUME NEW S, NULL \notin S, NEW r, NEW L, NEW R, NEW P,
         KinOK(S, L, R, P), LinksOK(S, r, L, R, P),
         NEW n, NEW c, NEW r2, NEW L2, NEW R2, NEW P2,
         Rotated(S, n, c, r, L, R, P, r2, L2, R2, P2)
  PROVE  /\ n \in S /\ c \in S /\ c = R[n] /\ P2[n] = c /\ P2[c] = P[n] /\ L2[c] = n
         /\ L2[n] = L[n] /\ R2[n] = L[c]
         /\ P[n] # NULL => /\ L2[P[n]] = IF L[P[n]] = n THEN c ELSE L[P[n]]
                           /\ R2[P[n]] = IF R[P[n]] = n THEN c ELSE R[P[n]]
                           /\ R2[c] = R[c]
<1>1. n \in S /\ c = R[n] /\ c # NULL /\ c \in S /\ c # n
  BY DEF Rotated, KinOK
<1>2. P[c] = n
  BY <1>1 DEF LinksOK
<1>3. P[n] # NULL => P[n] \in S /\ P[n] # n /\ P[n] # c
  BY <1>1, <1>2 DEF KinOK
<1>4. \A x \in S :
       /\ L2[x] = IF x = c THEN n ELSE IF x = P[n] /\ L[x] = n THEN c ELSE L[x]
       /\ R2[x] = IF x = n THEN L[c] ELSE IF x = P[n] /\ R[x] = n THEN c ELSE R[x]
       /\ P2[x] = IF x = n THEN c ELSE IF x = c THEN P[n] ELSE IF x = L[c] THEN n ELSE P[x]
  BY DEF Rotated
<1>5. P[n] # n
  BY <1>1 DEF KinOK
<1> QED BY <1>1, <1>3, <1>4, <1>5

\* A red node below a red parent on its inner side comes out between the two.
LEMMA InsertParentAdjustKeeps ==
  ASSUME IInv, InsertParentAdjust
  PROVE  IInv'
<1> DEFINE x == pNode
<1> DEFINE p == pParent[x]
<1> DEFINE g == GrandParent(x)
<1> DEFINE u == Uncle(x)
<1> DEFINE Inner == x = pRight[p] /\ p = pLeft[g]
<1> DEFINE InnerRight == x = pLeft[p] /\ p = pRight[g]
<1>1. /\ pc = "insertParentAdjust" /\ members' = members /\ u32NumNode' = u32NumNode
      /\ red' = red /\ pDown' = pDown /\ pOut' = pOut /\ pChild' = pChild
      /\ g # NULL =>
           /\ pc' = "insertGrandParentCheck"
           /\ IF Inner THEN SetTree(RotateLeft(Now, p)) /\ pNode' = pLeft'[x]
              ELSE IF InnerRight THEN SetTree(RotateRight(Now, p)) /\ pNode' = pRight'[x]
              ELSE UNCHANGED tree /\ pNode' = x
  BY DEF InsertParentAdjust, Goto
<1>2. /\ TypedOK /\ CallOK /\ ZeroedOK /\ PhaseOK
      /\ Linked = members /\ members \in SUBSET Node /\ NULL \notin members
      /\ pRoot \in Ref /\ pLeft \in [Node -> Ref] /\ pRight \in [Node -> Ref]
      /\ pParent \in [Node -> Ref] /\ red \in [Node -> BOOLEAN]
      /\ LinksOK(members, pRoot, pLeft, pRight, pParent)
      /\ ColourRule(members, pRoot, pLeft, pRight, red, Painted, Excused)
  BY <1>1, Between
<1>3. PICK pos \in [Node -> Int], lo \in [Node -> Int], hi \in [Node -> Int] :
        /\ PlacesOK(members, pRoot, pLeft, pRight, pos, lo, hi)
        /\ SortedOK(pos) /\ ShapeOK(pos, lo, hi)
  BY <1>1, Between
<1>4. PICK h \in [Node -> Nat] :
        HeightRule(members, pLeft, pRight, red, Painted, ShortAt, Leaving, pChild, h)
  BY <1>1, Between
<1>5. x \in members /\ x \in Node /\ x # NULL /\ pOut = NULL /\ pChild = NULL
  BY <1>1, <1>2 DEF CallOK, Inserting, Removing, Short
<1>6. Painted = NULL /\ Excused = x /\ ShortAt = NULL /\ Leaving = NULL
  BY <1>1 DEF Painted, Excused, ShortAt, Leaving, Inserting, Short
<1>7. KinOK(members, pLeft, pRight, pParent)
  BY <1>2, <1>3, Kin
<1>8. red[x] /\ pParent[x] # NULL /\ red[p] /\ ~IsRed(u)
  BY <1>1, <1>2 DEF PhaseOK, Inserting
<1>9. /\ p \in members /\ g \in members /\ g = pParent[p]
      /\ g # x /\ g # p /\ p # x /\ ~red[g] /\ p # pRoot
      /\ u \in members \cup {NULL} /\ u # x /\ u # p /\ u # g
      /\ \/ p = pLeft[g] /\ u = pRight[g]
         \/ p = pRight[g] /\ u = pLeft[g]
      /\ x = pLeft[p] \/ x = pRight[p]
  BY <1>2, <1>5, <1>6, <1>7, <1>8, GrandParentIs
<1>10. p \in Node /\ g \in Node /\ p # NULL /\ g # NULL
  BY <1>2, <1>9
<1>11. pc' = "insertGrandParentCheck"
  BY <1>1, <1>10
<1>12. Painted' = NULL /\ Excused' = pNode' /\ ShortAt' = NULL /\ Leaving' = NULL /\ pChild' = NULL
  BY <1>1, <1>5, <1>11 DEF Painted, Excused, ShortAt, Leaving, Inserting, Short
<1>13. ColourRule(members, pRoot, pLeft, pRight, red, NULL, x)
  BY <1>2, <1>6
<1>14. HeightRule(members, pLeft, pRight, red, NULL, NULL, NULL, NULL, h)
  BY <1>4, <1>5, <1>6
<1>15. /\ pLeft[p] # NULL => pLeft[p] # pRight[p]
       /\ pLeft[g] # NULL => pLeft[g] # pRight[g]
  BY <1>7, <1>9 DEF KinOK
<1> HIDE DEF x, p, g, u
\* What is left to show once the pointers are known.
<1>16. ASSUME pRoot' \in Ref, pLeft' \in [Node -> Ref], pRight' \in [Node -> Ref],
              pParent' \in [Node -> Ref],
              Elsewhere(members, pLeft, pRight, pParent, pLeft', pRight', pParent'),
              LinksOK(members, pRoot', pLeft', pRight', pParent'),
              \E lo2, hi2 \in [Node -> Int] : PlacesOK(members, pRoot', pLeft', pRight', pos, lo2, hi2),
              pNode' \in members, red[pNode'], pParent'[pNode'] \in members, red[pParent'[pNode']],
              pParent'[pParent'[pNode']] = g,
              \/ /\ pNode' = pLeft'[pParent'[pNode']] /\ pParent'[pNode'] = pLeft'[g]
                 /\ u = pRight'[g]
              \/ /\ pNode' = pRight'[pParent'[pNode']] /\ pParent'[pNode'] = pRight'[g]
                 /\ pParent'[pNode'] # pLeft'[g] /\ u = pLeft'[g],
              ColourRule(members, pRoot', pLeft', pRight', red, NULL, pNode'),
              HeightRule(members, pLeft', pRight', red, NULL, NULL, NULL, NULL, h)
       PROVE  IInv'
  <2>1. TypedOK' /\ ZeroedOK' /\ Linked' = members
    <3>1. pNode' \in Ref /\ pDown' \in Ref /\ pOut' \in Ref /\ pChild' \in Ref
      BY <1>1, <1>2, <1>16 DEF TypedOK, Ref
    <3>2. pc' # "nodeAdd" /\ red' \in [Node -> BOOLEAN] /\ red' = red
      BY <1>1, <1>2, <1>11
    <3>3. \A y \in Node \ members : /\ pLeft'[y] = pLeft[y] /\ pRight'[y] = pRight[y]
                                    /\ pParent'[y] = pParent[y] /\ red'[y] = red[y]
      BY <1>16, <3>2 DEF Elsewhere
    <3>4. pc # "nodeAdd"
      BY <1>1
    <3> QED BY <3>1, <3>2, <3>3, <3>4, <1>1, <1>2, <1>16, OthersStay
  <2>2. CallOK'
    BY <1>1, <1>5, <1>11, <1>16 DEF CallOK, Removing, Short, Inserting
  <2>3. PhaseOK'
    <3>1. pParent'[pNode'] # NULL /\ pNode' # NULL /\ g # NULL
      BY <1>2, <1>9, <1>16
    <3>2. GrandParent(pNode)' = g
      BY <3>1, <1>16 DEF GrandParent
    <3>3. Uncle(pNode)' = u
      BY <3>1, <1>16 DEF Uncle, Sibling, IsLeft
    <3>4. ~IsRed(Uncle(pNode))'
      BY <3>3, <1>1, <1>8 DEF IsRed
    <3>5. red'[pNode'] /\ red'[pParent'[pNode']]
      BY <1>1, <1>16
    <3>6. \/ pNode' = pLeft'[pParent'[pNode']] /\ pParent'[pNode'] = pLeft'[GrandParent(pNode)']
          \/ pNode' = pRight'[pParent'[pNode']] /\ pParent'[pNode'] = pRight'[GrandParent(pNode)']
      BY <3>2, <1>16
    <3> QED BY <3>1, <3>4, <3>5, <3>6, <1>11 DEF PhaseOK, Inserting, Short
  <2>4. ColoursOK'
    BY <1>1, <1>12, <1>16, <2>1 DEF ColoursOK
  <2>5. \E f \in [Node -> Nat] : HeightRule(Linked', pLeft', pRight', red', Painted', ShortAt',
                                            Leaving', pChild', f)
    BY <1>1, <1>12, <1>16, <2>1
  <2>6. PICK lo2 \in [Node -> Int], hi2 \in [Node -> Int] :
          PlacesOK(members, pRoot', pLeft', pRight', pos, lo2, hi2)
    BY <1>16
  <2>7. SortedOK(pos)'
    BY <1>1, <1>2, <1>3, <2>1 DEF SortedOK
  <2>8. DescentOK(pos, lo2, hi2)'
    BY <1>11 DEF DescentOK
  <2>9. ShapeOK(pos, lo2, hi2)'
    BY <1>16, <2>1, <2>6, <2>7, <2>8 DEF ShapeOK
  <2>10. \E pp, ll, hh \in [Node -> Int] : ShapeOK(pp, ll, hh)'
    BY <2>9
  <2> QED BY <2>1, <2>2, <2>3, <2>4, <2>5, <2>10 DEF IInv, HeightsOK
<1>17. CASE Inner
  <2>1. SetTree(RotateLeft(Now, p)) /\ pNode' = pLeft'[x] /\ pRight[p] # NULL /\ x = pRight[p]
    BY <1>1, <1>5, <1>10, <1>17
  <2>2. /\ Rotated(members, p, pRight[p], pRoot, pLeft, pRight, pParent, pRoot', pLeft', pRight', pParent')
        /\ pRoot' \in Ref /\ pLeft' \in [Node -> Ref] /\ pRight' \in [Node -> Ref]
        /\ pParent' \in [Node -> Ref]
        /\ LinksOK(members, pRoot', pLeft', pRight', pParent')
        /\ \E lo2, hi2 \in [Node -> Int] : PlacesOK(members, pRoot', pLeft', pRight', pos, lo2, hi2)
        /\ Elsewhere(members, pLeft, pRight, pParent, pLeft', pRight', pParent')
    BY <2>1, <1>2, <1>3, <1>9, LeftTurn
  <2>3. Rotated(members, p, x, pRoot, pLeft, pRight, pParent, pRoot', pLeft', pRight', pParent')
    BY <2>1, <2>2
  <2>4. /\ pParent'[p] = x /\ pParent'[x] = pParent[p] /\ pLeft'[x] = p
        /\ pLeft'[pParent[p]] = IF pLeft[pParent[p]] = p THEN x ELSE pLeft[pParent[p]]
        /\ pRight'[pParent[p]] = IF pRight[pParent[p]] = p THEN x ELSE pRight[pParent[p]]
    BY <2>3, <1>2, <1>7, <1>9, <1>10, AfterTurn
  <2>5. pNode' = p /\ pLeft'[g] = x /\ pRight'[g] = u
    BY <2>1, <2>4, <1>9, <1>10, <1>15, <1>17
  <2>6. ColourRule(members, pRoot', pLeft', pRight', red, NULL, p)
    BY <2>3, <1>2, <1>3, <1>8, <1>9, <1>10, <1>13, AdjustColours
  <2>7. HeightRule(members, pLeft', pRight', red, NULL, NULL, NULL, NULL, h)
    BY <2>3, <1>2, <1>3, <1>8, <1>14, AdjustHeights
  <2> QED BY <2>2, <2>4, <2>5, <2>6, <2>7, <1>5, <1>8, <1>9, <1>16
<1>18. CASE ~Inner /\ InnerRight
  <2>1. SetTree(RotateRight(Now, p)) /\ pNode' = pRight'[x] /\ pLeft[p] # NULL /\ x = pLeft[p]
    BY <1>1, <1>5, <1>10, <1>18
  <2>2. /\ Rotated(members, p, pLeft[p], pRoot, pRight, pLeft, pParent, pRoot', pRight', pLeft', pParent')
        /\ pRoot' \in Ref /\ pLeft' \in [Node -> Ref] /\ pRight' \in [Node -> Ref]
        /\ pParent' \in [Node -> Ref]
        /\ LinksOK(members, pRoot', pLeft', pRight', pParent')
        /\ \E lo2, hi2 \in [Node -> Int] : PlacesOK(members, pRoot', pLeft', pRight', pos, lo2, hi2)
        /\ Elsewhere(members, pLeft, pRight, pParent, pLeft', pRight', pParent')
    BY <2>1, <1>2, <1>3, <1>9, RightTurn
  <2>3. Rotated(members, p, x, pRoot, pRight, pLeft, pParent, pRoot', pRight', pLeft', pParent')
    BY <2>1, <2>2
  <2>4. MirroredOK(members, pRoot, pLeft, pRight, pParent, pos, lo, hi)
    BY <1>2, <1>3, MirrorTree
  <2>5. /\ pParent'[p] = x /\ pParent'[x] = pParent[p] /\ pRight'[x] = p
        /\ pRight'[pParent[p]] = IF pRight[pParent[p]] = p THEN x ELSE pRight[pParent[p]]
        /\ pLeft'[pParent[p]] = IF pLeft[pParent[p]] = p THEN x ELSE pLeft[pParent[p]]
    BY <2>3, <2>4, <1>2, <1>9, <1>10, AfterTurn DEF MirroredOK
  <2>6. pNode' = p /\ pRight'[g] = x /\ pLeft'[g] = u /\ x # u
    BY <2>1, <2>5, <1>9, <1>10, <1>15, <1>18
  <2>7. ColourRule(members, pRoot, pRight, pLeft, red, NULL, x)
    BY <1>13, MirrorColours
  <2>8. HeightRule(members, pRight, pLeft, red, NULL, NULL, NULL, NULL, h)
    BY <1>14, MirrorHeights
  <2>9. ColourRule(members, pRoot', pRight', pLeft', red, NULL, p)
    BY <2>3, <2>4, <2>7, <1>2, <1>8, <1>9, <1>10, AdjustColours DEF MirroredOK
  <2>10. HeightRule(members, pRight', pLeft', red, NULL, NULL, NULL, NULL, h)
    BY <2>3, <2>4, <2>8, <1>2, <1>8, AdjustHeights DEF MirroredOK
  <2>11. ColourRule(members, pRoot', pLeft', pRight', red, NULL, p)
    BY <2>9, MirrorColours
  <2>12. HeightRule(members, pLeft', pRight', red, NULL, NULL, NULL, NULL, h)
    BY <2>10, MirrorHeights
  <2> QED BY <2>2, <2>5, <2>6, <2>11, <2>12, <1>5, <1>8, <1>9, <1>16
<1>19. CASE ~Inner /\ ~InnerRight
  <2>1. /\ pRoot' = pRoot /\ pLeft' = pLeft /\ pRight' = pRight /\ pParent' = pParent
        /\ pNode' = x
    BY <1>1, <1>10, <1>19 DEF tree
  <2>2. Elsewhere(members, pLeft, pRight, pParent, pLeft', pRight', pParent')
    BY <2>1 DEF Elsewhere
  <2>3. \/ x = pLeft[p] /\ p = pLeft[g] /\ u = pRight[g]
        \/ x = pRight[p] /\ p = pRight[g] /\ p # pLeft[g] /\ u = pLeft[g]
    BY <1>9, <1>10, <1>15, <1>19
  <2>4. pParent'[pNode'] = p
    BY <2>1 DEF p
  <2> QED BY <2>1, <2>2, <2>3, <2>4, <1>2, <1>3, <1>5, <1>8, <1>9, <1>13, <1>14, <1>16
<1> QED BY <1>17, <1>18, <1>19

\* The last step of an insertion: the parent comes up black between two red children.
LEMMA InsertGrandParentCheckKeeps ==
  ASSUME IInv, InsertGrandParentCheck
  PROVE  IInv'
<1> DEFINE x == pNode
<1> DEFINE p == pParent[x]
<1> DEFINE g == GrandParent(x)
<1> DEFINE u == Uncle(x)
<1> DEFINE rd == [red EXCEPT ![g] = TRUE, ![p] = FALSE]
<1>1. /\ pc = "insertGrandParentCheck" /\ members' = members /\ u32NumNode' = u32NumNode
      /\ pc' = "idle" /\ pNode' = NULL /\ pDown' = NULL /\ pOut' = NULL /\ pChild' = NULL
      /\ g # NULL =>
           /\ red' = [red EXCEPT ![p] = FALSE, ![g] = TRUE]
           /\ x = pLeft[p] /\ p = pLeft[g] => SetTree(RotateRight(Now, g))
           /\ x = pRight[p] /\ p = pRight[g] /\ ~(x = pLeft[p] /\ p = pLeft[g]) =>
                SetTree(RotateLeft(Now, g))
  BY DEF InsertGrandParentCheck, Goto, Return
<1>2. /\ TypedOK /\ CallOK /\ ZeroedOK /\ PhaseOK
      /\ Linked = members /\ members \in SUBSET Node /\ NULL \notin members
      /\ pRoot \in Ref /\ pLeft \in [Node -> Ref] /\ pRight \in [Node -> Ref]
      /\ pParent \in [Node -> Ref] /\ red \in [Node -> BOOLEAN]
      /\ LinksOK(members, pRoot, pLeft, pRight, pParent)
      /\ ColourRule(members, pRoot, pLeft, pRight, red, Painted, Excused)
  BY <1>1, Between
<1>3. PICK pos \in [Node -> Int], lo \in [Node -> Int], hi \in [Node -> Int] :
        /\ PlacesOK(members, pRoot, pLeft, pRight, pos, lo, hi)
        /\ SortedOK(pos) /\ ShapeOK(pos, lo, hi)
  BY <1>1, Between
<1>4. PICK h \in [Node -> Nat] :
        HeightRule(members, pLeft, pRight, red, Painted, ShortAt, Leaving, pChild, h)
  BY <1>1, Between
<1>5. x \in members /\ x \in Node /\ x # NULL /\ pOut = NULL /\ pChild = NULL
  BY <1>1, <1>2 DEF CallOK, Inserting, Removing, Short
<1>6. /\ Painted = NULL /\ Excused = x /\ ShortAt = NULL /\ Leaving = NULL
      /\ Painted' = NULL /\ Excused' = NULL /\ ShortAt' = NULL /\ Leaving' = NULL
  BY <1>1 DEF Painted, Excused, ShortAt, Leaving, Inserting, Short
<1>7. KinOK(members, pLeft, pRight, pParent)
  BY <1>2, <1>3, Kin
<1>8. /\ red[x] /\ pParent[x] # NULL /\ red[p] /\ ~IsRed(u)
      /\ \/ x = pLeft[p] /\ p = pLeft[g]
         \/ x = pRight[p] /\ p = pRight[g]
  BY <1>1, <1>2 DEF PhaseOK, Inserting
<1>9. /\ p \in members /\ g \in members /\ g = pParent[p]
      /\ g # x /\ g # p /\ p # x /\ ~red[g] /\ p # pRoot
      /\ \/ p = pLeft[g] /\ u = pRight[g]
         \/ p = pRight[g] /\ u = pLeft[g]
      /\ x = pLeft[p] \/ x = pRight[p]
  BY <1>2, <1>5, <1>6, <1>7, <1>8, GrandParentIs
<1>10. p \in Node /\ g \in Node /\ p # NULL /\ g # NULL /\ pParent[x] = p
  BY <1>2, <1>9
<1>11. red' = rd
  <2>1. red' = [red EXCEPT ![p] = FALSE, ![g] = TRUE]
    BY <1>1, <1>10
  <2> QED BY <2>1, <1>2, <1>9
<1>12. ColourRule(members, pRoot, pLeft, pRight, red, NULL, x)
  BY <1>2, <1>6
<1>13. HeightRule(members, pLeft, pRight, red, NULL, NULL, NULL, NULL, h)
  BY <1>4, <1>5, <1>6
<1>14. /\ pLeft[p] # NULL => pLeft[p] # pRight[p]
       /\ pLeft[g] # NULL => pLeft[g] # pRight[g]
  BY <1>7, <1>9 DEF KinOK
<1>15. ~Ruddy(red, NULL, u)
  BY <1>8 DEF IsRed, Ruddy
<1>16. /\ x = pLeft[p] => ~Ruddy(red, NULL, pRight[p])
       /\ x = pRight[p] => ~Ruddy(red, NULL, pLeft[p])
  <2>1. Ruddy(red, NULL, p)
    BY <1>8, <1>10 DEF Ruddy
  <2>2. /\ Ruddy(red, NULL, pLeft[p]) => pLeft[p] = x
        /\ Ruddy(red, NULL, pRight[p]) => pRight[p] = x
    BY <2>1, <1>9, <1>12 DEF ColourRule
  <2> QED BY <2>2, <1>5, <1>14
<1>17. /\ \A y \in Node \ members : red'[y] = red[y]
       /\ red' \in [Node -> BOOLEAN]
  BY <1>2, <1>9, <1>11
<1>18. x \in members => pParent[x] = p
  BY <1>10
<1>19. g # NULL /\ p # NULL /\ (g = pLeft[g] => FALSE)
  BY <1>7, <1>9, <1>10 DEF KinOK
<1> HIDE DEF x, p, g, u, rd
\* What is left to show once the pointers are known.
<1>20. ASSUME pRoot' \in Ref, pLeft' \in [Node -> Ref], pRight' \in [Node -> Ref],
              pParent' \in [Node -> Ref],
              Elsewhere(members, pLeft, pRight, pParent, pLeft', pRight', pParent'),
              LinksOK(members, pRoot', pLeft', pRight', pParent'),
              \E lo2, hi2 \in [Node -> Int] : PlacesOK(members, pRoot', pLeft', pRight', pos, lo2, hi2),
              ColourRule(members, pRoot', pLeft', pRight', rd, NULL, NULL),
              Level(members, pLeft', pRight', rd, NULL, NULL, NULL, NULL)
       PROVE  IInv'
  <2>1. TypedOK' /\ ZeroedOK' /\ Linked' = members
    <3>1. pNode' \in Ref /\ pDown' \in Ref /\ pOut' \in Ref /\ pChild' \in Ref
      BY <1>1 DEF Ref
    <3>2. \A y \in Node \ members : /\ pLeft'[y] = pLeft[y] /\ pRight'[y] = pRight[y]
                                    /\ pParent'[y] = pParent[y] /\ red'[y] = red[y]
      BY <1>17, <1>20 DEF Elsewhere
    <3>3. pc # "nodeAdd" /\ pc' # "nodeAdd"
      BY <1>1
    <3> QED BY <3>1, <3>2, <3>3, <1>1, <1>2, <1>17, <1>20, OthersStay
  <2>2. CallOK' /\ PhaseOK'
    BY <1>1 DEF CallOK, PhaseOK, Removing, Short, Inserting
  <2>3. ColoursOK'
    BY <1>1, <1>6, <1>11, <1>20, <2>1 DEF ColoursOK
  <2>4. \E f \in [Node -> Nat] : HeightRule(Linked', pLeft', pRight', red', Painted', ShortAt',
                                            Leaving', pChild', f)
    BY <1>1, <1>6, <1>11, <1>20, <2>1 DEF Level
  <2>5. PICK lo2 \in [Node -> Int], hi2 \in [Node -> Int] :
          PlacesOK(members, pRoot', pLeft', pRight', pos, lo2, hi2)
    BY <1>20
  <2>6. SortedOK(pos)' /\ DescentOK(pos, lo2, hi2)'
    BY <1>1, <1>2, <1>3, <1>5, <2>1 DEF SortedOK, DescentOK
  <2>7. ShapeOK(pos, lo2, hi2)'
    BY <1>20, <2>1, <2>5, <2>6 DEF ShapeOK
  <2>8. \E pp, ll, hh \in [Node -> Int] : ShapeOK(pp, ll, hh)'
    BY <2>7
  <2> QED BY <2>1, <2>2, <2>3, <2>4, <2>8 DEF IInv, HeightsOK
<1>21. CASE x = pLeft[p] /\ p = pLeft[g]
  <2>1. SetTree(RotateRight(Now, g)) /\ pLeft[g] # NULL /\ u = pRight[g]
    BY <1>1, <1>9, <1>10, <1>14, <1>21
  <2>2. /\ Rotated(members, g, pLeft[g], pRoot, pRight, pLeft, pParent, pRoot', pRight', pLeft', pParent')
        /\ pRoot' \in Ref /\ pLeft' \in [Node -> Ref] /\ pRight' \in [Node -> Ref]
        /\ pParent' \in [Node -> Ref]
        /\ LinksOK(members, pRoot', pLeft', pRight', pParent')
        /\ \E lo2, hi2 \in [Node -> Int] : PlacesOK(members, pRoot', pLeft', pRight', pos, lo2, hi2)
        /\ Elsewhere(members, pLeft, pRight, pParent, pLeft', pRight', pParent')
    BY <2>1, <1>2, <1>3, <1>9, RightTurn
  <2>3. Rotated(members, g, p, pRoot, pRight, pLeft, pParent, pRoot', pRight', pLeft', pParent')
    BY <2>2, <1>21
  <2>4. MirroredOK(members, pRoot, pLeft, pRight, pParent, pos, lo, hi)
    BY <1>2, <1>3, MirrorTree
  <2>5. ColourRule(members, pRoot, pRight, pLeft, red, NULL, x)
    BY <1>12, MirrorColours
  <2>6. HeightRule(members, pRight, pLeft, red, NULL, NULL, NULL, NULL, h)
    BY <1>13, MirrorHeights
  <2>7. ~Ruddy(red, NULL, pRight[g]) /\ ~Ruddy(red, NULL, pRight[p])
    BY <2>1, <1>15, <1>16, <1>21
  <2>8. ColourRule(members, pRoot', pRight', pLeft', rd, NULL, NULL)
    BY <2>3, <2>4, <2>5, <2>7, <1>2, <1>8, <1>18, RotateColours DEF MirroredOK, rd
  <2>9. Level(members, pRight', pLeft', rd, NULL, NULL, NULL, NULL)
    BY <2>3, <2>4, <2>6, <1>2, <1>8, <1>9, <1>10, RotateHeights DEF MirroredOK, rd
  <2>10. Level(members, pLeft', pRight', rd, NULL, NULL, NULL, NULL)
    BY <2>9, MirrorLevel
  <2>11. ColourRule(members, pRoot', pLeft', pRight', rd, NULL, NULL)
    BY <2>8, MirrorColours
  <2> QED BY <2>2, <2>10, <2>11, <1>20
<1>22. CASE ~(x = pLeft[p] /\ p = pLeft[g])
  <2>0. x = pRight[p] /\ p = pRight[g]
    BY <1>8, <1>22
  <2>1. SetTree(RotateLeft(Now, g)) /\ pRight[g] # NULL /\ u = pLeft[g]
    BY <2>0, <1>1, <1>9, <1>10, <1>14, <1>22
  <2>2. /\ Rotated(members, g, pRight[g], pRoot, pLeft, pRight, pParent, pRoot', pLeft', pRight', pParent')
        /\ pRoot' \in Ref /\ pLeft' \in [Node -> Ref] /\ pRight' \in [Node -> Ref]
        /\ pParent' \in [Node -> Ref]
        /\ LinksOK(members, pRoot', pLeft', pRight', pParent')
        /\ \E lo2, hi2 \in [Node -> Int] : PlacesOK(members, pRoot', pLeft', pRight', pos, lo2, hi2)
        /\ Elsewhere(members, pLeft, pRight, pParent, pLeft', pRight', pParent')
    BY <2>1, <1>2, <1>3, <1>9, LeftTurn
  <2>3. Rotated(members, g, p, pRoot, pLeft, pRight, pParent, pRoot', pLeft', pRight', pParent')
    BY <2>0, <2>2
  <2>4. ~Ruddy(red, NULL, pLeft[g]) /\ ~Ruddy(red, NULL, pLeft[p])
    BY <2>0, <2>1, <1>15, <1>16
  <2>5. ColourRule(members, pRoot', pLeft', pRight', rd, NULL, NULL)
    BY <2>3, <2>4, <1>2, <1>3, <1>8, <1>12, <1>18, RotateColours DEF rd
  <2>6. Level(members, pLeft', pRight', rd, NULL, NULL, NULL, NULL)
    BY <2>3, <1>2, <1>3, <1>8, <1>9, <1>10, <1>13, RotateHeights DEF rd
  <2> QED BY <2>2, <2>5, <2>6, <1>20
<1> QED BY <1>21, <1>22

\* Around a node that lacks a black one: it has a sibling, which stays.
LEMMA ShortIs ==
  ASSUME IInv, pc \in Short, pParent[pNode] # NULL
  PROVE  /\ pNode \in members /\ pOut \in members /\ pParent[pNode] \in members
         /\ Sibling(pNode) \in members
         /\ pNode # NULL /\ pOut # NULL /\ pParent[pNode] # NULL /\ Sibling(pNode) # NULL
         /\ pParent[pNode] # pNode /\ Sibling(pNode) # pNode
         /\ Sibling(pNode) # pParent[pNode]
         /\ pParent[pNode] # pOut /\ Sibling(pNode) # pOut
         /\ pParent[Sibling(pNode)] = pParent[pNode]
         /\ pChild = NULL /\ pLeft[pOut] = NULL /\ pRight[pOut] = NULL
         /\ ~red[pOut] /\ ~red[pNode]
         /\ IF IsLeft(pNode)
            THEN /\ pNode = pLeft[pParent[pNode]] /\ Sibling(pNode) = pRight[pParent[pNode]]
            ELSE /\ pNode = pRight[pParent[pNode]] /\ Sibling(pNode) = pLeft[pParent[pNode]]
<1> DEFINE x == pNode
<1> DEFINE p == pParent[x]
<1> DEFINE s == Sibling(x)
<1>1. pc # "nodeAdd" /\ pc \in Removing
  BY DEF Short, Removing
<1>2. /\ CallOK /\ members \in SUBSET Node /\ NULL \notin members
      /\ LinksOK(members, pRoot, pLeft, pRight, pParent)
  BY <1>1, Between
<1>3. PICK pos \in [Node -> Int], lo \in [Node -> Int], hi \in [Node -> Int] :
        PlacesOK(members, pRoot, pLeft, pRight, pos, lo, hi)
  BY <1>1, Between
<1>4. PICK h \in [Node -> Nat] :
        HeightRule(members, pLeft, pRight, red, Painted, ShortAt, Leaving, pChild, h)
  BY <1>1, Between
<1>5. KinOK(members, pLeft, pRight, pParent)
  BY <1>2, <1>3, Kin
<1>6. /\ x \in members /\ pOut \in members
      /\ pChild = NULL /\ pLeft[pOut] = NULL /\ pRight[pOut] = NULL /\ ~red[pOut] /\ ~red[x]
  BY <1>1, <1>2 DEF CallOK
<1>7. /\ x # NULL /\ p \in members /\ p # x
      /\ s \in members \cup {NULL} /\ s # x /\ s # p
      /\ s # NULL => pParent[s] = p
      /\ IF IsLeft(x) THEN x = pLeft[p] /\ s = pRight[p]
                      ELSE x = pRight[p] /\ s = pLeft[p]
  BY <1>2, <1>5, <1>6, SiblingIs
<1>8. p # NULL /\ p # pOut /\ pOut # NULL
  BY <1>2, <1>6, <1>7
<1>9. ShortAt = x /\ Leaving = pOut
  BY DEF ShortAt, Leaving
<1>10. \A y \in members : IF y = pOut THEN h[y] = H(h, NULL) + Lacks(x, y)
                          ELSE /\ H(h, pLeft[y]) = H(h, pRight[y])
                               /\ h[y] = H(h, pLeft[y]) + Black(red, Painted, y) + Lacks(x, y)
  BY <1>4, <1>6, <1>9 DEF HeightRule
<1>11. H(h, x) = H(h, s)
  BY <1>7, <1>8, <1>10
<1>12. H(h, x) >= 1
  <2>1. H(h, x) = h[x] /\ Lacks(x, x) = 1 /\ H(h, NULL) = 0 /\ h[x] \in Nat
    BY <1>2, <1>6, <1>7 DEF H, Lacks
  <2>2. Black(red, Painted, x) \in Nat
    BY DEF Black
  <2>3. H(h, pLeft[x]) \in Nat
    BY <1>2, <1>5, <1>6 DEF H, KinOK
  <2> QED BY <2>1, <2>2, <2>3, <1>6, <1>10
<1>13. s # NULL
  BY <1>11, <1>12 DEF H
<1>14. s # pOut
  <2> SUFFICES ASSUME s = pOut PROVE FALSE
    OBVIOUS
  <2>1. h[s] = H(h, NULL) + Lacks(x, s) /\ H(h, s) = h[s]
    BY <1>6, <1>10, <1>13 DEF H
  <2>2. Lacks(x, s) = 0 /\ H(h, NULL) = 0
    BY <1>7 DEF Lacks, H
  <2> QED BY <2>1, <2>2, <1>11, <1>12
<1> QED BY <1>6, <1>7, <1>8, <1>13, <1>14

\* removeChildCheck: a child is red and gets black, or there is none.
LEMMA RemoveChildCheckKeeps ==
  ASSUME IInv, RemoveChildCheck
  PROVE  IInv'
<1> DEFINE x == pNode
<1> DEFINE c == IF pLeft[x] # NULL THEN pLeft[x] ELSE pRight[x]
<1>1. /\ pc = "removeChildCheck" /\ members' = members /\ u32NumNode' = u32NumNode
      /\ pRoot' = pRoot /\ pLeft' = pLeft /\ pRight' = pRight /\ pParent' = pParent
      /\ pNode' = x /\ pDown' = pDown /\ pOut' = pOut /\ pChild' = c
      /\ red' = IF ~red[x] /\ IsRed(c) THEN [red EXCEPT ![c] = FALSE] ELSE red
      /\ pc' = IF red[x] \/ IsRed(c) THEN "removeUnlink" ELSE "removeRootCheck"
  BY DEF RemoveChildCheck, tree, Goto
<1>2. /\ TypedOK /\ CallOK /\ ZeroedOK /\ PhaseOK
      /\ Linked = members /\ members \in SUBSET Node /\ NULL \notin members
      /\ pRoot \in Ref /\ pLeft \in [Node -> Ref] /\ pRight \in [Node -> Ref]
      /\ pParent \in [Node -> Ref] /\ red \in [Node -> BOOLEAN]
      /\ LinksOK(members, pRoot, pLeft, pRight, pParent)
      /\ ColourRule(members, pRoot, pLeft, pRight, red, Painted, Excused)
  BY <1>1, Between
<1>3. PICK pos \in [Node -> Int], lo \in [Node -> Int], hi \in [Node -> Int] :
        PlacesOK(members, pRoot, pLeft, pRight, pos, lo, hi) /\ ShapeOK(pos, lo, hi)
  BY <1>1, Between
<1>4. PICK h \in [Node -> Nat] :
        HeightRule(members, pLeft, pRight, red, Painted, ShortAt, Leaving, pChild, h)
  BY <1>1, Between
<1>5. /\ x \in members /\ x \in Node /\ x # NULL /\ pOut = x
      /\ pLeft[x] = NULL \/ pRight[x] = NULL
  BY <1>1, <1>2 DEF CallOK, Removing
<1>6. /\ Painted = NULL /\ Excused = NULL /\ ShortAt = NULL /\ Leaving = NULL
      /\ Painted' = NULL /\ Excused' = NULL /\ Leaving' = x
      /\ ShortAt' = IF pc' = "removeRootCheck" THEN x ELSE NULL
  BY <1>1, <1>5 DEF Painted, Excused, ShortAt, Leaving, Inserting, Short
<1>7. KinOK(members, pLeft, pRight, pParent)
  BY <1>2, <1>3, Kin
<1>8. /\ c \in members \cup {NULL} /\ c # x
      /\ \/ pLeft[x] = NULL /\ pRight[x] = c
         \/ pRight[x] = NULL /\ pLeft[x] = c
  BY <1>5, <1>7 DEF KinOK
<1>9. c # NULL => pParent[c] = x
  BY <1>2, <1>5, <1>8 DEF LinksOK
<1> HIDE DEF x, c
<1>10. ColourRule(members, pRoot, pLeft, pRight, red, NULL, NULL)
  BY <1>2, <1>6
<1>11. \A y \in members : /\ H(h, pLeft[y]) = H(h, pRight[y])
                          /\ h[y] = H(h, pLeft[y]) + Black(red, NULL, y)
  <2> SUFFICES ASSUME NEW y \in members
               PROVE  /\ H(h, pLeft[y]) = H(h, pRight[y])
                      /\ h[y] = H(h, pLeft[y]) + Black(red, NULL, y)
    OBVIOUS
  <2>1. /\ H(h, pLeft[y]) = H(h, pRight[y])
        /\ h[y] = H(h, pLeft[y]) + Black(red, NULL, y) + Lacks(NULL, y)
    BY <1>2, <1>4, <1>6 DEF HeightRule
  <2>2. Lacks(NULL, y) = 0 /\ Black(red, NULL, y) \in Nat
    BY <1>2 DEF Lacks, Black
  <2>3. H(h, pLeft[y]) \in Nat
    BY <1>2, <1>7 DEF H, KinOK
  <2> QED BY <2>1, <2>2, <2>3
<1>12. \A y \in members \cup {NULL} : H(h, y) \in Nat /\ (y # NULL => H(h, y) = h[y])
  BY <1>2 DEF H
<1>13. \A y \in members : pLeft[y] \in members \cup {NULL} /\ pRight[y] \in members \cup {NULL}
  BY <1>7 DEF KinOK
<1>14. H(h, c) = 0 /\ h[x] = Black(red, NULL, x)
  <2>1. H(h, NULL) = 0
    BY DEF H
  <2>2. Black(red, NULL, x) \in Nat
    BY DEF Black
  <2> QED BY <2>1, <2>2, <1>5, <1>8, <1>11
\* A node of height 0 is red.
<1>15. \A y \in members : H(h, y) = 0 => Ruddy(red, NULL, y)
  <2> SUFFICES ASSUME NEW y \in members, H(h, y) = 0, ~Ruddy(red, NULL, y) PROVE FALSE
    OBVIOUS
  <2>1. Black(red, NULL, y) = 1
    BY DEF Black
  <2>2. y # NULL /\ H(h, pLeft[y]) \in Nat
    BY <1>2, <1>12, <1>13
  <2> QED BY <2>1, <2>2, <1>11, <1>12
<1>16. c # NULL => red[c]
  BY <1>8, <1>14, <1>15 DEF Ruddy
<1>17. red[x] => c = NULL
  <2>1. ASSUME red[x], c # NULL PROVE FALSE
    <3>1. Ruddy(red, NULL, x) /\ Ruddy(red, NULL, c)
      BY <2>1, <1>5, <1>16 DEF Ruddy
    <3> QED BY <3>1, <2>1, <1>5, <1>8, <1>10 DEF ColourRule
  <2> QED BY <2>1
<1>18. c # NULL => pLeft[c] = NULL /\ pRight[c] = NULL
  <2> SUFFICES ASSUME c # NULL PROVE pLeft[c] = NULL /\ pRight[c] = NULL
    OBVIOUS
  <2>1. c \in members /\ Ruddy(red, NULL, c)
    BY <1>8, <1>16 DEF Ruddy
  <2>2. H(h, pLeft[c]) = 0 /\ H(h, pRight[c]) = 0
    <3>1. h[c] = 0 /\ Black(red, NULL, c) = 0
      BY <2>1, <1>2, <1>12, <1>14 DEF Black
    <3> QED BY <3>1, <2>1, <1>11, <1>12, <1>13
  <2>3. ~Ruddy(red, NULL, pLeft[c]) /\ ~Ruddy(red, NULL, pRight[c])
    <3>1. /\ Ruddy(red, NULL, pLeft[c]) => pLeft[c] = NULL
          /\ Ruddy(red, NULL, pRight[c]) => pRight[c] = NULL
      BY <2>1, <1>10 DEF ColourRule
    <3> QED BY <3>1 DEF Ruddy
  <2> QED BY <2>1, <2>2, <2>3, <1>13, <1>15
<1>19. /\ red' \in [Node -> BOOLEAN] /\ \A y \in Node : red'[y] => red[y]
       /\ c # NULL => ~red'[c] /\ red' = [red EXCEPT ![c] = FALSE] /\ ~red[x]
       /\ c = NULL => red' = red
       /\ \A y \in members : y # c => red'[y] = red[y]
       /\ \A y \in Node \ members : red'[y] = red[y]
       /\ pc' = IF red[x] \/ c # NULL THEN "removeUnlink" ELSE "removeRootCheck"
  BY <1>1, <1>2, <1>8, <1>16, <1>17 DEF IsRed
<1>20. TypedOK' /\ ZeroedOK' /\ Linked' = members
  <2>1. pNode' \in Ref /\ pDown' \in Ref /\ pOut' \in Ref /\ pChild' \in Ref
    BY <1>1, <1>2, <1>5, <1>8 DEF TypedOK, Ref
  <2>2. pc # "nodeAdd" /\ pc' # "nodeAdd"
    BY <1>1
  <2> QED BY <2>1, <2>2, <1>1, <1>2, <1>19, OthersStay
<1>21. CallOK' /\ PhaseOK'
  <2>1. CASE pc' = "removeUnlink"
    BY <2>1, <1>1, <1>2, <1>5, <1>8, <1>18, <1>19 DEF CallOK, PhaseOK, Removing, Short, Inserting
  <2>2. CASE pc' = "removeRootCheck"
    <3>1. c = NULL /\ ~red[x] /\ pLeft[x] = NULL /\ pRight[x] = NULL /\ red' = red
      BY <2>2, <1>8, <1>19
    <3> QED BY <3>1, <2>2, <1>1, <1>2, <1>5 DEF CallOK, PhaseOK, Removing, Short, Inserting
  <2> QED BY <2>1, <2>2, <1>19
<1>22. ShapeOK(pos, lo, hi)'
  <2>1. pc' # "nodeAdd" /\ pOut' = pOut /\ Linked' = Linked /\ UNCHANGED tree
    BY <1>1, <1>2, <1>20 DEF tree
  <2> QED BY <2>1, <1>3, ShapeStays
<1>23. ColoursOK'
  <2>1. \A y \in members \cup {NULL} : Ruddy(red', NULL, y) => Ruddy(red, NULL, y)
    BY <1>2, <1>19 DEF Ruddy
  <2>2. pRoot \in members \cup {NULL}
    BY <1>2 DEF LinksOK
  <2>3. ColourRule(members, pRoot, pLeft, pRight, red', NULL, NULL)
    BY <2>1, <2>2, <1>10, <1>13 DEF ColourRule
  <2> QED BY <2>3, <1>1, <1>6, <1>20 DEF ColoursOK
<1>24. \E f \in [Node -> Nat] : HeightRule(Linked', pLeft', pRight', red', Painted', ShortAt',
                                           Leaving', pChild', f)
  <2> DEFINE f == IF c = NULL THEN h ELSE [h EXCEPT ![c] = 1]
  <2>1. /\ f \in [Node -> Nat] /\ (c # NULL => f[c] = 1)
        /\ \A y \in members : y # c => f[y] = h[y]
    BY <1>2, <1>8
  <2> HIDE DEF f
  <2>2. \A y \in members \cup {NULL} : y # c => H(f, y) = H(h, y)
    BY <2>1 DEF H
  <2>3. \A y \in members : Lacks(x, y) = (IF y = x THEN 1 ELSE 0) /\ Lacks(NULL, y) = 0
    BY <1>2 DEF Lacks
  <2>4. ASSUME NEW y \in members
        PROVE  IF y = x THEN f[y] = H(f, c) + Lacks(ShortAt', y)
               ELSE /\ H(f, pLeft[y]) = H(f, pRight[y])
                    /\ f[y] = H(f, pLeft[y]) + Black(red', NULL, y) + Lacks(ShortAt', y)
    <3>1. CASE y = x
      <4>1. f[y] = Black(red, NULL, x)
        BY <3>1, <2>1, <1>5, <1>8, <1>14
      <4>2. CASE c = NULL
        <5>1. H(f, c) = 0 /\ Lacks(ShortAt', y) = IF red[x] THEN 0 ELSE 1
          BY <4>2, <3>1, <2>3, <1>6, <1>19, <1>5 DEF H
        <5>2. Black(red, NULL, x) = IF red[x] THEN 0 ELSE 1
          BY <1>5 DEF Black, Ruddy
        <5> QED BY <4>1, <5>1, <5>2, <3>1
      <4>3. CASE c # NULL
        <5>1. H(f, c) = 1 /\ Lacks(ShortAt', y) = 0
          BY <4>3, <2>1, <2>3, <3>1, <1>6, <1>19 DEF H
        <5>2. Black(red, NULL, x) = 1
          BY <4>3, <1>5, <1>19 DEF Black, Ruddy
        <5> QED BY <4>1, <5>1, <5>2, <3>1
      <4> QED BY <4>2, <4>3
    <3>2. CASE y # x /\ y # c
      <4>1. /\ pLeft[y] # NULL => pParent[pLeft[y]] = y
            /\ pRight[y] # NULL => pParent[pRight[y]] = y
        BY <1>2 DEF LinksOK
      <4>2. (pLeft[y] = c => c = NULL) /\ (pRight[y] = c => c = NULL)
        BY <3>2, <4>1, <1>9
      <4>3. H(f, NULL) = H(h, NULL)
        BY DEF H
      <4>4. H(f, pLeft[y]) = H(h, pLeft[y]) /\ H(f, pRight[y]) = H(h, pRight[y])
        BY <4>2, <4>3, <2>2, <1>13
      <4>5. Lacks(ShortAt', y) = 0 /\ Black(red', NULL, y) = Black(red, NULL, y)
        BY <3>2, <2>3, <1>6, <1>19 DEF Black, Ruddy
      <4>6. H(h, pLeft[y]) \in Nat /\ Black(red, NULL, y) \in Nat
        BY <1>12, <1>13 DEF Black
      <4> QED BY <4>4, <4>5, <4>6, <3>2, <2>1, <1>11
    <3>3. CASE y # x /\ y = c
      <4>1. c # NULL /\ pLeft[c] = NULL /\ pRight[c] = NULL
        BY <3>3, <1>2, <1>18
      <4>2. Lacks(ShortAt', y) = 0 /\ Black(red', NULL, y) = 1 /\ f[y] = 1
        BY <3>3, <4>1, <2>1, <2>3, <1>6, <1>19 DEF Black, Ruddy
      <4>3. H(f, NULL) = 0
        BY DEF H
      <4> QED BY <4>1, <4>2, <4>3, <3>3
    <3> QED BY <3>1, <3>2, <3>3
  <2>5. HeightRule(members, pLeft, pRight, red', NULL, ShortAt', x, c, f)
    BY <2>4 DEF HeightRule
  <2>6. HeightRule(Linked', pLeft', pRight', red', Painted', ShortAt', Leaving', pChild', f)
    BY <2>5, <1>1, <1>6, <1>20
  <2> QED BY <2>1, <2>6
<1> QED BY <1>3, <1>20, <1>21, <1>22, <1>23, <1>24 DEF IInv, HeightsOK

\* The root may lack a black node.
LEMMA RemoveRootCheckKeeps ==
  ASSUME IInv, RemoveRootCheck
  PROVE  IInv'
<1> DEFINE x == pNode
<1>1. /\ pc = "removeRootCheck" /\ members' = members /\ u32NumNode' = u32NumNode
      /\ pRoot' = pRoot /\ pLeft' = pLeft /\ pRight' = pRight /\ pParent' = pParent
      /\ pNode' = x /\ pDown' = pDown /\ pOut' = pOut /\ pChild' = pChild /\ red' = red
      /\ pc' = IF pParent[x] = NULL THEN "removeUnlink" ELSE "removeSiblingAdjust"
  BY DEF RemoveRootCheck, tree, call, Goto
<1>2. /\ TypedOK /\ CallOK /\ ZeroedOK /\ PhaseOK
      /\ Linked = members /\ members \in SUBSET Node /\ NULL \notin members
      /\ pRoot \in Ref /\ pLeft \in [Node -> Ref] /\ pRight \in [Node -> Ref]
      /\ pParent \in [Node -> Ref] /\ red \in [Node -> BOOLEAN]
      /\ LinksOK(members, pRoot, pLeft, pRight, pParent)
      /\ ColourRule(members, pRoot, pLeft, pRight, red, Painted, Excused)
  BY <1>1, Between
<1>3. PICK pos \in [Node -> Int], lo \in [Node -> Int], hi \in [Node -> Int] :
        PlacesOK(members, pRoot, pLeft, pRight, pos, lo, hi) /\ ShapeOK(pos, lo, hi)
  BY <1>1, Between
<1>4. PICK h \in [Node -> Nat] :
        HeightRule(members, pLeft, pRight, red, Painted, ShortAt, Leaving, pChild, h)
  BY <1>1, Between
<1>5. /\ x \in members /\ x \in Node /\ x # NULL /\ pOut \in members /\ pChild = NULL
      /\ pLeft[pOut] = NULL /\ pRight[pOut] = NULL
  BY <1>1, <1>2 DEF CallOK, Removing, Short
<1>6. /\ Painted = NULL /\ Excused = NULL /\ ShortAt = x /\ Leaving = pOut
      /\ Painted' = NULL /\ Excused' = NULL /\ Leaving' = pOut
      /\ ShortAt' = IF pParent[x] = NULL THEN NULL ELSE x
  BY <1>1, <1>5 DEF Painted, Excused, ShortAt, Leaving, Inserting, Short
<1>7. TypedOK' /\ ZeroedOK' /\ Linked' = members
  <2>1. pNode' \in Ref /\ pDown' \in Ref /\ pOut' \in Ref /\ pChild' \in Ref
    BY <1>1, <1>2, <1>5 DEF TypedOK, Ref
  <2>2. pc # "nodeAdd" /\ pc' # "nodeAdd"
    BY <1>1
  <2> QED BY <2>1, <2>2, <1>1, <1>2, OthersStay
<1>8. CallOK' /\ PhaseOK'
  BY <1>1, <1>2, <1>5 DEF CallOK, PhaseOK, Removing, Short, Inserting
<1>9. ShapeOK(pos, lo, hi)'
  <2>1. pc' # "nodeAdd" /\ pOut' = pOut /\ Linked' = Linked /\ UNCHANGED tree
    BY <1>1, <1>2, <1>7 DEF tree
  <2> QED BY <2>1, <1>3, ShapeStays
<1>10. ColoursOK'
  BY <1>1, <1>2, <1>6, <1>7 DEF ColoursOK
<1>11. \A y \in members : /\ pLeft[y] \in members \cup {NULL} /\ pRight[y] \in members \cup {NULL}
                          /\ pLeft[y] # NULL => pParent[pLeft[y]] = y
                          /\ pRight[y] # NULL => pParent[pRight[y]] = y
  BY <1>2 DEF LinksOK
<1> HIDE DEF x
<1>12. \E f \in [Node -> Nat] : HeightRule(Linked', pLeft', pRight', red', Painted', ShortAt',
                                           Leaving', pChild', f)
  <2>1. CASE pParent[x] # NULL
    BY <2>1, <1>1, <1>4, <1>6, <1>7
  <2>2. CASE pParent[x] = NULL
    <3>1. \A y \in members : pLeft[y] # x /\ pRight[y] # x
      BY <2>2, <1>2, <1>5, <1>11
    <3>2. \A y \in members : IF y = pOut THEN h[y] = H(h, NULL) + Lacks(x, y)
                             ELSE /\ H(h, pLeft[y]) = H(h, pRight[y])
                                  /\ h[y] = H(h, pLeft[y]) + Black(red, NULL, y) + Lacks(x, y)
      BY <1>4, <1>5, <1>6 DEF HeightRule
    <3>3. \A y \in members : /\ H(h, pLeft[y]) \in Nat /\ Black(red, NULL, y) \in Nat
                             /\ Lacks(x, y) = (IF y = x THEN 1 ELSE 0) /\ Lacks(NULL, y) = 0
                             /\ H(h, NULL) = 0 /\ h[y] \in Nat
      BY <1>2, <1>11 DEF H, Black, Lacks
    <3>4. h[x] >= 1
      BY <3>2, <3>3, <1>5
    <3> DEFINE f == [h EXCEPT ![x] = h[x] - 1]
    <3>5. /\ f \in [Node -> Nat] /\ f[x] = h[x] - 1
          /\ \A y \in members : y # x => f[y] = h[y]
      BY <3>3, <3>4, <1>2, <1>5
    <3> HIDE DEF f
    <3>6. H(f, NULL) = 0
      BY DEF H
    <3>7. \A y \in members : H(f, pLeft[y]) = H(h, pLeft[y]) /\ H(f, pRight[y]) = H(h, pRight[y])
      BY <3>1, <3>5, <1>11 DEF H
    <3>8. ASSUME NEW y \in members
          PROVE  IF y = pOut THEN f[y] = H(f, NULL) + Lacks(NULL, y)
                 ELSE /\ H(f, pLeft[y]) = H(f, pRight[y])
                      /\ f[y] = H(f, pLeft[y]) + Black(red, NULL, y) + Lacks(NULL, y)
      <4>1. f[y] + Lacks(x, y) = h[y] /\ f[y] \in Nat
        BY <3>3, <3>5, <1>2
      <4> QED BY <4>1, <3>2, <3>3, <3>6, <3>7
    <3>9. HeightRule(members, pLeft, pRight, red, NULL, NULL, pOut, NULL, f)
      BY <3>8 DEF HeightRule
    <3>10. HeightRule(Linked', pLeft', pRight', red', Painted', ShortAt', Leaving', pChild', f)
      BY <3>9, <2>2, <1>1, <1>5, <1>6, <1>7
    <3> QED BY <3>5, <3>10
  <2> QED BY <2>1, <2>2
<1> QED BY <1>3, <1>7, <1>8, <1>9, <1>10, <1>12 DEF IInv, HeightsOK

\* A step of a removal that leaves the members and their places alone.
LEMMA Rebuilt ==
  ASSUME IInv, pc \in Removing, pc' \in Removing, members' = members,
         u32NumNode' = u32NumNode, pNode' \in members, pDown' = pDown, pOut' = pOut,
         pChild' = pChild, red' \in [Node -> BOOLEAN],
         \A y \in Node \ members : red'[y] = red[y],
         Elsewhere(members, pLeft, pRight, pParent, pLeft', pRight', pParent'),
         pRoot' \in Ref, pLeft' \in [Node -> Ref], pRight' \in [Node -> Ref],
         pParent' \in [Node -> Ref],
         LinksOK(members, pRoot', pLeft', pRight', pParent'),
         NEW pos \in [Node -> Int], SortedOK(pos),
         \E lo2, hi2 \in [Node -> Int] : PlacesOK(members, pRoot', pLeft', pRight', pos, lo2, hi2),
         ColourRule(members, pRoot', pLeft', pRight', red', NULL, NULL),
         Level(members, pLeft', pRight', red', NULL, ShortAt', Leaving', pChild'),
         CallOK', PhaseOK'
  PROVE  IInv'
<1>1. pc # "nodeAdd" /\ pc' # "nodeAdd" /\ pc' \notin Inserting /\ pc' # "insertRootCheck"
  BY DEF Removing, Short, Inserting
<1>2. TypedOK /\ ZeroedOK /\ Linked = members /\ members \in SUBSET Node
  BY <1>1, Between
<1>3. TypedOK' /\ ZeroedOK' /\ Linked' = members
  <2>1. pNode' \in Ref /\ pDown' \in Ref /\ pOut' \in Ref /\ pChild' \in Ref
    BY <1>2 DEF TypedOK, Ref
  <2>2. \A y \in Node \ members : /\ pLeft'[y] = pLeft[y] /\ pRight'[y] = pRight[y]
                                  /\ pParent'[y] = pParent[y] /\ red'[y] = red[y]
    BY DEF Elsewhere
  <2> QED BY <2>1, <2>2, <1>1, <1>2, OthersStay
<1>4. ColoursOK'
  <2>1. Painted' = NULL /\ Excused' = NULL
    BY <1>1 DEF Painted, Excused
  <2> QED BY <2>1, <1>3 DEF ColoursOK
<1>5. \E f \in [Node -> Nat] : HeightRule(Linked', pLeft', pRight', red', Painted', ShortAt',
                                          Leaving', pChild', f)
  <2>1. Painted' = NULL
    BY <1>1 DEF Painted
  <2> QED BY <2>1, <1>3 DEF Level
<1>6. PICK lo2 \in [Node -> Int], hi2 \in [Node -> Int] :
        PlacesOK(members, pRoot', pLeft', pRight', pos, lo2, hi2)
  OBVIOUS
<1>7. SortedOK(pos)' /\ DescentOK(pos, lo2, hi2)'
  BY <1>1, <1>2, <1>3 DEF SortedOK, DescentOK
<1>8. ShapeOK(pos, lo2, hi2)'
  BY <1>3, <1>6, <1>7 DEF ShapeOK
<1>9. \E pp, ll, hh \in [Node -> Int] : ShapeOK(pp, ll, hh)'
  BY <1>8
<1> QED BY <1>3, <1>4, <1>5, <1>9 DEF IInv, HeightsOK

\* One node turns red and the heights of two siblings go down: the lack moves to
\* their parent, or ends there when it was red.
LEMMA PaintSibling ==
  ASSUME NEW S \in SUBSET Node, NULL \notin S, NEW r, NEW L, NEW R, NEW P,
         LinksOK(S, r, L, R, P), KinOK(S, L, R, P),
         NEW rd \in [Node -> BOOLEAN], ColourRule(S, r, L, R, rd, NULL, NULL),
         NEW x \in S, NEW g, L[g] = NULL, R[g] = NULL, NEW p \in S, NEW s \in S,
         x # s, p # x, p # s, g # s, g # p, P[x] = p, P[s] = p,
         (L[p] = x /\ R[p] = s) \/ (R[p] = x /\ L[p] = s),
         ~rd[s], ~Ruddy(rd, NULL, L[s]), ~Ruddy(rd, NULL, R[s]),
         Level(S, L, R, rd, NULL, x, g, NULL)
  PROVE  /\ ColourRule(S, r, L, R, [rd EXCEPT ![s] = TRUE, ![p] = FALSE], NULL, NULL)
         /\ Level(S, L, R, [rd EXCEPT ![s] = TRUE, ![p] = FALSE], NULL,
                  IF rd[p] THEN NULL ELSE p, g, NULL)
<1> DEFINE rd2 == [rd EXCEPT ![s] = TRUE, ![p] = FALSE]
<1> DEFINE w == IF rd[p] THEN NULL ELSE p
<1>1. rd2[s] /\ ~rd2[p] /\ \A y \in S : y # s /\ y # p => rd2[y] = rd[y]
  OBVIOUS
<1>2. \A y \in S : /\ L[y] \in S \cup {NULL} /\ R[y] \in S \cup {NULL}
                   /\ (L[y] # NULL => P[L[y]] = y) /\ (R[y] # NULL => P[R[y]] = y)
  BY DEF LinksOK
<1>3. PICK h \in [Node -> Nat] : HeightRule(S, L, R, rd, NULL, x, g, NULL, h)
  BY DEF Level
<1> DEFINE f == [h EXCEPT ![x] = h[x] - 1, ![s] = h[s] - 1]
<1> HIDE DEF rd2
<1>4. ColourRule(S, r, L, R, rd2, NULL, NULL)
  <2>1. ASSUME Ruddy(rd2, NULL, r) PROVE FALSE
    <3>1. r \in S /\ P[r] = NULL
      BY <2>1 DEF Ruddy, LinksOK
    <3>2. r # s
      BY <3>1
    <3>3. Ruddy(rd, NULL, r)
      BY <3>1, <3>2, <2>1, <1>1 DEF Ruddy
    <3> QED BY <3>3 DEF ColourRule, Ruddy
  <2>2. ASSUME NEW y \in S, Ruddy(rd2, NULL, y)
        PROVE  ~Ruddy(rd2, NULL, L[y]) /\ ~Ruddy(rd2, NULL, R[y])
    <3>1. y # p
      BY <2>2, <1>1 DEF Ruddy
    <3>2. L[y] # s /\ R[y] # s
      BY <3>1, <1>2
    <3>3. ~Ruddy(rd, NULL, L[y]) /\ ~Ruddy(rd, NULL, R[y])
      <4>1. CASE y = s
        BY <4>1
      <4>2. CASE y # s
        <5>1. Ruddy(rd, NULL, y)
          BY <4>2, <3>1, <2>2, <1>1 DEF Ruddy
        <5> QED BY <5>1 DEF ColourRule, Ruddy
      <4> QED BY <4>1, <4>2
    <3> QED BY <3>2, <3>3, <1>1, <1>2 DEF Ruddy
  <2> QED BY <2>1, <2>2 DEF ColourRule
<1>5. \A y \in S : /\ H(h, L[y]) \in Nat /\ h[y] \in Nat /\ H(h, NULL) = 0 /\ H(h, y) = h[y]
                   /\ Black(rd, NULL, y) = (IF rd[y] THEN 0 ELSE 1)
                   /\ Black(rd2, NULL, y) = (IF rd2[y] THEN 0 ELSE 1)
                   /\ Lacks(x, y) = (IF y = x THEN 1 ELSE 0)
                   /\ Lacks(w, y) = (IF y = p /\ ~rd[p] THEN 1 ELSE 0)
  BY <1>2 DEF H, Black, Ruddy, Lacks
<1>6. \A y \in S : IF y = g THEN h[y] = H(h, NULL) + Lacks(x, y)
                   ELSE /\ H(h, L[y]) = H(h, R[y])
                        /\ h[y] = H(h, L[y]) + Black(rd, NULL, y) + Lacks(x, y)
  BY <1>3 DEF HeightRule
<1>7. h[x] = h[s] /\ h[x] >= 1
  <2>1. H(h, L[p]) = H(h, R[p])
    BY <1>6
  <2>2. h[x] = h[s]
    BY <2>1, <1>5
  <2> QED BY <2>2, <1>5, <1>6
<1>8. /\ f \in [Node -> Nat] /\ f[x] = h[x] - 1 /\ f[s] = h[s] - 1
      /\ \A y \in S : y # x /\ y # s => f[y] = h[y]
  BY <1>5, <1>7
<1> HIDE DEF f
<1>9. \A y \in S \cup {NULL} : y # x /\ y # s => H(f, y) = H(h, y)
  BY <1>8 DEF H
<1>10. ASSUME NEW y \in S
       PROVE  IF y = g THEN f[y] = H(f, NULL) + Lacks(w, y)
              ELSE /\ H(f, L[y]) = H(f, R[y])
                   /\ f[y] = H(f, L[y]) + Black(rd2, NULL, y) + Lacks(w, y)
  <2>1. H(f, NULL) = 0
    BY DEF H
  <2>2. CASE y = p
    <3>0. x # NULL /\ s # NULL
      OBVIOUS
    <3>1. H(f, L[y]) = h[x] - 1 /\ H(f, R[y]) = h[x] - 1 /\ H(h, L[y]) = h[x]
      <4>1. H(f, x) = h[x] - 1 /\ H(f, s) = h[x] - 1 /\ H(h, x) = h[x] /\ H(h, s) = h[x]
        BY <3>0, <1>5, <1>7, <1>8 DEF H
      <4>2. CASE L[p] = x /\ R[p] = s
        BY <4>1, <4>2, <2>2
      <4>3. CASE R[p] = x /\ L[p] = s
        BY <4>1, <4>3, <2>2
      <4> QED BY <4>2, <4>3
    <3>2. f[y] = h[y] /\ Lacks(x, y) = 0 /\ y # g
      BY <2>2, <1>5, <1>8
    <3>3. ~rd2[y] /\ Black(rd2, NULL, y) = 1
      BY <2>2, <1>1, <1>5
    <3>4. Black(rd, NULL, y) = (IF rd[p] THEN 0 ELSE 1) /\ Lacks(w, y) = (IF rd[p] THEN 0 ELSE 1)
      BY <2>2, <1>5
    <3>5. h[y] = h[x] + Black(rd, NULL, y)
      BY <3>1, <3>2, <1>5, <1>6
    <3>6. f[y] = (h[x] - 1) + 1 + Lacks(w, y)
      <4> HIDE DEF w
      <4>1. h[x] \in Nat
        BY <1>5
      <4>2. CASE rd[p]
        BY <4>1, <4>2, <3>2, <3>4, <3>5
      <4>3. CASE ~rd[p]
        BY <4>1, <4>3, <3>2, <3>4, <3>5
      <4> QED BY <4>2, <4>3
    <3> QED BY <3>1, <3>2, <3>3, <3>6
  <2>3. CASE y # p
    <3>1. L[y] # x /\ L[y] # s /\ R[y] # x /\ R[y] # s
      BY <2>3, <1>2
    <3>2. H(f, L[y]) = H(h, L[y]) /\ H(f, R[y]) = H(h, R[y])
      BY <3>1, <1>2, <1>9
    <3>3. CASE y = s
      <4>1. y # g /\ Black(rd, NULL, y) = 1 /\ Black(rd2, NULL, y) = 0
            /\ Lacks(x, y) = 0 /\ Lacks(w, y) = 0 /\ f[y] = h[y] - 1
        BY <3>3, <2>3, <1>1, <1>5, <1>8
      <4> QED BY <4>1, <3>2, <1>5, <1>6
    <3>4. CASE y # s
      <4>1. Black(rd, NULL, y) = Black(rd2, NULL, y) /\ Lacks(w, y) = 0 /\ f[y] = h[y] - Lacks(x, y)
        BY <3>4, <2>3, <1>1, <1>5, <1>8
      <4> QED BY <4>1, <3>2, <2>1, <1>5, <1>6
    <3> QED BY <3>3, <3>4
  <2> QED BY <2>2, <2>3
<1>11. HeightRule(S, L, R, rd2, NULL, w, g, NULL, f)
  BY <1>10 DEF HeightRule
<1>12. Level(S, L, R, rd2, NULL, w, g, NULL)
  BY <1>8, <1>11 DEF Level
<1> QED BY <1>4, <1>12 DEF rd2

\* What the invariant says while a black node is lacking.
LEMMA ShortTree ==
  ASSUME IInv, pc \in Short
  PROVE  /\ CallOK /\ PhaseOK /\ members \in SUBSET Node /\ NULL \notin members
         /\ pRoot \in Ref /\ pLeft \in [Node -> Ref] /\ pRight \in [Node -> Ref]
         /\ pParent \in [Node -> Ref] /\ red \in [Node -> BOOLEAN]
         /\ LinksOK(members, pRoot, pLeft, pRight, pParent)
         /\ KinOK(members, pLeft, pRight, pParent)
         /\ \E pos, lo, hi \in [Node -> Int] :
              PlacesOK(members, pRoot, pLeft, pRight, pos, lo, hi) /\ SortedOK(pos)
         /\ ColourRule(members, pRoot, pLeft, pRight, red, NULL, NULL)
         /\ Level(members, pLeft, pRight, red, NULL, pNode, pOut, NULL)
<1>1. pc # "nodeAdd" /\ pc \in Removing /\ pc \notin Inserting /\ pc # "insertRootCheck"
  BY DEF Short, Removing, Inserting
<1>2. /\ CallOK /\ PhaseOK /\ members \in SUBSET Node /\ NULL \notin members
      /\ pRoot \in Ref /\ pLeft \in [Node -> Ref] /\ pRight \in [Node -> Ref]
      /\ pParent \in [Node -> Ref] /\ red \in [Node -> BOOLEAN]
      /\ LinksOK(members, pRoot, pLeft, pRight, pParent)
      /\ ColourRule(members, pRoot, pLeft, pRight, red, Painted, Excused)
  BY <1>1, Between
<1>3. PICK pos \in [Node -> Int], lo \in [Node -> Int], hi \in [Node -> Int] :
        PlacesOK(members, pRoot, pLeft, pRight, pos, lo, hi) /\ SortedOK(pos)
  BY <1>1, Between
<1>4. \E h \in [Node -> Nat] :
        HeightRule(members, pLeft, pRight, red, Painted, ShortAt, Leaving, pChild, h)
  BY <1>1, Between
<1>5. KinOK(members, pLeft, pRight, pParent)
  BY <1>2, <1>3, Kin
<1>6. Painted = NULL /\ Excused = NULL /\ ShortAt = pNode /\ Leaving = pOut /\ pChild = NULL
  BY <1>1, <1>2 DEF Painted, Excused, ShortAt, Leaving, CallOK
<1>7. Level(members, pLeft, pRight, red, NULL, pNode, pOut, NULL)
  BY <1>4, <1>6 DEF Level
<1> QED BY <1>2, <1>3, <1>5, <1>6, <1>7

\* The tree stands still.
StandsStill ==
  /\ members' = members /\ u32NumNode' = u32NumNode
  /\ pRoot' = pRoot /\ pLeft' = pLeft /\ pRight' = pRight /\ pParent' = pParent
  /\ pDown' = pDown /\ pOut' = pOut /\ pChild' = pChild

LEMMA Recoloured ==
  ASSUME IInv, pc \in Short, StandsStill, pc' \in Removing, pNode' \in members,
         red' \in [Node -> BOOLEAN], \A y \in Node \ members : red'[y] = red[y],
         ColourRule(members, pRoot, pLeft, pRight, red', NULL, NULL),
         Level(members, pLeft, pRight, red', NULL, ShortAt', Leaving', pChild),
         CallOK', PhaseOK'
  PROVE  IInv'
<1>1. /\ members \in SUBSET Node
      /\ pRoot \in Ref /\ pLeft \in [Node -> Ref] /\ pRight \in [Node -> Ref]
      /\ pParent \in [Node -> Ref]
      /\ LinksOK(members, pRoot, pLeft, pRight, pParent)
  BY ShortTree
<1>2. PICK pos \in [Node -> Int], lo \in [Node -> Int], hi \in [Node -> Int] :
        PlacesOK(members, pRoot, pLeft, pRight, pos, lo, hi) /\ SortedOK(pos)
  BY ShortTree
<1>3. /\ members' = members /\ u32NumNode' = u32NumNode /\ pDown' = pDown /\ pOut' = pOut
      /\ pChild' = pChild /\ pc \in Removing
      /\ pRoot' \in Ref /\ pLeft' \in [Node -> Ref] /\ pRight' \in [Node -> Ref]
      /\ pParent' \in [Node -> Ref]
      /\ LinksOK(members, pRoot', pLeft', pRight', pParent')
      /\ ColourRule(members, pRoot', pLeft', pRight', red', NULL, NULL)
      /\ Level(members, pLeft', pRight', red', NULL, ShortAt', Leaving', pChild')
  BY <1>1 DEF StandsStill, Removing
<1>4. Elsewhere(members, pLeft, pRight, pParent, pLeft', pRight', pParent')
  BY DEF StandsStill, Elsewhere
<1>5. \E lo2, hi2 \in [Node -> Int] : PlacesOK(members, pRoot', pLeft', pRight', pos, lo2, hi2)
  BY <1>2 DEF StandsStill
<1> QED BY <1>2, <1>3, <1>4, <1>5, Rebuilt

\* removeSiblingCheck: a black sibling with black children gets red below a
\* black parent, which lacks a black node then.
LEMMA RemoveSiblingCheckKeeps ==
  ASSUME IInv, RemoveSiblingCheck
  PROVE  IInv'
<1> DEFINE x == pNode
<1> DEFINE p == pParent[x]
<1> DEFINE s == Sibling(x)
<1>1. pc = "removeSiblingCheck" /\ pc \in Short
  BY DEF RemoveSiblingCheck, Short
<1>2. StandsStill
  BY DEF StandsStill, RemoveSiblingCheck, tree
<1>3. /\ CallOK /\ PhaseOK /\ members \in SUBSET Node /\ NULL \notin members
      /\ red \in [Node -> BOOLEAN]
      /\ LinksOK(members, pRoot, pLeft, pRight, pParent)
      /\ KinOK(members, pLeft, pRight, pParent)
      /\ ColourRule(members, pRoot, pLeft, pRight, red, NULL, NULL)
      /\ Level(members, pLeft, pRight, red, NULL, x, pOut, NULL)
  BY <1>1, ShortTree
<1>4. p # NULL /\ ~IsRed(s)
  BY <1>1, <1>3 DEF PhaseOK, Short
<1>5. /\ x \in members /\ pOut \in members /\ p \in members /\ s \in members
      /\ s # NULL /\ p # x /\ s # x /\ s # p /\ p # pOut /\ s # pOut /\ pParent[s] = p
      /\ pChild = NULL /\ pLeft[pOut] = NULL /\ pRight[pOut] = NULL /\ ~red[pOut] /\ ~red[x]
      /\ IF IsLeft(x) THEN x = pLeft[p] /\ s = pRight[p] ELSE x = pRight[p] /\ s = pLeft[p]
  BY <1>1, <1>4, ShortIs
<1>6. (pLeft[p] = x /\ pRight[p] = s) \/ (pRight[p] = x /\ pLeft[p] = s)
  BY <1>5
<1>7. ~red[s]
  BY <1>4, <1>5 DEF IsRed
<1>8. CASE ~red[p] /\ HasBlackChildren(s)
  <2>1. pc' = "removeRootCheck" /\ pNode' = p /\ red' = [red EXCEPT ![s] = TRUE]
    BY <1>5, <1>7, <1>8 DEF RemoveSiblingCheck, Goto
  <2>2. red' = [red EXCEPT ![s] = TRUE, ![p] = FALSE]
    BY <2>1, <1>3, <1>5, <1>8
  <2>3. ~Ruddy(red, NULL, pLeft[s]) /\ ~Ruddy(red, NULL, pRight[s])
    BY <1>3, <1>5, <1>8 DEF HasBlackChildren, IsRed, Ruddy, KinOK
  <2>4. ColourRule(members, pRoot, pLeft, pRight, red', NULL, NULL)
    <3> HIDE DEF x, p, s
    <3>1. ColourRule(members, pRoot, pLeft, pRight, [red EXCEPT ![s] = TRUE, ![p] = FALSE], NULL, NULL)
      BY <2>3, <1>3, <1>5, <1>6, <1>7, PaintSibling DEF p
    <3> QED BY <3>1, <2>2
  <2>5. Level(members, pLeft, pRight, red', NULL, p, pOut, NULL)
    <3> HIDE DEF x, p, s
    <3>1. Level(members, pLeft, pRight, [red EXCEPT ![s] = TRUE, ![p] = FALSE], NULL,
                IF red[p] THEN NULL ELSE p, pOut, NULL)
      BY <2>3, <1>3, <1>5, <1>6, <1>7, PaintSibling DEF p
    <3> QED BY <3>1, <2>2, <1>8
  <2>6. pc' \in Removing /\ pc' \in Short /\ ShortAt' = p /\ Leaving' = pOut
    BY <2>1, <1>2 DEF Removing, Short, ShortAt, Leaving, StandsStill
  <2>7. red' \in [Node -> BOOLEAN] /\ \A y \in Node \ members : red'[y] = red[y]
    BY <2>1, <1>3, <1>5
  <2>8. ~red'[pOut] /\ ~red'[p]
    BY <2>1, <1>3, <1>5, <1>8
  <2>9. CallOK'
    BY <2>1, <2>8, <1>2, <1>5 DEF CallOK, Removing, Short, Inserting, StandsStill
  <2>10. PhaseOK'
    BY <2>1 DEF PhaseOK, Short, Inserting
  <2> QED BY <2>1, <2>4, <2>5, <2>6, <2>7, <2>9, <2>10, <1>1, <1>2, <1>5, Recoloured
<1>9. CASE red[p] \/ ~HasBlackChildren(s)
  <2>1. pc' = "removeParentCheck" /\ pNode' = x /\ red' = red
    BY <1>5, <1>7, <1>9 DEF RemoveSiblingCheck, Goto
  <2>2. pc' \in Removing /\ pc' \in Short /\ ShortAt' = x /\ Leaving' = pOut
    BY <2>1, <1>2 DEF Removing, Short, ShortAt, Leaving, StandsStill
  <2>3. CallOK'
    BY <2>1, <1>2, <1>5 DEF CallOK, Removing, Short, Inserting, StandsStill
  <2>4. Sibling(pNode)' = s /\ IsRed(s)' = IsRed(s) /\ HasBlackChildren(s)' = HasBlackChildren(s)
    BY <2>1, <1>2 DEF Sibling, IsLeft, IsRed, HasBlackChildren, StandsStill
  <2>5. PhaseOK'
    <3>1. pParent'[pNode'] # NULL /\ (red'[pParent'[pNode']] \/ ~HasBlackChildren(Sibling(pNode))')
      BY <2>1, <2>4, <1>2, <1>4, <1>9 DEF StandsStill, HasBlackChildren, IsRed
    <3>2. ~IsRed(Sibling(pNode))'
      BY <2>1, <2>4, <1>4 DEF IsRed
    <3> QED BY <2>1, <3>1, <3>2 DEF PhaseOK, Short, Inserting
  <2> QED BY <2>1, <2>2, <2>3, <2>5, <1>1, <1>2, <1>3, <1>5, Recoloured
<1> QED BY <1>8, <1>9

\* removeParentCheck: with a red parent the lack ends here, else the sibling
\* has a red child.
LEMMA RemoveParentCheckKeeps ==
  ASSUME IInv, RemoveParentCheck
  PROVE  IInv'
<1> DEFINE x == pNode
<1> DEFINE p == pParent[x]
<1> DEFINE s == Sibling(x)
<1>1. pc = "removeParentCheck" /\ pc \in Short
  BY DEF RemoveParentCheck, Short
<1>2. StandsStill /\ pNode' = x
  BY DEF StandsStill, RemoveParentCheck, tree, call
<1>3. /\ CallOK /\ PhaseOK /\ members \in SUBSET Node /\ NULL \notin members
      /\ red \in [Node -> BOOLEAN]
      /\ LinksOK(members, pRoot, pLeft, pRight, pParent)
      /\ KinOK(members, pLeft, pRight, pParent)
      /\ ColourRule(members, pRoot, pLeft, pRight, red, NULL, NULL)
      /\ Level(members, pLeft, pRight, red, NULL, x, pOut, NULL)
  BY <1>1, ShortTree
<1>4. p # NULL /\ ~IsRed(s) /\ (red[p] \/ ~HasBlackChildren(s))
  BY <1>1, <1>3 DEF PhaseOK, Short
<1>5. /\ x \in members /\ pOut \in members /\ p \in members /\ s \in members
      /\ s # NULL /\ p # x /\ s # x /\ s # p /\ p # pOut /\ s # pOut /\ pParent[s] = p
      /\ pChild = NULL /\ pLeft[pOut] = NULL /\ pRight[pOut] = NULL /\ ~red[pOut] /\ ~red[x]
      /\ IF IsLeft(x) THEN x = pLeft[p] /\ s = pRight[p] ELSE x = pRight[p] /\ s = pLeft[p]
  BY <1>1, <1>4, ShortIs
<1>6. (pLeft[p] = x /\ pRight[p] = s) \/ (pRight[p] = x /\ pLeft[p] = s)
  BY <1>5
<1>7. ~red[s]
  BY <1>4, <1>5 DEF IsRed
<1>8. CASE red[p] /\ HasBlackChildren(s)
  <2>1. pc' = "removeUnlink" /\ red' = [red EXCEPT ![s] = TRUE, ![p] = FALSE]
    BY <1>4, <1>5, <1>8 DEF RemoveParentCheck, Goto
  <2>2. ~Ruddy(red, NULL, pLeft[s]) /\ ~Ruddy(red, NULL, pRight[s])
    BY <1>3, <1>5, <1>8 DEF HasBlackChildren, IsRed, Ruddy, KinOK
  <2>3. ColourRule(members, pRoot, pLeft, pRight, red', NULL, NULL)
    <3> HIDE DEF x, p, s
    <3>1. ColourRule(members, pRoot, pLeft, pRight, [red EXCEPT ![s] = TRUE, ![p] = FALSE], NULL, NULL)
      BY <2>2, <1>3, <1>5, <1>6, <1>7, PaintSibling DEF p
    <3> QED BY <3>1, <2>1
  <2>4. Level(members, pLeft, pRight, red', NULL, NULL, pOut, NULL)
    <3> HIDE DEF x, p, s
    <3>1. Level(members, pLeft, pRight, [red EXCEPT ![s] = TRUE, ![p] = FALSE], NULL,
                IF red[p] THEN NULL ELSE p, pOut, NULL)
      BY <2>2, <1>3, <1>5, <1>6, <1>7, PaintSibling DEF p
    <3> QED BY <3>1, <2>1, <1>8
  <2>5. pc' \in Removing /\ pc' \notin Short /\ ShortAt' = NULL /\ Leaving' = pOut
    BY <2>1, <1>2 DEF Removing, Short, ShortAt, Leaving, StandsStill
  <2>6. red' \in [Node -> BOOLEAN] /\ \A y \in Node \ members : red'[y] = red[y]
    BY <2>1, <1>3, <1>5
  <2>7. CallOK'
    BY <2>1, <1>2, <1>5 DEF CallOK, Removing, Short, Inserting, StandsStill
  <2>8. PhaseOK'
    BY <2>1 DEF PhaseOK, Short, Inserting
  <2> QED BY <2>1, <2>3, <2>4, <2>5, <2>6, <2>7, <2>8, <1>1, <1>2, <1>5, Recoloured
<1>9. CASE ~(red[p] /\ HasBlackChildren(s))
  <2>1. pc' = "removeSiblingChildAdjust" /\ red' = red
    BY <1>5, <1>7, <1>9 DEF RemoveParentCheck, Goto
  <2>2. pc' \in Removing /\ pc' \in Short /\ ShortAt' = x /\ Leaving' = pOut
    BY <2>1, <1>2 DEF Removing, Short, ShortAt, Leaving, StandsStill
  <2>3. CallOK'
    BY <2>1, <1>2, <1>5 DEF CallOK, Removing, Short, Inserting, StandsStill
  <2>4. Sibling(pNode)' = s /\ IsRed(s)' = IsRed(s) /\ HasBlackChildren(s)' = HasBlackChildren(s)
    BY <2>1, <1>2 DEF Sibling, IsLeft, IsRed, HasBlackChildren, StandsStill
  <2>5. PhaseOK'
    <3>1. pParent'[pNode'] # NULL /\ ~HasBlackChildren(Sibling(pNode))'
      BY <2>1, <2>4, <1>2, <1>4, <1>9 DEF StandsStill, HasBlackChildren, IsRed
    <3>2. ~IsRed(Sibling(pNode))'
      BY <2>1, <2>4, <1>4 DEF IsRed
    <3> QED BY <2>1, <3>1, <3>2 DEF PhaseOK, Short, Inserting
  <2> QED BY <2>1, <2>2, <2>3, <2>5, <1>1, <1>2, <1>3, <1>5, Recoloured
<1> QED BY <1>8, <1>9

\* Around x and g after its red sibling s has come up.
SiblingUp(S, x, p, s, g, rd2, L, L2, R2, P2) ==
  /\ P2[x] = p /\ L2[p] = x /\ R2[p] = L[s] /\ L[s] # x
  /\ L2[g] = NULL /\ R2[g] = NULL
  /\ L[s] # NULL => ~rd2[L[s]]

LEMMA SiblingTurn ==
  ASSUME NEW S \in SUBSET Node, NEW r, NEW L, NEW R, NEW P,
         NEW pos \in [Node -> Int], NEW lo \in [Node -> Int], NEW hi \in [Node -> Int],
         LinksOK(S, r, L, R, P), PlacesOK(S, r, L, R, pos, lo, hi),
         NEW rd \in [Node -> BOOLEAN], ColourRule(S, r, L, R, rd, NULL, NULL),
         NEW x \in S, NEW p \in S, NEW s \in S, NEW g \in S,
         P[x] = p, P[s] = p, L[p] = x, R[p] = s, rd[s], ~rd[x], x # s, p # x, p # s,
         g # s, g # p, L[g] = NULL, R[g] = NULL,
         Level(S, L, R, rd, NULL, x, g, NULL),
         NEW r2, NEW L2, NEW R2, NEW P2, Rotated(S, p, s, r, L, R, P, r2, L2, R2, P2)
  PROVE  /\ ColourRule(S, r2, L2, R2, [rd EXCEPT ![p] = TRUE, ![s] = FALSE], NULL, NULL)
         /\ Level(S, L2, R2, [rd EXCEPT ![p] = TRUE, ![s] = FALSE], NULL, x, g, NULL)
         /\ SiblingUp(S, x, p, s, g, [rd EXCEPT ![p] = TRUE, ![s] = FALSE], L, L2, R2, P2)
<1>1. NULL \notin S
  BY NullOutside
<1>2. KinOK(S, L, R, P)
  BY Kin
<1>3. /\ L[s] \in S \cup {NULL} /\ L[s] # s /\ (L[s] # NULL => P[L[s]] = s)
      /\ L[s] # p /\ L[s] # x
  <2>1. L[s] \in S \cup {NULL} /\ L[s] # s /\ (L[s] # NULL => P[L[s]] = s)
    BY <1>2 DEF KinOK, LinksOK
  <2>2. P[p] # s
    BY <1>1, <1>2 DEF KinOK
  <2> QED BY <2>1, <2>2, <1>1
<1>4. ~rd[p]
  BY <1>1 DEF ColourRule, Ruddy
<1>5. ~Ruddy(rd, NULL, L[p]) /\ ~Ruddy(rd, NULL, L[s])
  BY <1>1, <1>3 DEF ColourRule, Ruddy
<1>6. ColourRule(S, r2, L2, R2, [rd EXCEPT ![p] = TRUE, ![s] = FALSE], NULL, NULL)
  <2>1. NULL \in S => P[NULL] = s
    BY <1>1
  <2> QED BY ZenonT(60), <2>1, <1>5, RotateColours
<1>7. Level(S, L2, R2, [rd EXCEPT ![p] = TRUE, ![s] = FALSE], NULL, x, g, NULL)
  <2>1. PICK h \in [Node -> Nat] : HeightRule(S, L, R, rd, NULL, x, g, NULL, h)
    BY DEF Level
  <2> QED BY ZenonT(60), <2>1, <1>4, RotateHeights
<1>8. \A y \in S :
       /\ L2[y] = IF y = s THEN p ELSE IF y = P[p] /\ L[y] = p THEN s ELSE L[y]
       /\ R2[y] = IF y = p THEN L[s] ELSE IF y = P[p] /\ R[y] = p THEN s ELSE R[y]
       /\ P2[y] = IF y = p THEN s ELSE IF y = s THEN P[p] ELSE IF y = L[s] THEN p ELSE P[y]
  BY DEF Rotated
<1>9. P2[x] = p
  BY <1>8
<1>10. L2[p] = x /\ R2[p] = L[s]
  BY <1>2, <1>8 DEF KinOK
<1>11. L2[g] = NULL /\ R2[g] = NULL
  BY <1>1, <1>8
<1>12. L[s] # NULL => ~[rd EXCEPT ![p] = TRUE, ![s] = FALSE][L[s]]
  BY <1>3, <1>5 DEF Ruddy
<1> QED BY <1>3, <1>6, <1>7, <1>9, <1>10, <1>11, <1>12 DEF SiblingUp

\* removeSiblingAdjust: a red sibling comes up, and its near child is the
\* sibling then.
LEMMA RemoveSiblingAdjustKeeps ==
  ASSUME IInv, RemoveSiblingAdjust
  PROVE  IInv'
<1> DEFINE x == pNode
<1> DEFINE p == pParent[x]
<1> DEFINE s == Sibling(x)
<1>1. pc = "removeSiblingAdjust" /\ pc \in Short /\ pc \in Removing
  BY DEF RemoveSiblingAdjust, Short, Removing
<1>2. /\ pc' = "removeSiblingCheck" /\ members' = members /\ u32NumNode' = u32NumNode
      /\ pNode' = x /\ pDown' = pDown /\ pOut' = pOut /\ pChild' = pChild
  BY DEF RemoveSiblingAdjust, call, Goto
<1>3. /\ CallOK /\ PhaseOK /\ members \in SUBSET Node /\ NULL \notin members
      /\ red \in [Node -> BOOLEAN]
      /\ pRoot \in Ref /\ pLeft \in [Node -> Ref] /\ pRight \in [Node -> Ref]
      /\ pParent \in [Node -> Ref]
      /\ LinksOK(members, pRoot, pLeft, pRight, pParent)
      /\ KinOK(members, pLeft, pRight, pParent)
      /\ ColourRule(members, pRoot, pLeft, pRight, red, NULL, NULL)
      /\ Level(members, pLeft, pRight, red, NULL, x, pOut, NULL)
  BY <1>1, ShortTree
<1>4. p # NULL
  BY <1>1, <1>3 DEF PhaseOK, Short
<1>5. /\ x \in members /\ pOut \in members /\ p \in members /\ s \in members
      /\ s # NULL /\ p # x /\ s # x /\ s # p /\ p # pOut /\ s # pOut /\ pParent[s] = p
      /\ pChild = NULL /\ pLeft[pOut] = NULL /\ pRight[pOut] = NULL /\ ~red[pOut] /\ ~red[x]
      /\ IF IsLeft(x) THEN x = pLeft[p] /\ s = pRight[p] ELSE x = pRight[p] /\ s = pLeft[p]
  BY <1>1, <1>4, ShortIs
<1>6. pc' \in Removing /\ pc' \in Short /\ ShortAt' = x /\ Leaving' = pOut
  BY <1>2 DEF Removing, Short, ShortAt, Leaving
<1>7. PICK pos \in [Node -> Int], lo \in [Node -> Int], hi \in [Node -> Int] :
        PlacesOK(members, pRoot, pLeft, pRight, pos, lo, hi) /\ SortedOK(pos)
  BY <1>1, ShortTree
<1> DEFINE rd == [red EXCEPT ![p] = TRUE, ![s] = FALSE]
<1>8. rd \in [Node -> BOOLEAN] /\ (\A y \in Node \ members : rd[y] = red[y]) /\ ~rd[pOut] /\ ~rd[x]
  BY <1>3, <1>5
<1>9. CASE ~IsRed(s)
  <2>1. StandsStill /\ red' = red
    BY <1>2, <1>9 DEF RemoveSiblingAdjust, StandsStill, tree
  <2>2. CallOK'
    BY <2>1, <1>2, <1>5 DEF CallOK, Removing, Short, Inserting, StandsStill
  <2>3. Sibling(pNode)' = s
    BY <2>1, <1>2 DEF Sibling, IsLeft, StandsStill
  <2>4. PhaseOK'
    <3>1. pParent'[pNode'] # NULL /\ ~IsRed(Sibling(pNode))'
      BY <2>1, <2>3, <1>2, <1>4, <1>9 DEF StandsStill, IsRed
    <3> QED BY <1>2, <3>1 DEF PhaseOK, Short, Inserting
  <2> QED BY <2>1, <2>2, <2>4, <1>1, <1>2, <1>3, <1>5, <1>6, Recoloured
<1>10. CASE IsRed(s) /\ IsLeft(x)
  <2>1. SetTree(RotateLeft(Now, p)) /\ red' = rd /\ red[s] /\ x = pLeft[p] /\ s = pRight[p]
    BY <1>5, <1>10 DEF RemoveSiblingAdjust, IsRed
  <2> HIDE DEF x, p, s, rd
  <2>2. /\ Rotated(members, p, s, pRoot, pLeft, pRight, pParent, pRoot', pLeft', pRight', pParent')
        /\ pRoot' \in Ref /\ pLeft' \in [Node -> Ref] /\ pRight' \in [Node -> Ref]
        /\ pParent' \in [Node -> Ref]
        /\ LinksOK(members, pRoot', pLeft', pRight', pParent')
        /\ \E lo2, hi2 \in [Node -> Int] : PlacesOK(members, pRoot', pLeft', pRight', pos, lo2, hi2)
        /\ Elsewhere(members, pLeft, pRight, pParent, pLeft', pRight', pParent')
    BY <2>1, <1>3, <1>5, <1>7, LeftTurn
  <2>3. /\ ColourRule(members, pRoot', pLeft', pRight', rd, NULL, NULL)
        /\ Level(members, pLeft', pRight', rd, NULL, x, pOut, NULL)
        /\ SiblingUp(members, x, p, s, pOut, rd, pLeft, pLeft', pRight', pParent')
    <3>1. pParent[x] = p
      BY DEF p
    <3> QED BY ZenonT(60), <3>1, <2>1, <2>2, <1>3, <1>5, <1>7, SiblingTurn DEF rd
  <2>4. /\ pParent'[x] = p /\ pLeft'[p] = x /\ pRight'[p] = pLeft[s]
        /\ pLeft'[pOut] = NULL /\ pRight'[pOut] = NULL
        /\ (pLeft[s] # NULL => ~rd[pLeft[s]])
    BY <2>3 DEF SiblingUp
  <2>5. CallOK'
    BY <2>1, <2>4, <1>2, <1>5, <1>8 DEF CallOK, Removing, Short, Inserting
  <2>6. Sibling(pNode)' = pLeft[s]
    BY <2>4, <1>2, <1>4 DEF Sibling, IsLeft
  <2>7. PhaseOK'
    <3>1. pParent'[pNode'] # NULL /\ ~IsRed(Sibling(pNode))'
      BY <2>1, <2>4, <2>6, <1>2, <1>4 DEF IsRed
    <3> QED BY <1>2, <3>1 DEF PhaseOK, Short, Inserting
  <2>8. pNode' \in members /\ pChild' = NULL
    BY <1>2, <1>5
  <2> QED BY <2>1, <2>2, <2>3, <2>5, <2>7, <2>8, <1>1, <1>2, <1>5, <1>6, <1>7, <1>8, Rebuilt
<1>11. CASE IsRed(s) /\ ~IsLeft(x)
  <2>1. SetTree(RotateRight(Now, p)) /\ red' = rd /\ red[s] /\ x = pRight[p] /\ s = pLeft[p]
    BY <1>5, <1>11 DEF RemoveSiblingAdjust, IsRed
  <2> HIDE DEF x, p, s, rd
  <2>2. /\ Rotated(members, p, s, pRoot, pRight, pLeft, pParent, pRoot', pRight', pLeft', pParent')
        /\ pRoot' \in Ref /\ pLeft' \in [Node -> Ref] /\ pRight' \in [Node -> Ref]
        /\ pParent' \in [Node -> Ref]
        /\ LinksOK(members, pRoot', pLeft', pRight', pParent')
        /\ \E lo2, hi2 \in [Node -> Int] : PlacesOK(members, pRoot', pLeft', pRight', pos, lo2, hi2)
        /\ Elsewhere(members, pLeft, pRight, pParent, pLeft', pRight', pParent')
    BY <2>1, <1>3, <1>5, <1>7, RightTurn
  <2>3. /\ ColourRule(members, pRoot', pRight', pLeft', rd, NULL, NULL)
        /\ Level(members, pRight', pLeft', rd, NULL, x, pOut, NULL)
        /\ SiblingUp(members, x, p, s, pOut, rd, pRight, pRight', pLeft', pParent')
    <3>1. pParent[x] = p
      BY DEF p
    <3>2. MirroredOK(members, pRoot, pLeft, pRight, pParent, pos, lo, hi)
      BY <1>3, <1>7, MirrorTree
    <3>3. ColourRule(members, pRoot, pRight, pLeft, red, NULL, NULL)
      BY <1>3, MirrorColours
    <3>4. Level(members, pRight, pLeft, red, NULL, x, pOut, NULL)
      BY <1>3, MirrorLevel
    <3>5. /\ LinksOK(members, pRoot, pRight, pLeft, pParent)
          /\ Mirror(pos) \in [Node -> Int] /\ Mirror(hi) \in [Node -> Int] /\ Mirror(lo) \in [Node -> Int]
          /\ PlacesOK(members, pRoot, pRight, pLeft, Mirror(pos), Mirror(hi), Mirror(lo))
      BY <3>2 DEF MirroredOK
    <3> QED BY ZenonT(60), <3>1, <3>3, <3>4, <3>5, <2>1, <2>2, <1>3, <1>5, SiblingTurn DEF rd
  <2>4. /\ pParent'[x] = p /\ pRight'[p] = x /\ pLeft'[p] = pRight[s] /\ pRight[s] # x
        /\ pLeft'[pOut] = NULL /\ pRight'[pOut] = NULL
        /\ (pRight[s] # NULL => ~rd[pRight[s]])
    BY <2>3 DEF SiblingUp
  <2>5. CallOK'
    BY <2>1, <2>4, <1>2, <1>5, <1>8 DEF CallOK, Removing, Short, Inserting
  <2>6. Sibling(pNode)' = pRight[s]
    BY <2>4, <1>2, <1>4 DEF Sibling, IsLeft
  <2>7. PhaseOK'
    <3>1. pParent'[pNode'] # NULL /\ ~IsRed(Sibling(pNode))'
      BY <2>1, <2>4, <2>6, <1>2, <1>4 DEF IsRed
    <3> QED BY <1>2, <3>1 DEF PhaseOK, Short, Inserting
  <2>8. pNode' \in members /\ pChild' = NULL
    BY <1>2, <1>5
  <2>9. /\ ColourRule(members, pRoot', pLeft', pRight', red', NULL, NULL)
        /\ Level(members, pLeft', pRight', red', NULL, x, pOut, NULL)
    BY <2>1, <2>3, MirrorColours, MirrorLevel
  <2> QED BY <2>1, <2>2, <2>5, <2>7, <2>8, <2>9, <1>1, <1>2, <1>5, <1>6, <1>7, <1>8, Rebuilt
<1> QED BY <1>9, <1>10, <1>11

\* Around x and g after the red near child c of its sibling s has come up.
NearUp(x, p, s, c, g, rd2, L2, R2, P2) ==
  /\ P2[x] = p /\ R2[p] = x /\ L2[p] = c /\ L2[c] = s
  /\ c # x /\ c # NULL /\ s # NULL
  /\ L2[g] = NULL /\ R2[g] = NULL
  /\ ~rd2[c] /\ rd2[s]

LEMMA NearTurn ==
  ASSUME NEW S \in SUBSET Node, NEW r, NEW L, NEW R, NEW P,
         NEW pos \in [Node -> Int], NEW lo \in [Node -> Int], NEW hi \in [Node -> Int],
         LinksOK(S, r, L, R, P), PlacesOK(S, r, L, R, pos, lo, hi),
         NEW rd \in [Node -> BOOLEAN], ColourRule(S, r, L, R, rd, NULL, NULL),
         NEW x \in S, NEW p \in S, NEW s \in S, NEW g \in S, NEW c \in S,
         P[x] = p, P[s] = p, R[p] = x, L[p] = s, R[s] = c, rd[c], ~rd[s], ~rd[x], ~rd[g],
         ~Ruddy(rd, NULL, L[s]), x # s, p # x, p # s,
         g # s, g # p, L[g] = NULL, R[g] = NULL,
         Level(S, L, R, rd, NULL, x, g, NULL),
         NEW r2, NEW L2, NEW R2, NEW P2, Rotated(S, s, c, r, L, R, P, r2, L2, R2, P2)
  PROVE  /\ ColourRule(S, r2, L2, R2, [rd EXCEPT ![s] = TRUE, ![c] = FALSE], NULL, NULL)
         /\ Level(S, L2, R2, [rd EXCEPT ![s] = TRUE, ![c] = FALSE], NULL, x, g, NULL)
         /\ NearUp(x, p, s, c, g, [rd EXCEPT ![s] = TRUE, ![c] = FALSE], L2, R2, P2)
<1>1. NULL \notin S
  BY NullOutside
<1>2. KinOK(S, L, R, P)
  BY Kin
<1>3. c # s /\ P[c] = s /\ c # p /\ c # x /\ c # g /\ c # NULL /\ s # NULL
  <2>1. c # s /\ P[c] = s
    BY <1>1, <1>2 DEF KinOK, LinksOK
  <2>2. P[p] # s
    BY <1>1, <1>2 DEF KinOK
  <2> QED BY <2>1, <2>2, <1>1
<1>4. L[c] \in S \cup {NULL} /\ (L[c] # NULL => P[L[c]] = c) /\ L[c] # x
  <2>1. L[c] \in S \cup {NULL} /\ (L[c] # NULL => P[L[c]] = c)
    BY DEF LinksOK
  <2> QED BY <2>1, <1>1, <1>3
<1>5. ~Ruddy(rd, NULL, L[c])
  BY <1>1, <1>3, <1>4 DEF ColourRule, Ruddy
<1>6. ColourRule(S, r2, L2, R2, [rd EXCEPT ![s] = TRUE, ![c] = FALSE], NULL, NULL)
  <2>1. NULL \in S => P[NULL] = c
    BY <1>1
  <2> QED BY ZenonT(60), <2>1, <1>5, RotateColours
<1>7. Level(S, L2, R2, [rd EXCEPT ![s] = TRUE, ![c] = FALSE], NULL, x, g, NULL)
  <2>1. PICK h \in [Node -> Nat] : HeightRule(S, L, R, rd, NULL, x, g, NULL, h)
    BY DEF Level
  <2> QED BY ZenonT(60), <2>1, <1>3, RotateHeights
<1>8. \A y \in S :
       /\ L2[y] = IF y = c THEN s ELSE IF y = P[s] /\ L[y] = s THEN c ELSE L[y]
       /\ R2[y] = IF y = s THEN L[c] ELSE IF y = P[s] /\ R[y] = s THEN c ELSE R[y]
       /\ P2[y] = IF y = s THEN c ELSE IF y = c THEN P[s] ELSE IF y = L[c] THEN s ELSE P[y]
  BY DEF Rotated
<1>9. P2[x] = p
  BY <1>3, <1>4, <1>8
<1>10. L2[p] = c /\ R2[p] = x /\ L2[c] = s
  BY <1>3, <1>8
<1>11. L2[g] = NULL /\ R2[g] = NULL
  BY <1>1, <1>3, <1>8
<1>12. ~[rd EXCEPT ![s] = TRUE, ![c] = FALSE][c] /\ [rd EXCEPT ![s] = TRUE, ![c] = FALSE][s]
  BY <1>3
<1> QED BY <1>3, <1>6, <1>7, <1>9, <1>10, <1>11, <1>12 DEF NearUp

\* removeSiblingChildAdjust: if only the sibling's near child is red, it comes
\* up, and the far child of the sibling is red then.
LEMMA RemoveSiblingChildAdjustKeeps ==
  ASSUME IInv, RemoveSiblingChildAdjust
  PROVE  IInv'
<1> DEFINE x == pNode
<1> DEFINE p == pParent[x]
<1> DEFINE s == Sibling(x)
<1>1. pc = "removeSiblingChildAdjust" /\ pc \in Short /\ pc \in Removing
  BY DEF RemoveSiblingChildAdjust, Short, Removing
<1>2. /\ pc' = "removeSiblingChildCheck" /\ members' = members /\ u32NumNode' = u32NumNode
      /\ pNode' = x /\ pDown' = pDown /\ pOut' = pOut /\ pChild' = pChild
  BY DEF RemoveSiblingChildAdjust, call, Goto
<1>3. /\ CallOK /\ PhaseOK /\ members \in SUBSET Node /\ NULL \notin members
      /\ red \in [Node -> BOOLEAN]
      /\ pRoot \in Ref /\ pLeft \in [Node -> Ref] /\ pRight \in [Node -> Ref]
      /\ pParent \in [Node -> Ref]
      /\ LinksOK(members, pRoot, pLeft, pRight, pParent)
      /\ KinOK(members, pLeft, pRight, pParent)
      /\ ColourRule(members, pRoot, pLeft, pRight, red, NULL, NULL)
      /\ Level(members, pLeft, pRight, red, NULL, x, pOut, NULL)
  BY <1>1, ShortTree
<1>4. p # NULL /\ ~IsRed(s) /\ ~HasBlackChildren(s)
  BY <1>1, <1>3 DEF PhaseOK, Short
<1>5. /\ x \in members /\ pOut \in members /\ p \in members /\ s \in members
      /\ s # NULL /\ p # x /\ s # x /\ s # p /\ p # pOut /\ s # pOut /\ pParent[s] = p
      /\ pChild = NULL /\ pLeft[pOut] = NULL /\ pRight[pOut] = NULL /\ ~red[pOut] /\ ~red[x]
      /\ IF IsLeft(x) THEN x = pLeft[p] /\ s = pRight[p] ELSE x = pRight[p] /\ s = pLeft[p]
  BY <1>1, <1>4, ShortIs
<1>6. pc' \in Removing /\ pc' \in Short /\ ShortAt' = x /\ Leaving' = pOut
  BY <1>2 DEF Removing, Short, ShortAt, Leaving
<1>7. PICK pos \in [Node -> Int], lo \in [Node -> Int], hi \in [Node -> Int] :
        PlacesOK(members, pRoot, pLeft, pRight, pos, lo, hi) /\ SortedOK(pos)
  BY <1>1, ShortTree
<1>8. ~red[s]
  BY <1>4, <1>5 DEF IsRed
<1>9. /\ pLeft[s] \in members \cup {NULL} /\ pRight[s] \in members \cup {NULL}
      /\ IsRed(pLeft[s]) \/ IsRed(pRight[s])
      /\ IsRed(pLeft[s]) => pLeft[s] \in members /\ red[pLeft[s]]
      /\ IsRed(pRight[s]) => pRight[s] \in members /\ red[pRight[s]]
  BY <1>3, <1>4, <1>5 DEF KinOK, IsRed, HasBlackChildren
<1>10. CASE IsLeft(x) /\ ~IsRed(pRight[s])
  <2> DEFINE c == pLeft[s]
  <2> DEFINE rd == [red EXCEPT ![s] = TRUE, ![c] = FALSE]
  <2>1. /\ SetTree(RotateRight(Now, s)) /\ red' = rd /\ red[c] /\ c \in members /\ c # NULL
        /\ x = pLeft[p] /\ s = pRight[p] /\ ~Ruddy(red, NULL, pRight[s])
    BY <1>4, <1>5, <1>9, <1>10, <1>3 DEF RemoveSiblingChildAdjust, IsRed, Ruddy
  <2>2. /\ rd \in [Node -> BOOLEAN] /\ (\A y \in Node \ members : rd[y] = red[y])
        /\ ~rd[pOut] /\ ~rd[x]
    BY <2>1, <1>3, <1>5
  <2> HIDE DEF x, p, s, rd
  <2>3. /\ Rotated(members, s, c, pRoot, pRight, pLeft, pParent, pRoot', pRight', pLeft', pParent')
        /\ pRoot' \in Ref /\ pLeft' \in [Node -> Ref] /\ pRight' \in [Node -> Ref]
        /\ pParent' \in [Node -> Ref]
        /\ LinksOK(members, pRoot', pLeft', pRight', pParent')
        /\ \E lo2, hi2 \in [Node -> Int] : PlacesOK(members, pRoot', pLeft', pRight', pos, lo2, hi2)
        /\ Elsewhere(members, pLeft, pRight, pParent, pLeft', pRight', pParent')
    BY <2>1, <1>3, <1>5, <1>7, RightTurn
  <2>4. /\ ColourRule(members, pRoot', pRight', pLeft', rd, NULL, NULL)
        /\ Level(members, pRight', pLeft', rd, NULL, x, pOut, NULL)
        /\ NearUp(x, p, s, c, pOut, rd, pRight', pLeft', pParent')
    <3>1. pParent[x] = p
      BY DEF p
    <3>2. MirroredOK(members, pRoot, pLeft, pRight, pParent, pos, lo, hi)
      BY <1>3, <1>7, MirrorTree
    <3>3. ColourRule(members, pRoot, pRight, pLeft, red, NULL, NULL)
      BY <1>3, MirrorColours
    <3>4. Level(members, pRight, pLeft, red, NULL, x, pOut, NULL)
      BY <1>3, MirrorLevel
    <3>5. /\ LinksOK(members, pRoot, pRight, pLeft, pParent)
          /\ Mirror(pos) \in [Node -> Int] /\ Mirror(hi) \in [Node -> Int] /\ Mirror(lo) \in [Node -> Int]
          /\ PlacesOK(members, pRoot, pRight, pLeft, Mirror(pos), Mirror(hi), Mirror(lo))
      BY <3>2 DEF MirroredOK
    <3>6. /\ pLeft[p] = x /\ pRight[p] = s /\ pLeft[s] = c
      BY <2>1
    <3> HIDE DEF c
    <3> QED BY <3>1, <3>3, <3>4, <3>5, <3>6, <2>1, <2>3, <1>3, <1>5, <1>8, NearTurn DEF rd
  <2>5. /\ pParent'[x] = p /\ pLeft'[p] = x /\ pRight'[p] = c /\ pRight'[c] = s
        /\ pLeft'[pOut] = NULL /\ pRight'[pOut] = NULL /\ ~rd[c] /\ rd[s] /\ s # NULL
    BY <2>4 DEF NearUp
  <2>6. CallOK'
    BY <2>1, <2>2, <2>5, <1>2, <1>5 DEF CallOK, Removing, Short, Inserting
  <2>7. Sibling(pNode)' = c /\ IsLeft(pNode)'
    BY <2>5, <1>2, <1>4 DEF Sibling, IsLeft
  <2>8. PhaseOK'
    <3>1. pParent'[pNode'] # NULL /\ ~IsRed(Sibling(pNode))'
      BY <2>1, <2>5, <2>7, <1>2, <1>4 DEF IsRed
    <3>2. IsRed(pRight[Sibling(pNode)])'
      BY <2>1, <2>5, <2>7 DEF IsRed
    <3> QED BY <1>2, <2>7, <3>1, <3>2 DEF PhaseOK, Short, Inserting
  <2>9. /\ ColourRule(members, pRoot', pLeft', pRight', red', NULL, NULL)
        /\ Level(members, pLeft', pRight', red', NULL, x, pOut, NULL)
    BY <2>1, <2>4, MirrorColours, MirrorLevel
  <2>10. pNode' \in members /\ pChild' = NULL
    BY <1>2, <1>5
  <2> QED BY <2>1, <2>2, <2>3, <2>6, <2>8, <2>9, <2>10, <1>1, <1>2, <1>5, <1>6, <1>7, Rebuilt
<1>11. CASE ~IsLeft(x) /\ ~IsRed(pLeft[s])
  <2> DEFINE c == pRight[s]
  <2> DEFINE rd == [red EXCEPT ![s] = TRUE, ![c] = FALSE]
  <2>1. /\ SetTree(RotateLeft(Now, s)) /\ red' = rd /\ red[c] /\ c \in members /\ c # NULL
        /\ x = pRight[p] /\ s = pLeft[p] /\ ~Ruddy(red, NULL, pLeft[s])
    BY <1>4, <1>5, <1>9, <1>11, <1>3 DEF RemoveSiblingChildAdjust, IsRed, Ruddy
  <2>2. /\ rd \in [Node -> BOOLEAN] /\ (\A y \in Node \ members : rd[y] = red[y])
        /\ ~rd[pOut] /\ ~rd[x]
    BY <2>1, <1>3, <1>5
  <2> HIDE DEF x, p, s, rd
  <2>3. /\ Rotated(members, s, c, pRoot, pLeft, pRight, pParent, pRoot', pLeft', pRight', pParent')
        /\ pRoot' \in Ref /\ pLeft' \in [Node -> Ref] /\ pRight' \in [Node -> Ref]
        /\ pParent' \in [Node -> Ref]
        /\ LinksOK(members, pRoot', pLeft', pRight', pParent')
        /\ \E lo2, hi2 \in [Node -> Int] : PlacesOK(members, pRoot', pLeft', pRight', pos, lo2, hi2)
        /\ Elsewhere(members, pLeft, pRight, pParent, pLeft', pRight', pParent')
    BY <2>1, <1>3, <1>5, <1>7, LeftTurn
  <2>4. /\ ColourRule(members, pRoot', pLeft', pRight', rd, NULL, NULL)
        /\ Level(members, pLeft', pRight', rd, NULL, x, pOut, NULL)
        /\ NearUp(x, p, s, c, pOut, rd, pLeft', pRight', pParent')
    <3>1. pParent[x] = p
      BY DEF p
    <3>2. /\ pRight[p] = x /\ pLeft[p] = s /\ pRight[s] = c
      BY <2>1
    <3> HIDE DEF c
    <3> QED BY <3>1, <3>2, <2>1, <2>3, <1>3, <1>5, <1>7, <1>8, NearTurn DEF rd
  <2>5. /\ pParent'[x] = p /\ pRight'[p] = x /\ pLeft'[p] = c /\ pLeft'[c] = s /\ c # x
        /\ pLeft'[pOut] = NULL /\ pRight'[pOut] = NULL /\ ~rd[c] /\ rd[s] /\ s # NULL
    BY <2>4 DEF NearUp
  <2>6. CallOK'
    BY <2>1, <2>2, <2>5, <1>2, <1>5 DEF CallOK, Removing, Short, Inserting
  <2>7. Sibling(pNode)' = c /\ ~IsLeft(pNode)'
    BY <2>5, <1>2, <1>4 DEF Sibling, IsLeft
  <2>8. PhaseOK'
    <3>1. pParent'[pNode'] # NULL /\ ~IsRed(Sibling(pNode))'
      BY <2>1, <2>5, <2>7, <1>2, <1>4 DEF IsRed
    <3>2. IsRed(pLeft[Sibling(pNode)])'
      BY <2>1, <2>5, <2>7 DEF IsRed
    <3> QED BY <1>2, <2>7, <3>1, <3>2 DEF PhaseOK, Short, Inserting
  <2>9. pNode' \in members /\ pChild' = NULL
    BY <1>2, <1>5
  <2> QED BY <2>1, <2>2, <2>3, <2>4, <2>6, <2>8, <2>9, <1>1, <1>2, <1>5, <1>6, <1>7, Rebuilt
<1>12. CASE IF IsLeft(x) THEN IsRed(pRight[s]) ELSE IsRed(pLeft[s])
  <2>1. StandsStill /\ red' = red
    BY <1>2, <1>12 DEF RemoveSiblingChildAdjust, StandsStill, tree
  <2>2. CallOK'
    BY <2>1, <1>2, <1>5 DEF CallOK, Removing, Short, Inserting, StandsStill
  <2>3. Sibling(pNode)' = s /\ (IsLeft(pNode)' <=> IsLeft(x))
    BY <2>1, <1>2 DEF Sibling, IsLeft, StandsStill
  <2>4. PhaseOK'
    <3>1. pParent'[pNode'] # NULL /\ ~IsRed(Sibling(pNode))'
      BY <2>1, <2>3, <1>2, <1>4 DEF StandsStill, IsRed
    <3>2. IsRed(IF IsLeft(pNode) THEN pRight[Sibling(pNode)] ELSE pLeft[Sibling(pNode)])'
      BY <2>1, <2>3, <1>12 DEF StandsStill, IsRed
    <3> QED BY <1>2, <3>1, <3>2 DEF PhaseOK, Short, Inserting
  <2> QED BY <2>1, <2>2, <2>4, <1>1, <1>2, <1>3, <1>5, <1>6, Recoloured
<1> QED BY <1>10, <1>11, <1>12

\* The last rotation leaves a node without children as it was.
LEMMA LastTurn ==
  ASSUME NEW S \in SUBSET Node, NEW r, NEW L, NEW R, NEW P, LinksOK(S, r, L, R, P),
         KinOK(S, L, R, P), NEW n \in S, NEW c \in S, NEW g \in S, g # n, g # c,
         L[g] = NULL, R[g] = NULL,
         NEW r2, NEW L2, NEW R2, NEW P2, Rotated(S, n, c, r, L, R, P, r2, L2, R2, P2)
  PROVE  L2[g] = NULL /\ R2[g] = NULL
<1>1. NULL \notin S
  BY NullOutside
<1>2. /\ L2[g] = IF g = c THEN n ELSE IF g = P[n] /\ L[g] = n THEN c ELSE L[g]
      /\ R2[g] = IF g = n THEN L[c] ELSE IF g = P[n] /\ R[g] = n THEN c ELSE R[g]
  BY DEF Rotated
<1> QED BY <1>1, <1>2

\* removeSiblingChildCheck: the sibling with its red far child comes up, and
\* no black node is lacking any more.
LEMMA RemoveSiblingChildCheckKeeps ==
  ASSUME IInv, RemoveSiblingChildCheck
  PROVE  IInv'
<1> DEFINE x == pNode
<1> DEFINE p == pParent[x]
<1> DEFINE s == Sibling(x)
<1> DEFINE c == IF IsLeft(x) THEN pRight[s] ELSE pLeft[s]
<1>1. pc = "removeSiblingChildCheck" /\ pc \in Short /\ pc \in Removing
  BY DEF RemoveSiblingChildCheck, Short, Removing
<1>2. /\ members' = members /\ u32NumNode' = u32NumNode
      /\ pNode' = x /\ pDown' = pDown /\ pOut' = pOut /\ pChild' = pChild
  BY DEF RemoveSiblingChildCheck, call
<1>3. /\ CallOK /\ PhaseOK /\ members \in SUBSET Node /\ NULL \notin members
      /\ red \in [Node -> BOOLEAN]
      /\ pRoot \in Ref /\ pLeft \in [Node -> Ref] /\ pRight \in [Node -> Ref]
      /\ pParent \in [Node -> Ref]
      /\ LinksOK(members, pRoot, pLeft, pRight, pParent)
      /\ KinOK(members, pLeft, pRight, pParent)
      /\ ColourRule(members, pRoot, pLeft, pRight, red, NULL, NULL)
      /\ Level(members, pLeft, pRight, red, NULL, x, pOut, NULL)
  BY <1>1, ShortTree
<1>4. p # NULL /\ ~IsRed(s) /\ IsRed(c)
  BY <1>1, <1>3 DEF PhaseOK, Short
<1>5. /\ x \in members /\ pOut \in members /\ p \in members /\ s \in members
      /\ s # NULL /\ p # x /\ s # x /\ s # p /\ p # pOut /\ s # pOut /\ pParent[s] = p
      /\ pChild = NULL /\ pLeft[pOut] = NULL /\ pRight[pOut] = NULL /\ ~red[pOut] /\ ~red[x]
      /\ IF IsLeft(x) THEN x = pLeft[p] /\ s = pRight[p] ELSE x = pRight[p] /\ s = pLeft[p]
  BY <1>1, <1>4, ShortIs
<1>6. c \in members /\ c # NULL /\ red[c] /\ ~red[s] /\ c # pOut
  BY <1>3, <1>4, <1>5 DEF KinOK, IsRed
<1> DEFINE rd == [red EXCEPT ![s] = red[p], ![p] = FALSE, ![c] = FALSE]
<1>7. /\ pc' = "removeUnlink" /\ red' = rd
      /\ SetTree(IF IsLeft(x) THEN RotateLeft(Now, p) ELSE RotateRight(Now, p))
  BY <1>5, <1>6 DEF RemoveSiblingChildCheck, Goto
<1>8. pc' \in Removing /\ pc' \notin Short /\ ShortAt' = NULL /\ Leaving' = pOut
  BY <1>2, <1>7 DEF Removing, Short, ShortAt, Leaving
<1>9. PICK pos \in [Node -> Int], lo \in [Node -> Int], hi \in [Node -> Int] :
        PlacesOK(members, pRoot, pLeft, pRight, pos, lo, hi) /\ SortedOK(pos)
  BY <1>1, ShortTree
<1>10. rd \in [Node -> BOOLEAN] /\ (\A y \in Node \ members : rd[y] = red[y])
  BY <1>3, <1>5, <1>6
<1>11. PhaseOK'
  BY <1>7 DEF PhaseOK, Short, Inserting
<1>12. pNode' \in members /\ pChild' = NULL
  BY <1>2, <1>5
<1>13. PICK h \in [Node -> Nat] : HeightRule(members, pLeft, pRight, red, NULL, x, pOut, NULL, h)
  BY <1>3 DEF Level
<1>14. CASE IsLeft(x)
  <2>1. SetTree(RotateLeft(Now, p)) /\ x = pLeft[p] /\ s = pRight[p] /\ c = pRight[s]
    BY <1>5, <1>7, <1>14
  <2> HIDE DEF x, p, s, c, rd
  <2>2. /\ Rotated(members, p, s, pRoot, pLeft, pRight, pParent, pRoot', pLeft', pRight', pParent')
        /\ pRoot' \in Ref /\ pLeft' \in [Node -> Ref] /\ pRight' \in [Node -> Ref]
        /\ pParent' \in [Node -> Ref]
        /\ LinksOK(members, pRoot', pLeft', pRight', pParent')
        /\ \E lo2, hi2 \in [Node -> Int] : PlacesOK(members, pRoot', pLeft', pRight', pos, lo2, hi2)
        /\ Elsewhere(members, pLeft, pRight, pParent, pLeft', pRight', pParent')
    BY <2>1, <1>3, <1>5, <1>9, LeftTurn
  <2>3. ColourRule(members, pRoot', pLeft', pRight', rd, NULL, NULL)
    BY <2>1, <2>2, <1>3, <1>6, <1>9, LastColours DEF rd
  <2>4. Level(members, pLeft', pRight', rd, NULL, NULL, pOut, NULL)
    BY ZenonT(60), <2>1, <2>2, <1>3, <1>5, <1>6, <1>9, <1>13, LastHeights DEF rd
  <2>5. pLeft'[pOut] = NULL /\ pRight'[pOut] = NULL
    BY <2>2, <1>3, <1>5, LastTurn
  <2>6. CallOK'
    BY <2>5, <1>2, <1>5, <1>7 DEF CallOK, Removing, Short, Inserting
  <2> QED BY <2>2, <2>3, <2>4, <2>6, <1>1, <1>2, <1>5, <1>7, <1>8, <1>9, <1>10, <1>11, <1>12, Rebuilt
<1>15. CASE ~IsLeft(x)
  <2>1. SetTree(RotateRight(Now, p)) /\ x = pRight[p] /\ s = pLeft[p] /\ c = pLeft[s]
    BY <1>5, <1>7, <1>15
  <2> HIDE DEF x, p, s, c, rd
  <2>2. /\ Rotated(members, p, s, pRoot, pRight, pLeft, pParent, pRoot', pRight', pLeft', pParent')
        /\ pRoot' \in Ref /\ pLeft' \in [Node -> Ref] /\ pRight' \in [Node -> Ref]
        /\ pParent' \in [Node -> Ref]
        /\ LinksOK(members, pRoot', pLeft', pRight', pParent')
        /\ \E lo2, hi2 \in [Node -> Int] : PlacesOK(members, pRoot', pLeft', pRight', pos, lo2, hi2)
        /\ Elsewhere(members, pLeft, pRight, pParent, pLeft', pRight', pParent')
    BY <2>1, <1>3, <1>5, <1>9, RightTurn
  <2>3. MirroredOK(members, pRoot, pLeft, pRight, pParent, pos, lo, hi)
    BY <1>3, <1>9, MirrorTree
  <2>4. /\ LinksOK(members, pRoot, pRight, pLeft, pParent)
        /\ KinOK(members, pRight, pLeft, pParent)
        /\ Mirror(pos) \in [Node -> Int] /\ Mirror(hi) \in [Node -> Int] /\ Mirror(lo) \in [Node -> Int]
        /\ PlacesOK(members, pRoot, pRight, pLeft, Mirror(pos), Mirror(hi), Mirror(lo))
    BY <2>3 DEF MirroredOK
  <2>5. ColourRule(members, pRoot, pRight, pLeft, red, NULL, NULL)
    BY <1>3, MirrorColours
  <2>6. HeightRule(members, pRight, pLeft, red, NULL, x, pOut, NULL, h)
    BY <1>13, MirrorHeights
  <2>7. ColourRule(members, pRoot', pRight', pLeft', rd, NULL, NULL)
    BY <2>1, <2>2, <2>4, <2>5, <1>3, <1>6, LastColours DEF rd
  <2>8. Level(members, pRight', pLeft', rd, NULL, NULL, pOut, NULL)
    BY ZenonT(60), <2>1, <2>2, <2>4, <2>6, <1>3, <1>5, <1>6, <1>13, LastHeights DEF rd
  <2>9. /\ ColourRule(members, pRoot', pLeft', pRight', rd, NULL, NULL)
        /\ Level(members, pLeft', pRight', rd, NULL, NULL, pOut, NULL)
    BY <2>7, <2>8, MirrorColours, MirrorLevel
  <2>10. pLeft'[pOut] = NULL /\ pRight'[pOut] = NULL
    BY <2>2, <2>4, <1>3, <1>5, LastTurn
  <2>11. CallOK'
    BY <2>10, <1>2, <1>5, <1>7 DEF CallOK, Removing, Short, Inserting
  <2> QED BY <2>2, <2>9, <2>11, <1>1, <1>2, <1>5, <1>7, <1>8, <1>9, <1>10, <1>11, <1>12, Rebuilt
<1> QED BY <1>14, <1>15

\* What is left of the colours and of the heights when a node goes.
LEMMA UnlinkColours ==
  ASSUME NEW S \in SUBSET Node, NEW r, NEW L, NEW R, NEW P,
         NEW a, NEW c, NEW r2, NEW L2, NEW R2, NEW P2,
         Unlinked(S, a, c, r, L, R, P, r2, L2, R2, P2),
         NEW rd, ColourRule(S, r, L, R, rd, NULL, NULL), c # NULL => ~rd[c],
         NEW rd2, \A y \in S \ {a} : rd2[y] = rd[y], r = NULL \/ r \in S, P[a] # NULL => r # a,
         \A y \in S : L[y] \in S \cup {NULL} /\ R[y] \in S \cup {NULL}
                      /\ (L[y] = a => y = P[a]) /\ (R[y] = a => y = P[a]),
         c # a
  PROVE  ColourRule(S \ {a}, r2, L2, R2, rd2, NULL, NULL)
<1>1. NULL \notin S
  BY NullOutside
<1>2. /\ a \in S /\ c \in S \cup {NULL} /\ r2 = IF P[a] = NULL THEN c ELSE r
      /\ \A x \in S \ {a} :
           /\ L2[x] = IF x = P[a] /\ L[x] = a THEN c ELSE L[x]
           /\ R2[x] = IF x = P[a] /\ R[x] = a THEN c ELSE R[x]
  BY DEF Unlinked
<1>3. ~Ruddy(rd2, NULL, c)
  BY <1>1, <1>2 DEF Ruddy
<1>4. ~Ruddy(rd2, NULL, r2)
  <2>1. CASE P[a] = NULL
    BY <2>1, <1>2, <1>3
  <2>2. CASE P[a] # NULL
    BY <2>2, <1>1, <1>2 DEF Ruddy, ColourRule
  <2> QED BY <2>1, <2>2
<1>5. ASSUME NEW y \in S \ {a}, Ruddy(rd2, NULL, y)
      PROVE  ~Ruddy(rd2, NULL, L2[y]) /\ ~Ruddy(rd2, NULL, R2[y])
  <2>1. Ruddy(rd, NULL, y)
    BY <1>1, <1>5 DEF Ruddy
  <2>2. ~Ruddy(rd, NULL, L[y]) /\ ~Ruddy(rd, NULL, R[y])
    BY <2>1 DEF ColourRule, Ruddy
  <2>3. ~Ruddy(rd2, NULL, L2[y])
    <3>1. L2[y] = c \/ (L2[y] = L[y] /\ L[y] # a)
      BY <1>2
    <3> QED BY <3>1, <2>2, <1>1, <1>3 DEF Ruddy
  <2>4. ~Ruddy(rd2, NULL, R2[y])
    <3>1. R2[y] = c \/ (R2[y] = R[y] /\ R[y] # a)
      BY <1>2
    <3> QED BY <3>1, <2>2, <1>1, <1>3 DEF Ruddy
  <2> QED BY <2>3, <2>4
<1> QED BY <1>4, <1>5 DEF ColourRule

LEMMA UnlinkHeights ==
  ASSUME NEW S \in SUBSET Node, NEW r, NEW L, NEW R, NEW P,
         NEW a, NEW c, NEW r2, NEW L2, NEW R2, NEW P2,
         Unlinked(S, a, c, r, L, R, P, r2, L2, R2, P2),
         NEW rd, NEW rd2, \A y \in S \ {a} : rd2[y] = rd[y],
         \A y \in S : L[y] \in S \cup {NULL} /\ R[y] \in S \cup {NULL}
                      /\ (L[y] = a => y = P[a]) /\ (R[y] = a => y = P[a]),
         NEW h \in [Node -> Nat], HeightRule(S, L, R, rd, NULL, NULL, a, c, h)
  PROVE  HeightRule(S \ {a}, L2, R2, rd2, NULL, NULL, NULL, NULL, h)
<1>1. NULL \notin S
  BY NullOutside
<1>2. /\ a \in S /\ c \in S \cup {NULL}
      /\ \A x \in S \ {a} :
           /\ L2[x] = IF x = P[a] /\ L[x] = a THEN c ELSE L[x]
           /\ R2[x] = IF x = P[a] /\ R[x] = a THEN c ELSE R[x]
  BY DEF Unlinked
<1>3. H(h, a) = H(h, c)
  <2>1. h[a] = H(h, c) + Lacks(NULL, a)
    BY <1>2 DEF HeightRule
  <2>2. Lacks(NULL, a) = 0 /\ H(h, a) = h[a] /\ H(h, c) \in Nat
    BY <1>1, <1>2 DEF Lacks, H
  <2> QED BY <2>1, <2>2
<1>4. ASSUME NEW y \in S \ {a}
      PROVE  /\ y # NULL /\ H(h, L2[y]) = H(h, R2[y])
             /\ h[y] = H(h, L2[y]) + Black(rd2, NULL, y) + Lacks(NULL, y)
  <2>1. H(h, L2[y]) = H(h, L[y]) /\ H(h, R2[y]) = H(h, R[y])
    BY <1>2, <1>3
  <2>2. Black(rd2, NULL, y) = Black(rd, NULL, y)
    BY <1>1 DEF Black, Ruddy
  <2>3. H(h, L[y]) = H(h, R[y]) /\ h[y] = H(h, L[y]) + Black(rd, NULL, y) + Lacks(NULL, y)
    BY DEF HeightRule
  <2> QED BY <2>1, <2>2, <2>3, <1>1
<1> QED BY <1>4 DEF HeightRule

\* The pointers after the unlink, when the node is freed.
LEMMA UnlinkIs ==
  ASSUME FreshNodes, members \in SUBSET Node,
         pRoot \in Ref, pLeft \in [Node -> Ref], pRight \in [Node -> Ref],
         pParent \in [Node -> Ref], KinOK(members, pLeft, pRight, pParent),
         pOut \in members, pChild \in members \cup {NULL},
         \/ pLeft[pOut] = NULL /\ pRight[pOut] = pChild
         \/ pRight[pOut] = NULL /\ pLeft[pOut] = pChild,
         pChild # NULL => pLeft[pChild] = NULL /\ pRight[pChild] = NULL,
         RemoveUnlink
  PROVE  /\ Unlinked(members, pOut, pChild, pRoot, pLeft, pRight, pParent,
                     pRoot', pLeft', pRight', pParent')
         /\ pRoot' \in Ref /\ pLeft' \in [Node -> Ref] /\ pRight' \in [Node -> Ref]
         /\ pParent' \in [Node -> Ref]
         /\ pLeft'[pOut] = NULL /\ pRight'[pOut] = NULL /\ pParent'[pOut] = NULL
         /\ Elsewhere(members, pLeft, pRight, pParent, pLeft', pRight', pParent')
<1> DEFINE up == pParent[pOut]
<1> DEFINE l == IF up # NULL /\ pLeft[up] = pOut THEN [pLeft EXCEPT ![up] = pChild] ELSE pLeft
<1> DEFINE u == IF up # NULL /\ pLeft[up] # pOut /\ pRight[up] = pOut
                THEN [pRight EXCEPT ![up] = pChild] ELSE pRight
<1> DEFINE p == IF pChild # NULL THEN [pParent EXCEPT ![pChild] = up] ELSE pParent
<1>1. /\ pRoot' = (IF up = NULL THEN pChild ELSE pRoot)
      /\ pLeft' = [l EXCEPT ![pOut] = NULL]
      /\ pRight' = [u EXCEPT ![pOut] = NULL]
      /\ pParent' = [p EXCEPT ![pOut] = NULL]
  BY DEF RemoveUnlink, SetTree, ParentUpdate, Now
<1>2. NULL \notin members
  BY NullOutside
<1>3. /\ up \in members \cup {NULL} /\ up # pOut
      /\ up # NULL /\ pLeft[up] = pOut => pRight[up] # pOut
      /\ pChild # pOut
  BY <1>2 DEF KinOK
<1>4. NULL \in Ref /\ pChild \in Ref /\ up \in Ref /\ pOut \in Node /\ (up # NULL => up \in Node)
      /\ (pChild # NULL => pChild \in Node)
  BY <1>3 DEF Ref
<1>5. l \in [Node -> Ref] /\ u \in [Node -> Ref] /\ p \in [Node -> Ref]
  BY <1>4
<1>6. /\ \A x \in Node : l[x] = IF x = up /\ pLeft[x] = pOut THEN pChild ELSE pLeft[x]
      /\ \A x \in Node : u[x] = IF x = up /\ pRight[x] = pOut THEN pChild ELSE pRight[x]
      /\ \A x \in Node : p[x] = IF x = pChild THEN up ELSE pParent[x]
  BY <1>3, <1>4, <1>2, NullOutside
<1> HIDE DEF l, u, p
<1>7. pRoot' \in Ref /\ pLeft' \in [Node -> Ref] /\ pRight' \in [Node -> Ref] /\ pParent' \in [Node -> Ref]
  BY <1>1, <1>4, <1>5
<1>8. /\ pLeft'[pOut] = NULL /\ pRight'[pOut] = NULL /\ pParent'[pOut] = NULL
      /\ \A x \in Node : x # pOut => pLeft'[x] = l[x] /\ pRight'[x] = u[x] /\ pParent'[x] = p[x]
  BY <1>1, <1>4, <1>5
<1>9. Elsewhere(members, pLeft, pRight, pParent, pLeft', pRight', pParent')
  <2> SUFFICES ASSUME NEW x \in Node \ members
               PROVE  pLeft'[x] = pLeft[x] /\ pRight'[x] = pRight[x] /\ pParent'[x] = pParent[x]
    BY DEF Elsewhere
  <2>1. x # pOut /\ x # up /\ x # pChild
    BY <1>3, NullOutside
  <2> QED BY <2>1, <1>6, <1>8
<1>10. Unlinked(members, pOut, pChild, pRoot, pLeft, pRight, pParent,
                pRoot', pLeft', pRight', pParent')
  <2>1. \A x \in members \ {pOut} :
          /\ pLeft'[x] = IF x = up /\ pLeft[x] = pOut THEN pChild ELSE pLeft[x]
          /\ pRight'[x] = IF x = up /\ pRight[x] = pOut THEN pChild ELSE pRight[x]
          /\ pParent'[x] = IF x = pChild THEN up ELSE pParent[x]
    BY <1>6, <1>8
  <2> QED BY <2>1, <1>1 DEF Unlinked
<1> QED BY SMTT(60), <1>7, <1>8, <1>9, <1>10

\* removeUnlink: the node leaves the tree, and the call returns.
LEMMA RemoveUnlinkKeeps ==
  ASSUME FreshNodes, IInv, RemoveUnlink
  PROVE  IInv'
<1> DEFINE a == pOut
<1> DEFINE c == pChild
<1>1. /\ pc = "removeUnlink" /\ pc \in Removing /\ pc \notin Short /\ pc \notin Inserting
      /\ pc # "nodeAdd" /\ pc # "insertRootCheck"
  BY DEF RemoveUnlink, Removing, Short, Inserting
<1>2. /\ pc' = "idle" /\ pNode' = NULL /\ pDown' = NULL /\ pOut' = NULL /\ pChild' = NULL
      /\ members' = members \ {a} /\ u32NumNode' = u32NumNode - 1
      /\ red' = [red EXCEPT ![a] = FALSE]
  BY DEF RemoveUnlink, Return
<1>3. /\ TypedOK /\ CallOK /\ ZeroedOK
      /\ Linked = members /\ members \in SUBSET Node /\ NULL \notin members
      /\ pRoot \in Ref /\ pLeft \in [Node -> Ref] /\ pRight \in [Node -> Ref]
      /\ pParent \in [Node -> Ref] /\ red \in [Node -> BOOLEAN]
      /\ LinksOK(members, pRoot, pLeft, pRight, pParent)
      /\ ColourRule(members, pRoot, pLeft, pRight, red, Painted, Excused)
  BY <1>1, Between
<1>4. PICK pos \in [Node -> Int], lo \in [Node -> Int], hi \in [Node -> Int] :
        PlacesOK(members, pRoot, pLeft, pRight, pos, lo, hi) /\ SortedOK(pos)
  BY <1>1, Between
<1>5. PICK h \in [Node -> Nat] :
        HeightRule(members, pLeft, pRight, red, Painted, ShortAt, Leaving, pChild, h)
  BY <1>1, Between
<1>6. KinOK(members, pLeft, pRight, pParent)
  BY <1>3, <1>4, Kin
<1>7. /\ a \in members /\ c \in members \cup {NULL}
      /\ \/ pLeft[a] = NULL /\ pRight[a] = c
         \/ pRight[a] = NULL /\ pLeft[a] = c
      /\ c # NULL => ~red[c] /\ pLeft[c] = NULL /\ pRight[c] = NULL
  BY <1>1, <1>3 DEF CallOK
<1>8. Painted = NULL /\ Excused = NULL /\ ShortAt = NULL /\ Leaving = a
  BY <1>1 DEF Painted, Excused, ShortAt, Leaving
<1>9. /\ Unlinked(members, a, c, pRoot, pLeft, pRight, pParent, pRoot', pLeft', pRight', pParent')
      /\ pRoot' \in Ref /\ pLeft' \in [Node -> Ref] /\ pRight' \in [Node -> Ref]
      /\ pParent' \in [Node -> Ref]
      /\ pLeft'[a] = NULL /\ pRight'[a] = NULL /\ pParent'[a] = NULL
      /\ Elsewhere(members, pLeft, pRight, pParent, pLeft', pRight', pParent')
  BY <1>3, <1>6, <1>7, UnlinkIs
<1>10. Linked' = members \ {a}
  BY <1>2 DEF Linked
<1>11. TypedOK'
  <2>1. IsFiniteSet(members)
    BY <1>3, BinaryTreeAssumption, FS_Subset
  <2>2. Cardinality(members \ {a}) = Cardinality(members) - 1
    BY <2>1, <1>7, FS_RemoveElement
  <2>3. u32NumNode = Cardinality(members)
    BY <1>3 DEF TypedOK
  <2>4. red' \in [Node -> BOOLEAN]
    BY <1>2, <1>3
  <2>5. NULL \in Ref
    BY DEF Ref
  <2> QED BY <2>2, <2>3, <2>4, <2>5, <1>2, <1>3, <1>9, <1>10 DEF TypedOK
<1>12. CallOK' /\ PhaseOK'
  BY <1>2 DEF CallOK, PhaseOK, Removing, Short, Inserting
<1>13. ZeroedOK'
  <2> SUFFICES ASSUME NEW y \in Node \ (members \ {a})
               PROVE  pLeft'[y] = NULL /\ pRight'[y] = NULL /\ pParent'[y] = NULL /\ ~red'[y]
    BY <1>10 DEF ZeroedOK
  <2>1. CASE y = a
    BY <2>1, <1>2, <1>3, <1>9
  <2>2. CASE y # a
    <3>1. y \in Node \ members
      BY <2>2
    <3>2. pLeft[y] = NULL /\ pRight[y] = NULL /\ pParent[y] = NULL /\ ~red[y]
      BY <3>1, <1>3 DEF ZeroedOK
    <3> QED BY <3>1, <3>2, <2>2, <1>2, <1>3, <1>9 DEF Elsewhere
  <2> QED BY <2>1, <2>2
<1>14. /\ \A y \in members : /\ pLeft[y] \in members \cup {NULL} /\ pRight[y] \in members \cup {NULL}
                             /\ (pLeft[y] = a => y = pParent[a]) /\ (pRight[y] = a => y = pParent[a])
       /\ pRoot = NULL \/ pRoot \in members
       /\ pParent[a] # NULL => pRoot # a
       /\ c # a
  <2>1. c # a
    BY <1>3, <1>6, <1>7 DEF KinOK
  <2> QED BY <2>1, <1>3, <1>7 DEF LinksOK
<1>15. \A y \in members \ {a} : red'[y] = red[y]
  BY <1>2, <1>3
<1>16. ColoursOK'
  <2>1. ColourRule(members \ {a}, pRoot', pLeft', pRight', red', NULL, NULL)
    <3>1. ColourRule(members, pRoot, pLeft, pRight, red, NULL, NULL)
      BY <1>3, <1>8
    <3>2. c # NULL => ~red[c]
      BY <1>7
    <3> HIDE DEF a, c
    <3> QED BY <3>1, <3>2, <1>3, <1>9, <1>14, <1>15, UnlinkColours
  <2>2. Painted' = NULL /\ Excused' = NULL
    BY <1>2 DEF Painted, Excused, Inserting
  <2> QED BY <2>1, <2>2, <1>10 DEF ColoursOK
<1>17. \E f \in [Node -> Nat] : HeightRule(Linked', pLeft', pRight', red', Painted', ShortAt',
                                           Leaving', pChild', f)
  <2>1. HeightRule(members \ {a}, pLeft', pRight', red', NULL, NULL, NULL, NULL, h)
    <3>1. HeightRule(members, pLeft, pRight, red, NULL, NULL, a, c, h)
      BY <1>5, <1>8
    <3> HIDE DEF a, c
    <3> QED BY <3>1, <1>3, <1>9, <1>14, <1>15, UnlinkHeights
  <2>2. Painted' = NULL /\ ShortAt' = NULL /\ Leaving' = NULL
    BY <1>2 DEF Painted, ShortAt, Leaving, Short
  <2>3. HeightRule(Linked', pLeft', pRight', red', Painted', ShortAt', Leaving', pChild', h)
    BY <2>1, <2>2, <1>2, <1>10
  <2> QED BY <2>3
<1>18. \E pp, ll, hh \in [Node -> Int] : ShapeOK(pp, ll, hh)'
  <2>1. LinksOK(members \ {a}, pRoot', pLeft', pRight', pParent')
    BY <1>3, <1>4, <1>9, UnlinkLinks
  <2>2. PICK lo2 \in [Node -> Int], hi2 \in [Node -> Int] :
          PlacesOK(members \ {a}, pRoot', pLeft', pRight', pos, lo2, hi2)
    BY <1>3, <1>4, <1>9, UnlinkPlaces
  <2>3. SortedOK(pos)' /\ DescentOK(pos, lo2, hi2)'
    BY <1>2, <1>3, <1>4, <1>10 DEF SortedOK, DescentOK
  <2>4. ShapeOK(pos, lo2, hi2)'
    BY <2>1, <2>2, <2>3, <1>10 DEF ShapeOK
  <2> QED BY <2>4
<1> QED BY <1>11, <1>12, <1>13, <1>16, <1>17, <1>18 DEF IInv, HeightsOK

\* The last node below the left child of n is the one before n.
LEMMA LastBefore ==
  ASSUME NEW S \in SUBSET Node, NEW r, NEW L, NEW R, NEW P,
         NEW pos \in [Node -> Int], NEW lo \in [Node -> Int], NEW hi \in [Node -> Int],
         LinksOK(S, r, L, R, P), PlacesOK(S, r, L, R, pos, lo, hi),
         NEW n \in S, L[n] # NULL, NEW b, b = LastAlong(R, L[n])
  PROVE  b \in S /\ b # n /\ R[b] = NULL /\ hi[b] = pos[n]
<1> DEFINE C == {x \in S : hi[x] = pos[n]}
<1> DEFINE m == [x \in C |-> -pos[x]]
<1>1. \A x \in S : /\ pos[x] \in Int /\ hi[x] \in Int /\ lo[x] \in Int
                   /\ lo[x] < pos[x] /\ pos[x] < hi[x]
  BY DEF PlacesOK
<1>2. C \in SUBSET Node /\ L[n] \in C
  BY DEF LinksOK, PlacesOK
<1>3. m \in [C -> Int]
  BY <1>1
<1>4. \A x \in C : R[x] # NULL => R[x] \in C /\ m[R[x]] < m[x]
  <2> SUFFICES ASSUME NEW x \in C, R[x] # NULL PROVE R[x] \in C /\ m[R[x]] < m[x]
    OBVIOUS
  <2>1. R[x] \in S /\ hi[R[x]] = hi[x] /\ lo[R[x]] = pos[x]
    BY DEF LinksOK, PlacesOK
  <2>2. R[x] \in C
    BY <2>1
  <2>3. pos[x] < pos[R[x]] /\ pos[x] \in Int /\ pos[R[x]] \in Int
    BY <2>1, <1>1
  <2> QED BY <2>2, <2>3
<1> HIDE DEF m
<1>5. b \in C /\ R[b] = NULL
  <2> HIDE DEF C
  <2> QED BY <1>2, <1>3, <1>4, LastAlongEnds
<1>6. b \in S /\ hi[b] = pos[n]
  BY <1>5
<1> QED BY <1>1, <1>5, <1>6

LEMMA SwapTurn ==
  ASSUME members \in SUBSET Node,
         pRoot \in Ref, pLeft \in [Node -> Ref], pRight \in [Node -> Ref],
         pParent \in [Node -> Ref], NEW a \in members, NEW b \in members,
         SetTree(Swap(Now, a, b))
  PROVE  /\ Swapped(members, a, b, pRoot, pLeft, pRight, pParent, pRoot', pLeft', pRight', pParent')
         /\ pRoot' \in Ref /\ pLeft' \in [Node -> Ref] /\ pRight' \in [Node -> Ref]
         /\ pParent' \in [Node -> Ref]
         /\ Elsewhere(members, pLeft, pRight, pParent, pLeft', pRight', pParent')
<1>1. PICK t : t = Swap(Tree(pRoot, pLeft, pRight, pParent), a, b)
  OBVIOUS
<1>2. t = Swap(Now, a, b)
  BY <1>1 DEF Now, Tree
<1>3. pRoot' = t.root /\ pLeft' = t.left /\ pRight' = t.right /\ pParent' = t.parent
  BY <1>2 DEF SetTree
<1>4. IsTree(t)
  BY <1>1, SwapIs
<1>5. Swapped(members, a, b, pRoot, pLeft, pRight, pParent, t.root, t.left, t.right, t.parent)
  BY <1>1, SwapIs
<1>6. Elsewhere(members, pLeft, pRight, pParent, t.left, t.right, t.parent)
  BY <1>1, SwapIs
<1> QED BY <1>3, <1>4, <1>5, <1>6 DEF IsTree

LEMMA SwapColours ==
  ASSUME NEW S \in SUBSET Node, NEW r, NEW L, NEW R, NEW P, LinksOK(S, r, L, R, P),
         NEW a \in S, NEW b \in S, NEW r2, NEW L2, NEW R2, NEW P2,
         Swapped(S, a, b, r, L, R, P, r2, L2, R2, P2),
         NEW rd, NEW rd2, \A x \in S : rd2[x] = rd[Other(a, b, x)],
         ColourRule(S, r, L, R, rd, NULL, NULL)
  PROVE  ColourRule(S, r2, L2, R2, rd2, NULL, NULL)
<1> DEFINE o(x) == Other(a, b, x)
<1>1. NULL \notin S
  BY NullOutside
<1>2. /\ \A x : o(o(x)) = x /\ (x \in S => o(x) \in S)
      /\ o(NULL) = NULL
  BY <1>1 DEF Other
<1>3. /\ r2 = o(r)
      /\ \A x \in S : L2[x] = o(L[o(x)]) /\ R2[x] = o(R[o(x)]) /\ rd2[x] = rd[o(x)]
  BY DEF Swapped
<1> HIDE DEF o
<1>4. \A x \in S \cup {NULL} : Ruddy(rd2, NULL, o(x)) <=> Ruddy(rd, NULL, x)
  BY <1>1, <1>2, <1>3 DEF Ruddy
<1>5. r \in S \cup {NULL} /\ \A x \in S : L[x] \in S \cup {NULL} /\ R[x] \in S \cup {NULL}
  BY DEF LinksOK
<1>6. ~Ruddy(rd2, NULL, r2)
  BY <1>3, <1>4, <1>5 DEF ColourRule, Ruddy
<1>7. ASSUME NEW x \in S, Ruddy(rd2, NULL, x)
      PROVE  ~Ruddy(rd2, NULL, L2[x]) /\ ~Ruddy(rd2, NULL, R2[x])
  <2>1. o(x) \in S /\ Ruddy(rd, NULL, o(x))
    BY <1>2, <1>4, <1>7
  <2>2. ~Ruddy(rd, NULL, L[o(x)]) /\ ~Ruddy(rd, NULL, R[o(x)])
    BY <2>1 DEF ColourRule, Ruddy
  <2> QED BY <2>1, <2>2, <1>3, <1>4, <1>5
<1> QED BY <1>6, <1>7 DEF ColourRule

LEMMA SwapHeights ==
  ASSUME NEW S \in SUBSET Node, NEW r, NEW L, NEW R, NEW P, LinksOK(S, r, L, R, P),
         NEW a \in S, NEW b \in S, NEW r2, NEW L2, NEW R2, NEW P2,
         Swapped(S, a, b, r, L, R, P, r2, L2, R2, P2),
         NEW rd, NEW rd2, \A x \in S : rd2[x] = rd[Other(a, b, x)],
         NEW h \in [Node -> Nat], HeightRule(S, L, R, rd, NULL, NULL, NULL, NULL, h)
  PROVE  HeightRule(S, L2, R2, rd2, NULL, NULL, NULL, NULL, Traded(h, a, b))
<1> DEFINE o(x) == Other(a, b, x)
<1> DEFINE f == Traded(h, a, b)
<1>1. NULL \notin S
  BY NullOutside
<1>2. /\ \A x : o(o(x)) = x /\ (x \in S => o(x) \in S)
      /\ o(NULL) = NULL
  BY <1>1 DEF Other
<1>3. \A x \in S : L2[x] = o(L[o(x)]) /\ R2[x] = o(R[o(x)]) /\ rd2[x] = rd[o(x)]
  BY DEF Swapped
<1>4. \A x \in S : f[x] = h[o(x)]
  BY DEF Traded
<1> HIDE DEF o, f
<1>5. \A x \in S \cup {NULL} : H(f, o(x)) = H(h, x)
  BY <1>1, <1>2, <1>4 DEF H
<1>6. \A x \in S : L[x] \in S \cup {NULL} /\ R[x] \in S \cup {NULL}
  BY DEF LinksOK
<1>7. ASSUME NEW x \in S
      PROVE  /\ H(f, L2[x]) = H(f, R2[x])
             /\ f[x] = H(f, L2[x]) + Black(rd2, NULL, x) + Lacks(NULL, x)
  <2>1. o(x) \in S /\ x # NULL /\ o(x) # NULL
    BY <1>1, <1>2
  <2>2. /\ H(h, L[o(x)]) = H(h, R[o(x)])
        /\ h[o(x)] = H(h, L[o(x)]) + Black(rd, NULL, o(x)) + Lacks(NULL, o(x))
    BY <2>1 DEF HeightRule
  <2>3. Black(rd2, NULL, x) = Black(rd, NULL, o(x)) /\ Lacks(NULL, x) = Lacks(NULL, o(x))
    BY <2>1, <1>3 DEF Black, Ruddy, Lacks
  <2>4. H(f, L2[x]) = H(h, L[o(x)]) /\ H(f, R2[x]) = H(h, R[o(x)])
    BY <2>1, <1>3, <1>5, <1>6
  <2> QED BY <2>2, <2>3, <2>4, <1>4
<1>8. \A x \in S : x # NULL
  BY <1>1
<1>9. HeightRule(S, L2, R2, rd2, NULL, NULL, NULL, NULL, f)
  BY <1>7, <1>8 DEF HeightRule
<1> QED BY <1>9 DEF f

\* The keys of the nodes S are in the order of the places.
InOrder(S, pos) == \A x, y \in S : pos[x] < pos[y] => Key[x] <= Key[y]

\* When n trades places with the node before it, the keys of the others stay in
\* order.
LEMMA SwapSorted ==
  ASSUME NEW S \in SUBSET Node, NEW r, NEW L, NEW R, NEW P,
         NEW pos \in [Node -> Int], NEW lo \in [Node -> Int], NEW hi \in [Node -> Int],
         LinksOK(S, r, L, R, P), PlacesOK(S, r, L, R, pos, lo, hi),
         NEW n \in S, NEW b \in S, b # n, R[b] = NULL, hi[b] = pos[n],
         InOrder(S, pos)
  PROVE  InOrder(S \ {n}, Traded(pos, n, b))
<1> SUFFICES ASSUME NEW x \in S, NEW y \in S, x # n, y # n,
                    Traded(pos, n, b)[x] < Traded(pos, n, b)[y]
             PROVE  Key[x] <= Key[y]
  BY DEF InOrder
<1>1. \A z \in S : /\ pos[z] \in Int /\ hi[z] \in Int /\ lo[z] \in Int /\ Key[z] \in Nat
                   /\ lo[z] < pos[z] /\ pos[z] < hi[z]
  BY BinaryTreeAssumption DEF PlacesOK
<1>2. ASSUME NEW z \in S, z # b, pos[z] < pos[n] PROVE pos[z] < pos[b]
  <2>1. Apart(L, R, pos, lo, hi, z, b)
    BY <1>2 DEF PlacesOK
  <2>2. /\ pos[z] \in Int /\ hi[z] \in Int /\ lo[z] \in Int /\ lo[z] < pos[z] /\ pos[z] < hi[z]
        /\ pos[b] \in Int /\ hi[b] \in Int /\ lo[b] \in Int /\ lo[b] < pos[b] /\ pos[b] < hi[b]
    BY <1>1
  <2> QED BY <2>1, <2>2, <1>2 DEF Apart, Inside
<1>3. \A z \in S : z # n => Traded(pos, n, b)[z] = IF z = b THEN pos[n] ELSE pos[z]
  BY DEF Traded, Other
<1>4. pos[b] < pos[n]
  BY <1>1
<1>5. CASE x = b
  <2>1. pos[n] < pos[y] \/ y = b
    BY <1>3, <1>5
  <2>2. Key[b] <= Key[b]
    BY <1>1
  <2> QED BY <2>1, <2>2, <1>1, <1>4, <1>5 DEF InOrder
<1>6. CASE y = b /\ x # b
  <2>1. pos[x] < pos[n]
    BY <1>3, <1>6
  <2> QED BY <2>1, <1>2, <1>6 DEF InOrder
<1>7. CASE x # b /\ y # b
  BY <1>3, <1>7 DEF InOrder
<1> QED BY <1>5, <1>6, <1>7

\* xBTree_nodeRemove: a node with two children trades places first.
LEMMA RemoveKeeps ==
  ASSUME IInv, NEW n \in Node, Remove(n)
  PROVE  IInv'
<1>0. PICK b : b = FindMax(pLeft[n])
  OBVIOUS
<1>1. /\ pc = "idle" /\ pc' = "removeChildCheck" /\ n \in members /\ members' = members
      /\ u32NumNode' = u32NumNode /\ pNode' = n /\ pOut' = n /\ pDown' = pDown /\ pChild' = pChild
  BY DEF Remove, Goto
<1>2. pc # "nodeAdd" /\ pc' # "nodeAdd" /\ pc # "insertRootCheck" /\ pc \notin Inserting
      /\ pc \notin Removing /\ pc \notin Short
  BY <1>1 DEF Inserting, Removing, Short
<1>3. /\ TypedOK /\ CallOK /\ ZeroedOK
      /\ Linked = members /\ members \in SUBSET Node /\ NULL \notin members
      /\ pRoot \in Ref /\ pLeft \in [Node -> Ref] /\ pRight \in [Node -> Ref]
      /\ pParent \in [Node -> Ref] /\ red \in [Node -> BOOLEAN]
      /\ LinksOK(members, pRoot, pLeft, pRight, pParent)
      /\ ColourRule(members, pRoot, pLeft, pRight, red, Painted, Excused)
  BY <1>2, Between
<1>4. PICK pos \in [Node -> Int], lo \in [Node -> Int], hi \in [Node -> Int] :
        PlacesOK(members, pRoot, pLeft, pRight, pos, lo, hi) /\ SortedOK(pos)
  BY <1>2, Between
<1>5. PICK h \in [Node -> Nat] :
        HeightRule(members, pLeft, pRight, red, Painted, ShortAt, Leaving, pChild, h)
  BY <1>2, Between
<1>6. pOut = NULL /\ pChild = NULL
  BY <1>2, <1>3 DEF CallOK
<1>7. Painted = NULL /\ Excused = NULL /\ ShortAt = NULL /\ Leaving = NULL
  BY <1>1, <1>2 DEF Painted, Excused, ShortAt, Leaving
<1>8. Painted' = NULL /\ Excused' = NULL /\ ShortAt' = NULL /\ Leaving' = NULL
  BY <1>1 DEF Painted, Excused, ShortAt, Leaving, Inserting, Short
<1>9. /\ ColourRule(members, pRoot, pLeft, pRight, red, NULL, NULL)
      /\ HeightRule(members, pLeft, pRight, red, NULL, NULL, NULL, NULL, h)
  BY <1>3, <1>5, <1>6, <1>7
<1>10. PhaseOK'
  BY <1>1 DEF PhaseOK, Short, Inserting
<1>11. ~Differences => InOrder(members, pos)
  BY <1>3, <1>4, <1>6 DEF SortedOK, InOrder
<1>12. CASE pLeft[n] = NULL \/ pRight[n] = NULL
  <2>1. pRoot' = pRoot /\ pLeft' = pLeft /\ pRight' = pRight /\ pParent' = pParent /\ red' = red
    BY <1>12 DEF Remove, tree
  <2>2. TypedOK' /\ ZeroedOK' /\ Linked' = members
    <3>1. pNode' \in Ref /\ pDown' \in Ref /\ pOut' \in Ref /\ pChild' \in Ref
      BY <1>1, <1>3 DEF TypedOK, Ref
    <3> QED BY <2>1, <3>1, <1>1, <1>2, <1>3, OthersStay
  <2>3. CallOK'
    BY <2>1, <1>1, <1>12 DEF CallOK, Removing, Short, Inserting
  <2>4. ColoursOK'
    BY <2>1, <2>2, <1>8, <1>9 DEF ColoursOK
  <2>5. HeightRule(Linked', pLeft', pRight', red', Painted', ShortAt', Leaving', pChild', h)
    BY <2>1, <2>2, <1>1, <1>6, <1>8, <1>9
  <2>6. SortedOK(pos)' /\ DescentOK(pos, lo, hi)'
    BY <2>2, <1>1, <1>11 DEF SortedOK, DescentOK, InOrder
  <2>7. ShapeOK(pos, lo, hi)'
    BY <2>1, <2>2, <2>6, <1>3, <1>4 DEF ShapeOK
  <2> QED BY <2>2, <2>3, <2>4, <2>5, <2>7, <1>10 DEF IInv, HeightsOK
<1>13. CASE pLeft[n] # NULL /\ pRight[n] # NULL
  <2>1. SetTree(Swap(Now, n, b)) /\ red' = [red EXCEPT ![n] = red[b], ![b] = red[n]]
    BY <1>0, <1>13 DEF Remove
  <2>2. b = LastAlong(pRight, pLeft[n])
    BY <1>0 DEF FindMax
  <2>3. b \in members /\ b # n /\ pRight[b] = NULL /\ hi[b] = pos[n]
    BY <2>2, <1>1, <1>3, <1>4, <1>13, LastBefore
  <2>4. /\ Swapped(members, n, b, pRoot, pLeft, pRight, pParent, pRoot', pLeft', pRight', pParent')
        /\ pRoot' \in Ref /\ pLeft' \in [Node -> Ref] /\ pRight' \in [Node -> Ref]
        /\ pParent' \in [Node -> Ref]
        /\ Elsewhere(members, pLeft, pRight, pParent, pLeft', pRight', pParent')
    BY <2>1, <2>3, <1>1, <1>3, SwapTurn
  <2>5. /\ red' \in [Node -> BOOLEAN]
        /\ \A y \in members : red'[y] = red[Other(n, b, y)]
        /\ \A y \in Node \ members : red'[y] = red[y]
    BY <2>1, <2>3, <1>1, <1>3 DEF Other
  <2>6. TypedOK' /\ ZeroedOK' /\ Linked' = members
    <3>1. pNode' \in Ref /\ pDown' \in Ref /\ pOut' \in Ref /\ pChild' \in Ref
      BY <1>1, <1>3 DEF TypedOK, Ref
    <3>2. \A y \in Node \ members : /\ pLeft'[y] = pLeft[y] /\ pRight'[y] = pRight[y]
                                    /\ pParent'[y] = pParent[y] /\ red'[y] = red[y]
      BY <2>4, <2>5 DEF Elsewhere
    <3> QED BY <2>4, <2>5, <3>1, <3>2, <1>1, <1>2, <1>3, OthersStay
  <2>7. CallOK'
    <3>1. pRight'[n] = NULL
      BY <2>3, <2>4, <1>1, <1>3 DEF Swapped, Other
    <3> QED BY <3>1, <1>1 DEF CallOK, Removing, Short, Inserting
  <2>8. ColoursOK'
    <3>1. ColourRule(members, pRoot', pLeft', pRight', red', NULL, NULL)
      BY <2>3, <2>4, <2>5, <1>1, <1>3, <1>9, SwapColours
    <3> QED BY <3>1, <2>6, <1>8 DEF ColoursOK
  <2>9. \E f \in [Node -> Nat] : HeightRule(Linked', pLeft', pRight', red', Painted', ShortAt',
                                            Leaving', pChild', f)
    <3>1. HeightRule(members, pLeft', pRight', red', NULL, NULL, NULL, NULL, Traded(h, n, b))
      BY <2>3, <2>4, <2>5, <1>1, <1>3, <1>9, SwapHeights
    <3>2. Traded(h, n, b) \in [Node -> Nat]
      BY <2>3, <1>3 DEF Traded, Other
    <3> QED BY <3>1, <3>2, <2>6, <1>1, <1>6, <1>8
  <2>10. /\ LinksOK(members, pRoot', pLeft', pRight', pParent')
         /\ PlacesOK(members, pRoot', pLeft', pRight', Traded(pos, n, b), Traded(lo, n, b),
                     Traded(hi, n, b))
    BY <2>3, <2>4, <1>1, <1>3, <1>4, SwapKeeps
  <2>11. SortedOK(Traded(pos, n, b))' /\ DescentOK(Traded(pos, n, b), Traded(lo, n, b), Traded(hi, n, b))'
    <3>1. ~Differences => InOrder(members \ {n}, Traded(pos, n, b))
      BY <2>3, <1>1, <1>3, <1>4, <1>11, SwapSorted
    <3> QED BY <3>1, <2>6, <1>1 DEF SortedOK, DescentOK, InOrder
  <2>12. /\ Traded(pos, n, b) \in [Node -> Int] /\ Traded(lo, n, b) \in [Node -> Int]
         /\ Traded(hi, n, b) \in [Node -> Int]
    BY <2>3, <1>3 DEF Traded, Other
  <2>13. ShapeOK(Traded(pos, n, b), Traded(lo, n, b), Traded(hi, n, b))'
    BY <2>6, <2>10, <2>11 DEF ShapeOK
  <2>14. \E pp, ll, hh \in [Node -> Int] : ShapeOK(pp, ll, hh)'
    BY <2>12, <2>13
  <2> QED BY <2>6, <2>7, <2>8, <2>9, <2>14, <1>10 DEF IInv, HeightsOK
<1> QED BY <1>12, <1>13

-----------------------------------------------------------------------------
(* The invariant of the specification.                                     *)

LEMMA NextKeeps ==
  ASSUME FreshNodes, IInv, [Next]_vars
  PROVE  IInv'
<1>1. CASE \E n \in Node : Add(n)
  BY <1>1, AddKeeps
<1>2. CASE \E n \in Node : Remove(n)
  BY <1>2, RemoveKeeps
<1>3. CASE Descend
  BY <1>3, DescendKeeps
<1>4. CASE LinkLeaf
  BY <1>4, LinkLeafKeeps
<1>5. CASE InsertRootCheck
  BY <1>5, InsertRootCheckKeeps
<1>6. CASE InsertParentCheck
  BY <1>6, InsertParentCheckKeeps
<1>7. CASE InsertUncleCheck
  BY <1>7, InsertUncleCheckKeeps
<1>8. CASE InsertParentAdjust
  BY <1>8, InsertParentAdjustKeeps
<1>9. CASE InsertGrandParentCheck
  BY <1>9, InsertGrandParentCheckKeeps
<1>10. CASE RemoveChildCheck
  BY <1>10, RemoveChildCheckKeeps
<1>11. CASE RemoveRootCheck
  BY <1>11, RemoveRootCheckKeeps
<1>12. CASE RemoveSiblingAdjust
  BY <1>12, RemoveSiblingAdjustKeeps
<1>13. CASE RemoveSiblingCheck
  BY <1>13, RemoveSiblingCheckKeeps
<1>14. CASE RemoveParentCheck
  BY <1>14, RemoveParentCheckKeeps
<1>15. CASE RemoveSiblingChildAdjust
  BY <1>15, RemoveSiblingChildAdjustKeeps
<1>16. CASE RemoveSiblingChildCheck
  BY <1>16, RemoveSiblingChildCheckKeeps
<1>17. CASE RemoveUnlink
  BY <1>17, RemoveUnlinkKeeps
<1>18. CASE UNCHANGED vars
  <2>1. /\ pRoot' = pRoot /\ pLeft' = pLeft /\ pRight' = pRight /\ pParent' = pParent
        /\ u32NumNode' = u32NumNode /\ red' = red /\ pc' = pc /\ pNode' = pNode
        /\ pDown' = pDown /\ pOut' = pOut /\ pChild' = pChild /\ members' = members
    BY <1>18 DEF vars, tree, call
  <2>2. TypedOK /\ CallOK /\ ZeroedOK /\ PhaseOK /\ ColoursOK
    BY DEF IInv
  <2>3. Linked' = Linked
    BY <2>1 DEF Linked
  <2>4. TypedOK' /\ CallOK' /\ ZeroedOK'
    BY <2>1, <2>2, <2>3 DEF TypedOK, CallOK, ZeroedOK
  <2>5. PhaseOK'
    BY ZenonT(60), <2>1, <2>2 DEF PhaseOK, IsRed, Uncle, GrandParent, Sibling, IsLeft, HasBlackChildren
  <2>6. Painted' = Painted /\ Excused' = Excused /\ ShortAt' = ShortAt /\ Leaving' = Leaving
    BY <2>1 DEF Painted, Excused, ShortAt, Leaving
  <2>7. ColoursOK'
    BY <2>1, <2>2, <2>3, <2>6 DEF ColoursOK
  <2>8. PICK h \in [Node -> Nat] : HeightsOK(h)
    BY DEF IInv
  <2>9. HeightsOK(h)'
    BY <2>1, <2>3, <2>6, <2>8 DEF HeightsOK
  <2>10. PICK pos \in [Node -> Int], lo \in [Node -> Int], hi \in [Node -> Int] : ShapeOK(pos, lo, hi)
    BY DEF IInv
  <2>11. ShapeOK(pos, lo, hi)'
    BY <2>1, <2>3, <2>10 DEF ShapeOK, SortedOK, DescentOK
  <2> QED BY <2>4, <2>5, <2>7, <2>9, <2>11 DEF IInv
<1> QED BY <1>1, <1>2, <1>3, <1>4, <1>5, <1>6, <1>7, <1>8, <1>9, <1>10, <1>11, <1>12, <1>13, <1>14,
           <1>15, <1>16, <1>17, <1>18 DEF Next, Rebalance

LEMMA Invariance ==
  ASSUME FreshNodes
  PROVE  Spec => []IInv
<1>1. Init => IInv
  BY Start
<1>2. IInv /\ [Next]_vars => IInv'
  BY NextKeeps
<1> QED BY <1>1, <1>2, PTL DEF Spec

\* In a tree whose removed nodes are freed every variable keeps its type.
THEOREM TypeCorrect ==
  ASSUME FreshNodes
  PROVE  Spec => []TypeOK
<1>1. IInv => TypeOK
  <2> SUFFICES ASSUME IInv PROVE TypeOK
    OBVIOUS
  <2>1. TypedOK /\ CallOK
    BY DEF IInv
  <2>2. u32NumNode \in Nat
    <3>1. Linked \in SUBSET Node
      BY <2>1 DEF TypedOK, Linked
    <3>2. IsFiniteSet(Linked)
      BY <3>1, BinaryTreeAssumption, FS_Subset
    <3> QED BY <2>1, <3>2, FS_CardinalityType DEF TypedOK
  <2>3. pc \in {"idle", "fault", "nodeAdd",
             "insertRootCheck", "insertParentCheck", "insertUncleCheck",
             "insertParentAdjust", "insertGrandParentCheck",
             "removeChildCheck", "removeRootCheck", "removeSiblingAdjust",
             "removeSiblingCheck", "removeParentCheck",
             "removeSiblingChildAdjust", "removeSiblingChildCheck", "removeUnlink"}
    BY <2>1 DEF CallOK, Inserting, Removing, Short
  <2> QED BY <2>1, <2>2, <2>3 DEF TypeOK, TypedOK
<1> QED BY <1>1, Invariance, PTL

\* The siblings, grandparents and sibling's children that the rebalancing reads
\* without a test always exist.
THEOREM PointersExist ==
  ASSUME FreshNodes
  PROVE  Spec => []NoNullDereference
<1>1. IInv => NoNullDereference
  BY DEF IInv, CallOK, NoNullDereference, Inserting, Removing, Short
<1> QED BY <1>1, Invariance, PTL

\* Between two calls the root is black and no red node has a red child.
THEOREM ColoursAlternate ==
  ASSUME FreshNodes
  PROVE  Spec => []NoRedRed
<1>1. IInv => NoRedRed
  <2> SUFFICES ASSUME IInv, pc = "idle"
               PROVE  ~IsRed(pRoot) /\ \A n \in members : red[n] => HasBlackChildren(n)
    BY DEF NoRedRed
  <2>1. ColourRule(members, pRoot, pLeft, pRight, red, Painted, Excused) /\ NULL \notin members
    BY Between
  <2>2. Painted = NULL /\ Excused = NULL
    BY DEF Painted, Excused, Inserting
  <2>3. ~IsRed(pRoot)
    BY <2>1, <2>2 DEF ColourRule, Ruddy, IsRed
  <2>4. ASSUME NEW n \in members, red[n] PROVE HasBlackChildren(n)
    <3>1. Ruddy(red, NULL, n)
      BY <2>1, <2>4 DEF Ruddy
    <3> QED BY <3>1, <2>1, <2>2, <2>4 DEF ColourRule, Ruddy, IsRed, HasBlackChildren
  <2> QED BY <2>3, <2>4
<1> QED BY <1>1, Invariance, PTL

\* Where removeSiblingChildAdjust runs, the sibling is black and has a red child.
THEOREM TestsAreTrivial ==
  ASSUME FreshNodes
  PROVE  Spec => []AdjustTestsTrivial
<1>1. IInv => AdjustTestsTrivial
  <2> SUFFICES ASSUME IInv, pc = "removeSiblingChildAdjust"
               PROVE  /\ Sibling(pNode) # NULL /\ ~IsRed(Sibling(pNode))
                      /\ ~HasBlackChildren(Sibling(pNode))
    BY DEF AdjustTestsTrivial
  <2>1. pc \in Short
    BY DEF Short
  <2>2. PhaseOK
    BY DEF IInv
  <2>3. pParent[pNode] # NULL /\ ~IsRed(Sibling(pNode)) /\ ~HasBlackChildren(Sibling(pNode))
    BY <2>2 DEF PhaseOK, Short
  <2>4. Sibling(pNode) # NULL
    BY <2>1, <2>3, ShortIs
  <2> QED BY <2>3, <2>4
<1> QED BY <1>1, Invariance, PTL

-----------------------------------------------------------------------------
(* Sets that grow.                                                         *)

\* A set of numbers that each step keeps to.
LEMMA UpTo ==
  ASSUME NEW N \in Nat, NEW T \in SUBSET (0 .. N), 0 \in T, \A k \in 1 .. N : k - 1 \in T => k \in T
  PROVE  \A k \in 0 .. N : k \in T
<1> DEFINE s == [k \in 0 .. N |-> k]
<1>1. s[0] = 0 /\ \A k \in 1 .. N : s[k - 1] = k - 1 /\ s[k] = k
  OBVIOUS
<1>2. s[0] \in T /\ \A k \in 1 .. N : s[k - 1] \in T => s[k] \in T
  BY <1>1
<1>3. \A k \in 0 .. N : s[k] \in T
  <2> HIDE DEF s
  <2> QED BY <1>2, RepeatIn
<1> QED BY <1>3

\* A set that grows inside C stops growing.
LEMMA GrowthEnds ==
  ASSUME NEW g, NEW s, NEW N \in Nat, NEW C, IsFiniteSet(C), Cardinality(C) <= N,
         s[0] \in SUBSET C, s[0] # {},
         \A X \in SUBSET C : X \subseteq g[X] /\ g[X] \in SUBSET C,
         \A k \in 1 .. N : s[k] = g[s[k - 1]]
  PROVE  s[N] \in SUBSET C /\ s[0] \subseteq s[N] /\ g[s[N]] = s[N]
<1> DEFINE T == {k \in 0 .. N : /\ s[k] \in SUBSET C /\ s[0] \subseteq s[k]
                                /\ Cardinality(s[k]) >= k + 1 \/ g[s[k]] = s[k]}
<1>1. \A X \in SUBSET C : IsFiniteSet(X) /\ Cardinality(X) \in Nat /\ Cardinality(X) <= Cardinality(C)
  BY FS_Subset, FS_CardinalityType
<1>2. Cardinality(C) \in Nat
  BY FS_CardinalityType
<1>3. 0 \in T
  <2>1. Cardinality(s[0]) # 0
    BY <1>1, FS_EmptySet
  <2> QED BY <2>1, <1>1
<1>4. ASSUME NEW k \in 1 .. N, k - 1 \in T PROVE k \in T
  <2> DEFINE X == s[k - 1]
  <2>1. X \in SUBSET C /\ s[0] \subseteq X /\ (Cardinality(X) >= k \/ g[X] = X)
    BY <1>4
  <2>2. s[k] = g[X] /\ X \subseteq g[X] /\ g[X] \in SUBSET C
    BY <2>1
  <2> HIDE DEF X
  <2>3. CASE g[X] = X
    BY <2>1, <2>2, <2>3
  <2>4. CASE g[X] # X
    <3>1. PICK e \in g[X] : e \notin X
      BY <2>2, <2>4
    <3>2. X \cup {e} \in SUBSET C /\ X \cup {e} \subseteq g[X]
      BY <2>1, <2>2, <3>1
    <3>3. Cardinality(X \cup {e}) = Cardinality(X) + 1
      BY <1>1, <2>1, <3>1, FS_AddElement
    <3>4. Cardinality(X \cup {e}) <= Cardinality(g[X])
      BY <1>1, <2>2, <3>2, FS_Subset
    <3>5. Cardinality(X) >= k
      BY <2>1, <2>4
    <3>6. Cardinality(g[X]) >= k + 1
      BY <3>3, <3>4, <3>5, <2>1, <2>2, <1>1
    <3> QED BY <3>6, <2>1, <2>2
  <2> QED BY <2>3, <2>4
<1>5. N \in T
  <2>1. \A k \in 0 .. N : k \in T
    <3>1. T \in SUBSET (0 .. N)
      OBVIOUS
    <3> HIDE DEF T
    <3> QED BY <3>1, <1>3, <1>4, UpTo
  <2> HIDE DEF T
  <2> QED BY <2>1
<1>6. ~(Cardinality(s[N]) >= N + 1)
  <2>1. s[N] \in SUBSET C
    BY <1>5
  <2> QED BY <2>1, <1>1, <1>2
<1> QED BY <1>5, <1>6

-----------------------------------------------------------------------------
(* What holds between two calls: the members and the heights.              *)

\* The nodes below n are closed under children.
LEMMA SubtreeEnds ==
  ASSUME NEW S \in SUBSET Node, NULL \notin S,
         \A m \in S : pLeft[m] \in S \cup {NULL} /\ pRight[m] \in S \cup {NULL},
         NEW n \in S
  PROVE  /\ Subtree(n) \in SUBSET S /\ n \in Subtree(n)
         /\ WithChildren(Subtree(n)) = Subtree(n)
<1> DEFINE g == [X \in SUBSET S |-> WithChildren(X)]
<1> DEFINE N == Cardinality(Node)
<1> DEFINE st == CHOOSE grow : grow = [d \in Depth |-> IF d = 0 THEN {n} \ {NULL}
        ELSE WithChildren(grow[d - 1])]
<1>1. Subtree(n) = st[N]
  BY Zenon DEF Subtree
<1>2. IsFiniteSet(Node) /\ N \in Nat /\ IsFiniteSet(S) /\ Cardinality(S) <= N
  BY BinaryTreeAssumption, FS_CardinalityType, FS_Subset
<1>3. \A X \in SUBSET S : g[X] = WithChildren(X) /\ X \subseteq g[X] /\ g[X] \in SUBSET S
  <2>1. ASSUME NEW X \in SUBSET S
        PROVE  X \subseteq WithChildren(X) /\ WithChildren(X) \in SUBSET S
    <3>1. ASSUME NEW c \in WithChildren(X) PROVE c \in S
      <4>1. CASE c \in X
        BY <4>1
      <4>2. CASE c \notin X
        <5>1. PICK m \in X : c \in {pLeft[m], pRight[m]} /\ c \in Node
          BY <3>1, <4>2 DEF WithChildren
        <5> QED BY <5>1, NullOutside
      <4> QED BY <4>1, <4>2
    <3> QED BY <3>1 DEF WithChildren
  <2> QED BY <2>1
<1>4. PICK s : Repeats(s, g, {n} \ {NULL}, N)
  BY <1>2, RepeatExists
<1>5. s[0] = {n} \ {NULL} /\ \A k \in 1 .. N : s[k] = g[s[k - 1]]
  <2> HIDE DEF N, g
  <2> QED BY <1>2, <1>4, RepeatStep
<1>6. \A k \in 0 .. N : s[k] \in SUBSET S
  <2>1. \A k \in 1 .. N : s[k - 1] \in SUBSET S => s[k] \in SUBSET S
    BY <1>3, <1>5
  <2>2. s[0] \in SUBSET S
    BY <1>5
  <2> HIDE DEF N, g
  <2> QED BY <1>2, <2>1, <2>2, RepeatIn
<1>7. s = [d \in Depth |-> IF d = 0 THEN {n} \ {NULL}
        ELSE WithChildren(s[d - 1])]
  <2>1. s = [k \in 0 .. N |-> IF k = 0 THEN {n} \ {NULL} ELSE g[s[k - 1]]]
    BY <1>4 DEF Repeats
  <2>2. \A k \in 0 .. N : (IF k = 0 THEN {n} \ {NULL} ELSE g[s[k - 1]]) =
           (IF k = 0 THEN {n} \ {NULL}
            ELSE WithChildren(s[k - 1]))
    <3>1. \A k \in 0 .. N : k # 0 => k - 1 \in 0 .. N
      BY <1>2
    <3>2. \A k \in 0 .. N : k # 0 => g[s[k - 1]] = WithChildren(s[k - 1])
      <4> HIDE DEF N, g
      <4> QED BY <3>1, <1>3, <1>6
    <3> HIDE DEF N, g
    <3> QED BY <3>2
  <2> HIDE DEF g
  <2> QED BY <2>1, <2>2 DEF Depth
<1>8. st = [d \in Depth |-> IF d = 0 THEN {n} \ {NULL}
        ELSE WithChildren(st[d - 1])]
  BY <1>7, Zenon
<1>9. \A k \in 0 .. N : st[k] = IF k = 0 THEN {n} \ {NULL} ELSE WithChildren(st[k - 1])
  <2> HIDE DEF st
  <2> QED BY <1>8 DEF Depth
<1>10. st[0] = {n} \ {NULL} /\ \A k \in 1 .. N : st[k] = WithChildren(st[k - 1])
  <2> HIDE DEF st, N
  <2> QED BY <1>9, <1>2
<1>11. \A k \in 0 .. N : st[k] \in SUBSET S
  <2>1. \A k \in 1 .. N : st[k - 1] \in SUBSET S => st[k] \in SUBSET S
    <3> HIDE DEF st, N
    <3> QED BY <1>3, <1>10
  <2>2. st[0] \in SUBSET S
    <3> HIDE DEF st, N
    <3> QED BY <1>10
  <2> HIDE DEF st, N
  <2> QED BY <1>2, <2>1, <2>2, RepeatIn
<1>12. \A k \in 1 .. N : st[k] = g[st[k - 1]]
  <2>1. \A k \in 1 .. N : k - 1 \in 0 .. N
    BY <1>2
  <2> HIDE DEF st, N, g
  <2> QED BY <1>3, <1>10, <1>11, <2>1
<1>13. st[0] = {n}
  <2> HIDE DEF st
  <2> QED BY <1>10
<1>14. st[N] \in SUBSET S /\ st[0] \subseteq st[N] /\ g[st[N]] = st[N]
  <2>1. st[0] \in SUBSET S /\ st[0] # {}
    <3> HIDE DEF st
    <3> QED BY <1>13
  <2> HIDE DEF st, N, g
  <2> QED BY <1>2, <1>3, <1>12, <2>1, GrowthEnds
<1> HIDE DEF st, N, g
<1> QED BY <1>1, <1>3, <1>13, <1>14

LEMMA SubtreeOfNone == ASSUME pRoot = NULL PROVE Subtree(pRoot) = {}
<1> DEFINE N == Cardinality(Node)
<1> DEFINE st == CHOOSE grow : grow = [d \in Depth |-> IF d = 0 THEN {pRoot} \ {NULL}
        ELSE WithChildren(grow[d - 1])]
<1>1. Subtree(pRoot) = st[N]
  BY Zenon DEF Subtree
<1>2. N \in Nat
  BY BinaryTreeAssumption, FS_CardinalityType
<1>3. PICK s : s = [k \in 0 .. N |-> {}]
  OBVIOUS
<1>4. s = [d \in Depth |-> IF d = 0 THEN {pRoot} \ {NULL}
        ELSE WithChildren(s[d - 1])]
  <2>1. \A k \in 0 .. N : s[k] = {} /\ (k # 0 => k - 1 \in 0 .. N)
    BY <1>2, <1>3
  <2>2. \A k \in 0 .. N : {} = 
           (IF k = 0 THEN {pRoot} \ {NULL}
            ELSE WithChildren(s[k - 1]))
    <3>1. WithChildren({}) = {}
      BY DEF WithChildren
    <3>2. \A k \in 0 .. N : k # 0 => s[k - 1] = {}
      <4> HIDE DEF N
      <4> QED BY <2>1
    <3> HIDE DEF N
    <3> QED BY <3>1, <3>2
  <2> QED BY <2>2, <1>3 DEF Depth
<1>5. st = [d \in Depth |-> IF d = 0 THEN {pRoot} \ {NULL}
        ELSE WithChildren(st[d - 1])]
  BY <1>4, Zenon
<1>6. \A k \in 0 .. N : st[k] = IF k = 0 THEN {pRoot} \ {NULL} ELSE WithChildren(st[k - 1])
  <2> HIDE DEF st
  <2> QED BY <1>5 DEF Depth
<1>7. st[0] = {pRoot} \ {NULL} /\ \A k \in 1 .. N : st[k] = WithChildren(st[k - 1])
  <2> HIDE DEF st, N
  <2> QED BY <1>6, <1>2
<1>8. \A k \in 0 .. N : st[k] \in {{}}
  <2>1. \A k \in 1 .. N : st[k - 1] \in {{}} => st[k] \in {{}}
    <3>1. WithChildren({}) = {}
      BY DEF WithChildren
    <3> HIDE DEF st, N
    <3> QED BY <1>7, <3>1
  <2>2. st[0] \in {{}}
    <3> HIDE DEF st, N
    <3> QED BY <1>7
  <2> HIDE DEF st, N
  <2> QED BY <1>2, <2>1, <2>2, RepeatIn
<1> HIDE DEF st, N
<1> QED BY <1>1, <1>2, <1>8

\* Nodes that are closed under children are all of the tree, if the root is among
\* them: of the others the one with the widest interval would have a parent.
LEMMA ReachesAll ==
  ASSUME NEW S \in SUBSET Node, NULL \notin S, NEW r \in S, NEW L, NEW R, NEW P,
         NEW pos \in [Node -> Int], NEW lo \in [Node -> Int], NEW hi \in [Node -> Int],
         LinksOK(S, r, L, R, P), PlacesOK(S, r, L, R, pos, lo, hi),
         NEW F \in SUBSET S, r \in F,
         \A m \in F : L[m] \in F \cup {NULL} /\ R[m] \in F \cup {NULL}
  PROVE  F = S
<1> SUFFICES ASSUME S \ F # {} PROVE FALSE
  OBVIOUS
<1> DEFINE size(x) == hi[x] - lo[x]
<1> DEFINE T == {size(r) - size(x) : x \in S \ F}
<1>1. \A x \in S : /\ pos[x] \in Int /\ lo[x] \in Int /\ hi[x] \in Int
                   /\ lo[x] < pos[x] /\ pos[x] < hi[x] /\ lo[r] <= lo[x] /\ hi[x] <= hi[r]
  BY DEF PlacesOK
<1>2. T \in SUBSET Nat /\ T # {}
  BY <1>1
<1>3. PICK n \in T : \A m \in T : n <= m
  <2> HIDE DEF T
  <2> QED BY <1>2, Least
<1>4. PICK x \in S \ F : n = size(r) - size(x)
  BY <1>3
<1>5. \A y \in S \ F : n <= size(r) - size(y)
  BY <1>3
<1>6. P[x] \in S /\ P[x] # NULL /\ (x = L[P[x]] \/ x = R[P[x]])
  BY <1>4 DEF LinksOK
<1>7. P[x] \notin F
  BY <1>4, <1>6
<1>8. lo[P[x]] < pos[P[x]] /\ pos[P[x]] < hi[P[x]] /\ lo[x] \in Int /\ hi[x] \in Int
      /\ lo[P[x]] \in Int /\ hi[P[x]] \in Int /\ pos[P[x]] \in Int
      /\ lo[r] \in Int /\ hi[r] \in Int
  BY <1>1, <1>4, <1>6
<1>9. \/ lo[x] = lo[P[x]] /\ hi[x] = pos[P[x]]
      \/ lo[x] = pos[P[x]] /\ hi[x] = hi[P[x]]
  BY <1>4, <1>6 DEF PlacesOK
<1>10. n <= size(r) - size(P[x])
  BY <1>5, <1>6, <1>7
<1> QED BY <1>4, <1>8, <1>9, <1>10

\* Between two calls the tree holds exactly the nodes that were added and not
\* removed, linked both ways and counted, where removed nodes are freed.
THEOREM MembersKept ==
  ASSUME FreshNodes
  PROVE  Spec => []HoldsMembers
<1>1. ASSUME IInv PROVE HoldsMembers
  <2> SUFFICES ASSUME pc = "idle" PROVE HoldsMembers
    BY DEF HoldsMembers
  <2>1. /\ TypedOK /\ Linked = members /\ members \in SUBSET Node /\ NULL \notin members
        /\ LinksOK(members, pRoot, pLeft, pRight, pParent)
    BY <1>1, Between
  <2>2. PICK pos \in [Node -> Int], lo \in [Node -> Int], hi \in [Node -> Int] :
          PlacesOK(members, pRoot, pLeft, pRight, pos, lo, hi)
    BY <1>1, Between
  <2>3. Subtree(pRoot) = members
    <3>1. CASE pRoot = NULL
      BY <2>1, <3>1, SubtreeOfNone DEF LinksOK
    <3>2. CASE pRoot # NULL
      <4>1. pRoot \in members
        BY <2>1, <3>2 DEF LinksOK
      <4>2. \A m \in members : pLeft[m] \in members \cup {NULL} /\ pRight[m] \in members \cup {NULL}
        BY <2>1 DEF LinksOK
      <4> DEFINE F == Subtree(pRoot)
      <4>3. F \in SUBSET members /\ pRoot \in F /\ WithChildren(F) = F
        BY <2>1, <4>1, <4>2, SubtreeEnds
      <4> HIDE DEF F
      <4>4. \A m \in F : pLeft[m] \in F \cup {NULL} /\ pRight[m] \in F \cup {NULL}
        <5>1. ASSUME NEW m \in F, NEW c \in {pLeft[m], pRight[m]}, c # NULL PROVE c \in F
          <6>1. c \in Node
            BY <5>1, <4>2, <4>3, <2>1
          <6>2. c \in WithChildren(F)
            BY <5>1, <6>1 DEF WithChildren
          <6> QED BY <6>2, <4>3
        <5> QED BY <5>1
      <4>5. F = members
        BY <2>1, <2>2, <4>1, <4>3, <4>4, ReachesAll
      <4> QED BY <4>5 DEF F
    <3> QED BY <3>1, <3>2
  <2>4. u32NumNode = Cardinality(members)
    BY <2>1 DEF TypedOK
  <2>5. \A n \in members :
          /\ pParent[n] = NULL => n = pRoot
          /\ pParent[n] # NULL => n \in {pLeft[pParent[n]], pRight[pParent[n]]}
          /\ pLeft[n] # NULL => pParent[pLeft[n]] = n
          /\ pRight[n] # NULL => pParent[pRight[n]] = n
    BY <2>1 DEF LinksOK
  <2> QED BY <2>3, <2>4, <2>5 DEF HoldsMembers
<1> QED BY <1>1, Invariance, PTL

\* One step further down, with the black nodes on the way.
Ahead(X) ==
  UNION {{<<c, b[2] + IF IsRed(c) THEN 0 ELSE 1>> : c \in {pLeft[b[1]], pRight[b[1]]}}
         : b \in {p \in X : p[1] # NULL}}

\* A node and a number of black nodes above it that go with the heights.
OnTheWay(h, n, p) ==
  IF p[1] = NULL THEN p[2] = h[n] + 1 ELSE p[2] + H(h, pLeft[p[1]]) = h[n]

LEMMA AheadIs ==
  ASSUME NEW X
  PROVE  /\ \A p \in Ahead(X) : \E b \in X : /\ b[1] # NULL /\ p[1] \in {pLeft[b[1]], pRight[b[1]]}
                                 /\ p = <<p[1], b[2] + IF IsRed(p[1]) THEN 0 ELSE 1>>
         /\ \A b \in X : b[1] # NULL =>
              <<pLeft[b[1]], b[2] + IF IsRed(pLeft[b[1]]) THEN 0 ELSE 1>> \in Ahead(X)
BY DEF Ahead

LEMMA AheadKeeps ==
  ASSUME members \in SUBSET Node, NULL \notin members, red \in [Node -> BOOLEAN],
         \A m \in members : /\ pLeft[m] \in members \cup {NULL}
                            /\ pRight[m] \in members \cup {NULL},
         NEW h \in [Node -> Nat],
         HeightRule(members, pLeft, pRight, red, NULL, NULL, NULL, NULL, h),
         NEW n \in members,
         NEW X \in SUBSET ((members \cup {NULL}) \X Nat), \A p \in X : OnTheWay(h, n, p)
  PROVE  /\ Ahead(X) \in SUBSET ((members \cup {NULL}) \X Nat)
         /\ \A p \in Ahead(X) : OnTheWay(h, n, p)
<1> SUFFICES ASSUME NEW p \in Ahead(X)
             PROVE  p \in (members \cup {NULL}) \X Nat /\ OnTheWay(h, n, p)
  OBVIOUS
<1>1. PICK b \in X : /\ b[1] # NULL /\ p[1] \in {pLeft[b[1]], pRight[b[1]]}
                     /\ p = <<p[1], b[2] + IF IsRed(p[1]) THEN 0 ELSE 1>>
  BY AheadIs
<1>2. PICK m \in members, k \in Nat : b = <<m, k>>
  BY <1>1
<1>3. PICK c \in {pLeft[m], pRight[m]} : p = <<c, k + IF IsRed(c) THEN 0 ELSE 1>>
  BY <1>1, <1>2
<1>4. c \in members \cup {NULL}
  BY <1>3
<1>5. (IF IsRed(c) THEN 0 ELSE 1) \in {0, 1}
  OBVIOUS
<1>6. PICK d \in {0, 1} : d = IF IsRed(c) THEN 0 ELSE 1
  BY <1>5
<1>7. p = <<c, k + d>>
  BY <1>3, <1>6
<1>8. k + H(h, pLeft[m]) = h[n]
  <2>1. OnTheWay(h, n, b)
    BY <1>1
  <2> QED BY <1>1, <1>2, <2>1 DEF OnTheWay
<1>9. H(h, c) = H(h, pLeft[m])
  BY <1>2, <1>3, NullOutside DEF HeightRule
<1>10. H(h, c) \in Nat /\ h[n] \in Nat
  BY <1>4 DEF H
<1>11. p \in (members \cup {NULL}) \X Nat
  BY <1>4, <1>7
<1>12. OnTheWay(h, n, p)
  <2>1. CASE c = NULL
    <3>1. d = 1
      BY <1>6, <2>1 DEF IsRed
    <3>2. H(h, c) = 0
      BY <2>1 DEF H
    <3> QED BY <1>7, <1>8, <1>9, <1>10, <2>1, <3>1, <3>2 DEF OnTheWay
  <2>2. CASE c \in members
    <3>1. h[c] = H(h, pLeft[c]) + Black(red, NULL, c) + Lacks(NULL, c)
      BY <2>2 DEF HeightRule
    <3>2. Black(red, NULL, c) = d /\ Lacks(NULL, c) = 0 /\ H(h, c) = h[c]
      BY <1>6, <2>2 DEF Black, Ruddy, IsRed, Lacks, H
    <3>3. H(h, pLeft[c]) \in Nat
      BY <2>2 DEF H
    <3>4. (k + d) + H(h, pLeft[c]) = h[n]
      BY <1>8, <1>9, <1>10, <3>1, <3>2, <3>3
    <3> QED BY <1>7, <2>2, <3>4 DEF OnTheWay
  <2> QED BY <1>4, <2>1, <2>2
<1> QED BY <1>11, <1>12

\* All paths down from n pass as many black nodes as n is high.
LEMMA BlackHeightIs ==
  ASSUME members \in SUBSET Node, NULL \notin members, red \in [Node -> BOOLEAN],
         LinksOK(members, pRoot, pLeft, pRight, pParent),
         NEW pos \in [Node -> Int], NEW lo \in [Node -> Int], NEW hi \in [Node -> Int],
         PlacesOK(members, pRoot, pLeft, pRight, pos, lo, hi),
         NEW h \in [Node -> Nat],
         HeightRule(members, pLeft, pRight, red, NULL, NULL, NULL, NULL, h),
         NEW n \in members
  PROVE  BlackHeight(n) = {h[n] + 1}
<1> DEFINE N == Cardinality(Node)
<1> DEFINE a == {<<n, IF red[n] THEN 0 ELSE 1>>}
<1> DEFINE C == {X \in SUBSET ((members \cup {NULL}) \X Nat) : \A p \in X : OnTheWay(h, n, p)}
<1> DEFINE g == [X \in C |-> Ahead(X)]
<1> DEFINE st == CHOOSE paths : paths = [d \in Depth |->
        IF d = 0 THEN {<<n, IF red[n] THEN 0 ELSE 1>>}
        ELSE UNION {{<<c, b[2] + IF IsRed(c) THEN 0 ELSE 1>> : c \in {pLeft[b[1]], pRight[b[1]]}}
                    : b \in {p \in paths[d - 1] : p[1] # NULL}}]
<1>1. BlackHeight(n) = {p[2] : p \in {q \in UNION {st[d] : d \in Depth} : q[1] = NULL}}
  BY Zenon DEF BlackHeight
<1>2. N \in Nat
  BY BinaryTreeAssumption, FS_CardinalityType
<1>3. \A m \in members : /\ m # NULL /\ pLeft[m] \in members \cup {NULL}
                         /\ pRight[m] \in members \cup {NULL}
  BY NullOutside DEF LinksOK
<1>4. a \in C
  <2>1. (IF red[n] THEN 0 ELSE 1) \in Nat
    OBVIOUS
  <2>2. OnTheWay(h, n, <<n, IF red[n] THEN 0 ELSE 1>>)
    <3>1. h[n] = H(h, pLeft[n]) + Black(red, NULL, n) + Lacks(NULL, n)
      BY <1>3 DEF HeightRule
    <3>2. Lacks(NULL, n) = 0 /\ Black(red, NULL, n) = IF red[n] THEN 0 ELSE 1
      BY <1>3 DEF Lacks, Black, Ruddy
    <3>3. H(h, pLeft[n]) \in Nat
      BY <1>3 DEF H
    <3> QED BY <1>3, <3>1, <3>2, <3>3 DEF OnTheWay
  <2> QED BY <2>1, <2>2
<1>5. \A X \in C : Ahead(X) \in C /\ g[X] = Ahead(X)
  <2>1. ASSUME NEW X \in C PROVE Ahead(X) \in C
    <3>1. X \in SUBSET ((members \cup {NULL}) \X Nat) /\ \A p \in X : OnTheWay(h, n, p)
      OBVIOUS
    <3>2. /\ Ahead(X) \in SUBSET ((members \cup {NULL}) \X Nat)
          /\ \A p \in Ahead(X) : OnTheWay(h, n, p)
      BY <1>3, <3>1, AheadKeeps
    <3> QED BY <3>2
  <2> HIDE DEF C
  <2> QED BY <2>1
<1>6. PICK s : Repeats(s, g, a, N)
  BY <1>2, RepeatExists
<1> HIDE DEF C
<1>7. s[0] = a /\ \A k \in 1 .. N : s[k] = g[s[k - 1]]
  <2> HIDE DEF N, g, a
  <2> QED BY <1>2, <1>6, RepeatStep
<1>8. \A k \in 0 .. N : s[k] \in C
  <2>1. (\A k \in 1 .. N : s[k - 1] \in C => s[k] \in C) /\ s[0] \in C
    <3> HIDE DEF N, g, a
    <3> QED BY <1>4, <1>5, <1>7
  <2> HIDE DEF N, g, a
  <2> QED BY <1>2, <2>1, RepeatIn
<1>9. s = [d \in Depth |->
        IF d = 0 THEN {<<n, IF red[n] THEN 0 ELSE 1>>}
        ELSE UNION {{<<c, b[2] + IF IsRed(c) THEN 0 ELSE 1>> : c \in {pLeft[b[1]], pRight[b[1]]}}
                    : b \in {p \in s[d - 1] : p[1] # NULL}}]
  <2>1. s = [k \in 0 .. N |-> IF k = 0 THEN a ELSE g[s[k - 1]]]
    BY <1>6 DEF Repeats
  <2>2. \A k \in 0 .. N : k # 0 => k - 1 \in 0 .. N
    BY <1>2
  <2>3. \A k \in 0 .. N : k # 0 => g[s[k - 1]] = Ahead(s[k - 1])
    <3> HIDE DEF N, g, a
    <3> QED BY <2>2, <1>5, <1>8
  <2>4. \A k \in 0 .. N : (IF k = 0 THEN a ELSE g[s[k - 1]]) =
                          (IF k = 0 THEN a ELSE Ahead(s[k - 1]))
    <3> HIDE DEF N, g, a
    <3> QED BY <2>3
  <2>5. s = [k \in 0 .. N |-> IF k = 0 THEN a ELSE Ahead(s[k - 1])]
    <3> HIDE DEF N, g, a
    <3> QED BY <2>1, <2>4
  <2> QED BY <2>5, Zenon DEF Depth, Ahead
<1>10. st = [d \in Depth |->
        IF d = 0 THEN {<<n, IF red[n] THEN 0 ELSE 1>>}
        ELSE UNION {{<<c, b[2] + IF IsRed(c) THEN 0 ELSE 1>> : c \in {pLeft[b[1]], pRight[b[1]]}}
                    : b \in {p \in st[d - 1] : p[1] # NULL}}]
  BY <1>9, Zenon
<1> HIDE DEF st, g
<1>11. st = [d \in 0 .. N |-> IF d = 0 THEN a ELSE Ahead(st[d - 1])]
  BY <1>10, Zenon DEF Depth, Ahead
<1> HIDE DEF a, N
<1>12. st[0] = a /\ \A k \in 1 .. N : st[k] = Ahead(st[k - 1])
  BY <1>11, <1>2
<1>13. \A k \in 0 .. N : st[k] \in C
  <2>1. (\A k \in 1 .. N : st[k - 1] \in C => st[k] \in C) /\ st[0] \in C
    BY <1>4, <1>5, <1>12
  <2> QED BY <1>2, <2>1, RepeatIn
<1>14. \A k \in 0 .. N : \A p \in st[k] : p[1] = NULL => p[2] = h[n] + 1
  BY <1>13 DEF C, OnTheWay
<1>15. \E k \in 0 .. N : \E p \in st[k] : p[1] = NULL
  <2> DEFINE D == members \cup {NULL}
  <2> DEFINE f == [x \in D |-> IF x = NULL THEN NULL ELSE pLeft[x]]
  <2> DEFINE m == [x \in D |-> IF x = NULL THEN 0 ELSE hi[x] - lo[x]]
  <2>1. IsFiniteSet(D) /\ Cardinality(D) <= N + 1 /\ n \in D
    <3>1. IsFiniteSet(members) /\ Cardinality(members) <= N /\ Cardinality(members) \in Nat
      BY BinaryTreeAssumption, FS_Subset, FS_CardinalityType DEF N
    <3>2. IsFiniteSet(D) /\ Cardinality(D) = Cardinality(members) + 1
      BY <3>1, FS_AddElement
    <3> HIDE DEF D
    <3> QED BY <1>2, <3>1, <3>2 DEF D
  <2>2. \A x \in D : f[x] \in D
    BY <1>3
  <2>3. m \in [D -> Int]
    BY DEF PlacesOK
  <2>4. \A x \in D : x # NULL => m[f[x]] < m[x]
    <3>1. ASSUME NEW x \in members PROVE m[f[x]] < m[x]
      <4>1. /\ pos[x] \in Int /\ lo[x] \in Int /\ hi[x] \in Int /\ lo[x] < pos[x] /\ pos[x] < hi[x]
        BY DEF PlacesOK
      <4>2. f[x] = pLeft[x] /\ m[x] = hi[x] - lo[x]
        BY <1>3
      <4>3. CASE pLeft[x] = NULL
        BY <4>1, <4>2, <4>3
      <4>4. CASE pLeft[x] # NULL
        <5>1. lo[pLeft[x]] = lo[x] /\ hi[pLeft[x]] = pos[x]
          BY <4>4 DEF PlacesOK
        <5>2. m[pLeft[x]] = hi[pLeft[x]] - lo[pLeft[x]]
          BY <4>4, <1>3
        <5> QED BY <4>1, <4>2, <5>1, <5>2
      <4> QED BY <4>3, <4>4
    <3> QED BY <3>1
  <2>5. f[NULL] = NULL /\ \A x \in members : f[x] = pLeft[x]
    BY <1>3
  <2>6. PICK w : Repeats(w, f, n, N)
    BY <1>2, RepeatExists
  <2> HIDE DEF f, m
  <2>7. w[0] = n /\ \A k \in 1 .. N : w[k] = f[w[k - 1]]
    <3> HIDE DEF D
    <3> QED BY <1>2, <2>6, RepeatStep
  <2>8. f[w[N]] = w[N] /\ w[N] \in D
    <3>1. \A x \in D : f[x] # x => m[f[x]] < m[x]
      BY <2>4, <2>5
    <3> HIDE DEF D
    <3> QED BY <1>2, <2>1, <2>2, <2>3, <2>7, <3>1, RepeatEnds
  <2>9. w[N] = NULL
    <3>1. \A x \in D : m[x] \in Int
      BY <2>3
    <3> HIDE DEF D
    <3> QED BY <2>4, <2>8, <3>1
  <2> SUFFICES ASSUME \A k \in 0 .. N : \A p \in st[k] : p[1] # NULL PROVE FALSE
    OBVIOUS
  <2> DEFINE T == {k \in 0 .. N : \E p \in st[k] : p[1] = w[k]}
  <2>10. 0 \in T
    <3>1. <<n, IF red[n] THEN 0 ELSE 1>> \in st[0]
      BY <1>12 DEF a
    <3>2. <<n, IF red[n] THEN 0 ELSE 1>>[1] = w[0]
      BY <2>7
    <3> QED BY <1>2, <3>1, <3>2
  <2>11. ASSUME NEW k \in 1 .. N, k - 1 \in T PROVE k \in T
    <3>1. PICK b \in st[k - 1] : b[1] = w[k - 1]
      BY <2>11
    <3>2. k - 1 \in 0 .. N
      BY <1>2
    <3>3. b[1] # NULL /\ b[1] \in members
      BY <3>1, <3>2, <1>13 DEF C
    <3>4. <<pLeft[b[1]], b[2] + IF IsRed(pLeft[b[1]]) THEN 0 ELSE 1>> \in Ahead(st[k - 1])
      BY <3>1, <3>3, AheadIs
    <3>5. w[k] = pLeft[b[1]]
      BY <3>1, <3>3, <2>5, <2>7
    <3> QED BY <3>4, <3>5, <1>12
  <2>12. N \in T
    <3>1. T \in SUBSET (0 .. N)
      OBVIOUS
    <3> HIDE DEF T
    <3>2. \A k \in 0 .. N : k \in T
      BY <1>2, <2>10, <2>11, <3>1, UpTo
    <3> QED BY <1>2, <3>2
  <2> QED BY <2>9, <2>12
<1> QED BY <1>1, <1>14, <1>15 DEF Depth, N

\* Between two calls all paths from a node down to a missing child pass the same
\* number of black nodes, after any additions and removals of fresh nodes.
THEOREM StaysBalanced ==
  ASSUME FreshNodes
  PROVE  Spec => []Balanced
<1>1. ASSUME IInv PROVE Balanced
  <2> SUFFICES ASSUME pc = "idle", NEW n \in members PROVE Cardinality(BlackHeight(n)) = 1
    BY DEF Balanced
  <2>1. /\ members \in SUBSET Node /\ NULL \notin members /\ red \in [Node -> BOOLEAN]
        /\ LinksOK(members, pRoot, pLeft, pRight, pParent)
    BY <1>1, Between
  <2>2. PICK pos \in [Node -> Int], lo \in [Node -> Int], hi \in [Node -> Int] :
          PlacesOK(members, pRoot, pLeft, pRight, pos, lo, hi)
    BY <1>1, Between
  <2>3. PICK h \in [Node -> Nat] :
          HeightRule(members, pLeft, pRight, red, Painted, ShortAt, Leaving, pChild, h)
    BY <1>1, Between
  <2>4. Painted = NULL /\ ShortAt = NULL /\ Leaving = NULL /\ pChild = NULL
    BY <1>1 DEF IInv, CallOK, Painted, ShortAt, Leaving, Removing, Short
  <2>5. HeightRule(members, pLeft, pRight, red, NULL, NULL, NULL, NULL, h)
    BY <2>3, <2>4
  <2>6. BlackHeight(n) = {h[n] + 1}
    BY <2>1, <2>2, <2>5, BlackHeightIs
  <2> QED BY <2>6, FS_Singleton
<1> QED BY <1>1, Invariance, PTL

-----------------------------------------------------------------------------
(* What holds between two calls: look-ups and scans.                       *)

\* A tree in the order of the keys.
Ordered(pos, lo, hi) ==
  /\ members \in SUBSET Node /\ NULL \notin members
  /\ pos \in [Node -> Int] /\ lo \in [Node -> Int] /\ hi \in [Node -> Int]
  /\ LinksOK(members, pRoot, pLeft, pRight, pParent)
  /\ PlacesOK(members, pRoot, pLeft, pRight, pos, lo, hi)
  /\ \A a, b \in members : pos[a] < pos[b] => Key[a] <= Key[b]

Width(lo, hi, x) == IF x = NULL THEN 0 ELSE hi[x] - lo[x]

\* Bounds of a node and of its children.
LEMMA Bounds ==
  ASSUME NEW pos, NEW lo, NEW hi, Ordered(pos, lo, hi), NEW x \in members
  PROVE  /\ x # NULL /\ pos[x] \in Int /\ lo[x] \in Int /\ hi[x] \in Int /\ Key[x] \in Nat
         /\ lo[x] < pos[x] /\ pos[x] < hi[x]
         /\ pLeft[x] \in members \cup {NULL} /\ pRight[x] \in members \cup {NULL}
         /\ pLeft[x] # NULL => lo[pLeft[x]] = lo[x] /\ hi[pLeft[x]] = pos[x]
         /\ pRight[x] # NULL => lo[pRight[x]] = pos[x] /\ hi[pRight[x]] = hi[x]
BY BinaryTreeAssumption DEF Ordered, LinksOK, PlacesOK

LEMMA Narrower ==
  ASSUME NEW pos, NEW lo, NEW hi, Ordered(pos, lo, hi), NEW x \in members
  PROVE  /\ Width(lo, hi, x) \in Int
         /\ Width(lo, hi, pLeft[x]) < Width(lo, hi, x)
         /\ Width(lo, hi, pRight[x]) < Width(lo, hi, x)
<1>1. /\ x # NULL /\ pos[x] \in Int /\ lo[x] \in Int /\ hi[x] \in Int
      /\ lo[x] < pos[x] /\ pos[x] < hi[x]
      /\ pLeft[x] # NULL => lo[pLeft[x]] = lo[x] /\ hi[pLeft[x]] = pos[x]
      /\ pRight[x] # NULL => lo[pRight[x]] = pos[x] /\ hi[pRight[x]] = hi[x]
  BY Bounds
<1>2. Width(lo, hi, x) = hi[x] - lo[x]
  BY <1>1 DEF Width
<1>3. Width(lo, hi, pLeft[x]) < Width(lo, hi, x)
  <2>1. CASE pLeft[x] = NULL
    BY <1>1, <1>2, <2>1 DEF Width
  <2>2. CASE pLeft[x] # NULL
    BY <1>1, <1>2, <2>2 DEF Width
  <2> QED BY <2>1, <2>2
<1>4. Width(lo, hi, pRight[x]) < Width(lo, hi, x)
  <2>1. CASE pRight[x] = NULL
    BY <1>1, <1>2, <2>1 DEF Width
  <2>2. CASE pRight[x] # NULL
    BY <1>1, <1>2, <2>2 DEF Width
  <2> QED BY <2>1, <2>2
<1> QED BY <1>1, <1>2, <1>3, <1>4

\* Another node in the interval of x is below the child on its side.
LEMMA Room ==
  ASSUME NEW pos, NEW lo, NEW hi, Ordered(pos, lo, hi), NEW x \in members, NEW z \in members
  PROVE  /\ z # x => pos[z] # pos[x]
         /\ lo[x] < pos[z] /\ pos[z] < pos[x] =>
              pLeft[x] # NULL /\ lo[pLeft[x]] < pos[z] /\ pos[z] < hi[pLeft[x]]
         /\ pos[x] < pos[z] /\ pos[z] < hi[x] =>
              pRight[x] # NULL /\ lo[pRight[x]] < pos[z] /\ pos[z] < hi[pRight[x]]
<1>1. /\ pos[x] \in Int /\ hi[x] \in Int /\ lo[x] \in Int /\ lo[x] < pos[x] /\ pos[x] < hi[x]
      /\ pos[z] \in Int /\ hi[z] \in Int /\ lo[z] \in Int /\ lo[z] < pos[z] /\ pos[z] < hi[z]
  BY Bounds
<1>2. z # x => Apart(pLeft, pRight, pos, lo, hi, x, z)
  BY DEF Ordered, PlacesOK
<1>3. z # x => pos[z] # pos[x]
  BY <1>1, <1>2 DEF Apart, Inside
<1>4. ASSUME lo[x] < pos[z], pos[z] < pos[x]
      PROVE  pLeft[x] # NULL /\ lo[pLeft[x]] < pos[z] /\ pos[z] < hi[pLeft[x]]
  <2>1. z # x
    BY <1>1, <1>4
  <2>2. pLeft[x] # NULL
    BY <1>1, <1>2, <1>4, <2>1 DEF Apart, Inside
  <2>3. lo[pLeft[x]] = lo[x] /\ hi[pLeft[x]] = pos[x]
    BY <2>2, Bounds
  <2> QED BY <1>4, <2>2, <2>3
<1>5. ASSUME pos[x] < pos[z], pos[z] < hi[x]
      PROVE  pRight[x] # NULL /\ lo[pRight[x]] < pos[z] /\ pos[z] < hi[pRight[x]]
  <2>1. z # x
    BY <1>1, <1>5
  <2>2. pRight[x] # NULL
    BY <1>1, <1>2, <1>5, <2>1 DEF Apart, Inside
  <2>3. lo[pRight[x]] = pos[x] /\ hi[pRight[x]] = hi[x]
    BY <2>2, Bounds
  <2> QED BY <1>5, <2>2, <2>3
<1> QED BY <1>3, <1>4, <1>5

\* What nodeFind looks at: NULL, or a node whose interval has all nodes with key k.
OnTrack(pos, lo, hi, k, x) ==
  \A z \in members : Key[z] = k => x # NULL /\ lo[x] < pos[z] /\ pos[z] < hi[x]

FindStep(k, n) ==
  IF n = NULL \/ Key[n] = k THEN n ELSE IF pNodeCmp(k, Key[n]) < 0 THEN pLeft[n] ELSE pRight[n]

LEMMA FindStepKeeps ==
  ASSUME ~Differences, NEW pos, NEW lo, NEW hi, Ordered(pos, lo, hi), NEW k \in Nat,
         NEW x \in members \cup {NULL}, OnTrack(pos, lo, hi, k, x)
  PROVE  FindStep(k, x) \in members \cup {NULL} /\ OnTrack(pos, lo, hi, k, FindStep(k, x))
<1>1. CASE x = NULL \/ Key[x] = k
  BY <1>1 DEF FindStep
<1>2. CASE x # NULL /\ Key[x] # k
  <2>1. x \in members /\ Key[x] \in Nat /\ pos[x] \in Int
    BY <1>2, Bounds
  <2>2. pLeft[x] \in members \cup {NULL} /\ pRight[x] \in members \cup {NULL}
    BY <2>1, Bounds
  <2>3. FindStep(k, x) = IF k < Key[x] THEN pLeft[x] ELSE pRight[x]
    BY <1>2, <2>1 DEF FindStep, pNodeCmp
  <2>4. ASSUME NEW z \in members, Key[z] = k
        PROVE  /\ FindStep(k, x) # NULL
               /\ lo[FindStep(k, x)] < pos[z] /\ pos[z] < hi[FindStep(k, x)]
    <3>1. lo[x] < pos[z] /\ pos[z] < hi[x]
      BY <2>4 DEF OnTrack
    <3>2. x # z /\ pos[z] # pos[x] /\ pos[z] \in Int
      BY <1>2, <2>1, <2>4, Room, Bounds
    <3>3. (pos[x] < pos[z] => Key[x] <= k) /\ (pos[z] < pos[x] => k <= Key[x])
      BY <2>1, <2>4 DEF Ordered
    <3>4. CASE k < Key[x]
      <4>1. pos[z] < pos[x]
        BY <2>1, <3>2, <3>3, <3>4
      <4>2. pLeft[x] # NULL /\ lo[pLeft[x]] < pos[z] /\ pos[z] < hi[pLeft[x]]
        BY <2>1, <3>1, <4>1, Room
      <4> QED BY <2>3, <3>4, <4>2
    <3>5. CASE ~(k < Key[x])
      <4>1. pos[x] < pos[z]
        BY <1>2, <2>1, <3>2, <3>3, <3>5
      <4>2. pRight[x] # NULL /\ lo[pRight[x]] < pos[z] /\ pos[z] < hi[pRight[x]]
        BY <2>1, <3>1, <4>1, Room
      <4> QED BY <2>3, <3>5, <4>2
    <3> QED BY <3>4, <3>5
  <2> QED BY <2>2, <2>3, <2>4 DEF OnTrack
<1> QED BY <1>1, <1>2

\* nodeFind finds a node with the key, and nothing only where there is none.
LEMMA NodeFindIs ==
  ASSUME ~Differences, NEW pos, NEW lo, NEW hi, Ordered(pos, lo, hi), NEW k \in Nat
  PROVE  /\ NodeFind(k) \in members \cup {NULL}
         /\ NodeFind(k) # NULL => Key[NodeFind(k)] = k
         /\ NodeFind(k) = NULL => \A z \in members : Key[z] # k
<1> DEFINE N == Cardinality(Node)
<1> DEFINE C == {x \in members \cup {NULL} : OnTrack(pos, lo, hi, k, x)}
<1> DEFINE g == [x \in C |-> FindStep(k, x)]
<1> DEFINE m == [x \in C |-> Width(lo, hi, x)]
<1> DEFINE st == CHOOSE step : step = [d \in Depth |->
        IF d = 0 THEN pRoot
        ELSE LET n == step[d - 1] IN
             IF n = NULL \/ Key[n] = k THEN n
             ELSE IF pNodeCmp(k, Key[n]) < 0 THEN pLeft[n] ELSE pRight[n]]
<1>1. NodeFind(k) = st[N]
  BY Zenon DEF NodeFind
<1>2. /\ IsFiniteSet(Node) /\ N \in Nat /\ members \in SUBSET Node /\ NULL \notin members
      /\ pRoot \in members \cup {NULL}
  BY BinaryTreeAssumption, FS_CardinalityType DEF Ordered, LinksOK
<1>3. pRoot \in C
  <2>1. ASSUME NEW z \in members PROVE pRoot # NULL /\ lo[pRoot] < pos[z] /\ pos[z] < hi[pRoot]
    <3>1. pRoot # NULL /\ pRoot \in members /\ lo[pRoot] <= lo[z] /\ hi[z] <= hi[pRoot]
      BY <1>2, <2>1 DEF Ordered, LinksOK, PlacesOK
    <3>2. /\ lo[pRoot] \in Int /\ hi[pRoot] \in Int /\ lo[z] \in Int /\ hi[z] \in Int
          /\ pos[z] \in Int /\ lo[z] < pos[z] /\ pos[z] < hi[z]
      BY <3>1, Bounds
    <3> QED BY <3>1, <3>2
  <2> QED BY <1>2, <2>1 DEF OnTrack
<1>4. \A x \in C : g[x] = FindStep(k, x) /\ g[x] \in C
  BY FindStepKeeps
<1>5. IsFiniteSet(C) /\ Cardinality(C) <= N + 1
  <2>1. IsFiniteSet(members) /\ Cardinality(members) <= N /\ Cardinality(members) \in Nat
    BY <1>2, FS_Subset, FS_CardinalityType
  <2>2. IsFiniteSet(members \cup {NULL}) /\ Cardinality(members \cup {NULL}) = Cardinality(members) + 1
    BY <1>2, <2>1, FS_AddElement
  <2>3. IsFiniteSet(C) /\ Cardinality(C) <= Cardinality(members \cup {NULL})
    BY <2>2, FS_Subset
  <2>4. Cardinality(C) \in Nat
    BY <2>3, FS_CardinalityType
  <2> HIDE DEF C, N
  <2> QED BY <1>2, <2>1, <2>2, <2>3, <2>4
<1>6. \A x \in C : m[x] \in Int /\ (g[x] # x => m[g[x]] < m[x])
  <2>1. ASSUME NEW x \in C, g[x] # x PROVE m[g[x]] < m[x]
    <3>1. x # NULL /\ x \in members
      BY <1>4, <2>1 DEF FindStep
    <3>2. g[x] \in {pLeft[x], pRight[x]}
      BY <1>4, <2>1 DEF FindStep
    <3>3. m[g[x]] = Width(lo, hi, g[x]) /\ m[x] = Width(lo, hi, x)
      <4> HIDE DEF C, g
      <4> QED BY <1>4, <2>1
    <3> HIDE DEF g, m, C
    <3> QED BY <3>1, <3>2, <3>3, Narrower
  <2>2. ASSUME NEW x \in C PROVE Width(lo, hi, x) \in Int
    BY Narrower DEF Width
  <2> HIDE DEF C, g
  <2> QED BY <2>1, <2>2
<1>7. m \in [C -> Int]
  <2> HIDE DEF C, g
  <2> QED BY <1>6
<1>8. PICK s : Repeats(s, g, pRoot, N)
  BY <1>2, RepeatExists
<1> HIDE DEF C, m
<1>9. s[0] = pRoot /\ \A d \in 1 .. N : s[d] = g[s[d - 1]]
  <2> HIDE DEF N, g
  <2> QED BY <1>2, <1>8, RepeatStep
<1>10. \A d \in 0 .. N : s[d] \in C
  <2> HIDE DEF N, g
  <2>1. (\A d \in 1 .. N : s[d - 1] \in C => s[d] \in C) /\ s[0] \in C
    BY <1>3, <1>4, <1>9
  <2> QED BY <1>2, <2>1, RepeatIn
<1>11. s = [d \in 0 .. N |-> IF d = 0 THEN pRoot ELSE FindStep(k, s[d - 1])]
  <2>1. s = [d \in 0 .. N |-> IF d = 0 THEN pRoot ELSE g[s[d - 1]]]
    BY <1>8 DEF Repeats
  <2>2. \A d \in 0 .. N : d # 0 => d - 1 \in 0 .. N
    BY <1>2
  <2> HIDE DEF N, g
  <2>3. \A d \in 0 .. N : (IF d = 0 THEN pRoot ELSE g[s[d - 1]]) =
                          (IF d = 0 THEN pRoot ELSE FindStep(k, s[d - 1]))
    BY <2>2, <1>4, <1>10
  <2> QED BY <2>1, <2>3
<1> HIDE DEF g
<1>12. st = [d \in Depth |-> 
        IF d = 0 THEN pRoot
        ELSE LET n == st[d - 1] IN
             IF n = NULL \/ Key[n] = k THEN n
             ELSE IF pNodeCmp(k, Key[n]) < 0 THEN pLeft[n] ELSE pRight[n]]
  BY <1>11, Zenon DEF Depth, FindStep
<1> HIDE DEF st
<1>13. st = [d \in 0 .. N |-> IF d = 0 THEN pRoot ELSE FindStep(k, st[d - 1])]
  BY <1>12, Zenon DEF Depth, FindStep
<1> HIDE DEF N
<1>14. st[0] = pRoot /\ \A d \in 1 .. N : st[d] = FindStep(k, st[d - 1])
  BY <1>13, <1>2
<1>15. \A d \in 0 .. N : st[d] \in C
  <2>1. (\A d \in 1 .. N : st[d - 1] \in C => st[d] \in C) /\ st[0] \in C
    BY <1>3, <1>4, <1>14
  <2> QED BY <1>2, <2>1, RepeatIn
<1>16. \A d \in 1 .. N : st[d] = g[st[d - 1]]
  <2>1. \A d \in 1 .. N : d - 1 \in 0 .. N
    BY <1>2
  <2> QED BY <2>1, <1>4, <1>14, <1>15
<1>17. g[st[N]] = st[N] /\ st[N] \in C
  BY <1>2, <1>3, <1>4, <1>5, <1>6, <1>7, <1>14, <1>16, RepeatEnds
<1>18. st[N] # NULL => Key[st[N]] = k
  <2> SUFFICES ASSUME st[N] # NULL, Key[st[N]] # k PROVE FALSE
    OBVIOUS
  <2>1. st[N] \in members
    BY <1>17 DEF C
  <2>2. st[N] \in {pLeft[st[N]], pRight[st[N]]}
    BY <1>4, <1>17 DEF FindStep
  <2>3. /\ Width(lo, hi, st[N]) \in Int
        /\ Width(lo, hi, pLeft[st[N]]) < Width(lo, hi, st[N])
        /\ Width(lo, hi, pRight[st[N]]) < Width(lo, hi, st[N])
    BY <2>1, Narrower
  <2>4. ~(Width(lo, hi, st[N]) < Width(lo, hi, st[N]))
    BY <2>3
  <2> QED BY <2>2, <2>3, <2>4
<1> QED BY <1>1, <1>17, <1>18 DEF C, OnTrack

\* The first node below x, found on the left, is the first in the interval of x.
LEMMA FirstBelow ==
  ASSUME NEW pos, NEW lo, NEW hi, Ordered(pos, lo, hi), NEW x \in members
  PROVE  /\ FindMin(x) \in members /\ lo[FindMin(x)] = lo[x]
         /\ \A z \in members : lo[x] < pos[z] => pos[FindMin(x)] <= pos[z]
<1> DEFINE C == {y \in members : lo[y] = lo[x]}
<1> DEFINE m == [y \in C |-> hi[y]]
<1>1. C \in SUBSET Node /\ x \in C
  BY DEF Ordered
<1>2. m \in [C -> Int] /\ \A y \in C : m[y] = hi[y]
  BY DEF Ordered
<1>3. \A y \in C : pLeft[y] # NULL => pLeft[y] \in C /\ m[pLeft[y]] < m[y]
  <2>1. ASSUME NEW y \in C, pLeft[y] # NULL PROVE pLeft[y] \in C /\ m[pLeft[y]] < m[y]
    <3>1. /\ pLeft[y] \in members /\ lo[pLeft[y]] = lo[y] /\ hi[pLeft[y]] = pos[y]
          /\ pos[y] < hi[y]
      BY <2>1, Bounds
    <3>2. pLeft[y] \in C
      BY <3>1
    <3> HIDE DEF m
    <3> QED BY <3>1, <3>2, <1>2
  <2> QED BY <2>1
<1> HIDE DEF m
<1>4. LastAlong(pLeft, x) \in C /\ pLeft[LastAlong(pLeft, x)] = NULL
  <2> HIDE DEF C
  <2> QED BY <1>1, <1>2, <1>3, LastAlongEnds
<1>5. PICK y : y = FindMin(x)
  OBVIOUS
<1>6. y \in members /\ lo[y] = lo[x] /\ pLeft[y] = NULL
  BY <1>4, <1>5 DEF FindMin
<1>7. ASSUME NEW z \in members, lo[x] < pos[z] PROVE pos[y] <= pos[z]
  <2> SUFFICES ASSUME ~(pos[y] <= pos[z]) PROVE FALSE
    OBVIOUS
  <2>1. pos[z] < pos[y] /\ lo[y] < pos[z]
    BY <1>6, <1>7, Bounds
  <2> QED BY <1>6, <2>1, Room
<1> QED BY <1>5, <1>6, <1>7

\* y is the node after n, or NULL after the last.
NextPlace(pos, n, y) ==
  /\ y \in members \cup {NULL}
  /\ y = NULL => \A z \in members : pos[z] <= pos[n]
  /\ y # NULL => pos[n] < pos[y] /\ \A z \in members : pos[n] < pos[z] => pos[y] <= pos[z]

LEMMA GetFirstIs ==
  ASSUME NEW pos, NEW lo, NEW hi, Ordered(pos, lo, hi)
  PROVE  /\ GetFirst \in members \cup {NULL}
         /\ GetFirst = NULL => members = {}
         /\ GetFirst # NULL => \A z \in members : pos[GetFirst] <= pos[z]
<1>1. CASE pRoot = NULL
  BY <1>1 DEF GetFirst, Ordered, LinksOK
<1>2. CASE pRoot # NULL
  <2>1. pRoot \in members
    BY <1>2 DEF Ordered, LinksOK
  <2>2. ASSUME NEW z \in members PROVE lo[pRoot] < pos[z]
    <3>1. lo[pRoot] <= lo[z]
      BY DEF Ordered, PlacesOK
    <3> QED BY <2>1, <3>1, Bounds
  <2>3. /\ FindMin(pRoot) \in members
        /\ \A z \in members : lo[pRoot] < pos[z] => pos[FindMin(pRoot)] <= pos[z]
    BY <2>1, FirstBelow
  <2>4. FindMin(pRoot) # NULL
    BY <2>3 DEF Ordered
  <2> QED BY <1>2, <2>2, <2>3, <2>4 DEF GetFirst
<1> QED BY <1>1, <1>2

\* One step up from a right child.
ClimbStep(m) == IF pParent[m] # NULL /\ pRight[pParent[m]] = m THEN pParent[m] ELSE m

\* From a node without right child the climb ends below the node after it.
LEMMA ClimbIs ==
  ASSUME NEW pos, NEW lo, NEW hi, Ordered(pos, lo, hi), NEW n \in members,
         pRight[n] = NULL
  PROVE  \E c \in members : /\ GetNext(n) = pParent[c] /\ ClimbStep(c) = c /\ hi[c] = hi[n]
<1> DEFINE N == Cardinality(Node)
<1> DEFINE C == {x \in members : hi[x] = hi[n]}
<1> DEFINE g == [x \in C |-> ClimbStep(x)]
<1> DEFINE q == [x \in C |-> lo[x]]
<1> DEFINE st == CHOOSE climb : climb = [d \in Depth |->
        IF d = 0 THEN n
        ELSE LET x == climb[d - 1] IN
             IF pParent[x] # NULL /\ pRight[pParent[x]] = x THEN pParent[x] ELSE x]
<1>1. GetNext(n) = pParent[st[N]]
  BY Zenon DEF GetNext
<1>2. /\ IsFiniteSet(Node) /\ N \in Nat /\ members \in SUBSET Node /\ NULL \notin members
      /\ n \in C
  BY BinaryTreeAssumption, FS_CardinalityType DEF Ordered
<1>3. \A x \in C : ClimbStep(x) \in C /\ (ClimbStep(x) # x => lo[ClimbStep(x)] < lo[x])
  <2>1. ASSUME NEW x \in C, ClimbStep(x) # x
        PROVE  ClimbStep(x) \in C /\ lo[ClimbStep(x)] < lo[x]
    <3>1. /\ pParent[x] # NULL /\ pRight[pParent[x]] = x /\ ClimbStep(x) = pParent[x]
      BY <2>1 DEF ClimbStep
    <3>2. pParent[x] \in members
      BY <2>1, <3>1 DEF Ordered, LinksOK
    <3>3. /\ lo[x] = pos[pParent[x]] /\ hi[x] = hi[pParent[x]]
          /\ lo[pParent[x]] < pos[pParent[x]]
      BY <1>2, <2>1, <3>1, <3>2, Bounds
    <3> QED BY <2>1, <3>1, <3>2, <3>3
  <2> QED BY <2>1
<1>4. \A x \in C : g[x] = ClimbStep(x) /\ g[x] \in C
  BY <1>3
<1>5. IsFiniteSet(C) /\ Cardinality(C) <= N + 1
  <2>1. C \in SUBSET Node
    BY <1>2
  <2>2. IsFiniteSet(C) /\ Cardinality(C) <= N /\ Cardinality(C) \in Nat
    BY <1>2, <2>1, FS_Subset, FS_CardinalityType
  <2> HIDE DEF C, N
  <2> QED BY <1>2, <2>2
<1>6. q \in [C -> Int] /\ \A x \in C : q[x] = lo[x]
  BY DEF Ordered
<1>7. PICK s : Repeats(s, g, n, N)
  BY <1>2, RepeatExists
<1> HIDE DEF C, q
<1>8. \A x \in C : g[x] # x => q[g[x]] < q[x]
  <2> HIDE DEF g
  <2> QED BY <1>3, <1>4, <1>6
<1>9. s[0] = n /\ \A d \in 1 .. N : s[d] = g[s[d - 1]]
  <2> HIDE DEF N, g
  <2> QED BY <1>2, <1>7, RepeatStep
<1>10. \A d \in 0 .. N : s[d] \in C
  <2> HIDE DEF N, g
  <2>1. (\A d \in 1 .. N : s[d - 1] \in C => s[d] \in C) /\ s[0] \in C
    BY <1>2, <1>4, <1>9
  <2> QED BY <1>2, <2>1, RepeatIn
<1>11. s = [d \in 0 .. N |-> IF d = 0 THEN n ELSE ClimbStep(s[d - 1])]
  <2>1. s = [d \in 0 .. N |-> IF d = 0 THEN n ELSE g[s[d - 1]]]
    BY <1>7 DEF Repeats
  <2>2. \A d \in 0 .. N : d # 0 => d - 1 \in 0 .. N
    BY <1>2
  <2> HIDE DEF N, g
  <2>3. \A d \in 0 .. N : (IF d = 0 THEN n ELSE g[s[d - 1]]) =
                          (IF d = 0 THEN n ELSE ClimbStep(s[d - 1]))
    BY <2>2, <1>4, <1>10
  <2> QED BY <2>1, <2>3
<1> HIDE DEF g
<1>12. st = [d \in Depth |->
        IF d = 0 THEN n
        ELSE LET x == st[d - 1] IN
             IF pParent[x] # NULL /\ pRight[pParent[x]] = x THEN pParent[x] ELSE x]
  BY <1>11, Zenon DEF Depth, ClimbStep
<1> HIDE DEF st
<1>13. st = [d \in 0 .. N |-> IF d = 0 THEN n ELSE ClimbStep(st[d - 1])]
  BY <1>12, Zenon DEF Depth, ClimbStep
<1> HIDE DEF N
<1>14. st[0] = n /\ \A d \in 1 .. N : st[d] = ClimbStep(st[d - 1])
  BY <1>13, <1>2
<1>15. \A d \in 0 .. N : st[d] \in C
  <2>1. (\A d \in 1 .. N : st[d - 1] \in C => st[d] \in C) /\ st[0] \in C
    BY <1>2, <1>3, <1>14
  <2> QED BY <1>2, <2>1, RepeatIn
<1>16. \A d \in 1 .. N : st[d] = g[st[d - 1]]
  <2>1. \A d \in 1 .. N : d - 1 \in 0 .. N
    BY <1>2
  <2> QED BY <2>1, <1>4, <1>14, <1>15
<1>17. g[st[N]] = st[N] /\ st[N] \in C
  BY <1>2, <1>4, <1>5, <1>6, <1>8, <1>14, <1>16, RepeatEnds
<1>18. ClimbStep(st[N]) = st[N]
  BY <1>4, <1>17
<1> QED BY <1>1, <1>17, <1>18 DEF C

\* nodeGetNext returns the next node in the order of the places.
LEMMA GetNextIs ==
  ASSUME NEW pos, NEW lo, NEW hi, Ordered(pos, lo, hi), NEW n \in members
  PROVE  NextPlace(pos, n, GetNext(n))
<1>1. CASE pRight[n] # NULL
  <2>1. PICK y : y = FindMin(pRight[n])
    OBVIOUS
  <2>2. GetNext(n) = y
    BY <1>1, <2>1, Zenon DEF GetNext
  <2>3. pRight[n] \in members /\ lo[pRight[n]] = pos[n]
    BY <1>1, Bounds
  <2>4. y \in members /\ lo[y] = pos[n] /\ \A z \in members : pos[n] < pos[z] => pos[y] <= pos[z]
    BY <2>1, <2>3, FirstBelow
  <2>5. pos[n] < pos[y] /\ y # NULL
    BY <2>4, Bounds
  <2> QED BY <2>2, <2>4, <2>5 DEF NextPlace
<1>2. CASE pRight[n] = NULL
  <2>1. PICK c \in members : GetNext(n) = pParent[c] /\ ClimbStep(c) = c /\ hi[c] = hi[n]
    BY <1>2, ClimbIs
  <2>2. \A z \in members : pos[n] < pos[z] => hi[n] <= pos[z]
    <3> SUFFICES ASSUME NEW z \in members, pos[n] < pos[z], ~(hi[n] <= pos[z]) PROVE FALSE
      OBVIOUS
    <3>1. pos[z] < hi[n]
      BY Bounds
    <3> QED BY <1>2, <3>1, Room
  <2>3. pos[n] < hi[n] /\ pos[n] \in Int /\ hi[n] \in Int
    BY Bounds
  <2>4. CASE pParent[c] = NULL
    <3>1. c = pRoot
      BY <2>1, <2>4 DEF Ordered, LinksOK
    <3>2. ASSUME NEW z \in members PROVE pos[z] <= pos[n]
      <4>1. hi[z] <= hi[n]
        BY <2>1, <3>1 DEF Ordered, PlacesOK
      <4>2. pos[z] < hi[z] /\ pos[z] \in Int /\ hi[z] \in Int
        BY Bounds
      <4> QED BY <2>2, <2>3, <4>1, <4>2
    <3> QED BY <2>1, <2>4, <3>2 DEF NextPlace
  <2>5. CASE pParent[c] # NULL
    <3>1. pParent[c] \in members /\ c # NULL
      BY <2>1, <2>5 DEF Ordered, LinksOK
    <3>2. c = pLeft[pParent[c]]
      <4>1. pRight[pParent[c]] # c
        <5>1. ASSUME pRight[pParent[c]] = c PROVE FALSE
          <6>1. pParent[c] = c
            BY <2>1, <2>5, <5>1 DEF ClimbStep
          <6>2. pRight[c] = c
            BY <5>1, <6>1
          <6>3. lo[c] = pos[c]
            BY <3>1, <6>2, Bounds
          <6> QED BY <6>3, Bounds
        <5> QED BY <5>1
      <4> QED BY <2>1, <2>5, <4>1 DEF Ordered, LinksOK
    <3>3. hi[c] = pos[pParent[c]]
      BY <3>1, <3>2, Bounds
    <3> QED BY <2>1, <2>2, <2>3, <2>5, <3>1, <3>3 DEF NextPlace
  <2> QED BY <2>4, <2>5
<1> QED BY <1>1, <1>2

\* What nodeFindNext has done: prev has a key up to k, and all nodes with such keys
\* are not after prev or in the interval of the node at hand.
Chasing(pos, lo, hi, k, s) ==
  /\ s \in [at : members \cup {NULL}, prev : members \cup {NULL}]
  /\ s.prev # NULL => Key[s.prev] <= k
  /\ s.prev # NULL /\ s.at # NULL => pos[s.prev] <= lo[s.at]
  /\ \A z \in members : Key[z] <= k =>
       \/ s.prev # NULL /\ pos[z] <= pos[s.prev]
       \/ s.at # NULL /\ lo[s.at] < pos[z] /\ pos[z] < hi[s.at]

NextStep(k, s) ==
  IF s.at = NULL THEN s
  ELSE IF pNodeCmp(k, Key[s.at]) < 0 THEN [s EXCEPT !.at = pLeft[s.at]]
  ELSE [at |-> pRight[s.at], prev |-> s.at]

\* The node at hand goes down, to a narrower one.
NextStepIs(lo, hi, k, s) ==
  s.at # NULL =>
    /\ NextStep(k, s).at \in {pLeft[s.at], pRight[s.at]}
    /\ Width(lo, hi, NextStep(k, s).at) < Width(lo, hi, s.at)

LEMMA NextStepKeeps ==
  ASSUME ~Differences, NEW pos, NEW lo, NEW hi, Ordered(pos, lo, hi), NEW k \in Nat,
         NEW s, Chasing(pos, lo, hi, k, s)
  PROVE  Chasing(pos, lo, hi, k, NextStep(k, s)) /\ NextStepIs(lo, hi, k, s)
<1>1. CASE s.at = NULL
  BY <1>1 DEF NextStep, NextStepIs
<1>2. CASE s.at # NULL
  <2>1. PICK x \in members, p \in members \cup {NULL} : s = [at |-> x, prev |-> p]
    BY <1>2 DEF Chasing
  <2>2. s.at = x /\ s.prev = p
    BY <2>1
  <2>3. /\ x # NULL /\ pos[x] \in Int /\ lo[x] \in Int /\ hi[x] \in Int /\ Key[x] \in Nat
        /\ lo[x] < pos[x] /\ pos[x] < hi[x]
        /\ pLeft[x] \in members \cup {NULL} /\ pRight[x] \in members \cup {NULL}
        /\ pLeft[x] # NULL => lo[pLeft[x]] = lo[x] /\ hi[pLeft[x]] = pos[x]
        /\ pRight[x] # NULL => lo[pRight[x]] = pos[x] /\ hi[pRight[x]] = hi[x]
    BY Bounds
  <2>4. NextStep(k, s) = IF k < Key[x] THEN [at |-> pLeft[x], prev |-> p]
                         ELSE [at |-> pRight[x], prev |-> x]
    BY <2>1, <2>2, <2>3 DEF NextStep, pNodeCmp
  <2>5. NextStepIs(lo, hi, k, s)
    BY <2>2, <2>4, Narrower DEF NextStepIs
  <2>6. /\ p # NULL => Key[p] <= k /\ pos[p] <= lo[x] /\ pos[p] \in Int
        /\ \A z \in members : Key[z] <= k =>
             \/ p # NULL /\ pos[z] <= pos[p]
             \/ lo[x] < pos[z] /\ pos[z] < hi[x]
    BY <2>2, <2>3, Bounds DEF Chasing
  <2>7. ASSUME NEW z \in members
        PROVE  /\ pos[z] \in Int /\ Key[z] \in Nat
               /\ z = x \/ pos[z] # pos[x]
               /\ pos[x] < pos[z] => Key[x] <= Key[z]
    BY Bounds, Room DEF Ordered
  <2>8. CASE k < Key[x]
    <3>1. NextStep(k, s) = [at |-> pLeft[x], prev |-> p]
      BY <2>4, <2>8
    <3>2. ASSUME NEW z \in members, Key[z] <= k
          PROVE  \/ p # NULL /\ pos[z] <= pos[p]
                 \/ pLeft[x] # NULL /\ lo[pLeft[x]] < pos[z] /\ pos[z] < hi[pLeft[x]]
      <4> SUFFICES ASSUME lo[x] < pos[z], pos[z] < hi[x]
                   PROVE  pLeft[x] # NULL /\ lo[pLeft[x]] < pos[z] /\ pos[z] < hi[pLeft[x]]
        BY <2>6, <3>2
      <4>1. z # x /\ pos[z] < pos[x]
        BY <2>3, <2>7, <2>8, <3>2
      <4> QED BY <4>1, Room
    <3> QED BY <2>3, <2>6, <3>1, <3>2, <2>5 DEF Chasing
  <2>9. CASE ~(k < Key[x])
    <3>1. NextStep(k, s) = [at |-> pRight[x], prev |-> x]
      BY <2>4, <2>9
    <3>2. ASSUME NEW z \in members, Key[z] <= k, ~(pos[z] <= pos[x])
          PROVE  pRight[x] # NULL /\ lo[pRight[x]] < pos[z] /\ pos[z] < hi[pRight[x]]
      <4>1. pos[x] < pos[z]
        BY <2>3, <2>7, <3>2
      <4>2. pos[z] < hi[x]
        <5>1. ASSUME p # NULL, pos[z] <= pos[p] PROVE FALSE
          <6>1. pos[p] <= lo[x] /\ pos[p] \in Int
            BY <2>6, <5>1
          <6>2. pos[z] \in Int
            BY <2>7
          <6>3. pos[x] \in Int /\ lo[x] \in Int /\ lo[x] < pos[x]
            BY <2>3
          <6> QED BY <4>1, <5>1, <6>1, <6>2, <6>3
        <5>2. Key[z] <= k
          BY <3>2
        <5> QED BY <2>6, <5>1, <5>2
      <4> QED BY <3>2, <4>1, <4>2, Room
    <3>3. Key[x] <= k
      BY <2>3, <2>9
    <3>4. pRight[x] # NULL => pos[x] <= lo[pRight[x]]
      BY <2>3
    <3> QED BY <2>3, <3>1, <3>2, <3>3, <3>4, <2>5 DEF Chasing
  <2> QED BY <2>8, <2>9
<1> QED BY <1>1, <1>2

\* The descent of nodeFindNext ends with the last node whose key is at most k.
LEMMA LastUpTo ==
  ASSUME ~Differences, NEW pos, NEW lo, NEW hi, Ordered(pos, lo, hi), NEW k \in Nat
  PROVE  \E p \in members \cup {NULL} :
           /\ FindNext(k) = IF p = NULL THEN GetFirst ELSE GetNext(p)
           /\ p # NULL => Key[p] <= k
           /\ \A z \in members : Key[z] <= k => p # NULL /\ pos[z] <= pos[p]
<1> DEFINE N == Cardinality(Node)
<1> DEFINE a == [at |-> pRoot, prev |-> NULL]
<1> DEFINE C == {s \in [at : members \cup {NULL}, prev : members \cup {NULL}] :
                   Chasing(pos, lo, hi, k, s)}
<1> DEFINE g == [s \in C |-> NextStep(k, s)]
<1> DEFINE st == CHOOSE step : step = [d \in Depth |->
        IF d = 0 THEN [at |-> pRoot, prev |-> NULL]
        ELSE LET s == step[d - 1] IN
             IF s.at = NULL THEN s
             ELSE IF pNodeCmp(k, Key[s.at]) < 0 THEN [s EXCEPT !.at = pLeft[s.at]]
             ELSE [at |-> pRight[s.at], prev |-> s.at]]
<1>1. FindNext(k) = IF st[N].prev = NULL THEN GetFirst ELSE GetNext(st[N].prev)
  BY Zenon DEF FindNext
<1>2. /\ IsFiniteSet(Node) /\ N \in Nat /\ members \in SUBSET Node /\ NULL \notin members
      /\ pRoot \in members \cup {NULL}
  BY BinaryTreeAssumption, FS_CardinalityType DEF Ordered, LinksOK
<1>3. a \in C
  <2>1. ASSUME NEW z \in members PROVE pRoot # NULL /\ lo[pRoot] < pos[z] /\ pos[z] < hi[pRoot]
    <3>1. pRoot # NULL /\ pRoot \in members /\ lo[pRoot] <= lo[z] /\ hi[z] <= hi[pRoot]
      BY <1>2, <2>1 DEF Ordered, LinksOK, PlacesOK
    <3>2. /\ lo[pRoot] \in Int /\ hi[pRoot] \in Int /\ lo[z] \in Int /\ hi[z] \in Int
          /\ pos[z] \in Int /\ lo[z] < pos[z] /\ pos[z] < hi[z]
      BY <3>1, Bounds
    <3> QED BY <3>1, <3>2
  <2> QED BY <1>2, <2>1 DEF Chasing
<1>4. \A s \in C : g[s] = NextStep(k, s) /\ g[s] \in C
  <2>1. ASSUME NEW s \in C PROVE NextStep(k, s) \in C
    <3>1. Chasing(pos, lo, hi, k, NextStep(k, s))
      BY NextStepKeeps
    <3> QED BY <3>1 DEF Chasing
  <2> HIDE DEF C
  <2> QED BY <2>1
<1>5. PICK s : Repeats(s, g, a, N)
  BY <1>2, RepeatExists
<1> HIDE DEF C
<1>6. s[0] = a /\ \A d \in 1 .. N : s[d] = g[s[d - 1]]
  <2> HIDE DEF N, g, a
  <2> QED BY <1>2, <1>5, RepeatStep
<1>7. \A d \in 0 .. N : s[d] \in C
  <2> HIDE DEF N, g, a
  <2>1. (\A d \in 1 .. N : s[d - 1] \in C => s[d] \in C) /\ s[0] \in C
    BY <1>3, <1>4, <1>6
  <2> QED BY <1>2, <2>1, RepeatIn
<1>8. s = [d \in 0 .. N |-> IF d = 0 THEN a ELSE NextStep(k, s[d - 1])]
  <2>1. s = [d \in 0 .. N |-> IF d = 0 THEN a ELSE g[s[d - 1]]]
    BY <1>5 DEF Repeats
  <2>2. \A d \in 0 .. N : d # 0 => d - 1 \in 0 .. N
    BY <1>2
  <2> HIDE DEF N, g, a
  <2>3. \A d \in 0 .. N : (IF d = 0 THEN a ELSE g[s[d - 1]]) =
                          (IF d = 0 THEN a ELSE NextStep(k, s[d - 1]))
    BY <2>2, <1>4, <1>7
  <2> QED BY <2>1, <2>3
<1> HIDE DEF g
<1>9. st = [d \in Depth |->
        IF d = 0 THEN [at |-> pRoot, prev |-> NULL]
        ELSE LET e == st[d - 1] IN
             IF e.at = NULL THEN e
             ELSE IF pNodeCmp(k, Key[e.at]) < 0 THEN [e EXCEPT !.at = pLeft[e.at]]
             ELSE [at |-> pRight[e.at], prev |-> e.at]]
  BY <1>8, Zenon DEF Depth, NextStep
<1> HIDE DEF st
<1>10. st = [d \in 0 .. N |-> IF d = 0 THEN a ELSE NextStep(k, st[d - 1])]
  BY <1>9, Zenon DEF Depth, NextStep
<1> HIDE DEF N, a
<1>11. st[0] = a /\ \A d \in 1 .. N : st[d] = NextStep(k, st[d - 1])
  BY <1>10, <1>2
<1>12. \A d \in 0 .. N : st[d] \in C
  <2>1. (\A d \in 1 .. N : st[d - 1] \in C => st[d] \in C) /\ st[0] \in C
    BY <1>3, <1>4, <1>11
  <2> QED BY <1>2, <2>1, RepeatIn
<1>13. \A e \in C : Chasing(pos, lo, hi, k, e)
  BY DEF C
<1>14. \A e \in C : NextStepIs(lo, hi, k, e)
  BY <1>13, NextStepKeeps
<1>15. st[N].at = NULL
  <2> DEFINE D == members \cup {NULL}
  <2> DEFINE f == [x \in D |-> IF x = NULL THEN NULL
                               ELSE IF pNodeCmp(k, Key[x]) < 0 THEN pLeft[x] ELSE pRight[x]]
  <2> DEFINE m == [x \in D |-> Width(lo, hi, x)]
  <2> DEFINE w == [d \in 0 .. N |-> st[d].at]
  <2>1. IsFiniteSet(D) /\ Cardinality(D) <= N + 1 /\ pRoot \in D
    <3>1. IsFiniteSet(members) /\ Cardinality(members) <= N /\ Cardinality(members) \in Nat
      BY <1>2, FS_Subset, FS_CardinalityType DEF N
    <3>2. IsFiniteSet(D) /\ Cardinality(D) = Cardinality(members) + 1
      BY <1>2, <3>1, FS_AddElement
    <3>3. pRoot \in D
      BY <1>2
    <3> HIDE DEF D
    <3> QED BY <1>2, <3>1, <3>2, <3>3
  <2>2. \A x \in D : f[x] \in D
    <3>1. \A x \in members : pLeft[x] \in D /\ pRight[x] \in D
      BY Bounds
    <3> QED BY <3>1
  <2>3. \A x \in D : Width(lo, hi, x) \in Int /\ m[x] = Width(lo, hi, x)
    BY Narrower DEF Width
  <2>4. \A x \in members : x # NULL /\ f[x] \in {pLeft[x], pRight[x]}
    BY <1>2
  <2>5. f[NULL] = NULL
    OBVIOUS
  <2>6. m \in [D -> Int]
    <3> HIDE DEF D, f
    <3> QED BY <2>3
  <2>7. \A x \in D : f[x] # x => m[f[x]] < m[x]
    <3>1. ASSUME NEW x \in members PROVE m[f[x]] < m[x]
      <4>1. m[f[x]] = Width(lo, hi, f[x]) /\ m[x] = Width(lo, hi, x)
        BY <2>2, <2>3
      <4> HIDE DEF m, f
      <4> QED BY <2>4, <4>1, Narrower
    <3> HIDE DEF m, f
    <3> QED BY <2>5, <3>1
  <2>8. \A d \in 0 .. N : st[d].at \in D
    BY <1>12, <1>13 DEF Chasing
  <2>9. \A e \in C : NextStep(k, e).at = f[e.at]
    <3>1. ASSUME NEW e \in C PROVE NextStep(k, e).at = f[e.at]
      <4>1. e \in [at : members \cup {NULL}, prev : members \cup {NULL}]
        BY <1>13 DEF Chasing
      <4>2. CASE e.at = NULL
        BY <4>1, <4>2 DEF NextStep
      <4>3. CASE e.at # NULL
        <5>1. f[e.at] = IF pNodeCmp(k, Key[e.at]) < 0 THEN pLeft[e.at] ELSE pRight[e.at]
          BY <4>1, <4>3
        <5> HIDE DEF f
        <5> QED BY <4>1, <4>3, <5>1 DEF NextStep
      <4> QED BY <4>2, <4>3
    <3> QED BY <3>1
  <2>10. w[0] = pRoot
    BY <1>2, <1>11 DEF a
  <2>11. \A d \in 1 .. N : w[d] = f[w[d - 1]]
    <3>1. \A d \in 1 .. N : d - 1 \in 0 .. N /\ d \in 0 .. N
      BY <1>2
    <3> HIDE DEF f
    <3> QED BY <1>11, <1>12, <2>9, <3>1
  <2>12. w[N] = st[N].at
    BY <1>2
  <2> HIDE DEF D, f, m, w
  <2>13. f[w[N]] = w[N] /\ w[N] \in D
    BY <1>2, <2>1, <2>2, <2>6, <2>7, <2>10, <2>11, RepeatEnds
  <2>14. ASSUME w[N] # NULL PROVE FALSE
    <3>1. w[N] \in members
      BY <2>13, <2>14 DEF D
    <3>2. w[N] \in {pLeft[w[N]], pRight[w[N]]}
      BY <3>1, <2>4, <2>13
    <3>3. /\ Width(lo, hi, w[N]) \in Int
          /\ Width(lo, hi, pLeft[w[N]]) < Width(lo, hi, w[N])
          /\ Width(lo, hi, pRight[w[N]]) < Width(lo, hi, w[N])
      BY <3>1, Narrower
    <3>4. ~(Width(lo, hi, w[N]) < Width(lo, hi, w[N]))
      BY <3>3
    <3> QED BY <3>2, <3>3, <3>4
  <2> QED BY <2>12, <2>14
<1>16. Chasing(pos, lo, hi, k, st[N])
  BY <1>2, <1>12, <1>13
<1>17. st[N].prev \in members \cup {NULL}
  BY <1>16 DEF Chasing
<1> QED BY <1>1, <1>15, <1>16, <1>17 DEF Chasing

\* nodeFindNext returns a node with the least greater key, or NULL if there is none.
LEMMA FindNextIs ==
  ASSUME ~Differences, NEW pos, NEW lo, NEW hi, Ordered(pos, lo, hi), NEW k \in Nat
  PROVE  /\ FindNext(k) \in members \cup {NULL}
         /\ FindNext(k) = NULL => \A z \in members : Key[z] <= k
         /\ FindNext(k) # NULL => /\ Key[FindNext(k)] > k
                                  /\ \A z \in members : Key[z] > k => Key[FindNext(k)] <= Key[z]
<1>1. PICK p \in members \cup {NULL} :
           /\ FindNext(k) = IF p = NULL THEN GetFirst ELSE GetNext(p)
           /\ p # NULL => Key[p] <= k
           /\ \A z \in members : Key[z] <= k => p # NULL /\ pos[z] <= pos[p]
  BY LastUpTo
<1>2. PICK y : y = FindNext(k)
  OBVIOUS
<1>3. \A z \in members : Key[z] \in Nat /\ pos[z] \in Int /\ z # NULL
  BY Bounds
<1>4. \A b, c \in members : pos[b] <= pos[c] => Key[b] <= Key[c]
  <2>1. ASSUME NEW b \in members, NEW c \in members, pos[b] <= pos[c] PROVE Key[b] <= Key[c]
    <3>1. CASE b = c
      BY <1>3, <3>1
    <3>2. CASE b # c
      <4>1. pos[b] # pos[c]
        BY <3>2, Room
      <4>2. pos[b] < pos[c]
        BY <1>3, <2>1, <4>1
      <4> QED BY <4>2 DEF Ordered
    <3> QED BY <3>1, <3>2
  <2> QED BY <2>1
<1>5. CASE p = NULL
  <2>1. /\ y \in members \cup {NULL}
        /\ y = NULL => members = {}
        /\ y # NULL => \A z \in members : pos[y] <= pos[z]
    BY <1>1, <1>2, <1>5, GetFirstIs
  <2>2. \A z \in members : Key[z] > k
    BY <1>1, <1>3, <1>5
  <2> QED BY <1>2, <1>4, <2>1, <2>2
<1>6. CASE p # NULL
  <2>1. p \in members /\ y = GetNext(p)
    BY <1>1, <1>2, <1>6
  <2>2. NextPlace(pos, p, y)
    BY <2>1, GetNextIs
  <2>3. \A z \in members : Key[z] > k => pos[p] < pos[z]
    <3> SUFFICES ASSUME NEW z \in members, ~(pos[p] < pos[z]) PROVE ~(Key[z] > k)
      OBVIOUS
    <3>1. Key[z] <= Key[p]
      BY <1>3, <1>4, <2>1
    <3> QED BY <1>1, <1>3, <2>1, <1>6, <3>1
  <2>4. \A z \in members : pos[p] < pos[z] => Key[z] > k
    BY <1>1, <1>3, <2>1
  <2>5. y = NULL => \A z \in members : Key[z] <= k
    <3> SUFFICES ASSUME y = NULL, NEW z \in members PROVE Key[z] <= k
      OBVIOUS
    <3>1. pos[z] <= pos[p]
      BY <2>2 DEF NextPlace
    <3> QED BY <1>3, <2>1, <2>3, <3>1
  <2>6. y # NULL => Key[y] > k /\ \A z \in members : Key[z] > k => Key[y] <= Key[z]
    BY <1>4, <2>2, <2>3, <2>4 DEF NextPlace
  <2> QED BY <1>2, <2>2, <2>5, <2>6 DEF NextPlace
<1> QED BY <1>5, <1>6

\* Between two calls the tree is in the order of the keys.
LEMMA InOrderBetween ==
  ASSUME IInv, pc = "idle", ~Differences
  PROVE  \E pos, lo, hi : Ordered(pos, lo, hi)
<1>1. PICK pos \in [Node -> Int], lo \in [Node -> Int], hi \in [Node -> Int] :
        PlacesOK(members, pRoot, pLeft, pRight, pos, lo, hi) /\ SortedOK(pos)
  BY Between
<1>2. /\ Linked = members /\ members \in SUBSET Node /\ NULL \notin members /\ CallOK
      /\ LinksOK(members, pRoot, pLeft, pRight, pParent)
  BY Between
<1>3. pOut = NULL
  BY <1>2 DEF CallOK, Removing, Short
<1>4. Linked \ {pOut} = members
  BY <1>2, <1>3
<1>5. \A a, b \in members : pos[a] < pos[b] => Key[a] <= Key[b]
  BY <1>1, <1>4 DEF SortedOK
<1>6. Ordered(pos, lo, hi)
  BY <1>1, <1>2, <1>5 DEF Ordered
<1> QED BY <1>6

\* Every key that is in the tree is found and no other, and nodeFindNext finds the
\* least greater key, whatever rotations have done to equal keys.
THEOREM LookupsFind ==
  ASSUME FreshNodes, ~Differences
  PROVE  Spec => []LookupsAgree
<1>1. ASSUME IInv PROVE LookupsAgree
  <2> SUFFICES ASSUME pc = "idle" PROVE LookupsAgree
    BY DEF LookupsAgree
  <2>1. PICK pos, lo, hi : Ordered(pos, lo, hi)
    BY <1>1, InOrderBetween
  <2> DEFINE Greater(k) == {Key[n] : n \in {m \in members : Key[m] > k}}
  <2>2. \A x \in members : x # NULL /\ Key[x] \in Nat
    BY <2>1, Bounds
  <2>3. ASSUME NEW k \in {Key[n] : n \in Node} \cup {0}
        PROVE  /\ IF \E n \in members : Key[n] = k
                  THEN NodeFind(k) \in members /\ Key[NodeFind(k)] = k
                  ELSE NodeFind(k) = NULL
               /\ IF Greater(k) = {} THEN FindNext(k) = NULL
                  ELSE /\ FindNext(k) \in members /\ Key[FindNext(k)] \in Greater(k)
                       /\ \A g \in Greater(k) : Key[FindNext(k)] <= g
    <3>1. k \in Nat
      BY BinaryTreeAssumption
    <3>2. /\ NodeFind(k) \in members \cup {NULL}
          /\ NodeFind(k) # NULL => Key[NodeFind(k)] = k
          /\ NodeFind(k) = NULL => \A z \in members : Key[z] # k
      BY <2>1, <3>1, NodeFindIs
    <3>3. /\ FindNext(k) \in members \cup {NULL}
          /\ FindNext(k) = NULL => \A z \in members : Key[z] <= k
          /\ FindNext(k) # NULL => /\ Key[FindNext(k)] > k
                                   /\ \A z \in members : Key[z] > k => Key[FindNext(k)] <= Key[z]
      BY <2>1, <3>1, FindNextIs
    <3>4. IF \E n \in members : Key[n] = k
          THEN NodeFind(k) \in members /\ Key[NodeFind(k)] = k
          ELSE NodeFind(k) = NULL
      BY <3>2
    <3>5. CASE FindNext(k) = NULL
      <4>1. Greater(k) = {}
        BY <2>2, <3>1, <3>3, <3>5
      <4> QED BY <3>4, <3>5, <4>1
    <3>6. CASE FindNext(k) # NULL
      <4>1. FindNext(k) \in members /\ Key[FindNext(k)] > k
        BY <3>3, <3>6
      <4>2. Key[FindNext(k)] \in Greater(k) /\ \A g \in Greater(k) : Key[FindNext(k)] <= g
        BY <3>3, <3>6, <4>1
      <4> HIDE DEF Greater
      <4> QED BY <3>4, <4>1, <4>2
    <3> QED BY <3>5, <3>6
  <2> QED BY <2>3, Zenon DEF LookupsAgree
<1> QED BY <1>1, Invariance, PTL

\* The nodes before x, all of them before the end of the scan.
Before(pos, x) == IF x = NULL THEN members ELSE {z \in members : pos[z] < pos[x]}

ScanStep(x) == IF x = NULL THEN NULL ELSE GetNext(x)

\* d nodes have been seen when the scan is at x.
Seen(pos, d, x) ==
  /\ x \in members \cup {NULL}
  /\ IF x = NULL THEN Cardinality(members) <= d ELSE Cardinality(Before(pos, x)) = d

LEMMA ScanStepIs ==
  ASSUME NEW pos, NEW lo, NEW hi, Ordered(pos, lo, hi), NEW x \in members
  PROVE  /\ ScanStep(x) \in members \cup {NULL}
         /\ Before(pos, ScanStep(x)) = Before(pos, x) \cup {x}
         /\ x \notin Before(pos, x)
<1>1. PICK y : y = ScanStep(x)
  OBVIOUS
<1>2. x # NULL /\ \A z \in members : z # NULL /\ pos[z] \in Int /\ (z # x => pos[z] # pos[x])
  BY Bounds, Room DEF Ordered
<1>3. y = GetNext(x)
  BY <1>1, <1>2 DEF ScanStep
<1>4. NextPlace(pos, x, y)
  BY <1>3, GetNextIs
<1>5. y \in members \cup {NULL}
  BY <1>4 DEF NextPlace
<1>6. Before(pos, x) = {z \in members : pos[z] < pos[x]}
  BY <1>2 DEF Before
<1>7. CASE y = NULL
  <2>1. \A z \in members : pos[z] <= pos[x]
    BY <1>4, <1>7 DEF NextPlace
  <2>2. \A z \in members : pos[z] < pos[x] \/ z = x
    BY <1>2, <2>1
  <2>3. Before(pos, y) = members
    BY <1>7 DEF Before
  <2> QED BY <1>1, <1>2, <1>5, <1>6, <2>2, <2>3
<1>8. CASE y # NULL
  <2>1. /\ y \in members /\ pos[x] < pos[y]
        /\ \A z \in members : pos[x] < pos[z] => pos[y] <= pos[z]
    BY <1>4, <1>8 DEF NextPlace
  <2>2. \A z \in members : pos[z] < pos[y] <=> pos[z] < pos[x] \/ z = x
    BY <1>2, <2>1
  <2>3. Before(pos, y) = {z \in members : pos[z] < pos[y]}
    BY <1>8 DEF Before
  <2> QED BY <1>1, <1>2, <1>5, <1>6, <2>2, <2>3
<1> QED BY <1>7, <1>8

LEMMA SeenOneMore ==
  ASSUME NEW pos, NEW lo, NEW hi, Ordered(pos, lo, hi), NEW d \in Nat, NEW x, Seen(pos, d, x)
  PROVE  Seen(pos, d + 1, ScanStep(x))
<1>1. IsFiniteSet(members) /\ Cardinality(members) \in Nat
  BY BinaryTreeAssumption, FS_Subset, FS_CardinalityType DEF Ordered
<1>2. CASE x = NULL
  BY <1>1, <1>2 DEF Seen, ScanStep
<1>3. CASE x # NULL
  <2>1. x \in members /\ Cardinality(Before(pos, x)) = d
    BY <1>3 DEF Seen
  <2>2. /\ ScanStep(x) \in members \cup {NULL}
        /\ Before(pos, ScanStep(x)) = Before(pos, x) \cup {x}
        /\ x \notin Before(pos, x)
    BY <2>1, ScanStepIs
  <2>3. IsFiniteSet(Before(pos, x))
    <3>1. Before(pos, x) \in SUBSET members
      BY DEF Before
    <3> QED BY <1>1, <3>1, FS_Subset
  <2>4. Cardinality(Before(pos, ScanStep(x))) = d + 1
    BY <2>1, <2>2, <2>3, FS_AddElement
  <2>5. CASE ScanStep(x) = NULL
    <3>1. Cardinality(members) = d + 1
      BY <2>4, <2>5 DEF Before
    <3> QED BY <1>1, <2>2, <2>5, <3>1 DEF Seen
  <2>6. CASE ScanStep(x) # NULL
    BY <2>2, <2>4, <2>6 DEF Seen
  <2> QED BY <2>5, <2>6
<1> QED BY <1>2, <1>3

\* A sequence of scan steps from the first node has seen, at each place, the nodes
\* before it.
LEMMA ScanSees ==
  ASSUME NEW pos, NEW lo, NEW hi, Ordered(pos, lo, hi), NEW N \in Nat, NEW st,
         st[0] = GetFirst, \A d \in 1 .. N : st[d] = ScanStep(st[d - 1])
  PROVE  \A d \in 0 .. N : /\ Seen(pos, d, st[d])
                           /\ {st[j] : j \in 0 .. d - 1} \ {NULL} = Before(pos, st[d])
<1> DEFINE V(d) == {st[j] : j \in 0 .. d - 1}
<1> DEFINE T == {d \in 0 .. N : Seen(pos, d, st[d]) /\ V(d) \ {NULL} = Before(pos, st[d])}
<1>1. IsFiniteSet(members) /\ Cardinality(members) \in Nat /\ NULL \notin members
  BY BinaryTreeAssumption, FS_Subset, FS_CardinalityType DEF Ordered
<1>2. 0 \in T
  <2>1. /\ st[0] \in members \cup {NULL}
        /\ st[0] = NULL => members = {}
        /\ st[0] # NULL => \A z \in members : pos[st[0]] <= pos[z]
    BY GetFirstIs
  <2>2. Before(pos, st[0]) = {}
    <3>1. ASSUME NEW z \in members, st[0] \in members, pos[z] < pos[st[0]] PROVE FALSE
      <4>1. pos[z] \in Int /\ pos[st[0]] \in Int
        BY <3>1, Bounds
      <4>2. pos[st[0]] <= pos[z]
        BY <1>1, <2>1, <3>1
      <4> QED BY <3>1, <4>1, <4>2
    <3> QED BY <2>1, <3>1 DEF Before
  <2>3. V(0) = {}
    OBVIOUS
  <2>4. Seen(pos, 0, st[0])
    BY <2>1, <2>2, FS_EmptySet DEF Seen
  <2> HIDE DEF V
  <2> QED BY <2>2, <2>3, <2>4
<1>3. ASSUME NEW d \in 1 .. N, d - 1 \in T PROVE d \in T
  <2>1. PICK x : x = st[d - 1]
    OBVIOUS
  <2>2. Seen(pos, d - 1, x) /\ V(d - 1) \ {NULL} = Before(pos, x) /\ d - 1 \in Nat
    BY <1>3, <2>1
  <2>3. st[d] = ScanStep(x)
    BY <2>1
  <2>4. Seen(pos, d, st[d])
    <3>1. (d - 1) + 1 = d
      BY <1>3
    <3>2. Seen(pos, (d - 1) + 1, ScanStep(x))
      BY <2>2, SeenOneMore
    <3> QED BY <2>3, <3>1, <3>2
  <2>5. V(d) = V(d - 1) \cup {x}
    <3>1. 0 .. d - 1 = (0 .. (d - 1) - 1) \cup {d - 1}
      BY <1>3
    <3> QED BY <2>1, <3>1
  <2>6. V(d) \ {NULL} = Before(pos, st[d])
    <3>1. CASE x = NULL
      BY <2>2, <2>3, <2>5, <3>1 DEF ScanStep, Before
    <3>2. CASE x # NULL
      <4>1. x \in members
        BY <2>2, <3>2 DEF Seen
      <4>2. Before(pos, ScanStep(x)) = Before(pos, x) \cup {x}
        BY <4>1, ScanStepIs
      <4> HIDE DEF V
      <4> QED BY <2>2, <2>3, <2>5, <3>2, <4>2
    <3> QED BY <3>1, <3>2
  <2> HIDE DEF V
  <2> QED BY <2>4, <2>6
<1>4. \A d \in 0 .. N : d \in T
  <2>1. T \in SUBSET (0 .. N)
    OBVIOUS
  <2> HIDE DEF T
  <2> QED BY <1>2, <1>3, <2>1, UpTo
<1> QED BY <1>4

\* A scan visits every node once, in the order of the keys.
THEOREM ScansInOrder ==
  ASSUME FreshNodes, ~Differences
  PROVE  Spec => []ScanInOrder
<1>1. ASSUME IInv PROVE ScanInOrder
  <2> SUFFICES ASSUME pc = "idle" PROVE ScanInOrder
    BY DEF ScanInOrder
  <2>1. PICK pos, lo, hi : Ordered(pos, lo, hi)
    BY <1>1, InOrderBetween
  <2> DEFINE N == Cardinality(Node)
  <2> DEFINE C == members \cup {NULL}
  <2> DEFINE count == Cardinality(members)
  <2> DEFINE g == [x \in C |-> ScanStep(x)]
  <2> DEFINE st == CHOOSE scan : scan = [d \in Depth |-> 
                             IF d = 0 THEN GetFirst
                             ELSE IF scan[d - 1] = NULL THEN NULL ELSE GetNext(scan[d - 1])]
  <2>2. \/ ScanInOrder
        \/ ~(/\ {st[d] : d \in 0 .. count - 1} = members
             /\ st[count] = NULL
             /\ \A d \in 1 .. count - 1 : Key[st[d - 1]] <= Key[st[d]])
    BY Zenon DEF ScanInOrder
  <2>3. /\ N \in Nat /\ count \in Nat /\ count <= N /\ IsFiniteSet(members)
        /\ NULL \notin members /\ members \in SUBSET Node
    BY <2>1, BinaryTreeAssumption, FS_Subset, FS_CardinalityType DEF Ordered
  <2>4. GetFirst \in C
    BY <2>1, GetFirstIs
  <2>5. \A x \in C : ScanStep(x) \in C /\ g[x] = ScanStep(x)
    <3>1. \A x \in members : ScanStep(x) \in C
      BY <2>1, ScanStepIs
    <3>2. ScanStep(NULL) \in C
      BY DEF ScanStep
    <3> QED BY <3>1, <3>2
  <2>6. PICK s : Repeats(s, g, GetFirst, N)
    BY <2>3, RepeatExists
  <2> HIDE DEF C
  <2>7. s[0] = GetFirst /\ \A d \in 1 .. N : s[d] = g[s[d - 1]]
    <3> HIDE DEF N, g
    <3> QED BY <2>3, <2>6, RepeatStep
  <2>8. \A d \in 0 .. N : s[d] \in C
    <3> HIDE DEF N, g
    <3>1. (\A d \in 1 .. N : s[d - 1] \in C => s[d] \in C) /\ s[0] \in C
      BY <2>4, <2>5, <2>7
    <3> QED BY <2>3, <3>1, RepeatIn
  <2>9. s = [d \in 0 .. N |-> IF d = 0 THEN GetFirst ELSE ScanStep(s[d - 1])]
    <3>1. s = [d \in 0 .. N |-> IF d = 0 THEN GetFirst ELSE g[s[d - 1]]]
      BY <2>6 DEF Repeats
    <3>2. \A d \in 0 .. N : d # 0 => d - 1 \in 0 .. N
      BY <2>3
    <3> HIDE DEF N, g
    <3>3. \A d \in 0 .. N : (IF d = 0 THEN GetFirst ELSE g[s[d - 1]]) =
                            (IF d = 0 THEN GetFirst ELSE ScanStep(s[d - 1]))
      BY <3>2, <2>5, <2>8
    <3> QED BY <3>1, <3>3
  <2> HIDE DEF g
  <2>10. st = [d \in Depth |-> IF d = 0 THEN GetFirst
                               ELSE IF st[d - 1] = NULL THEN NULL ELSE GetNext(st[d - 1])]
    BY <2>9, Zenon DEF Depth, ScanStep
  <2> HIDE DEF st
  <2>11. st = [d \in 0 .. N |-> IF d = 0 THEN GetFirst ELSE ScanStep(st[d - 1])]
    BY <2>10, Zenon DEF Depth, ScanStep
  <2> HIDE DEF N
  <2>12. st[0] = GetFirst /\ \A d \in 1 .. N : st[d] = ScanStep(st[d - 1])
    BY <2>11, <2>3
  <2>13. \A d \in 0 .. N : /\ Seen(pos, d, st[d])
                           /\ {st[j] : j \in 0 .. d - 1} \ {NULL} = Before(pos, st[d])
    BY ZenonT(60), <2>1, <2>3, <2>12, ScanSees
  <2> HIDE DEF count
  <2>14. Seen(pos, count, st[count])
         /\ {st[j] : j \in 0 .. count - 1} \ {NULL} = Before(pos, st[count])
    BY <2>3, <2>13
  <2>15. st[count] = NULL
    <3> SUFFICES ASSUME st[count] # NULL PROVE FALSE
      OBVIOUS
    <3>1. st[count] \in members /\ Cardinality(Before(pos, st[count])) = count
      BY <2>14 DEF Seen
    <3>2. st[count] \notin Before(pos, st[count])
      BY <2>1, <3>1, ScanStepIs
    <3>3. Before(pos, st[count]) \in SUBSET (members \ {st[count]})
      BY <3>2 DEF Before
    <3>4. IsFiniteSet(members \ {st[count]}) /\ Cardinality(members \ {st[count]}) = count - 1
      BY <2>3, <3>1, FS_RemoveElement DEF count
    <3>5. Cardinality(Before(pos, st[count])) <= Cardinality(members \ {st[count]})
      BY <3>3, <3>4, FS_Subset
    <3> QED BY <2>3, <3>1, <3>4, <3>5
  <2>16. \A j \in 0 .. count - 1 : st[j] \in members
    <3> SUFFICES ASSUME NEW j \in 0 .. count - 1, st[j] \notin members PROVE FALSE
      OBVIOUS
    <3>1. j \in 0 .. N /\ ~(count <= j)
      BY <2>3
    <3>2. Seen(pos, j, st[j])
      BY <2>13, <3>1
    <3> QED BY <3>1, <3>2 DEF Seen, count
  <2>17. {st[d] : d \in 0 .. count - 1} = members
    <3>1. Before(pos, st[count]) = members
      BY <2>15 DEF Before
    <3>2. NULL \notin {st[j] : j \in 0 .. count - 1}
      BY <2>3, <2>16
    <3> QED BY <2>14, <3>1, <3>2
  <2>18. ASSUME NEW d \in 1 .. count - 1 PROVE Key[st[d - 1]] <= Key[st[d]]
    <3>1. d \in 0 .. N /\ d - 1 \in 0 .. d - 1 /\ d - 1 \in 0 .. count - 1 /\ d \in 0 .. count - 1
      BY <2>3
    <3>2. st[d - 1] \in members /\ st[d] \in members
      BY <2>16, <3>1
    <3>3. st[d - 1] \in Before(pos, st[d])
      BY <2>3, <2>13, <3>1, <3>2
    <3>4. pos[st[d - 1]] < pos[st[d]]
      BY <2>3, <3>2, <3>3 DEF Before
    <3> QED BY <2>1, <3>2, <3>4 DEF Ordered
  <2> QED BY <2>2, <2>15, <2>17, <2>18
<1> QED BY <1>1, Invariance, PTL
=============================================================================
