-------------------------- MODULE FreeRange_proofs --------------------------
(***************************************************************************)
(* Proofs about FreeRange, for any number of heap cells, any width of the  *)
(* index and any range: the pool never makes the index of a row free, and  *)
(* so keeps the promise of IndexPool; one call loses few indices.          *)
(***************************************************************************)
EXTENDS FreeRange, TLAPS

\* The outcomes of xFreeRange_createRange on a pool that has none of the
\* indices of the new range: the new range is all that becomes free.
LEMMA CreateRangeOutcome ==
  ASSUME NEW p \in Pool, DisjointIn(p), NEW s \in U32, NEW e \in U32,
         \A i \in U32 : s <= i /\ i <= e => i \notin FreeOf(p),
         NEW r \in CreateRange(p, s, e)
  PROVE  /\ r.ok \in BOOLEAN
         /\ r.pool \in Pool
         /\ DisjointIn(r.pool)
         /\ FreeOf(r.pool) \subseteq FreeOf(p) \cup {i \in U32 : s <= i /\ i <= e}
<1>1. CASE r = Outcome(FALSE, p)
  BY <1>1 DEF Outcome
<1>2. CASE \E x \in Entry \ p.linked : r = Outcome(TRUE, Linked(p, x, s, e))
  <2>1. PICK x \in Entry \ p.linked : r = Outcome(TRUE, Linked(p, x, s, e))
    BY <1>2
  <2>2. /\ r.ok = TRUE
        /\ r.pool.linked = p.linked \cup {x}
        /\ r.pool.u32Start = [p.u32Start EXCEPT ![x] = s]
        /\ r.pool.u32End = [p.u32End EXCEPT ![x] = e]
        /\ r.pool \in Pool
    BY <2>1 DEF Outcome, Linked, Pool
  <2>3. /\ r.pool.u32Start[x] = s /\ r.pool.u32End[x] = e
        /\ \A y \in p.linked : /\ y # x
                               /\ r.pool.u32Start[y] = p.u32Start[y]
                               /\ r.pool.u32End[y] = p.u32End[y]
    BY ZenonT(60), <2>1, <2>2 DEF Pool
  <2>4. \A y \in p.linked : \A i \in U32 :
          ~(Covers(r.pool, x, i) /\ Covers(r.pool, y, i))
    BY <2>3 DEF Covers, FreeOf
  <2>5. DisjointIn(r.pool)
    BY <2>2, <2>3, <2>4 DEF DisjointIn, Covers
  <2>6. FreeOf(r.pool) \subseteq FreeOf(p) \cup {i \in U32 : s <= i /\ i <= e}
    BY <2>2, <2>3 DEF FreeOf
  <2>7. QED BY <2>2, <2>5, <2>6
<1>3. QED BY <1>1, <1>2 DEF CreateRange

\* Shrinking the range of one entry of a pool (u32Start++, u32End--, or the
\* removal of the entry) keeps the ranges disjoint and frees nothing.
LEMMA Shrink ==
  ASSUME NEW p \in Pool, DisjointIn(p), NEW q \in Pool,
         q.linked \subseteq p.linked,
         \A x \in q.linked : \A i \in U32 : Covers(q, x, i) => Covers(p, x, i)
  PROVE  DisjointIn(q) /\ FreeOf(q) \subseteq FreeOf(p)
BY DEF DisjointIn, FreeOf, Covers

\* xFreeRange_allocateIndex: index i is free in no outcome, was free when the
\* call succeeds, and nothing else becomes free.
LEMMA AllocateOutcome ==
  ASSUME NEW p \in Pool, DisjointIn(p), NEW i \in Index, NEW a \in AllocateIndex(p, i)
  PROVE  /\ a.ok \in BOOLEAN
         /\ a.pool \in Pool
         /\ DisjointIn(a.pool)
         /\ FreeOf(a.pool) \subseteq FreeOf(p) \ {i}
         /\ a.ok => i \in FreeOf(p)
<1> DEFINE hit == {x \in p.linked : p.u32Start[x] <= i /\ i <= p.u32End[x]}
<1>0. i \in U32 /\ i + 1 \in U32 /\ i - 1 \in U32
  BY FreeRangeAssumption DEF Index, U32
<1>1. CASE hit = {}
  <2>1. a = Outcome(FALSE, p)
    BY <1>1 DEF AllocateIndex
  <2>2. i \notin FreeOf(p)
    BY <1>1 DEF FreeOf
  <2>3. QED BY <2>1, <2>2 DEF Outcome
<1>2. CASE hit # {}
  <2>1. PICK x \in FirstOf(p, hit) : a \in TakeFrom(p, x, i)
    BY <1>2 DEF AllocateIndex
  <2>2. /\ x \in p.linked /\ x \in Entry
        /\ p.u32Start[x] <= i /\ i <= p.u32End[x]
        /\ p.u32Start[x] \in U32 /\ p.u32End[x] \in U32
        /\ Covers(p, x, i)
    BY <2>1 DEF FirstOf, Pool, Covers
  <2>3. i \in FreeOf(p)
    BY <1>0, <2>2 DEF FreeOf
  <2>4. \A y \in p.linked : y # x => ~Covers(p, y, i)
    BY <1>0, <2>2 DEF DisjointIn
  <2>5. CASE p.u32Start[x] = i /\ p.u32End[x] = i
    <3>1. a = Outcome(TRUE, Unlinked(p, x))
      BY <2>1, <2>5 DEF TakeFrom
    <3>0. 0 \in U32
      BY FreeRangeAssumption DEF U32
    <3>2. /\ a.ok = TRUE /\ a.pool \in Pool
          /\ a.pool.linked = p.linked \ {x}
          /\ a.pool.u32Start = [p.u32Start EXCEPT ![x] = 0]
          /\ a.pool.u32End = [p.u32End EXCEPT ![x] = 0]
      BY <3>0, <3>1 DEF Outcome, Unlinked, Pool
    <3>3. DisjointIn(a.pool) /\ FreeOf(a.pool) \subseteq FreeOf(p)
      BY <3>2, Shrink DEF Covers, Pool
    <3>4. i \notin FreeOf(a.pool)
      BY <3>2, <2>4 DEF FreeOf, Covers, Pool
    <3>5. QED BY <3>2, <3>3, <3>4, <2>3
  <2>6. CASE p.u32Start[x] = i /\ p.u32End[x] # i
    <3>1. a = Outcome(TRUE, [p EXCEPT !.u32Start[x] = i + 1])
      BY <2>1, <2>6 DEF TakeFrom
    <3>2. /\ a.ok = TRUE
          /\ a.pool.linked = p.linked
          /\ a.pool.u32Start = [p.u32Start EXCEPT ![x] = i + 1]
          /\ a.pool.u32End = p.u32End
          /\ a.pool \in Pool
      BY <3>1, <1>0 DEF Outcome, Pool
    <3>3. \A y \in p.linked : \A j \in U32 :
            Covers(a.pool, y, j) => Covers(p, y, j) /\ (y = x => j # i)
      BY <3>2, <2>2, <2>6 DEF Covers, Pool, U32
    <3>4. DisjointIn(a.pool) /\ FreeOf(a.pool) \subseteq FreeOf(p)
      BY <3>2, <3>3, Shrink
    <3>5. i \notin FreeOf(a.pool)
      BY <1>0, <3>2, <3>3, <2>4 DEF FreeOf, Covers
    <3>6. QED BY <3>2, <3>4, <3>5, <2>3
  <2>7. CASE p.u32Start[x] # i
    <3> DEFINE q == [p EXCEPT !.u32End[x] = i - 1]
    <3>1. /\ q \in Pool
          /\ q.linked = p.linked
          /\ q.u32Start = p.u32Start
          /\ q.u32End = [p.u32End EXCEPT ![x] = i - 1]
      BY <1>0 DEF Pool
    <3>2. \A y \in p.linked : \A j \in U32 :
            Covers(q, y, j) => Covers(p, y, j) /\ (y = x => j < i)
      BY <3>1, <2>2, <1>0 DEF Covers, Pool, U32
    <3>3. DisjointIn(q) /\ FreeOf(q) \subseteq FreeOf(p)
      <4> HIDE DEF q
      <4>1. QED BY <3>1, <3>2, Shrink
    <3>4. \A j \in U32 : i <= j /\ j <= p.u32End[x] => j \notin FreeOf(q)
      <4> HIDE DEF q
      <4>1. SUFFICES ASSUME NEW j \in U32, i <= j, j <= p.u32End[x],
                            NEW y \in p.linked, Covers(q, y, j)
                     PROVE  FALSE
        BY <3>1 DEF FreeOf, Covers
      <4>2. Covers(p, y, j) /\ y # x
        BY <4>1, <3>2, <1>0 DEF U32
      <4>3. Covers(p, x, j)
        BY <4>1, <2>2, <1>0 DEF Covers, U32
      <4>4. QED BY <4>2, <4>3, <2>2 DEF DisjointIn
    <3>5. CASE p.u32End[x] = i
      <4>1. a = Outcome(TRUE, q)
        BY <2>1, <2>7, <3>5 DEF TakeFrom
      <4>2. i \notin FreeOf(q)
        <5> HIDE DEF q
        <5>1. QED BY <3>4, <3>5, <1>0 DEF U32
      <4>3. QED
        <5> HIDE DEF q
        <5>1. QED BY <4>1, <4>2, <3>1, <3>3, <2>3 DEF Outcome
    <3>6. CASE p.u32End[x] # i
      <4>1. a \in CreateRange(q, i + 1, p.u32End[x])
        BY <2>1, <2>7, <3>6 DEF TakeFrom
      <4> HIDE DEF q
      <4>2. \A j \in U32 : i + 1 <= j /\ j <= p.u32End[x] => j \notin FreeOf(q)
        BY <3>4, <1>0 DEF U32
      <4>3. /\ a.ok \in BOOLEAN /\ a.pool \in Pool /\ DisjointIn(a.pool)
            /\ FreeOf(a.pool) \subseteq
                 FreeOf(q) \cup {j \in U32 : i + 1 <= j /\ j <= p.u32End[x]}
        BY <4>1, <4>2, <3>1, <3>3, <2>2, <1>0, CreateRangeOutcome
      <4>4. \A j \in U32 : i + 1 <= j /\ j <= p.u32End[x] => j \in FreeOf(p) /\ j # i
        BY <2>2, <1>0 DEF FreeOf, U32
      <4>5. i \notin FreeOf(q)
        BY <3>4, <2>2, <1>0 DEF U32
      <4>6. QED BY <4>3, <4>4, <4>5, <3>3, <2>3
    <3>7. QED BY <3>5, <3>6
  <2>8. QED BY <2>5, <2>6, <2>7
<1>3. QED BY <1>1, <1>2

\* xFreeRange_removeIndex, for an index that is not free: it is all that may
\* become free.
LEMMA RemoveOutcome ==
  ASSUME NEW p \in Pool, DisjointIn(p), NEW i \in Index, i \notin FreeOf(p),
         NEW r \in RemoveIndex(p, i)
  PROVE  /\ r.ok \in BOOLEAN
         /\ r.pool \in Pool
         /\ DisjointIn(r.pool)
         /\ FreeOf(r.pool) \subseteq FreeOf(p) \cup {i}
<1> DEFINE hit == {x \in p.linked : p.u32Start[x] = Inc(i) \/ p.u32End[x] = Dec(i)}
<1>0. /\ i \in U32 /\ i + 1 \in U32 /\ i + 2 \in U32 /\ i - 1 \in U32
      /\ Inc(i) = i + 1 /\ Dec(i) = i - 1 /\ Inc(i - 1) = i /\ Inc(i + 1) = i + 2
  BY FreeRangeAssumption DEF Index, U32, Inc, Dec
<1>1. CASE hit = {}
  <2>1. r \in CreateRange(p, i, i)
    BY <1>1 DEF RemoveIndex
  <2>2. \A j \in U32 : i <= j /\ j <= i => j = i
    BY <1>0 DEF U32
  <2>3. QED BY <2>1, <2>2, <1>0, CreateRangeOutcome
<1>2. CASE hit # {}
  <2>1. PICK x \in FirstOf(p, hit) : r = Outcome(TRUE, GiveTo(p, x, i))
    BY <1>2 DEF RemoveIndex
  <2>2. /\ x \in p.linked /\ x \in Entry
        /\ p.u32Start[x] = i + 1 \/ p.u32End[x] = i - 1
        /\ p.u32Start[x] \in U32 /\ p.u32End[x] \in U32
    BY <2>1, <1>0 DEF FirstOf, Pool
  <2>3. \A y \in p.linked : ~Covers(p, y, i)
    BY <1>0 DEF FreeOf, Covers
  <2>4. CASE p.u32End[x] = i - 1
    <3>1. /\ r.ok = TRUE /\ r.pool \in Pool
          /\ r.pool.linked = p.linked
          /\ r.pool.u32Start = p.u32Start
          /\ r.pool.u32End = [p.u32End EXCEPT ![x] = i]
      BY <2>1, <2>2, <2>4, <1>0 DEF Outcome, GiveTo, Pool
    <3>2. \A y \in p.linked : \A j \in U32 :
            Covers(r.pool, y, j) => Covers(p, y, j) \/ (y = x /\ j = i)
      BY <3>1, <2>2, <2>4, <1>0 DEF Covers, Pool, U32
    <3>3. DisjointIn(r.pool)
      BY <3>1, <3>2, <2>3 DEF DisjointIn
    <3>4. FreeOf(r.pool) \subseteq FreeOf(p) \cup {i}
      BY <3>1, <3>2 DEF FreeOf, Covers
    <3>5. QED BY <3>1, <3>3, <3>4
  <2>5. CASE p.u32End[x] # i - 1
    <3>1. /\ r.ok = TRUE /\ r.pool \in Pool
          /\ r.pool.linked = p.linked
          /\ r.pool.u32Start = [p.u32Start EXCEPT ![x] = i + 2]
          /\ r.pool.u32End = p.u32End
      BY <2>1, <2>2, <2>5, <1>0 DEF Outcome, GiveTo, Pool
    <3>2. \A y \in p.linked : \A j \in U32 : Covers(r.pool, y, j) => Covers(p, y, j)
      BY <3>1, <2>2, <2>5, <1>0 DEF Covers, Pool, U32
    <3>3. QED BY <3>1, <3>2, Shrink
  <2>6. QED BY <2>4, <2>5
<1>3. QED BY <1>1, <1>2

-----------------------------------------------------------------------------
IInv ==
  /\ TypeOK
  /\ RangesDisjoint
  /\ NoDoubleAllocation

LEMMA InitIInv == Init => IInv
<1>1. SUFFICES ASSUME Init PROVE IInv
  OBVIOUS
<1>2. PICK x \in Entry :
        oRange = [linked   |-> {x},
                  u32Start |-> [y \in Entry |-> IF y = x THEN RangeStart ELSE 0],
                  u32End   |-> [y \in Entry |-> IF y = x THEN RangeEnd ELSE 0]]
  BY <1>1 DEF Init
<1>3. oRange.linked = {x} /\ oRange \in Pool
  BY <1>2, FreeRangeAssumption DEF Pool, U32
<1>4. rows = {}
  BY <1>1 DEF Init
<1>5. QED
  BY <1>3, <1>4 DEF IInv, TypeOK, RangesDisjoint, DisjointIn, NoDoubleAllocation

\* neIfTable_createExt maps to Reserve when the index was free, and to Reclaim
\* when it was not.
LEMMA CreateExtStep ==
  ASSUME IInv, NEW i \in Index, CreateExt(i)
  PROVE  IInv' /\ (IP!Reserve(i) \/ IP!Reclaim(i))
<1>1. PICK a \in AllocateIndex(oRange, i) :
        \/ a.ok /\ oRange' = a.pool /\ rows' = rows \cup {i}
        \/ /\ ~a.ok
           /\ \E r \in RemoveIndex(a.pool, i) : oRange' = r.pool
           /\ UNCHANGED rows
  BY DEF CreateExt
<1>2. /\ a.ok \in BOOLEAN /\ a.pool \in Pool /\ DisjointIn(a.pool)
      /\ FreeOf(a.pool) \subseteq FreeOf(oRange) \ {i}
      /\ a.ok => i \in FreeOf(oRange)
  BY AllocateOutcome DEF IInv, TypeOK, RangesDisjoint
<1>3. i \notin rows
  BY DEF CreateExt
<1>4. CASE a.ok
  <2>1. oRange' = a.pool /\ rows' = rows \cup {i}
    BY <1>1, <1>4
  <2>2. QED
    BY <1>2, <1>3, <1>4, <2>1
    DEF IInv, TypeOK, RangesDisjoint, NoDoubleAllocation, IP!Reserve
<1>5. CASE ~a.ok
  <2>1. PICK r \in RemoveIndex(a.pool, i) : oRange' = r.pool /\ rows' = rows
    BY <1>1, <1>5
  <2>2. /\ r.pool \in Pool /\ DisjointIn(r.pool)
        /\ FreeOf(r.pool) \subseteq FreeOf(a.pool) \cup {i}
    BY <1>2, <2>1, RemoveOutcome
  <2>3. QED
    BY <1>2, <1>3, <2>1, <2>2
    DEF IInv, TypeOK, RangesDisjoint, NoDoubleAllocation, IP!Reclaim
<1>6. QED BY <1>2, <1>4, <1>5

\* neIfTable_removeExt maps to Release, or, when the pool refuses the index
\* and the row stays, to a stutter.
LEMMA RemoveExtStep ==
  ASSUME IInv, NEW i \in Index, RemoveExt(i)
  PROVE  IInv' /\ (IP!Release(i) \/ (FreeOf(oRange)' = FreeOf(oRange) /\ rows' = rows))
<1>1. PICK r \in RemoveIndex(oRange, i) :
        oRange' = r.pool /\ rows' = IF r.ok THEN rows \ {i} ELSE rows
  BY DEF RemoveExt
<1>2. i \in rows /\ i \notin FreeOf(oRange)
  BY DEF RemoveExt, IInv, NoDoubleAllocation
<1>3. /\ r.ok \in BOOLEAN /\ r.pool \in Pool /\ DisjointIn(r.pool)
      /\ FreeOf(r.pool) \subseteq FreeOf(oRange) \cup {i}
  BY <1>2, RemoveOutcome DEF IInv, TypeOK, RangesDisjoint
<1>4. CASE r.ok
  BY <1>1, <1>2, <1>3, <1>4
  DEF IInv, TypeOK, RangesDisjoint, NoDoubleAllocation, IP!Release
<1>5. CASE ~r.ok
  <2>1. r.pool = oRange
    <3> DEFINE hit == {x \in oRange.linked :
                         oRange.u32Start[x] = Inc(i) \/ oRange.u32End[x] = Dec(i)}
    <3>1. CASE hit = {}
      <4>1. r \in CreateRange(oRange, i, i)
        BY <3>1 DEF RemoveIndex
      <4>2. \/ r = Outcome(FALSE, oRange)
            \/ \E x \in Entry \ oRange.linked : r = Outcome(TRUE, Linked(oRange, x, i, i))
        BY <4>1 DEF CreateRange
      <4>3. Outcome(FALSE, oRange).pool = oRange
        BY DEF Outcome
      <4>4. \A x : Outcome(TRUE, Linked(oRange, x, i, i)).ok = TRUE
        BY DEF Outcome
      <4>5. QED BY <4>2, <4>3, <4>4, <1>5
    <3>2. CASE hit # {}
      <4>1. r \in {Outcome(TRUE, GiveTo(oRange, x, i)) : x \in FirstOf(oRange, hit)}
        BY <3>2 DEF RemoveIndex
      <4>2. PICK x \in FirstOf(oRange, hit) : r = Outcome(TRUE, GiveTo(oRange, x, i))
        BY <4>1
      <4>3. r.ok = TRUE
        BY <4>2 DEF Outcome
      <4>4. QED BY <4>3, <1>5
    <3>3. QED BY <3>1, <3>2
  <2>2. oRange' = oRange /\ rows' = rows
    BY <1>1, <1>5, <2>1
  <2>3. QED
    BY <2>2 DEF IInv, TypeOK, RangesDisjoint, NoDoubleAllocation
<1>6. QED BY <1>3, <1>4, <1>5

\* Every step keeps the invariant and is a step of IndexPool or a stutter.
LEMMA NextStep == IInv /\ [Next]_vars => IInv' /\ [IP!Next]_(IP!vars)
<1>1. SUFFICES ASSUME IInv, [Next]_vars PROVE IInv' /\ [IP!Next]_(IP!vars)
  OBVIOUS
<1>2. ASSUME NEW i \in Index, CreateExt(i) PROVE IInv' /\ [IP!Next]_(IP!vars)
  BY <1>1, <1>2, CreateExtStep DEF IP!Next
<1>3. ASSUME NEW i \in Index, RemoveExt(i) PROVE IInv' /\ [IP!Next]_(IP!vars)
  BY <1>1, <1>3, RemoveExtStep DEF IP!Next, IP!vars
<1>4. CASE CreateAny
  BY <1>2, <1>4 DEF CreateAny
<1>5. CASE UNCHANGED vars
  BY <1>1, <1>5
  DEF vars, IP!vars, IInv, TypeOK, RangesDisjoint, NoDoubleAllocation
<1>6. QED BY <1>1, <1>2, <1>3, <1>4, <1>5 DEF Next

-----------------------------------------------------------------------------
\* The pool is always a well-formed tree of ranges.
THEOREM TypeCorrect == Spec => []TypeOK
<1>1. IInv => TypeOK
  BY DEF IInv
<1>2. QED BY <1>1, InitIInv, NextStep, PTL DEF Spec

\* Ranges never overlap.
THEOREM Disjoint == Spec => []RangesDisjoint
<1>1. IInv => RangesDisjoint
  BY DEF IInv
<1>2. QED BY <1>1, InitIInv, NextStep, PTL DEF Spec

\* The index of an existing row is never free.
THEOREM NoDouble == Spec => []NoDoubleAllocation
<1>1. IInv => NoDoubleAllocation
  BY DEF IInv
<1>2. QED BY <1>1, InitIInv, NextStep, PTL DEF Spec

\* The pool and its table implement IndexPool.
THEOREM Refinement == Spec => KeepsPromise
<1>1. Init => IP!Init
  <2>1. SUFFICES ASSUME Init PROVE IP!Init
    OBVIOUS
  <2>2. PICK x \in Entry :
          oRange = [linked   |-> {x},
                    u32Start |-> [y \in Entry |-> IF y = x THEN RangeStart ELSE 0],
                    u32End   |-> [y \in Entry |-> IF y = x THEN RangeEnd ELSE 0]]
    BY <2>1 DEF Init
  <2>3. \A i \in Index : i \in U32 /\ RangeStart <= i /\ i <= RangeEnd
    BY FreeRangeAssumption DEF Index, U32
  <2>4. Index \subseteq FreeOf(oRange)
    BY <2>2, <2>3 DEF FreeOf
  <2>5. QED BY <2>1, <2>4 DEF Init, IP!Init
<1>2. QED BY <1>1, InitIInv, NextStep, PTL DEF Spec, KeepsPromise, IP!Spec
-----------------------------------------------------------------------------
(* What one call costs the pool.                                           *)

\* No range of a pool is empty, and the heap has a cell for another one.
Roomy(p) == p.linked # Entry /\ \A x \in p.linked : p.u32Start[x] <= p.u32End[x]

\* xFreeRange_createRange leaves the other ranges alone, and fails in a pool
\* with room only where a range starts where the new one would.
LEMMA CreateRangeKeeps ==
  ASSUME NEW p \in Pool, NEW s \in U32, NEW e \in U32, NEW r \in CreateRange(p, s, e)
  PROVE  /\ FreeOf(p) \subseteq FreeOf(r.pool)
         /\ s <= e /\ Roomy(p) /\ (\A x \in p.linked : p.u32Start[x] # s) =>
              r.ok /\ \A j \in U32 : s <= j /\ j <= e => j \in FreeOf(r.pool)
<1>1. CASE s > e \/ p.linked = Entry \/ \E x \in p.linked : p.u32Start[x] = s
  <2>1. r = Outcome(FALSE, p)
    BY <1>1 DEF CreateRange
  <2>2. ~(s <= e /\ Roomy(p) /\ (\A x \in p.linked : p.u32Start[x] # s))
    BY <1>1 DEF Roomy, U32
  <2>3. QED BY <2>1, <2>2 DEF Outcome
<1>2. CASE ~(s > e \/ p.linked = Entry \/ \E x \in p.linked : p.u32Start[x] = s)
  <2>1. PICK x \in Entry \ p.linked : r = Outcome(TRUE, Linked(p, x, s, e))
    BY <1>2 DEF CreateRange
  <2>2. /\ r.ok = TRUE
        /\ r.pool.linked = p.linked \cup {x}
        /\ r.pool.u32Start = [p.u32Start EXCEPT ![x] = s]
        /\ r.pool.u32End = [p.u32End EXCEPT ![x] = e]
    BY <2>1 DEF Outcome, Linked
  <2>3. /\ r.pool.u32Start[x] = s /\ r.pool.u32End[x] = e
        /\ \A y \in p.linked : r.pool.u32Start[y] = p.u32Start[y] /\ r.pool.u32End[y] = p.u32End[y]
    BY ZenonT(60), <2>1, <2>2 DEF Pool
  <2>4. FreeOf(p) \subseteq FreeOf(r.pool)
    BY <2>2, <2>3 DEF FreeOf
  <2>5. \A j \in U32 : s <= j /\ j <= e => j \in FreeOf(r.pool)
    BY <2>2, <2>3 DEF FreeOf
  <2>6. QED BY <2>2, <2>4, <2>5
<1>3. QED BY <1>1, <1>2

\* xFreeRange_allocateIndex in a pool with room takes index i and no other,
\* and leaves the pool alone where it fails.
LEMMA AllocateKeeps ==
  ASSUME NEW p \in Pool, DisjointIn(p), Roomy(p), NEW i \in Index, NEW a \in AllocateIndex(p, i)
  PROVE  /\ FreeOf(p) \ {i} \subseteq FreeOf(a.pool)
         /\ ~a.ok => a.pool = p
<1> DEFINE hit == {x \in p.linked : p.u32Start[x] <= i /\ i <= p.u32End[x]}
<1>0. i \in U32 /\ i + 1 \in U32 /\ i - 1 \in U32
  BY FreeRangeAssumption DEF Index, U32
<1>1. CASE hit = {}
  BY <1>1 DEF AllocateIndex, Outcome
<1>2. CASE hit # {}
  <2>1. PICK x \in FirstOf(p, hit) : a \in TakeFrom(p, x, i)
    BY <1>2 DEF AllocateIndex
  <2>2. /\ x \in p.linked /\ x \in Entry /\ Covers(p, x, i)
        /\ p.u32Start[x] <= i /\ i <= p.u32End[x]
        /\ p.u32Start[x] \in U32 /\ p.u32End[x] \in U32
    BY <2>1 DEF FirstOf, Pool, Covers
  <2>3. CASE p.u32Start[x] = i /\ p.u32End[x] = i
    <3>1. a = Outcome(TRUE, Unlinked(p, x))
      BY <2>1, <2>3 DEF TakeFrom
    <3>2. /\ a.ok = TRUE
          /\ a.pool.linked = p.linked \ {x}
          /\ \A y \in p.linked \ {x} :
               a.pool.u32Start[y] = p.u32Start[y] /\ a.pool.u32End[y] = p.u32End[y]
      BY <3>1 DEF Outcome, Unlinked, Pool
    <3>3. \A j \in U32 : Covers(p, x, j) => j = i
      BY <1>0, <2>3 DEF Covers, U32
    <3>4. FreeOf(p) \ {i} \subseteq FreeOf(a.pool)
      BY <3>2, <3>3 DEF FreeOf, Covers
    <3>5. QED BY <3>2, <3>4
  <2>4. CASE p.u32Start[x] = i /\ p.u32End[x] # i
    <3>1. a = Outcome(TRUE, [p EXCEPT !.u32Start[x] = i + 1])
      BY <2>1, <2>4 DEF TakeFrom
    <3>2. /\ a.ok = TRUE
          /\ a.pool.linked = p.linked
          /\ a.pool.u32Start = [p.u32Start EXCEPT ![x] = i + 1]
          /\ a.pool.u32End = p.u32End
      BY <3>1 DEF Outcome, Pool
    <3>3. \A y \in p.linked : \A j \in U32 : Covers(p, y, j) /\ j # i => Covers(a.pool, y, j)
      BY <1>0, <2>4, <3>2 DEF Covers, Pool, U32
    <3>4. FreeOf(p) \ {i} \subseteq FreeOf(a.pool)
      BY <3>2, <3>3 DEF FreeOf, Covers
    <3>5. QED BY <3>2, <3>4
  <2>5. CASE p.u32Start[x] # i
    <3> DEFINE q == [p EXCEPT !.u32End[x] = i - 1]
    <3>1. /\ q \in Pool
          /\ q.linked = p.linked
          /\ q.u32Start = p.u32Start
          /\ q.u32End = [p.u32End EXCEPT ![x] = i - 1]
      BY <1>0 DEF Pool
    <3>2. a \in IF p.u32End[x] = i THEN {Outcome(TRUE, q)} ELSE CreateRange(q, i + 1, p.u32End[x])
      BY <2>1, <2>5 DEF TakeFrom
    <3> HIDE DEF q
    <3>3. \A y \in p.linked : \A j \in U32 : Covers(p, y, j) /\ ~(y = x /\ j >= i) => Covers(q, y, j)
      BY <1>0, <3>1 DEF Covers, Pool, U32
    <3>4. \A j \in U32 : j \in FreeOf(p) /\ j \notin FreeOf(q) => i <= j /\ j <= p.u32End[x]
      <4>1. SUFFICES ASSUME NEW j \in U32, j \notin FreeOf(q), NEW y \in p.linked, Covers(p, y, j)
                     PROVE  i <= j /\ j <= p.u32End[x]
        BY DEF FreeOf, Covers
      <4>2. ~Covers(q, y, j)
        BY <3>1, <4>1 DEF FreeOf, Covers
      <4>3. y = x /\ j >= i
        BY <3>3, <4>1, <4>2
      <4>4. QED BY <1>0, <4>1, <4>3 DEF Covers, U32
    <3>5. CASE p.u32End[x] = i
      <4>1. a.ok = TRUE /\ a.pool = q
        BY <3>2, <3>5 DEF Outcome
      <4>2. \A j \in U32 : i <= j /\ j <= p.u32End[x] => j = i
        BY <1>0, <3>5 DEF U32
      <4>3. FreeOf(p) \ {i} \subseteq FreeOf(q)
        BY <3>4, <4>2 DEF FreeOf
      <4>4. QED BY <4>1, <4>3
    <3>6. CASE p.u32End[x] # i
      <4>1. a \in CreateRange(q, i + 1, p.u32End[x]) /\ i + 1 <= p.u32End[x]
        BY <1>0, <2>2, <3>2, <3>6 DEF U32
      <4>2. \A y \in q.linked : q.u32Start[y] # i + 1
        <5>1. SUFFICES ASSUME NEW y \in p.linked, p.u32Start[y] = i + 1 PROVE FALSE
          BY <3>1
        <5>2. y # x
          BY <1>0, <2>2, <5>1 DEF U32
        <5>3. Covers(p, y, i + 1)
          BY <1>0, <5>1 DEF Roomy, Covers, U32
        <5>4. Covers(p, x, i + 1)
          BY <1>0, <2>2, <4>1 DEF Covers, U32
        <5>5. QED BY <1>0, <2>2, <5>2, <5>3, <5>4 DEF DisjointIn
      <4>3. Roomy(q)
        <5>1. \A y \in p.linked : p.u32Start[y] <= p.u32End[y] /\ p.u32End[y] \in U32
          BY DEF Roomy, Pool
        <5>2. p.u32Start[x] <= i - 1
          BY <1>0, <2>2, <2>5 DEF U32
        <5>3. QED BY <3>1, <5>1, <5>2 DEF Roomy, Pool
      <4>4. /\ FreeOf(q) \subseteq FreeOf(a.pool)
            /\ a.ok /\ \A j \in U32 : i + 1 <= j /\ j <= p.u32End[x] => j \in FreeOf(a.pool)
        BY <1>0, <2>2, <3>1, <4>1, <4>2, <4>3, CreateRangeKeeps
      <4>5. ASSUME NEW j \in FreeOf(p) \ {i} PROVE j \in FreeOf(a.pool)
        <5>1. j \in U32
          BY DEF FreeOf
        <5>2. CASE j \in FreeOf(q)
          BY <4>4, <5>2
        <5>3. CASE j \notin FreeOf(q)
          <6>1. i <= j /\ j <= p.u32End[x]
            BY <3>4, <5>1, <5>3
          <6>2. i + 1 <= j
            BY <1>0, <5>1, <6>1 DEF U32
          <6>3. QED BY <4>4, <5>1, <6>1, <6>2
        <5>4. QED BY <5>2, <5>3
      <4>6. QED BY <4>4, <4>5
    <3>7. QED BY <3>5, <3>6
  <2>6. QED BY <2>3, <2>4, <2>5
<1>3. QED BY <1>1, <1>2

\* xFreeRange_removeIndex takes at most the next index from a range.
LEMMA RemoveKeeps ==
  ASSUME NEW p \in Pool, NEW i \in Index, NEW r \in RemoveIndex(p, i)
  PROVE  FreeOf(p) \ {i, i + 1} \subseteq FreeOf(r.pool)
<1> DEFINE hit == {x \in p.linked : p.u32Start[x] = Inc(i) \/ p.u32End[x] = Dec(i)}
<1>0. /\ i \in U32 /\ i + 1 \in U32 /\ i + 2 \in U32 /\ i - 1 \in U32
      /\ Inc(i) = i + 1 /\ Dec(i) = i - 1 /\ Inc(i - 1) = i /\ Inc(i + 1) = i + 2
  BY FreeRangeAssumption DEF Index, U32, Inc, Dec
<1>1. CASE hit = {}
  <2>1. r \in CreateRange(p, i, i)
    BY <1>1 DEF RemoveIndex
  <2>2. QED BY <1>0, <2>1, CreateRangeKeeps
<1>2. CASE hit # {}
  <2>1. PICK x \in FirstOf(p, hit) : r = Outcome(TRUE, GiveTo(p, x, i))
    BY <1>2 DEF RemoveIndex
  <2>2. /\ x \in p.linked /\ x \in Entry
        /\ p.u32Start[x] = i + 1 \/ p.u32End[x] = i - 1
    BY <2>1, <1>0 DEF FirstOf, Pool
  <2>3. CASE p.u32End[x] = i - 1
    <3>1. /\ r.pool.linked = p.linked
          /\ r.pool.u32Start = p.u32Start
          /\ r.pool.u32End = [p.u32End EXCEPT ![x] = i]
      BY <2>1, <2>2, <2>3, <1>0 DEF Outcome, GiveTo, Pool
    <3>2. \A y \in p.linked : \A j \in U32 : Covers(p, y, j) => Covers(r.pool, y, j)
      BY <1>0, <2>3, <3>1 DEF Covers, Pool, U32
    <3>3. QED BY <3>1, <3>2 DEF FreeOf, Covers
  <2>4. CASE p.u32End[x] # i - 1
    <3>1. /\ r.pool.linked = p.linked
          /\ r.pool.u32Start = [p.u32Start EXCEPT ![x] = i + 2]
          /\ r.pool.u32End = p.u32End
      BY <2>1, <2>2, <2>4, <1>0 DEF Outcome, GiveTo, Pool
    <3>2. \A y \in p.linked : \A j \in U32 : Covers(p, y, j) /\ j # i + 1 => Covers(r.pool, y, j)
      BY <1>0, <2>2, <2>4, <3>1 DEF Covers, Pool, U32
    <3>3. QED BY <3>1, <3>2 DEF FreeOf, Covers
  <2>5. QED BY <2>3, <2>4
<1>3. QED BY <1>1, <1>2

\* Creation and removal of a row in a pool with room.
LEMMA CreateExtLoss ==
  ASSUME IInv, Roomy(oRange), NEW i \in Index, CreateExt(i)
  PROVE  Lost' \subseteq Lost \cup {i, i + 1}
<1>1. PICK a \in AllocateIndex(oRange, i) :
        \/ a.ok /\ oRange' = a.pool /\ rows' = rows \cup {i}
        \/ /\ ~a.ok
           /\ \E r \in RemoveIndex(a.pool, i) : oRange' = r.pool
           /\ UNCHANGED rows
  BY DEF CreateExt
<1>2. FreeOf(oRange) \ {i} \subseteq FreeOf(a.pool) /\ (~a.ok => a.pool = oRange)
  BY AllocateKeeps DEF IInv, TypeOK, RangesDisjoint
<1>3. FreeOf(oRange) \ {i, i + 1} \subseteq FreeOf(oRange')
  <2>1. CASE a.ok
    BY <1>1, <1>2, <2>1
  <2>2. CASE ~a.ok
    BY <1>1, <1>2, <2>2, RemoveKeeps DEF IInv, TypeOK
  <2>3. QED BY <2>1, <2>2
<1>4. rows \subseteq rows'
  BY <1>1
<1>5. QED BY <1>3, <1>4 DEF Lost

LEMMA RemoveExtLoss ==
  ASSUME IInv, NEW i \in Index, RemoveExt(i)
  PROVE  Lost' \subseteq Lost \cup {i, i + 1}
<1>1. PICK r \in RemoveIndex(oRange, i) : oRange' = r.pool /\ rows' = IF r.ok THEN rows \ {i} ELSE rows
  BY DEF RemoveExt
<1>2. FreeOf(oRange) \ {i, i + 1} \subseteq FreeOf(oRange')
  BY <1>1, RemoveKeeps DEF IInv, TypeOK
<1>3. rows \ {i} \subseteq rows'
  BY <1>1
<1>4. QED BY <1>2, <1>3 DEF Lost

\* One call loses at most its own index and the next one, as long as no range
\* is empty and the heap has a cell left (xFreeRange_allocateIndex, _removeIndex).
THEOREM LossBounded == Spec => BoundedLoss
<1>1. IInv /\ [Next]_vars =>
        [oRange.linked # Entry /\ ~HasEmptyRange => \E i \in Index : Lost' \subseteq Lost \cup {i, i + 1}]_vars
  <2>1. SUFFICES ASSUME IInv, Next, oRange.linked # Entry, ~HasEmptyRange
                 PROVE  \E i \in Index : Lost' \subseteq Lost \cup {i, i + 1}
    OBVIOUS
  <2>2. Roomy(oRange)
    <3>1. \A x \in oRange.linked : oRange.u32Start[x] \in U32 /\ oRange.u32End[x] \in U32
      BY <2>1 DEF IInv, TypeOK, Pool
    <3>2. QED BY <2>1, <3>1 DEF Roomy, HasEmptyRange, U32
  <2>3. PICK i \in Index : CreateExt(i) \/ RemoveExt(i)
    BY <2>1 DEF Next, CreateAny
  <2>4. QED BY <2>1, <2>2, <2>3, CreateExtLoss, RemoveExtLoss
<1>2. QED BY <1>1, InitIInv, NextStep, PTL DEF Spec, BoundedLoss
=============================================================================
