------------------------------ MODULE FreeRange ------------------------------
(***************************************************************************)
(* lib/freeRange.c: the pool of unused row indices, kept as a tree of      *)
(* ranges ordered by u32Start, and its use by the interface table          *)
(* (if/ifMIB.c: oIfIndex_FreeRange).                                       *)
(*                                                                         *)
(* The tree is seen through the contract of lib/binaryTree.c (module       *)
(* BinaryTree): xBTree_scan visits the linked entries in the order of      *)
(* u32Start; entries with equal u32Start come in either order.  An entry   *)
(* is a heap cell, xBuffer_cAlloc fails when no cell is left.              *)
(*                                                                         *)
(* The module is about the arithmetic of the ranges.  Where a change of    *)
(* u32Start takes the entry out of the tree and adds it again (allocation  *)
(* of the first index of a range, and of the index below one), the entry   *)
(* keeps its old child pointers and the tree breaks its contract if it was *)
(* not a leaf: the run binary_tree_readd shows that, this module does not. *)
(***************************************************************************)
EXTENDS Integers

CONSTANTS
  Entry,      \* the heap cells that can hold an xFreeRange_Entry_t
  U32Max,     \* the largest uint32_t
  RangeStart, \* ifIndex_start_c, where the only range begins at start-up
  RangeEnd,   \* ifIndex_end_c, where it ends
  MaxIndex    \* the largest row index asked for (2^31 - 1 in the IF-MIB)

\* Row indices stay two below the largest uint32_t, so that u32Start++ cannot wrap.
ASSUME FreeRangeAssumption ==
  /\ U32Max \in Nat /\ RangeStart \in Nat /\ RangeEnd \in Nat /\ MaxIndex \in Nat
  /\ 0 < RangeStart
  /\ RangeStart <= MaxIndex
  /\ MaxIndex <= RangeEnd
  /\ RangeEnd <= U32Max
  /\ MaxIndex + 2 <= U32Max
  /\ Entry # {}

VARIABLES
  oRange, \* the linked entries and their u32Start and u32End
  rows    \* the indices of the rows of the table

vars == <<oRange, rows>>

U32   == 0 .. U32Max
Index == RangeStart .. MaxIndex

Inc(n) == IF n = U32Max THEN 0 ELSE n + 1
Dec(n) == IF n = 0 THEN U32Max ELSE n - 1

Pool == [linked : SUBSET Entry, u32Start : [Entry -> U32], u32End : [Entry -> U32]]

TypeOK ==
  /\ oRange \in Pool
  /\ rows \in SUBSET Index

-----------------------------------------------------------------------------
(* The operations of the pool, as the set of their outcomes.               *)

Outcome(ok, p) == [ok |-> ok, pool |-> p]

\* The free indices of a pool.
FreeOf(p) == {i \in U32 : \E x \in p.linked : p.u32Start[x] <= i /\ i <= p.u32End[x]}

\* The entries of S that a scan may meet first.
FirstOf(p, S) == {x \in S : \A y \in S : p.u32Start[x] <= p.u32Start[y]}

Linked(p, x, s, e) ==
  [linked   |-> p.linked \cup {x},
   u32Start |-> [p.u32Start EXCEPT ![x] = s],
   u32End   |-> [p.u32End EXCEPT ![x] = e]]

Unlinked(p, x) ==
  [linked   |-> p.linked \ {x},
   u32Start |-> [p.u32Start EXCEPT ![x] = 0],
   u32End   |-> [p.u32End EXCEPT ![x] = 0]]

CreateRange(p, s, e) ==
  IF s > e \/ p.linked = Entry \/ \E x \in p.linked : p.u32Start[x] = s
  THEN {Outcome(FALSE, p)}
  ELSE {Outcome(TRUE, Linked(p, x, s, e)) : x \in Entry \ p.linked}

\* Mutants of TakeFrom: the start stays where it was, the split does not cut
\* the lower range, the split forgets the upper range.
TakeFrom_StartKept(p, x, i) ==
  IF p.u32Start[x] = i /\ p.u32End[x] = i
  THEN {Outcome(TRUE, Unlinked(p, x))}
  ELSE IF p.u32Start[x] = i THEN {Outcome(TRUE, p)}
  ELSE {Outcome(TRUE, [p EXCEPT !.u32End[x] = i - 1])}
TakeFrom_NoCut(p, x, i) == CreateRange(p, i + 1, p.u32End[x])
TakeFrom_NoUpper(p, x, i) ==
  IF p.u32Start[x] = i
  THEN {Outcome(TRUE, [p EXCEPT !.u32Start[x] = i + 1])}
  ELSE {Outcome(TRUE, [p EXCEPT !.u32End[x] = i - 1])}

\* Index i leaves the range of x; a split needs a second entry.
TakeFrom(p, x, i) ==
  IF p.u32Start[x] = i
  THEN IF p.u32End[x] = i
       THEN {Outcome(TRUE, Unlinked(p, x))}
       ELSE {Outcome(TRUE, [p EXCEPT !.u32Start[x] = i + 1])}
  ELSE IF p.u32End[x] = i
       THEN {Outcome(TRUE, [p EXCEPT !.u32End[x] = i - 1])}
       ELSE CreateRange([p EXCEPT !.u32End[x] = i - 1], i + 1, p.u32End[x])

AllocateIndex(p, i) ==
  LET hit == {x \in p.linked : p.u32Start[x] <= i /\ i <= p.u32End[x]}
  IN  IF hit = {} THEN {Outcome(FALSE, p)}
      ELSE UNION {TakeFrom(p, x, i) : x \in FirstOf(p, hit)}

\* Mutant of GiveTo: the end grows on either side, in a wider integer.
GiveTo_WideEnd(p, x, i) == [p EXCEPT !.u32End[x] = p.u32End[x] + 1]

\* Index i joins the range of x, or pushes its start up.
GiveTo(p, x, i) ==
  IF p.u32End[x] = Dec(i)
  THEN [p EXCEPT !.u32End[x] = Inc(p.u32End[x])]
  ELSE [p EXCEPT !.u32Start[x] = Inc(p.u32Start[x])]

RemoveIndex(p, i) ==
  LET hit == {x \in p.linked : p.u32Start[x] = Inc(i) \/ p.u32End[x] = Dec(i)}
  IN  IF hit = {} THEN CreateRange(p, i, i)
      ELSE {Outcome(TRUE, GiveTo(p, x, i)) : x \in FirstOf(p, hit)}

-----------------------------------------------------------------------------
(* The table that lives on the pool.                                       *)

Init ==
  /\ \E x \in Entry :
       oRange = [linked   |-> {x},
                 u32Start |-> [y \in Entry |-> IF y = x THEN RangeStart ELSE 0],
                 u32End   |-> [y \in Entry |-> IF y = x THEN RangeEnd ELSE 0]]
  /\ rows = {}

\* Mutant of CreateExt: the answer of the pool is not looked at.
CreateExt_Unchecked(i) ==
  /\ i \notin rows
  /\ \E a \in AllocateIndex(oRange, i) : oRange' = a.pool
  /\ rows' = rows \cup {i}

\* neIfTable_createExt: the row is created, and taken back with its index
\* when the pool has not got the index.
CreateExt(i) ==
  /\ i \notin rows
  /\ \E a \in AllocateIndex(oRange, i) :
       \/ /\ a.ok
          /\ oRange' = a.pool
          /\ rows' = rows \cup {i}
       \/ /\ ~a.ok
          /\ \E r \in RemoveIndex(a.pool, i) : oRange' = r.pool
          /\ UNCHANGED rows

\* ifTable_createReference with ifIndex_zero_c: the table picks the index.
\* Indices above MaxIndex are beyond the bound of the model.
CreateAny ==
  \E x \in FirstOf(oRange, oRange.linked) :
    /\ oRange.u32Start[x] \in Index
    /\ CreateExt(oRange.u32Start[x])

\* neIfTable_removeExt: a row whose index the pool refuses stays.
RemoveExt(i) ==
  /\ i \in rows
  /\ \E r \in RemoveIndex(oRange, i) :
       /\ oRange' = r.pool
       /\ rows' = IF r.ok THEN rows \ {i} ELSE rows

Next ==
  \/ \E i \in Index : CreateExt(i) \/ RemoveExt(i)
  \/ CreateAny

Spec == Init /\ [][Next]_vars

-----------------------------------------------------------------------------
(* Properties.                                                             *)

Covers(p, x, i) == p.u32Start[x] <= i /\ i <= p.u32End[x]

DisjointIn(p) ==
  \A x, y \in p.linked : x # y =>
    \A i \in U32 : ~(Covers(p, x, i) /\ Covers(p, y, i))

\* No two ranges of the pool overlap, whatever was created and removed in
\* whatever order: each index is free at most once.
RangesDisjoint == DisjointIn(oRange)

\* The index of a row is never free: allocateIndex cannot give it out again
\* while the row exists.
NoDoubleAllocation == FreeOf(oRange) \cap rows = {}

\* The indices that are neither free nor given to a row.
Lost == (RangeStart .. RangeEnd) \ (FreeOf(oRange) \cup rows)

\* removeIndex pushes the start of a one-index range past its end.
HasEmptyRange == \E x \in oRange.linked : oRange.u32Start[x] > oRange.u32End[x]

\* While heap cells are left and no range is empty, one call costs the pool
\* little: beside the index it is about, at most the next one (u32Start++ in
\* xFreeRange_removeIndex).  An empty range makes a split fail half-way, and
\* so does an exhausted heap: then the upper part of the range is lost.
BoundedLoss ==
  [][oRange.linked # Entry /\ ~HasEmptyRange =>
       \E i \in Index : Lost' \subseteq Lost \cup {i, i + 1}]_vars

\* The pool and its table keep the promise of module IndexPool.
IP == INSTANCE IndexPool WITH free <- FreeOf(oRange), used <- rows
KeepsPromise == IP!Spec
=============================================================================
