----------------------------- MODULE BinaryTree -----------------------------
(***************************************************************************)
(* lib/binaryTree.c: the intrusive red-black tree that holds every table   *)
(* of the switch.  Each rebalancing function of the code is one action, pc *)
(* names the function about to run; the code calls them in tail position,  *)
(* except that xBTree_RB_removeChildCheck unlinks pNode at the end.        *)
(*                                                                         *)
(* A node has a key and keeps its pointers while it is outside the tree,   *)
(* as in the code: xBTree_nodeAdd sets pParent only, and                   *)
(* xBTree_nodeRemove resets nothing.                                       *)
(***************************************************************************)
EXTENDS Integers, FiniteSets

CONSTANTS
  Node,      \* the nodes, as positive numbers
  Key,       \* the key of each node; keys may repeat
  FreshNodes, \* TRUE: removed nodes are freed, added ones just allocated
             \* FALSE: a removed node may be added again (freeRange.c:146-155)
  Differences \* keys are compared with xOidCmp, which returns their difference

NULL == 0

ASSUME BinaryTreeAssumption ==
  /\ Node \subseteq Nat \ {NULL} /\ IsFiniteSet(Node)
  /\ Key \in [Node -> Nat]
  /\ FreshNodes \in BOOLEAN /\ Differences \in BOOLEAN

VARIABLES
  pRoot, u32NumNode,
  pLeft, pRight, pParent, \* the pointers of each node
  red,                    \* ub1Color = BTREE_RB_RED
  pc,                     \* the function that runs next, "idle" between calls
  pNode,                  \* its argument
  pDown,                  \* pParent of the descent in xBTree_nodeAdd
  pOut, pChild,           \* the node under removal and its child, as first read
  members                 \* the nodes the callers have added and not removed

tree == <<pRoot, pLeft, pRight, pParent>>
call == <<pNode, pDown, pOut, pChild>>
vars == <<tree, u32NumNode, red, pc, call, members>>

Ref == Node \cup {NULL}
Depth == 0 .. Cardinality(Node)

TypeOK ==
  /\ pRoot \in Ref /\ u32NumNode \in Nat
  /\ pLeft \in [Node -> Ref] /\ pRight \in [Node -> Ref] /\ pParent \in [Node -> Ref]
  /\ red \in [Node -> BOOLEAN]
  /\ pc \in {"idle", "fault", "nodeAdd",
             "insertRootCheck", "insertParentCheck", "insertUncleCheck",
             "insertParentAdjust", "insertGrandParentCheck",
             "removeChildCheck", "removeRootCheck", "removeSiblingAdjust",
             "removeSiblingCheck", "removeParentCheck",
             "removeSiblingChildAdjust", "removeSiblingChildCheck", "removeUnlink"}
  /\ pNode \in Ref /\ pDown \in Ref /\ pOut \in Ref /\ pChild \in Ref
  /\ members \in SUBSET Node

-----------------------------------------------------------------------------
(* The shape of the tree around a node.                                    *)

IsLeft(n)    == pParent[n] # NULL /\ pLeft[pParent[n]] = n
Sibling(n)   == IF pParent[n] = NULL THEN NULL
                ELSE IF IsLeft(n) THEN pRight[pParent[n]] ELSE pLeft[pParent[n]]
Uncle(n)     == IF pParent[n] = NULL THEN NULL ELSE Sibling(pParent[n])
GrandParent(n) == IF pParent[n] = NULL THEN NULL ELSE pParent[pParent[n]]
IsRed(n)     == n # NULL /\ red[n]

\* The last node of the path that starts at n and follows f.
LastAlong(f, n) ==
  LET step[k \in Depth] == IF k = 0 THEN n
                           ELSE IF f[step[k - 1]] = NULL THEN step[k - 1]
                           ELSE f[step[k - 1]]
  IN  step[Cardinality(Node)]
FindMax(n) == LastAlong(pRight, n)
FindMin(n) == LastAlong(pLeft, n)

\* Mutant of ParentUpdate: the node that moves up keeps its old parent.
ParentUpdate_OldParent(t, n, r) ==
  LET up == t.parent[n] IN
  [root   |-> IF up = NULL THEN r ELSE t.root,
   left   |-> IF up # NULL /\ t.left[up] = n THEN [t.left EXCEPT ![up] = r] ELSE t.left,
   right  |-> IF up # NULL /\ t.left[up] # n /\ t.right[up] = n
              THEN [t.right EXCEPT ![up] = r] ELSE t.right,
   parent |-> t.parent]

\* What nodeParentUpdate does to the pointers t when r takes the place of n.
ParentUpdate(t, n, r) ==
  LET up == t.parent[n] IN
  [root   |-> IF up = NULL THEN r ELSE t.root,
   left   |-> IF up # NULL /\ t.left[up] = n THEN [t.left EXCEPT ![up] = r] ELSE t.left,
   right  |-> IF up # NULL /\ t.left[up] # n /\ t.right[up] = n
              THEN [t.right EXCEPT ![up] = r] ELSE t.right,
   parent |-> IF r # NULL THEN [t.parent EXCEPT ![r] = up] ELSE t.parent]

Now == [root |-> pRoot, left |-> pLeft, right |-> pRight, parent |-> pParent]

SetTree(t) ==
  /\ pRoot' = t.root /\ pLeft' = t.left /\ pRight' = t.right /\ pParent' = t.parent

\* The pointers after nodeRotateLeft and nodeRotateRight.
RotateLeft(t, n) ==
  LET c == t.right[n]
      g == t.left[c]
      u == ParentUpdate([root   |-> t.root,
                         right  |-> [t.right EXCEPT ![n] = g],
                         left   |-> [t.left EXCEPT ![c] = n],
                         parent |-> IF g = NULL THEN t.parent ELSE [t.parent EXCEPT ![g] = n]],
                        n, c)
  IN  IF c = NULL THEN t ELSE [u EXCEPT !.parent = [u.parent EXCEPT ![n] = c]]

RotateRight(t, n) ==
  LET c == t.left[n]
      g == t.right[c]
      u == ParentUpdate([root   |-> t.root,
                         left   |-> [t.left EXCEPT ![n] = g],
                         right  |-> [t.right EXCEPT ![c] = n],
                         parent |-> IF g = NULL THEN t.parent ELSE [t.parent EXCEPT ![g] = n]],
                        n, c)
  IN  IF c = NULL THEN t ELSE [u EXCEPT !.parent = [u.parent EXCEPT ![n] = c]]

\* The pointers after nodeSwap: n1 and n2 trade places in the tree.
Swap(t, n1, n2) ==
  LET other(x) == IF x = n1 THEN n2 ELSE IF x = n2 THEN n1 ELSE x
      traded(f) == [x \in Node |-> IF x \in members THEN other(f[other(x)]) ELSE f[x]]
  IN  [root |-> other(t.root), left |-> traded(t.left),
       right |-> traded(t.right), parent |-> traded(t.parent)]

-----------------------------------------------------------------------------
Init ==
  /\ pRoot = NULL /\ u32NumNode = 0
  /\ pLeft = [n \in Node |-> NULL] /\ pRight = [n \in Node |-> NULL]
  /\ pParent = [n \in Node |-> NULL] /\ red = [n \in Node |-> FALSE]
  /\ pc = "idle"
  /\ pNode = NULL /\ pDown = NULL /\ pOut = NULL /\ pChild = NULL
  /\ members = {}

Goto(l) == pc' = l
\* The call returns; its locals are gone.
Return ==
  /\ pc' = "idle" /\ pNode' = NULL /\ pDown' = NULL /\ pOut' = NULL /\ pChild' = NULL

\* The caller hands a node to xBTree_nodeAdd.
Add(n) ==
  /\ pc = "idle" /\ n \notin members
  /\ Goto("nodeAdd") /\ pNode' = n /\ members' = members \cup {n}
  /\ UNCHANGED <<tree, u32NumNode, red, pDown, pOut, pChild>>

\* The comparison of the tables: where it rests on xOidCmp (or on a memcmp that
\* returns a difference), it tests for -1, and all other differences are 1.
pNodeCmp(a, b) ==
  IF a = b THEN 0
  ELSE IF (Differences /\ a - b = -1) \/ (~Differences /\ a < b) THEN -1 ELSE 1

\* One turn of the descent; equal keys go left.
GoesLeft(n, m) == pNodeCmp(Key[n], Key[m]) <= 0
Below(n, m) == IF m = NULL THEN pRoot ELSE IF GoesLeft(n, m) THEN pLeft[m] ELSE pRight[m]

\* Mutant of Descend: each turn starts at the root again.
Descend_FromRoot ==
  /\ pc = "nodeAdd" /\ Below(pNode, pDown) # NULL
  /\ pDown' = pRoot
  /\ UNCHANGED <<tree, u32NumNode, red, pc, pNode, pOut, pChild, members>>

Descend ==
  /\ pc = "nodeAdd" /\ Below(pNode, pDown) # NULL
  /\ pDown' = Below(pNode, pDown)
  /\ UNCHANGED <<tree, u32NumNode, red, pc, pNode, pOut, pChild, members>>

\* Mutant of LinkLeaf: the first node of a tree is not counted.
LinkLeaf_Uncounted ==
  /\ pc = "nodeAdd" /\ pRoot = NULL
  /\ pRoot' = pNode
  /\ pParent' = [pParent EXCEPT ![pNode] = NULL]
  /\ Goto("insertRootCheck")
  /\ UNCHANGED <<pLeft, pRight, u32NumNode, red, call, members>>

LinkLeaf ==
  /\ pc = "nodeAdd" /\ Below(pNode, pDown) = NULL
  /\ pRoot' = IF pDown = NULL THEN pNode ELSE pRoot
  /\ pLeft' = IF pDown # NULL /\ GoesLeft(pNode, pDown)
              THEN [pLeft EXCEPT ![pDown] = pNode] ELSE pLeft
  /\ pRight' = IF pDown # NULL /\ ~GoesLeft(pNode, pDown)
               THEN [pRight EXCEPT ![pDown] = pNode] ELSE pRight
  /\ pParent' = [pParent EXCEPT ![pNode] = pDown]
  /\ u32NumNode' = u32NumNode + 1
  /\ Goto("insertRootCheck")
  /\ UNCHANGED <<red, call, members>>

-----------------------------------------------------------------------------
(* Rebalancing after an insertion.                                         *)

InsertRootCheck ==
  /\ pc = "insertRootCheck"
  /\ red' = [red EXCEPT ![pNode] = pParent[pNode] # NULL]
  /\ IF pParent[pNode] = NULL THEN Return
     ELSE Goto("insertParentCheck") /\ UNCHANGED call
  /\ UNCHANGED <<tree, u32NumNode, members>>

InsertParentCheck ==
  /\ pc = "insertParentCheck"
  /\ IF red[pParent[pNode]] THEN Goto("insertUncleCheck") /\ UNCHANGED call ELSE Return
  /\ UNCHANGED <<tree, u32NumNode, red, members>>

\* Mutant of InsertUncleCheck: the grandparent is recoloured but not looked at.
InsertUncleCheck_NoAscent ==
  /\ pc = "insertUncleCheck"
  /\ IF IsRed(Uncle(pNode))
     THEN /\ red' = [red EXCEPT ![pParent[pNode]] = FALSE, ![Uncle(pNode)] = FALSE,
                                ![GrandParent(pNode)] = TRUE]
          /\ Return
     ELSE Goto("insertParentAdjust") /\ UNCHANGED <<red, call>>
  /\ UNCHANGED <<tree, u32NumNode, members>>

InsertUncleCheck ==
  /\ pc = "insertUncleCheck"
  /\ IF IsRed(Uncle(pNode))
     THEN /\ red' = [red EXCEPT ![pParent[pNode]] = FALSE, ![Uncle(pNode)] = FALSE,
                                ![GrandParent(pNode)] = TRUE]
          /\ pNode' = GrandParent(pNode)
          /\ Goto("insertRootCheck")
     ELSE Goto("insertParentAdjust") /\ UNCHANGED <<red, pNode>>
  /\ UNCHANGED <<tree, u32NumNode, pDown, pOut, pChild, members>>

InsertParentAdjust ==
  /\ pc = "insertParentAdjust"
  /\ Goto(IF GrandParent(pNode) = NULL THEN "fault" ELSE "insertGrandParentCheck")
  /\ LET p == pParent[pNode]
         g == GrandParent(pNode)
     IN  IF g # NULL /\ pNode = pRight[p] /\ p = pLeft[g]
         THEN SetTree(RotateLeft(Now, p)) /\ pNode' = pLeft'[pNode]
         ELSE IF g # NULL /\ pNode = pLeft[p] /\ p = pRight[g]
         THEN SetTree(RotateRight(Now, p)) /\ pNode' = pRight'[pNode]
         ELSE UNCHANGED <<tree, pNode>>
  /\ UNCHANGED <<u32NumNode, red, pDown, pOut, pChild, members>>

InsertGrandParentCheck ==
  /\ pc = "insertGrandParentCheck"
  /\ LET p == pParent[pNode]
         g == GrandParent(pNode)
     IN  IF g = NULL THEN UNCHANGED <<tree, red>>
         ELSE /\ red' = [red EXCEPT ![p] = FALSE, ![g] = TRUE]
              /\ IF pNode = pLeft[p] /\ p = pLeft[g] THEN SetTree(RotateRight(Now, g))
                 ELSE IF pNode = pRight[p] /\ p = pRight[g] THEN SetTree(RotateLeft(Now, g))
                 ELSE UNCHANGED tree
  /\ Return
  /\ UNCHANGED <<u32NumNode, members>>

-----------------------------------------------------------------------------
(* Removal, and rebalancing before the node is unlinked.                   *)

\* A node with two children first trades places with its predecessor.
Remove(n) ==
  /\ pc = "idle" /\ n \in members
  /\ LET r == FindMax(pLeft[n])
         o == red[n]
     IN  IF pLeft[n] # NULL /\ pRight[n] # NULL
         THEN SetTree(Swap(Now, n, r)) /\ red' = [red EXCEPT ![n] = red[r], ![r] = o]
         ELSE UNCHANGED <<tree, red>>
  /\ Goto("removeChildCheck") /\ pNode' = n /\ pOut' = n
  /\ UNCHANGED <<u32NumNode, pDown, pChild, members>>

RemoveChildCheck ==
  /\ pc = "removeChildCheck"
  /\ pChild' = IF pLeft[pNode] # NULL THEN pLeft[pNode] ELSE pRight[pNode]
  /\ red' = IF ~red[pNode] /\ IsRed(pChild') THEN [red EXCEPT ![pChild'] = FALSE] ELSE red
  /\ Goto(IF red[pNode] \/ IsRed(pChild') THEN "removeUnlink" ELSE "removeRootCheck")
  /\ UNCHANGED <<tree, u32NumNode, pNode, pDown, pOut, members>>

RemoveRootCheck ==
  /\ pc = "removeRootCheck"
  /\ Goto(IF pParent[pNode] = NULL THEN "removeUnlink" ELSE "removeSiblingAdjust")
  /\ UNCHANGED <<tree, u32NumNode, red, call, members>>

\* Mutant of RemoveSiblingAdjust: a red sibling stays where it is.
RemoveSiblingAdjust_Skipped ==
  /\ pc = "removeSiblingAdjust"
  /\ Goto("removeSiblingCheck")
  /\ UNCHANGED <<tree, u32NumNode, red, call, members>>

RemoveSiblingAdjust ==
  /\ pc = "removeSiblingAdjust"
  /\ LET p == pParent[pNode]
         s == Sibling(pNode)
     IN  IF IsRed(s)
         THEN /\ red' = [red EXCEPT ![p] = TRUE, ![s] = FALSE]
              /\ SetTree(IF IsLeft(pNode) THEN RotateLeft(Now, p) ELSE RotateRight(Now, p))
         ELSE UNCHANGED <<tree, red>>
  /\ Goto("removeSiblingCheck")
  /\ UNCHANGED <<u32NumNode, call, members>>

HasBlackChildren(s) == ~IsRed(pLeft[s]) /\ ~IsRed(pRight[s])

RemoveSiblingCheck ==
  /\ pc = "removeSiblingCheck"
  /\ LET p == pParent[pNode]
         s == Sibling(pNode)
     IN  IF ~red[p] /\ s = NULL
         THEN Goto("fault") /\ UNCHANGED <<red, pNode>>
         ELSE IF ~red[p] /\ ~red[s] /\ HasBlackChildren(s)
         THEN /\ red' = [red EXCEPT ![s] = TRUE]
              /\ pNode' = p
              /\ Goto("removeRootCheck")
         ELSE Goto("removeParentCheck") /\ UNCHANGED <<red, pNode>>
  /\ UNCHANGED <<tree, u32NumNode, pDown, pOut, pChild, members>>

\* Mutants of RemoveParentCheck: the case of a red parent is missing, and the
\* sibling is not painted red.
RemoveParentCheck_Missing ==
  /\ pc = "removeParentCheck"
  /\ Goto("removeSiblingChildAdjust")
  /\ UNCHANGED <<tree, u32NumNode, red, call, members>>
RemoveParentCheck_SiblingBlack ==
  /\ pc = "removeParentCheck"
  /\ LET p == pParent[pNode]
         s == Sibling(pNode)
     IN  IF red[p] /\ ~IsRed(s) /\ HasBlackChildren(s)
         THEN red' = [red EXCEPT ![p] = FALSE] /\ Goto("removeUnlink")
         ELSE Goto("removeSiblingChildAdjust") /\ UNCHANGED red
  /\ UNCHANGED <<tree, u32NumNode, call, members>>

RemoveParentCheck ==
  /\ pc = "removeParentCheck"
  /\ LET p == pParent[pNode]
         s == Sibling(pNode)
     IN  IF red[p] /\ s # NULL /\ ~IsRed(s) /\ HasBlackChildren(s)
         THEN red' = [red EXCEPT ![s] = TRUE, ![p] = FALSE] /\ Goto("removeUnlink")
         ELSE Goto("removeSiblingChildAdjust") /\ UNCHANGED red
  /\ UNCHANGED <<tree, u32NumNode, call, members>>

RemoveSiblingChildAdjust ==
  /\ pc = "removeSiblingChildAdjust"
  /\ LET s == Sibling(pNode)
         l == pLeft[s]
         r == pRight[s]
     IN  IF s # NULL /\ ~IsRed(s) /\ IsLeft(pNode) /\ ~IsRed(r) /\ IsRed(l)
         THEN /\ red' = [red EXCEPT ![s] = TRUE, ![l] = FALSE]
              /\ SetTree(RotateRight(Now, s))
         ELSE IF s # NULL /\ ~IsRed(s) /\ ~IsLeft(pNode) /\ ~IsRed(l) /\ IsRed(r)
         THEN /\ red' = [red EXCEPT ![s] = TRUE, ![r] = FALSE]
              /\ SetTree(RotateLeft(Now, s))
         ELSE UNCHANGED <<tree, red>>
  /\ Goto("removeSiblingChildCheck")
  /\ UNCHANGED <<u32NumNode, call, members>>

RemoveSiblingChildCheck ==
  /\ pc = "removeSiblingChildCheck"
  /\ LET p == pParent[pNode]
         s == Sibling(pNode)
         c == IF s = NULL THEN NULL ELSE IF IsLeft(pNode) THEN pRight[s] ELSE pLeft[s]
     IN  IF c = NULL THEN Goto("fault") /\ UNCHANGED <<tree, red>>
         ELSE /\ red' = [red EXCEPT ![s] = red[p], ![p] = FALSE, ![c] = FALSE]
              /\ SetTree(IF IsLeft(pNode) THEN RotateLeft(Now, p) ELSE RotateRight(Now, p))
              /\ Goto("removeUnlink")
  /\ UNCHANGED <<u32NumNode, call, members>>

\* The rest of xBTree_RB_removeChildCheck and of xBTree_nodeRemove: the child
\* read before the rebalancing takes the place of the node.  With FreshNodes
\* the caller frees it (xBuffer_free), and the next xBuffer_cAlloc zeroes it.
RemoveUnlink ==
  /\ pc = "removeUnlink"
  /\ LET t == ParentUpdate(Now, pOut, pChild)
         zeroed(f) == IF FreshNodes THEN [f EXCEPT ![pOut] = NULL] ELSE f
     IN  SetTree([root |-> t.root, left |-> zeroed(t.left), right |-> zeroed(t.right),
                  parent |-> zeroed(t.parent)])
  /\ red' = IF FreshNodes THEN [red EXCEPT ![pOut] = FALSE] ELSE red
  /\ u32NumNode' = u32NumNode - 1
  /\ members' = members \ {pOut}
  /\ Return

Rebalance ==
  \/ Descend \/ LinkLeaf
  \/ InsertRootCheck \/ InsertParentCheck \/ InsertUncleCheck
  \/ InsertParentAdjust \/ InsertGrandParentCheck
  \/ RemoveChildCheck \/ RemoveRootCheck \/ RemoveSiblingAdjust \/ RemoveSiblingCheck
  \/ RemoveParentCheck \/ RemoveSiblingChildAdjust \/ RemoveSiblingChildCheck
  \/ RemoveUnlink

Next == (\E n \in Node : Add(n) \/ Remove(n)) \/ Rebalance

\* A call runs to its end: the thread that holds the table's lock keeps running.
Spec == Init /\ [][Next]_vars /\ WF_vars(Rebalance)

-----------------------------------------------------------------------------
(* Look-ups, as functions of the tree between two calls.                   *)

\* The node that nodeFind returns for key k.
NodeFind(k) ==
  LET step[d \in Depth] ==
        IF d = 0 THEN pRoot
        ELSE LET n == step[d - 1] IN
             IF n = NULL \/ Key[n] = k THEN n
             ELSE IF pNodeCmp(k, Key[n]) < 0 THEN pLeft[n] ELSE pRight[n]
  IN  step[Cardinality(Node)]

GetFirst == IF pRoot = NULL THEN NULL ELSE FindMin(pRoot)

\* Mutant of GetNext: the right child itself, not the first node below it.
GetNext_NoDescent(n) == IF pRight[n] # NULL THEN pRight[n] ELSE pParent[n]

\* The node that nodeGetNext returns: down and left, or up until a left child.
GetNext(n) ==
  LET climb[d \in Depth] ==
        IF d = 0 THEN n
        ELSE LET m == climb[d - 1] IN
             IF pParent[m] # NULL /\ pRight[pParent[m]] = m THEN pParent[m] ELSE m
  IN  IF pRight[n] # NULL THEN FindMin(pRight[n]) ELSE pParent[climb[Cardinality(Node)]]

\* Mutant of FindNext: stops at the key itself.
FindNext_Inclusive(k) == IF NodeFind(k) # NULL THEN NodeFind(k) ELSE GetFirst

\* The node that nodeFindNext returns: the next one after the last with key <= k.
FindNext(k) ==
  LET step[d \in Depth] ==
        IF d = 0 THEN [at |-> pRoot, prev |-> NULL]
        ELSE LET s == step[d - 1] IN
             IF s.at = NULL THEN s
             ELSE IF pNodeCmp(k, Key[s.at]) < 0 THEN [s EXCEPT !.at = pLeft[s.at]]
             ELSE [at |-> pRight[s.at], prev |-> s.at]
      prev == step[Cardinality(Node)].prev
  IN  IF prev = NULL THEN GetFirst ELSE GetNext(prev)

-----------------------------------------------------------------------------
(* Properties.                                                             *)

\* The children of the nodes X with X itself.
WithChildren(X) == X \cup {c \in Node : \E m \in X : c \in {pLeft[m], pRight[m]}}

\* The nodes at or below n.
Subtree(n) ==
  LET grow[d \in Depth] ==
        IF d = 0 THEN {n} \ {NULL}
        ELSE WithChildren(grow[d - 1])
  IN  grow[Cardinality(Node)]

\* Between two calls the tree holds exactly the nodes that were added and not
\* removed, each linked both ways, and u32NumNode counts them: no rotation,
\* swap or unlink loses or doubles a node.
HoldsMembers ==
  pc = "idle" =>
    /\ Subtree(pRoot) = members
    /\ u32NumNode = Cardinality(members)
    /\ \A n \in members :
         /\ pParent[n] = NULL => n = pRoot
         /\ pParent[n] # NULL => n \in {pLeft[pParent[n]], pRight[pParent[n]]}
         /\ pLeft[n] # NULL => pParent[pLeft[n]] = n
         /\ pRight[n] # NULL => pParent[pRight[n]] = n

\* Between two calls, no red node has a red child and the root is black.
NoRedRed ==
  pc = "idle" =>
    /\ ~IsRed(pRoot)
    /\ \A n \in members : red[n] => HasBlackChildren(n)

\* Between two calls, all paths from a node down to a missing child pass the
\* same number of black nodes: the tree is balanced after every removal too.
BlackHeight(n) ==
  LET paths[d \in Depth] == \* black nodes above each node d levels below n, itself included
        IF d = 0 THEN {<<n, IF red[n] THEN 0 ELSE 1>>}
        ELSE UNION {{<<c, b[2] + IF IsRed(c) THEN 0 ELSE 1>> : c \in {pLeft[b[1]], pRight[b[1]]}}
                    : b \in {p \in paths[d - 1] : p[1] # NULL}}
  IN  {p[2] : p \in {q \in UNION {paths[d] : d \in Depth} : q[1] = NULL}}
Balanced == pc = "idle" => \A n \in members : Cardinality(BlackHeight(n)) = 1

\* The rebalancing never follows a null pointer: the sibling and the sibling's
\* child that it reads unchecked always exist.
NoNullDereference == pc # "fault"

\* Every key that is in the tree is found, no other key is, and FindNext gives
\* a node with the least greater key, although equal keys were added to the
\* left and rotations may have moved them to the right.
LookupsAgree ==
  pc = "idle" =>
    \A k \in {Key[n] : n \in Node} \cup {0} :
      LET greater == {Key[n] : n \in {m \in members : Key[m] > k}} IN
      /\ IF \E n \in members : Key[n] = k
         THEN NodeFind(k) \in members /\ Key[NodeFind(k)] = k
         ELSE NodeFind(k) = NULL
      /\ IF greater = {} THEN FindNext(k) = NULL
         ELSE /\ FindNext(k) \in members /\ Key[FindNext(k)] \in greater
              /\ \A g \in greater : Key[FindNext(k)] <= g

\* A scan (GetFirst, then GetNext until NULL) visits every node once, in the
\* order of the keys.
ScanInOrder ==
  pc = "idle" =>
    LET scan[d \in Depth] == IF d = 0 THEN GetFirst
                             ELSE IF scan[d - 1] = NULL THEN NULL ELSE GetNext(scan[d - 1])
        count == Cardinality(members)
    IN  /\ {scan[d] : d \in 0 .. count - 1} = members
        /\ scan[count] = NULL
        /\ \A d \in 1 .. count - 1 : Key[scan[d - 1]] <= Key[scan[d]]

\* The two tests that the comments of removeSiblingChildAdjust call trivial:
\* there the sibling is black, and one of its children is red.
AdjustTestsTrivial ==
  pc = "removeSiblingChildAdjust" =>
    /\ Sibling(pNode) # NULL /\ ~IsRed(Sibling(pNode))
    /\ ~HasBlackChildren(Sibling(pNode))

\* Every call comes back: neither the descent nor the rebalancing loops.
CallsReturn == pc # "idle" ~> pc = "idle"
=============================================================================
