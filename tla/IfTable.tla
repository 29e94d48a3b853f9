-------------------------------- MODULE IfTable --------------------------------
(***************************************************************************)
(* The interface table and its stack (if/ifMIB.c): the rows that modules   *)
(* make, count references to and drop through ifTable_createReference and  *)
(* ifTable_removeReference, what a manager writes to them, and the rows    *)
(* of ifStackTable, made by a SET request, by modules, and for interfaces  *)
(* with nothing above or below them.                                       *)
(*                                                                         *)
(* All calls come from the agent's thread.  The phases of a SET of the     *)
(* stack are steps of their own, since the mappers of other tables of the  *)
(* same request run between them.  An operator returns the tables after a  *)
(* call with "ok", the call's result.                                      *)
(***************************************************************************)
EXTENDS Integers, FiniteSets, SequencesExt

CONSTANTS
  LastIndex,     \* ifIndex_end_c, the last index of oIfIndex_FreeRange
  Registered,    \* types with a row in ifTypeTable
  Type,          \* the values of neIfType
  Client,        \* rows of other tables that hold interfaces
  Call,          \* how each of them calls ifTable_createReference
  Written,       \* values of ifAdminStatus that a manager writes
  MaxReferences, \* bound on u32NumReferences
  MaxStack       \* bound on the rows that requests and modules add to the stack

\* given: whether the index is the caller's.  undo: whether the caller gives back
\* again what it did not get.  destroy: whether it deactivates what it gives back.
CallOf == [given : BOOLEAN, type : Type, admin : Nat, create : BOOLEAN, reference : BOOLEAN,
           activate : BOOLEAN, undo : BOOLEAN, destroy : BOOLEAN]

ASSUME IfTableAssumption ==
  /\ LastIndex \in Nat
  /\ MaxReferences \in Nat /\ MaxStack \in Nat
  /\ Type \subseteq Nat /\ 0 \in Type /\ Registered \subseteq Type \ {0}
  /\ Written \subseteq Nat
  /\ IsFiniteSet(Client)
  /\ Call \in [Client -> CallOf]
  /\ \A c \in Client : Call[c].create => Call[c].destroy
  /\ \A c \in Client : Call[c].undo => (Call[c].destroy <=> Call[c].activate)

VARIABLES
  ifs,     \* oIfTable_BTree: the rows, by index
  stack,   \* oIfStackTable_BTree: u8Status by <<higher, lower>>
  holds,   \* the interface that each client keeps, 0 for none
  pending  \* the SET of a row of the stack that is under way

vars == <<ifs, stack, holds, pending>>

Index == 1 .. LastIndex
Layer == 0 .. LastIndex

\* Values of ifAdminStatus, and the flags that callers add.
Up == 1
Down == 2
Testing == 3
FromParent == 16
Mask(s) == s % 8

NoRow == <<0, 0>>
NoRequest == [row |-> NoRow, value |-> "none", made |-> FALSE]
Create == {"createAndGo", "createAndWait"}
RowStatus == {"active", "notInService", "destroy"} \cup Create

Row == [status : {"active", "notInService"}, type : Type, neType : Type,
        admin : Nat, refs : Nat]

Without(f, x) == [y \in DOMAIN f \ {x} |-> f[y]]
With(f, x, v) == [y \in DOMAIN f \cup {x} |-> IF y = x THEN v ELSE f[y]]

-----------------------------------------------------------------------------
(* One row: activation and administrative status.                          *)

Done(r)   == [row |-> r, ok |-> TRUE]
Failed(r) == [row |-> r, ok |-> FALSE]

\* The handlers of a registered type accept what they are asked.
AdminUpdate(r) == r.type \in Registered

AdminHandle(r, s, propagate) ==
  IF r.admin = Mask(s) /\ ~propagate THEN Done(r)
  ELSE IF r.status # "active" /\ s # Mask(s) THEN Done([r EXCEPT !.admin = s])
  ELSE IF Mask(s) \notin {Up, Down, Testing} THEN Done(r)
  ELSE IF ~AdminUpdate(r) THEN Failed([r EXCEPT !.admin = IF Mask(s) = Up THEN Up ELSE @])
  ELSE Done([r EXCEPT !.admin = IF Mask(s) = Down /\ s >= FromParent THEN @ ELSE Mask(s)])

\* Mutant of Update: the type that is to be set is looked up.
Update_NewType(r, s) ==
  IF r.neType \notin Registered THEN Failed(r)
  ELSE IF s # "active" THEN Done(r)
  ELSE IF r.neType = 0 \/ r.type \notin {0, r.neType} THEN Failed(r)
  ELSE Done([r EXCEPT !.type = r.neType])

\* Mutant of Update: only to activate a row takes a registered type.
Update_Deactivates(r, s) ==
  IF s # "active" THEN Done(r)
  ELSE IF r.type \notin Registered \/ r.neType = 0 \/ r.type \notin {0, r.neType} THEN Failed(r)
  ELSE Done([r EXCEPT !.type = r.neType])

Update(r, s) ==
  IF r.type \notin Registered THEN Failed(r)
  ELSE IF s # "active" THEN Done(r)
  ELSE IF r.neType = 0 \/ r.type \notin {0, r.neType} THEN Failed(r)
  ELSE Done([r EXCEPT !.type = r.neType])

Activate(r) ==
  LET u == Update(r, "active")
  IN IF u.ok THEN AdminHandle([u.row EXCEPT !.status = "active"], u.row.admin, TRUE) ELSE u

Deactivate(r, s) ==
  LET a == AdminHandle(r, Down + FromParent, FALSE)
      u == Update(a.row, s)
  IN IF ~a.ok THEN a
     ELSE IF ~u.ok THEN u
     ELSE Done([u.row EXCEPT !.status = "notInService"])

Handle(r, s) ==
  IF r.status = s THEN Done(r)
  ELSE IF s = "active" THEN Activate(r)
  ELSE IF s = "createAndGo" THEN Failed(r)
  ELSE Deactivate(r, s)

-----------------------------------------------------------------------------
(* The stack.                                                              *)

Precedes(a, b) == a[1] < b[1] \/ (a[1] = b[1] /\ a[2] < b[2])
Flip(k) == <<k[2], k[1]>>

\* The first of the keys after k, NoRow if there is none.
After(keys, k) ==
  LET later == {m \in keys : Precedes(k, m)}
  IN IF later = {} THEN NoRow ELSE CHOOSE m \in later : \A n \in later : ~Precedes(n, m)

NextIndex(st, higher, lower) == After(DOMAIN st, <<higher, lower>>)
LToHNextIndex(st, higher, lower) ==
  Flip(After({Flip(k) : k \in DOMAIN st}, <<lower, higher>>))

Joins(k) == k[1] # 0 /\ k[2] # 0

\* Mutant of StackCreateHier: only the row that says that nothing is above goes.
StackCreateHier_Upper(st, k) == IF Joins(k) THEN Without(st, <<0, k[2]>>) ELSE st

\* The row, and with it no longer those that say that nothing is above or below.
StackCreateHier(st, k) == IF Joins(k) THEN Without(Without(st, <<k[1], 0>>), <<0, k[2]>>) ELSE st

StackCreateExt(st, k) == StackCreateHier(With(st, k, "notInService"), k)

StackCreateEntry(st, k) == IF k \in DOMAIN st THEN st ELSE With(st, k, "notInService")

\* The look-up of a row with this lower layer has its arguments swapped, and the
\* row itself is still in both trees.
StackRemoveHier(st, k) ==
  LET lowerNext  == LToHNextIndex(st, k[2], 0)
      low        == IF lowerNext = NoRow \/ lowerNext[2] # k[2]
                    THEN StackCreateEntry(st, <<0, k[2]>>) ELSE st
      higherNext == NextIndex(low, k[1], 0)
  IN IF ~Joins(k) THEN st
     ELSE IF higherNext = NoRow \/ higherNext[1] # k[1]
     THEN StackCreateEntry(low, <<k[1], 0>>) ELSE low

StackRemoveExt(st, k) == Without(StackRemoveHier(st, k), k)

\* ifType_stackModify asks for the type of the higher interface, twice.
StackHandle(st, k, s) ==
  LET to == IF s \in {"active", "createAndGo"} THEN "active" ELSE "notInService"
      allowed == /\ Joins(k)
                 /\ {k[1], k[2]} \subseteq DOMAIN ifs
                 /\ st[k] = to \/ s = "createAndWait" \/ ifs[k[1]].type \in Registered
  IN [stack |-> IF allowed THEN [st EXCEPT ![k] = to] ELSE st, ok |-> allowed]

-----------------------------------------------------------------------------
(* Rows of interfaces, with the rows of the stack that go with them.       *)

NewRow == [status |-> "notInService", type |-> 0, neType |-> 0, admin |-> Down, refs |-> 0]

\* The two rows are made only where another interface's row follows in the tree.
IfCreateHier(st, i) ==
  LET below == NextIndex(st, i, 0)
      low   == IF <<i, 0>> \notin DOMAIN st /\ below # NoRow /\ below[1] # i
               THEN With(st, <<i, 0>>, "active") ELSE st
      above == LToHNextIndex(low, 0, i)
  IN IF <<0, i>> \notin DOMAIN low /\ above # NoRow /\ above[2] # i
     THEN With(low, <<0, i>>, "active") ELSE low

\* All rows of a set, in order.
RemoveAll(st, keys) == FoldLeft(StackRemoveExt, st, SetToSortSeq(keys, Precedes))

IfRemoveHier(st, i) ==
  LET upper == RemoveAll(st, {k \in DOMAIN st : k[2] = i})
  IN RemoveAll(upper, {k \in DOMAIN upper : k[1] = i})

Tables(f, st, ok) == [ifs |-> f, stack |-> st, ok |-> ok]

RemoveExt(f, st, i) ==
  IF f[i].refs > 0 THEN Tables(f, st, TRUE) ELSE Tables(Without(f, i), IfRemoveHier(st, i), TRUE)

\* Mutant of RemoveReference: the reference goes before the row is deactivated.
RemoveReference_First(f, st, i, c) ==
  LET less == IF c.reference /\ f[i].refs > 0 THEN [f[i] EXCEPT !.refs = @ - 1] ELSE f[i]
      h    == IF c.activate THEN Handle(less, "destroy") ELSE Done(less)
  IN IF i \notin DOMAIN f THEN Tables(f, st, TRUE)
     ELSE IF h.ok /\ c.create THEN RemoveExt([f EXCEPT ![i] = h.row], st, i)
     ELSE Tables([f EXCEPT ![i] = h.row], st, h.ok)

\* Mutant of RemoveReference: and it goes whether there is one or not.
RemoveReference_Unchecked(f, st, i, c) ==
  LET less == IF c.reference THEN [f[i] EXCEPT !.refs = @ - 1] ELSE f[i]
      h    == IF c.activate THEN Handle(less, "destroy") ELSE Done(less)
  IN IF i \notin DOMAIN f THEN Tables(f, st, TRUE)
     ELSE IF h.ok /\ c.create THEN RemoveExt([f EXCEPT ![i] = h.row], st, i)
     ELSE Tables([f EXCEPT ![i] = h.row], st, h.ok)

\* With the flags of c: create, reference and activate.
RemoveReference(f, st, i, c) ==
  LET h    == IF c.activate THEN Handle(f[i], "destroy") ELSE Done(f[i])
      less == IF c.reference /\ h.row.refs > 0 THEN [h.row EXCEPT !.refs = @ - 1] ELSE h.row
  IN IF i \notin DOMAIN f THEN Tables(f, st, TRUE)
     ELSE IF ~h.ok THEN Tables([f EXCEPT ![i] = h.row], st, FALSE)
     ELSE IF c.create THEN RemoveExt([f EXCEPT ![i] = less], st, i)
     ELSE Tables([f EXCEPT ![i] = less], st, TRUE)

\* xFreeRange_getFreeIndex: the lowest index, 0 when none is left.
FreeIndex(f) ==
  LET free == Index \ DOMAIN f
  IN IF free = {} THEN 0 ELSE CHOOSE i \in free : \A j \in free : i <= j

\* The row that a call is about, made if it has to be; "none" where the call fails.
Enter(f, st, i, type, create) ==
  IF i \in DOMAIN f
  THEN Tables(f, st, type = 0 \/ f[i].type \in {0, type})
  ELSE IF create /\ i # 0 THEN Tables(With(f, i, NewRow), IfCreateHier(st, i), TRUE)
  ELSE Tables(f, st, FALSE)

\* A call that fails takes back with the same flags what it may not have done.
CreateReference(f, st, i, c) ==
  LET e == Enter(f, st, i, c.type, c.create)
      r == [e.ifs[i] EXCEPT !.neType = IF c.type # 0 THEN c.type ELSE @,
                            !.admin = IF c.admin # 0 THEN c.admin ELSE @,
                            !.refs = IF c.reference THEN @ + 1 ELSE @]
      h == IF c.activate THEN Handle(r, "active") ELSE Done(r)
      g == IF e.ok THEN [e.ifs EXCEPT ![i] = h.row] ELSE e.ifs
      undone == RemoveReference(g, e.stack, i, c)
  IN IF e.ok /\ h.ok THEN Tables(g, e.stack, TRUE)
     ELSE IF i = 0 THEN Tables(f, st, FALSE)
     ELSE [undone EXCEPT !.ok = FALSE]

-----------------------------------------------------------------------------
Init ==
  /\ ifs = << >>
  /\ stack = << >>
  /\ holds = [c \in Client |-> 0]
  /\ pending = NoRequest

\* How c calls ifTable_removeReference, and how a row of an I-LAN interface does.
Returning(c) == [create |-> c.create, reference |-> c.reference, activate |-> c.destroy]
ILan == [create |-> TRUE, reference |-> TRUE, activate |-> TRUE]

Change(t) == ifs' = t.ifs /\ stack' = t.stack

\* A row of another table asks for an interface.  Where its own creation is then
\* undone, it gives the interface back a second time.
Request(c, i) ==
  LET t == CreateReference(ifs, stack, i, Call[c])
      u == RemoveReference(t.ifs, t.stack, i, Returning(Call[c]))
  IN /\ holds[c] = 0 /\ i # 0
     /\ Call[c].given \/ i = FreeIndex(ifs)
     /\ i \in DOMAIN ifs => ifs[i].refs < MaxReferences
     /\ Change(IF ~t.ok /\ Call[c].undo THEN u ELSE t)
     /\ holds' = [holds EXCEPT ![c] = IF t.ok THEN i ELSE 0]
     /\ UNCHANGED pending

\* The row goes, unless ifTable_removeReference refuses.
Release(c) ==
  LET t == RemoveReference(ifs, stack, holds[c], Returning(Call[c]))
  IN /\ holds[c] # 0
     /\ Change(t)
     /\ holds' = [holds EXCEPT ![c] = IF t.ok THEN 0 ELSE @]
     /\ UNCHANGED pending

\* A row of ieee8021BridgeILanIfTable that a manager made has taken no reference,
\* and gives one back when it goes.
ReleaseILan(i) ==
  /\ Change(RemoveReference(ifs, stack, i, ILan))
  /\ UNCHANGED <<holds, pending>>

\* A manager's ifAdminStatus; UNDO puts the old one back.
SetAdminStatus(i, s) ==
  LET h == AdminHandle(ifs[i], s, FALSE)
  IN /\ h.ok
     /\ ifs' = [ifs EXCEPT ![i] = h.row]
     /\ UNCHANGED <<stack, holds, pending>>

\* neIfRowStatus in RESERVE1 of neIfTable_mapper.  The mapper asks whether the address
\* of the part oNe of the row is NULL, which it is not where there is no row either
\* (ifMIB.c:3083), so that every row passes for one that is active: creations are
\* refused, and no manager's row comes in RESERVE2 (3186) or goes in FREE and UNDO (3255, 3471).
Accepted(s) == s \notin Create

\* A manager's neIfRowStatus.  What the handler did in ACTION stays, whether or not it
\* refuses and whether or not UNDO follows; COMMIT removes the row.
SetRowStatus(i, s) ==
  LET h == Handle(ifs[i], s)
      f == [ifs EXCEPT ![i] = h.row]
      removed == IF h.ok /\ s = "destroy" THEN {RemoveExt(f, stack, i)} ELSE {}
  IN /\ Accepted(s)
     /\ \E t \in {Tables(f, stack, TRUE)} \cup removed : Change(t)
     /\ UNCHANGED <<holds, pending>>

SetType(i, t) ==
  /\ ifs[i].status # "active"
  /\ ifs' = [ifs EXCEPT ![i].neType = t]
  /\ UNCHANGED <<stack, holds, pending>>

\* Modules stack the interfaces that they hold; a row whose activation is refused stays.
CreateRegister(k) ==
  /\ pending = NoRequest
  /\ k \in DOMAIN stack \/ Cardinality(DOMAIN stack) < MaxStack
  /\ stack' = StackHandle(IF k \in DOMAIN stack THEN stack ELSE StackCreateExt(stack, k),
                          k, "active").stack
  /\ UNCHANGED <<ifs, holds, pending>>

RemoveRegister(k) ==
  /\ pending = NoRequest
  /\ k \in DOMAIN stack
  /\ StackHandle(stack, k, "destroy").ok
  /\ stack' = StackRemoveExt(stack, k)
  /\ UNCHANGED <<ifs, holds, pending>>

-----------------------------------------------------------------------------
(* A SET of ifStackStatus.                                                 *)

StackReserve(k, v) ==
  /\ pending = NoRequest
  /\ IF v \in Create THEN Joins(k) /\ k \notin DOMAIN stack /\ Cardinality(DOMAIN stack) < MaxStack
     ELSE k \in DOMAIN stack
  /\ stack' = IF v \in Create THEN StackCreateExt(stack, k) ELSE stack
  /\ pending' = [row |-> k, value |-> v, made |-> v \in Create]
  /\ UNCHANGED <<ifs, holds>>

\* Mutant of TakeBack: the row that the request made stays.
TakeBack_Keeps(st) == st

\* FREE and UNDO.
TakeBack(st) == IF pending.made THEN StackRemoveExt(st, pending.row) ELSE st

StackFree ==
  /\ pending # NoRequest
  /\ stack' = TakeBack(stack)
  /\ pending' = NoRequest
  /\ UNCHANGED <<ifs, holds>>

\* ACTION, and UNDO or COMMIT as the handler and the other tables have it.
StackAction ==
  LET h == StackHandle(stack, pending.row, pending.value)
  IN /\ pending # NoRequest
     /\ \/ stack' = TakeBack(h.stack)
        \/ /\ h.ok
           /\ stack' = IF pending.value = "destroy" THEN StackRemoveExt(h.stack, pending.row) ELSE h.stack
     /\ pending' = NoRequest
     /\ UNCHANGED <<ifs, holds>>

Next ==
  \/ \E c \in Client : Release(c) \/ \E i \in Index : Request(c, i)
  \/ \E i \in Index : ReleaseILan(i)
  \/ \E i \in DOMAIN ifs :
       \/ \E s \in Written : SetAdminStatus(i, s)
       \/ \E s \in RowStatus : SetRowStatus(i, s)
       \/ \E t \in Type : SetType(i, t)
  \/ \E k \in (DOMAIN ifs) \X (DOMAIN ifs) : CreateRegister(k) \/ RemoveRegister(k)
  \/ \E k \in Layer \X Layer, v \in RowStatus : StackReserve(k, v)
  \/ StackFree
  \/ StackAction

Spec == Init /\ [][Next]_vars

-----------------------------------------------------------------------------
TypeOK ==
  /\ DOMAIN ifs \subseteq Index
  /\ \A i \in DOMAIN ifs : ifs[i] \in Row
  /\ DOMAIN stack \subseteq Layer \X Layer
  /\ \A k \in DOMAIN stack : stack[k] \in {"active", "notInService"}
  /\ holds \in [Client -> Layer]
  /\ pending \in [row : Layer \X Layer, value : RowStatus \cup {"none"}, made : BOOLEAN]

\* An interface that somebody keeps is in the table, and counts a reference for
\* each row that took one (ifMIB.c:620, 638 and 664), although calls fail half-way and are
\* undone, some of them twice, and I-LANs drop references that they never took.
HoldersOf(i) == {c \in Client : holds[c] = i /\ Call[c].reference}

ReferencesHeld ==
  /\ \A c \in Client : holds[c] # 0 => holds[c] \in DOMAIN ifs
  /\ \A i \in DOMAIN ifs : Cardinality(HoldersOf(i)) <= ifs[i].refs

\* No sequence of calls makes an interface active: neIfRowStatus_update (ifUtils.c:585)
\* looks up the type that only it assigns, at 599.
NeverActive == \A i \in DOMAIN ifs : ifs[i].status = "notInService" /\ ifs[i].type = 0

\* Rows of the stack join two interfaces of the table; a SET that names others is
\* taken back (ifMIB.c:1771 and 2080).  neIfTable_removeExt takes the rows of the stack
\* along with an interface (ifTable_removeHier), but RowsStay says that it never gets there.
JoinsInterfaces ==
  \A k \in DOMAIN stack :
    Joins(k) => {k[1], k[2]} \subseteq DOMAIN ifs \/ (pending.made /\ pending.row = k)

\* An interface row stays for good once it is there: the creations that fail
\* (ifMIB.c:634), the rows that give an interface back (667) and a manager's destroy
\* (3501) all deactivate it before they remove it, which ifUtils.c:585 refuses.
RowsStay == [][DOMAIN ifs \subseteq DOMAIN ifs']_vars

\* The row that says that nothing is below an interface is not beside one that
\* says what is (ifMIB.c:1711 and 1747).
NothingBelowAlone ==
  \A k \in DOMAIN stack : Joins(k) => <<k[1], 0>> \notin DOMAIN stack

\* ifMIB.h:1088 enumerates the values of ifAdminStatus.
AdminStatusEnumerated == \A i \in DOMAIN ifs : ifs[i].admin \in {Up, Down, Testing}
===============================================================================
