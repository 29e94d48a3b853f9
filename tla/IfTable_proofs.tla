---------------------------- MODULE IfTable_proofs ----------------------------
(***************************************************************************)
(* Proofs about IfTable, for any number of interfaces, any callers and any *)
(* types: the tables stay well-formed, no interface becomes active and     *)
(* none goes, an interface that is held is there and counts its holders,   *)
(* and rows of the stack join interfaces that exist.                       *)
(***************************************************************************)
EXTENDS IfTable, WellFoundedInduction, FiniteSetTheorems, TLAPS

\* A row as all rows of the table are: out of service, and its type not set.
Idle == {r \in Row : r.status = "notInService" /\ r.type = 0}

IfsOK(f) == DOMAIN f \subseteq Index /\ \A i \in DOMAIN f : f[i] \in Idle

StackTyped(st) ==
  /\ DOMAIN st \subseteq Layer \X Layer
  /\ \A k \in DOMAIN st : st[k] \in {"active", "notInService"}

\* No row says that nothing is below an interface beside one that says what is.
BelowOK(st) == \A k \in DOMAIN st : Joins(k) => <<k[1], 0>> \notin DOMAIN st

StackOK(st) == StackTyped(st) /\ BelowOK(st)

-----------------------------------------------------------------------------
(* One row.                                                                *)

LEMMA Fields ==
  \A r : Done(r).row = r /\ Done(r).ok = TRUE /\ Failed(r).row = r /\ Failed(r).ok = FALSE
BY DEF Done, Failed

\* A row without a type takes no administrative status that needs a handler, and
\* none of its calls touches the references.
LEMMA AdminHandleIdle ==
  ASSUME NEW r \in Idle, NEW s \in Nat, NEW p \in BOOLEAN
  PROVE  /\ AdminHandle(r, s, p).row \in Idle
         /\ AdminHandle(r, s, p).row.refs = r.refs
         /\ AdminHandle(r, s, p).ok \in BOOLEAN
<1> DEFINE up == [r EXCEPT !.admin = IF Mask(s) = Up THEN Up ELSE @]
           h == AdminHandle(r, s, p)
<1>1. r.type \notin Registered
  BY IfTableAssumption DEF Idle
<1>2. \A a \in Nat : [r EXCEPT !.admin = a] \in Idle /\ [r EXCEPT !.admin = a].refs = r.refs
  BY DEF Idle, Row
<1>3. up \in Idle /\ up.refs = r.refs
  <2>1. (IF Mask(s) = Up THEN Up ELSE r.admin) \in Nat
    BY DEF Up, Idle, Row
  <2>2. QED BY <1>2, <2>1
<1>4. h = Done(r) \/ h = Done([r EXCEPT !.admin = s]) \/ h = Failed(up)
  BY <1>1 DEF AdminHandle, AdminUpdate
<1>5. CASE h = Done(r)
  BY <1>5, Fields
<1>6. CASE h = Done([r EXCEPT !.admin = s])
  <2> DEFINE set == [r EXCEPT !.admin = s]
  <2>1. set \in Idle /\ set.refs = r.refs
    BY <1>2
  <2> HIDE DEF h, set
  <2>2. h.row = set /\ h.ok = TRUE
    BY <1>6, Fields DEF set
  <2>3. QED BY <2>1, <2>2 DEF h
<1>7. CASE h = Failed(up)
  <2> HIDE DEF h, up
  <2>1. h.row = up /\ h.ok = FALSE
    BY <1>7, Fields
  <2>2. QED BY <1>3, <2>1 DEF h
<1>8. QED BY <1>4, <1>5, <1>6, <1>7

\* The handler of the row status accepts the status that the row has, and no other.
LEMMA HandleIdle ==
  ASSUME NEW r \in Idle, NEW s \in RowStatus
  PROVE  /\ Handle(r, s).row \in Idle
         /\ Handle(r, s).row.refs = r.refs
         /\ Handle(r, s).ok = (s = "notInService")
<1>1. r.status = "notInService" /\ r.type \notin Registered
  BY IfTableAssumption DEF Idle
<1>2. \A q \in Idle : Update(q, s) = Failed(q) /\ Update(q, "active") = Failed(q)
  BY IfTableAssumption DEF Update, Idle
<1>3. CASE s = "notInService"
  <2>1. Handle(r, s) = Done(r)
    BY <1>1, <1>3 DEF Handle
  <2>2. QED BY <1>3, <2>1, Fields
<1>4. CASE s = "active"
  <2>1. Handle(r, s) = Activate(r)
    BY <1>1, <1>4 DEF Handle
  <2>2. Update(r, "active") = Failed(r)
    BY <1>2
  <2>3. Activate(r) = Failed(r)
    BY <2>2, Fields DEF Activate
  <2>4. QED BY ZenonT(60), <1>4, <2>1, <2>3, Fields
<1>5. CASE s = "createAndGo"
  <2>1. Handle(r, s) = Failed(r)
    BY <1>1, <1>5 DEF Handle
  <2>2. QED BY <1>5, <2>1, Fields
<1>6. CASE s \in {"createAndWait", "destroy"}
  <2> DEFINE a == AdminHandle(r, Down + FromParent, FALSE)
  <2>0. Down + FromParent \in Nat /\ FALSE \in BOOLEAN
    BY DEF Down, FromParent
  <2>1. a.row \in Idle /\ a.row.refs = r.refs /\ a.ok \in BOOLEAN
    BY <2>0, AdminHandleIdle
  <2>2. Update(a.row, s) = Failed(a.row)
    BY <1>2, <2>1
  <2>3. Handle(r, s) = Deactivate(r, s)
    BY <1>1, <1>6 DEF Handle
  <2>4. Deactivate(r, s) = IF ~a.ok THEN a ELSE Failed(a.row)
    BY <2>2, Fields DEF Deactivate
  <2> HIDE DEF a
  <2>5. Handle(r, s) = a \/ Handle(r, s) = Failed(a.row)
    BY <2>3, <2>4
  <2>6. Handle(r, s).row = a.row
    BY <2>5, Fields
  <2>7. Handle(r, s).ok = FALSE
    BY <2>1, <2>3, <2>4, Fields
  <2>8. QED BY <1>6, <2>1, <2>6, <2>7
<1>7. QED BY <1>3, <1>4, <1>5, <1>6 DEF RowStatus, Create

-----------------------------------------------------------------------------
(* The stack.                                                              *)

LEMMA WithFacts ==
  ASSUME NEW f, NEW x, NEW v
  PROVE  /\ DOMAIN With(f, x, v) = DOMAIN f \cup {x}
         /\ With(f, x, v)[x] = v
         /\ \A y \in DOMAIN f : y # x => With(f, x, v)[y] = f[y]
BY DEF With

LEMMA WithoutFacts ==
  ASSUME NEW f, NEW x
  PROVE  /\ DOMAIN Without(f, x) = DOMAIN f \ {x}
         /\ \A y \in DOMAIN f \ {x} : Without(f, x)[y] = f[y]
BY DEF Without

LEMMA StackWith ==
  ASSUME NEW st, StackTyped(st), NEW k \in Layer \X Layer, NEW v \in {"active", "notInService"}
  PROVE  StackTyped(With(st, k, v)) /\ DOMAIN With(st, k, v) = DOMAIN st \cup {k}
<1> DEFINE new == With(st, k, v)
<1>1. /\ DOMAIN new = DOMAIN st \cup {k}
      /\ new[k] = v
      /\ \A y \in DOMAIN st : y # k => new[y] = st[y]
  BY DEF With
<1> HIDE DEF new
<1>2. StackTyped(new) /\ DOMAIN new = DOMAIN st \cup {k}
  <2>1. DOMAIN new \subseteq Layer \X Layer
    BY <1>1 DEF StackTyped
  <2>2. \A y \in DOMAIN new : new[y] \in {"active", "notInService"}
    BY <1>1 DEF StackTyped
  <2>3. QED BY <1>1, <2>1, <2>2 DEF StackTyped
<1>3. QED BY <1>2 DEF new

LEMMA StackWithout ==
  ASSUME NEW st, StackTyped(st), NEW k
  PROVE  StackTyped(Without(st, k)) /\ DOMAIN Without(st, k) = DOMAIN st \ {k}
<1> DEFINE new == Without(st, k)
<1>1. DOMAIN new = DOMAIN st \ {k} /\ \A y \in DOMAIN st \ {k} : new[y] = st[y]
  BY WithoutFacts
<1> HIDE DEF new
<1>2. StackTyped(new) /\ DOMAIN new = DOMAIN st \ {k}
  BY <1>1 DEF StackTyped
<1>3. QED BY <1>2 DEF new

LEMMA Layers ==
  ASSUME NEW k \in Layer \X Layer
  PROVE  /\ k[1] \in Layer /\ k[2] \in Layer
         /\ <<k[1], 0>> \in Layer \X Layer /\ <<0, k[2]>> \in Layer \X Layer
         /\ ~Joins(<<k[1], 0>>) /\ ~Joins(<<0, k[2]>>)
BY IfTableAssumption DEF Layer, Joins

\* A set of numbers has a least element.
LEMMA Least ==
  ASSUME NEW S \in SUBSET Nat, S # {}
  PROVE  \E n \in S : \A m \in S : n <= m
<1> DEFINE R == OpToRel(<, Nat)
<1>1. \E n \in S : \A m \in S : ~(<<m, n>> \in R)
  BY NatLessThanWellFounded, WFMin
<1>2. \A m, n \in S : m < n => <<m, n>> \in R
  BY DEF OpToRel
<1>3. PICK n \in S : \A m \in S : ~(<<m, n>> \in R)
  BY <1>1
<1>4. \A m \in S : ~(m < n)
  <2> HIDE DEF R
  <2> QED BY <1>2, <1>3
<1> QED
  <2> HIDE DEF R
  <2> QED BY <1>4

\* Of some keys one is the first.
LEMMA FirstOf ==
  ASSUME NEW keys \in SUBSET (Layer \X Layer), keys # {}
  PROVE  \E k \in keys : \A m \in keys : ~Precedes(m, k)
<1> DEFINE Highers == {k[1] : k \in keys}
<1>0. Layer \subseteq Nat
  BY IfTableAssumption DEF Layer
<1>1. PICK h \in Highers : \A g \in Highers : h <= g
  <2>1. Highers \in SUBSET Nat /\ Highers # {}
    BY <1>0
  <2> HIDE DEF Highers
  <2>2. QED BY <2>1, Least
<1> DEFINE Lowers == {l \in Layer : <<h, l>> \in keys}
<1>2. PICK l \in Lowers : \A m \in Lowers : l <= m
  <2>1. PICK k \in keys : h = k[1]
    OBVIOUS
  <2>2. k = <<h, k[2]>> /\ k[2] \in Layer
    BY <2>1
  <2>3. Lowers \in SUBSET Nat /\ Lowers # {}
    BY <1>0, <2>2
  <2> HIDE DEF Lowers
  <2>4. QED BY <2>3, Least
<1>3. <<h, l>> \in keys
  OBVIOUS
<1>4. ASSUME NEW m \in keys PROVE ~Precedes(m, <<h, l>>)
  <2>1. m \in Layer \X Layer
    OBVIOUS
  <2>2. m[1] \in Layer /\ m[2] \in Layer /\ m = <<m[1], m[2]>>
    BY <2>1
  <2>3. h \in Layer /\ l \in Layer
    OBVIOUS
  <2>4. h <= m[1]
    BY <1>1
  <2>5. m[1] = h => l <= m[2]
    BY <1>2, <2>2
  <2> HIDE DEF Highers, Lowers
  <2>6. m[1] \in Nat /\ m[2] \in Nat /\ h \in Nat /\ l \in Nat
    BY <1>0, <2>2, <2>3
  <2>7. ~(m[1] < h) /\ ~(m[1] = h /\ m[2] < l)
    BY <2>4, <2>5, <2>6
  <2>8. <<h, l>>[1] = h /\ <<h, l>>[2] = l
    OBVIOUS
  <2>9. QED BY <2>7, <2>8 DEF Precedes
<1>5. QED BY <1>3, <1>4

\* Where a row says what is below an interface, the first row after <<h, 0>> is
\* one of the same interface.
LEMMA BelowFollows ==
  ASSUME NEW st, StackTyped(st), NEW m \in DOMAIN st, Joins(m)
  PROVE  NextIndex(st, m[1], 0) # NoRow /\ NextIndex(st, m[1], 0)[1] = m[1]
<1> DEFINE k == <<m[1], 0>>
           later == {n \in DOMAIN st : Precedes(k, n)}
           first == CHOOSE n \in later : \A q \in later : ~Precedes(q, n)
<1>1. m \in Layer \X Layer /\ m[1] \in Nat /\ m[2] \in Nat /\ m[1] # 0 /\ m[2] # 0
  BY IfTableAssumption DEF StackTyped, Layer, Joins
<1>2. m \in later
  BY <1>1 DEF Precedes
<1>3. later \in SUBSET (Layer \X Layer)
  BY DEF StackTyped
<1>4. NextIndex(st, m[1], 0) = first
  <2>1. later # {}
    BY <1>2
  <2>2. QED BY <2>1 DEF NextIndex, After
<1>5. first \in later /\ \A q \in later : ~Precedes(q, first)
  <2>1. \E n \in later : \A q \in later : ~Precedes(q, n)
    <3> HIDE DEF later
    <3> QED BY <1>2, <1>3, FirstOf
  <2> HIDE DEF later
  <2>2. QED BY <2>1
<1>6. first \in Layer \X Layer /\ Precedes(k, first) /\ ~Precedes(m, first)
  BY <1>2, <1>3, <1>5
<1> HIDE DEF first
<1>7. first[1] \in Nat /\ first[2] \in Nat
  BY <1>6, IfTableAssumption DEF Layer
<1>8. first[1] = m[1]
  BY <1>1, <1>6, <1>7 DEF Precedes
<1>9. first # NoRow
  BY <1>1, <1>8 DEF NoRow
<1>10. QED BY <1>4, <1>8, <1>9

\* Rows that join nothing come and go: with nothing above an interface, or with
\* nothing below one of which no row says what is.
LEMMA BelowWith ==
  ASSUME NEW st, NEW new, BelowOK(st), NEW k, ~Joins(k), DOMAIN new \subseteq DOMAIN st \cup {k},
         k[1] # 0 => \A m \in DOMAIN st : Joins(m) => m[1] # k[1]
  PROVE  BelowOK(new)
<1> SUFFICES ASSUME NEW m \in DOMAIN new, Joins(m), <<m[1], 0>> \in DOMAIN new
             PROVE  FALSE
  BY DEF BelowOK
<1>1. m \in DOMAIN st
  OBVIOUS
<1>2. <<m[1], 0>> = k
  BY <1>1 DEF BelowOK
<1>3. k[1] = m[1] /\ k[1] # 0
  BY <1>2 DEF Joins
<1>4. QED BY <1>1, <1>3

LEMMA BelowWithout ==
  ASSUME NEW st, StackOK(st), NEW k
  PROVE  StackOK(Without(st, k)) /\ DOMAIN Without(st, k) = DOMAIN st \ {k}
<1>1. StackTyped(Without(st, k)) /\ DOMAIN Without(st, k) = DOMAIN st \ {k}
  BY StackWithout DEF StackOK
<1>2. BelowOK(Without(st, k))
  BY <1>1 DEF StackOK, BelowOK
<1>3. QED BY <1>1, <1>2 DEF StackOK

\* A row comes, and of the others at most some go.
LEMMA StackCreated ==
  ASSUME NEW st, StackOK(st), NEW k \in Layer \X Layer, Joins(k)
  PROVE  /\ StackOK(StackCreateExt(st, k))
         /\ DOMAIN StackCreateExt(st, k) \subseteq DOMAIN st \cup {k}
         /\ k \in DOMAIN StackCreateExt(st, k)
<1> DEFINE new == With(st, k, "notInService")
           one == Without(new, <<k[1], 0>>)
           two == Without(one, <<0, k[2]>>)
<1>1. StackTyped(new) /\ DOMAIN new = DOMAIN st \cup {k}
  BY StackWith DEF StackOK
<1>2. StackTyped(one) /\ DOMAIN one = DOMAIN new \ {<<k[1], 0>>}
  BY <1>1, StackWithout
<1>3. StackTyped(two) /\ DOMAIN two = DOMAIN one \ {<<0, k[2]>>}
  BY <1>2, StackWithout
<1>4. StackCreateExt(st, k) = two
  BY DEF StackCreateExt, StackCreateHier
<1>5. k # <<k[1], 0>> /\ k # <<0, k[2]>>
  BY DEF Joins
<1> HIDE DEF new, one, two
<1>6. BelowOK(two)
  <2>1. SUFFICES ASSUME NEW m \in DOMAIN two, Joins(m), <<m[1], 0>> \in DOMAIN two
                 PROVE  FALSE
    BY DEF BelowOK
  <2>2. <<m[1], 0>> \in DOMAIN st
    <3>1. <<m[1], 0>> # k
      BY DEF Joins
    <3>2. QED BY <1>1, <1>2, <1>3, <2>1, <3>1
  <2>3. m = k
    BY <1>1, <1>2, <1>3, <2>1, <2>2 DEF StackOK, BelowOK
  <2>4. QED BY <1>2, <1>3, <2>1, <2>3
<1>7. QED BY <1>1, <1>2, <1>3, <1>4, <1>5, <1>6 DEF StackOK

\* A row goes, and rows that come join nothing.
LEMMA StackRemoved ==
  ASSUME NEW st, StackOK(st), NEW k \in Layer \X Layer
  PROVE  /\ StackOK(StackRemoveExt(st, k))
         /\ k \notin DOMAIN StackRemoveExt(st, k)
         /\ \A m \in DOMAIN StackRemoveExt(st, k) : Joins(m) => m \in DOMAIN st
<1> DEFINE low == StackCreateEntry(st, <<0, k[2]>>)
           Same(a, b) == /\ StackOK(b)
                         /\ \A m \in DOMAIN b : Joins(m) => m \in DOMAIN a
           nobody(a) == NextIndex(a, k[1], 0) = NoRow \/ NextIndex(a, k[1], 0)[1] # k[1]
<1>1. ASSUME NEW a, StackOK(a), NEW n \in Layer \X Layer, ~Joins(n),
             n[1] # 0 => \A m \in DOMAIN a : Joins(m) => m[1] # n[1]
      PROVE  Same(a, StackCreateEntry(a, n))
  <2> DEFINE new == With(a, n, "notInService")
  <2>1. StackTyped(new) /\ DOMAIN new = DOMAIN a \cup {n}
    BY <1>1, StackWith DEF StackOK
  <2>2. StackCreateEntry(a, n) \in {a, new}
    BY DEF StackCreateEntry
  <2> HIDE DEF new
  <2>3. BelowOK(new)
    BY <1>1, <2>1, BelowWith DEF StackOK
  <2>4. QED BY <1>1, <2>1, <2>2, <2>3 DEF StackOK
<1>2. Same(st, st)
  OBVIOUS
<1>3. Same(st, low)
  <2>1. <<0, k[2]>> \in Layer \X Layer /\ ~Joins(<<0, k[2]>>) /\ <<0, k[2]>>[1] = 0
    BY Layers
  <2> HIDE DEF Same
  <2>2. QED BY <1>1, <2>1
<1>4. ASSUME NEW a, Same(st, a), nobody(a)
      PROVE  Same(st, StackCreateEntry(a, <<k[1], 0>>))
  <2>1. <<k[1], 0>> \in Layer \X Layer /\ ~Joins(<<k[1], 0>>) /\ <<k[1], 0>>[1] = k[1]
    BY Layers
  <2>2. \A m \in DOMAIN a : Joins(m) => m[1] # k[1]
    BY <1>4, BelowFollows DEF StackOK
  <2>3. Same(a, StackCreateEntry(a, <<k[1], 0>>))
    <3> HIDE DEF Same
    <3> QED BY <1>1, <1>4, <2>1, <2>2 DEF Same
  <2>4. QED BY <1>4, <2>3
<1>5. \/ StackRemoveHier(st, k) \in {st, low}
      \/ nobody(st) /\ StackRemoveHier(st, k) = StackCreateEntry(st, <<k[1], 0>>)
      \/ nobody(low) /\ StackRemoveHier(st, k) = StackCreateEntry(low, <<k[1], 0>>)
  BY DEF StackRemoveHier
<1>6. Same(st, StackRemoveHier(st, k))
  <2> HIDE DEF Same, low, nobody
  <2>1. QED BY <1>2, <1>3, <1>4, <1>5
<1>7. QED BY ZenonT(60), <1>6, BelowWithout DEF StackRemoveExt

LEMMA StackHandled ==
  ASSUME NEW st, StackOK(st), NEW k, NEW s
  PROVE  /\ StackOK(StackHandle(st, k, s).stack)
         /\ DOMAIN StackHandle(st, k, s).stack = DOMAIN st
         /\ StackHandle(st, k, s).ok \in BOOLEAN
         /\ StackHandle(st, k, s).ok => {k[1], k[2]} \subseteq DOMAIN ifs
<1> DEFINE to == IF s \in {"active", "createAndGo"} THEN "active" ELSE "notInService"
<1>1. StackHandle(st, k, s).stack \in {st, [st EXCEPT ![k] = to]}
  BY DEF StackHandle
<1>2. StackOK([st EXCEPT ![k] = to]) /\ DOMAIN [st EXCEPT ![k] = to] = DOMAIN st
  BY DEF StackOK, StackTyped, BelowOK
<1>3. /\ StackHandle(st, k, s).ok \in BOOLEAN
      /\ StackHandle(st, k, s).ok => {k[1], k[2]} \subseteq DOMAIN ifs
  BY DEF StackHandle
<1>4. QED BY <1>1, <1>2, <1>3

LEMMA StackOfInterface ==
  ASSUME NEW st, StackOK(st), NEW i \in Index
  PROVE  /\ StackOK(IfCreateHier(st, i))
         /\ \A m \in DOMAIN IfCreateHier(st, i) : Joins(m) => m \in DOMAIN st
<1> DEFINE below == NextIndex(st, i, 0)
           lowest == With(st, <<i, 0>>, "active")
           low == IF <<i, 0>> \notin DOMAIN st /\ below # NoRow /\ below[1] # i THEN lowest ELSE st
           high == With(low, <<0, i>>, "active")
<1>1. <<i, 0>> \in Layer \X Layer /\ <<0, i>> \in Layer \X Layer
  BY IfTableAssumption DEF Index, Layer
<1>2. ~Joins(<<i, 0>>) /\ ~Joins(<<0, i>>)
  BY DEF Joins
<1>3. StackTyped(lowest) /\ DOMAIN lowest = DOMAIN st \cup {<<i, 0>>}
  BY <1>1, StackWith DEF StackOK
<1>4. below # NoRow /\ below[1] # i => BelowOK(lowest)
  <2>1. ASSUME below[1] # i
        PROVE  \A m \in DOMAIN st : Joins(m) => m[1] # i
    BY <2>1, BelowFollows DEF StackOK
  <2>2. <<i, 0>>[1] = i
    OBVIOUS
  <2> HIDE DEF below, lowest
  <2>3. QED BY <1>2, <1>3, <2>1, <2>2, BelowWith DEF StackOK
<1> HIDE DEF lowest, below
<1>5. StackOK(low) /\ \A m \in DOMAIN low : Joins(m) => m \in DOMAIN st
  BY <1>2, <1>3, <1>4 DEF StackOK
<1>6. IfCreateHier(st, i) \in {low, high}
  BY DEF IfCreateHier, lowest, below
<1> HIDE DEF low
<1>7. StackTyped(high) /\ DOMAIN high = DOMAIN low \cup {<<0, i>>}
  BY <1>1, <1>5, StackWith DEF StackOK
<1> HIDE DEF high
<1>8. BelowOK(high)
  <2>1. <<0, i>>[1] = 0
    OBVIOUS
  <2>2. QED BY <1>2, <1>5, <1>7, <2>1, BelowWith DEF StackOK
<1>9. QED BY <1>2, <1>5, <1>6, <1>7, <1>8 DEF StackOK

-----------------------------------------------------------------------------
(* Interfaces.                                                             *)

LEMMA NewRowIdle == NewRow \in Idle /\ NewRow.refs = 0
BY IfTableAssumption DEF NewRow, Idle, Row, Down

\* With no row that can be deactivated, no row goes, and a reference goes only
\* with a call that succeeds and does not deactivate.
LEMMA RemoveReferenceOutcome ==
  ASSUME NEW f, IfsOK(f), NEW st, NEW i, NEW c, c.create => c.activate,
         NEW t, t = RemoveReference(f, st, i, c)
  PROVE  /\ t.stack = st /\ t.ok \in BOOLEAN
         /\ IfsOK(t.ifs) /\ DOMAIN t.ifs = DOMAIN f
         /\ \A j \in DOMAIN f : j # i \/ c.activate => t.ifs[j].refs = f[j].refs
         /\ i \in DOMAIN f /\ c.activate => ~t.ok
         /\ i \in DOMAIN f /\ ~c.activate =>
              t.ok /\ t.ifs[i].refs >= f[i].refs - (IF c.reference THEN 1 ELSE 0)
<1>1. CASE i \notin DOMAIN f
  <2>1. t = Tables(f, st, TRUE)
    BY <1>1 DEF RemoveReference
  <2>2. t.ifs = f /\ t.stack = st /\ t.ok = TRUE
    BY <2>1 DEF Tables
  <2>3. QED BY <1>1, <2>2
<1>2. CASE i \in DOMAIN f /\ c.activate
  <2> DEFINE h == Handle(f[i], "destroy")
             g == [f EXCEPT ![i] = h.row]
  <2>1. h.row \in Idle /\ h.row.refs = f[i].refs /\ h.ok = FALSE
    <3>1. f[i] \in Idle /\ "destroy" \in RowStatus
      BY <1>2 DEF IfsOK, RowStatus
    <3>2. h.ok = ("destroy" = "notInService") /\ h.row \in Idle /\ h.row.refs = f[i].refs
      BY <3>1, HandleIdle
    <3>3. QED BY <3>2
  <2>2. t = Tables(g, st, FALSE)
    BY <1>2, <2>1 DEF RemoveReference
  <2> HIDE DEF h
  <2>3. t.ifs = g /\ t.stack = st /\ t.ok = FALSE
    BY <2>2 DEF Tables
  <2>4. /\ DOMAIN g = DOMAIN f /\ g[i] = h.row
        /\ \A j \in DOMAIN f : j # i => g[j] = f[j]
    BY <1>2
  <2>5. IfsOK(g)
    BY <2>1, <2>4 DEF IfsOK
  <2> HIDE DEF g
  <2>6. \A j \in DOMAIN f : g[j].refs = f[j].refs
    BY <2>1, <2>4
  <2>7. QED BY <1>2, <2>3, <2>4, <2>5, <2>6
<1>3. CASE i \in DOMAIN f /\ ~c.activate
  <2> DEFINE less == IF c.reference /\ f[i].refs > 0 THEN [f[i] EXCEPT !.refs = @ - 1] ELSE f[i]
             g == [f EXCEPT ![i] = less]
  <2>1. f[i] \in Idle /\ f[i].refs \in Nat
    BY <1>3 DEF IfsOK, Idle, Row
  <2>2. less \in Idle /\ less.refs >= f[i].refs - (IF c.reference THEN 1 ELSE 0)
    BY <2>1 DEF Idle, Row
  <2>3. t = Tables(g, st, TRUE)
    BY <1>3, Fields DEF RemoveReference
  <2> HIDE DEF less
  <2>4. t.ifs = g /\ t.stack = st /\ t.ok = TRUE
    BY <2>3 DEF Tables
  <2>5. /\ DOMAIN g = DOMAIN f /\ g[i] = less
        /\ \A j \in DOMAIN f : j # i => g[j] = f[j]
    BY <1>3
  <2>6. IfsOK(g)
    BY <2>2, <2>5 DEF IfsOK
  <2> HIDE DEF g
  <2>7. QED BY <1>3, <2>2, <2>4, <2>5, <2>6
<1>4. QED BY <1>1, <1>2, <1>3

\* What a call with these arguments returns has the three fields.
LEMMA RemoveReferenceShape ==
  ASSUME NEW f, NEW st, NEW i, NEW c, NEW u, u = RemoveReference(f, st, i, c)
  PROVE  u = Tables(u.ifs, u.stack, u.ok)
<1>1. \E a, b, d : u = Tables(a, b, d)
  BY DEF RemoveReference, RemoveExt
<1>2. PICK a, b, d : u = Tables(a, b, d)
  BY <1>1
<1>3. u.ifs = a /\ u.stack = b /\ u.ok = d
  BY <1>2 DEF Tables
<1>4. QED BY <1>2, <1>3

\* The row that a call registers at, before it is activated.
Registering(r, c) ==
  [r EXCEPT !.neType = IF c.type # 0 THEN c.type ELSE @,
            !.admin = IF c.admin # 0 THEN c.admin ELSE @,
            !.refs = IF c.reference THEN @ + 1 ELSE @]

LEMMA NewReference ==
  ASSUME NEW r \in Idle, NEW c \in CallOf
  PROVE  /\ Registering(r, c) \in Idle
         /\ Registering(r, c).refs = r.refs + (IF c.reference THEN 1 ELSE 0)
<1> DEFINE neType == IF c.type # 0 THEN c.type ELSE r.neType
           admin == IF c.admin # 0 THEN c.admin ELSE r.admin
           refs == IF c.reference THEN r.refs + 1 ELSE r.refs
<1>1. neType \in Type /\ admin \in Nat /\ refs \in Nat
  BY DEF Idle, Row, CallOf
<1>2. refs = r.refs + (IF c.reference THEN 1 ELSE 0)
  BY DEF Idle, Row
<1>3. Registering(r, c) = [r EXCEPT !.neType = neType, !.admin = admin, !.refs = refs]
  BY DEF Registering
<1> HIDE DEF neType, admin, refs
<1>4. Registering(r, c) = [status |-> r.status, type |-> r.type, neType |-> neType, admin |-> admin, refs |-> refs]
  BY <1>3 DEF Idle, Row
<1>5. QED BY <1>1, <1>2, <1>4 DEF Idle, Row

\* A call makes no row but its own and takes no reference from any; it succeeds with
\* the reference that it was to take.
LEMMA CreateReferenceOutcome ==
  ASSUME NEW f, IfsOK(f), NEW st, StackOK(st), NEW i \in Index, NEW c \in CallOf,
         NEW t, t = CreateReference(f, st, i, c)
  PROVE  /\ StackOK(t.stack)
         /\ \A m \in DOMAIN t.stack : Joins(m) => m \in DOMAIN st
         /\ IfsOK(t.ifs) /\ DOMAIN f \subseteq DOMAIN t.ifs
         /\ \A j \in DOMAIN f : t.ifs[j].refs >= f[j].refs
         /\ t.ok \in BOOLEAN
         /\ t.ok => i \in DOMAIN t.ifs
         /\ t.ok /\ c.reference /\ i \in DOMAIN f => t.ifs[i].refs >= f[i].refs + 1
         /\ t.ok /\ c.reference => t.ifs[i].refs >= 1
         /\ ~t.ok /\ ~c.activate => i \notin DOMAIN t.ifs
<1> DEFINE e == Enter(f, st, i, c.type, c.create)
           r == Registering(e.ifs[i], c)
           h == IF c.activate THEN Handle(r, "active") ELSE Done(r)
           g == IF e.ok THEN [e.ifs EXCEPT ![i] = h.row] ELSE e.ifs
           u == RemoveReference(g, e.stack, i, c)
<1>0. t = IF e.ok /\ h.ok THEN Tables(g, e.stack, TRUE) ELSE [u EXCEPT !.ok = FALSE]
  <2>1. i # 0
    BY DEF Index
  <2>2. QED BY ZenonT(60), <2>1 DEF CreateReference, Registering
<1>1. /\ e.ok \in BOOLEAN /\ StackOK(e.stack) /\ IfsOK(e.ifs)
      /\ \A m \in DOMAIN e.stack : Joins(m) => m \in DOMAIN st
      /\ \A j \in DOMAIN f : j \in DOMAIN e.ifs /\ e.ifs[j] = f[j]
      /\ e.ok => i \in DOMAIN e.ifs
      /\ ~e.ok => i \notin DOMAIN e.ifs /\ e.ifs = f
  <2>1. CASE i \in DOMAIN f
    <3>1. e = Tables(f, st, TRUE)
      BY <2>1 DEF Enter, IfsOK, Idle
    <3>2. e.ifs = f /\ e.stack = st /\ e.ok = TRUE
      BY <3>1 DEF Tables
    <3> HIDE DEF e
    <3>3. QED BY <2>1, <3>2
  <2>2. CASE i \notin DOMAIN f /\ c.create
    <3> DEFINE new == With(f, i, NewRow)
    <3>1. i # 0
      BY DEF Index
    <3>2. e = Tables(new, IfCreateHier(st, i), TRUE)
      BY <2>2, <3>1 DEF Enter
    <3>3. e.ifs = new /\ e.stack = IfCreateHier(st, i) /\ e.ok = TRUE
      BY <3>2 DEF Tables
    <3>4. /\ DOMAIN new = DOMAIN f \cup {i} /\ new[i] = NewRow
          /\ \A j \in DOMAIN f : new[j] = f[j]
      BY <2>2 DEF With
    <3> HIDE DEF e, new
    <3>5. IfsOK(new)
      BY <3>4, NewRowIdle DEF IfsOK
    <3>6. QED BY <3>3, <3>4, <3>5, StackOfInterface
  <2>3. CASE i \notin DOMAIN f /\ ~c.create
    <3>1. e = Tables(f, st, FALSE)
      BY <2>3 DEF Enter
    <3>2. e.ifs = f /\ e.stack = st /\ e.ok = FALSE
      BY <3>1 DEF Tables
    <3> HIDE DEF e
    <3>3. QED BY <2>3, <3>2
  <2>4. QED BY <2>1, <2>2, <2>3
<1>2. CASE ~e.ok
  <2>1. u = Tables(f, e.stack, TRUE)
    BY <1>1, <1>2 DEF RemoveReference
  <2> HIDE DEF u
  <2>2. u.ifs = f /\ u.stack = e.stack
    BY <2>1 DEF Tables
  <2>3. t = [u EXCEPT !.ok = FALSE]
    BY <1>0, <1>2
  <2>4. t.ifs = f /\ t.stack = e.stack /\ t.ok = FALSE
    BY <2>1, <2>2, <2>3 DEF Tables
  <2> HIDE DEF e
  <2>5. \A j \in DOMAIN f : f[j].refs \in Nat
    BY DEF IfsOK, Idle, Row
  <2>6. \A j \in DOMAIN f : t.ifs[j].refs >= f[j].refs
    BY <2>4, <2>5
  <2>7. QED BY <1>1, <1>2, <2>4, <2>6
<1>3. CASE e.ok
  <2>1. /\ r \in Idle
        /\ r.refs = e.ifs[i].refs + (IF c.reference THEN 1 ELSE 0)
    <3>1. e.ifs[i] \in Idle /\ c.type \in Type /\ c.admin \in Nat
      BY <1>1, <1>3 DEF IfsOK, CallOf
    <3> HIDE DEF e
    <3>2. QED BY <3>1, NewReference
  <2> HIDE DEF r
  <2>2. h.row \in Idle /\ h.row.refs = r.refs /\ h.ok \in BOOLEAN
    BY ZenonT(60), <2>1, HandleIdle, Fields DEF RowStatus
  <2>3. h.ok => ~c.activate
    BY <2>1, HandleIdle DEF RowStatus
  <2>4. ~c.activate => h.ok
    BY Fields
  <2> HIDE DEF h
  <2>5. /\ DOMAIN g = DOMAIN e.ifs /\ g[i] = h.row
        /\ \A j \in DOMAIN e.ifs : j # i => g[j] = e.ifs[j]
    BY <1>1, <1>3
  <2> HIDE DEF g
  <2>6. IfsOK(g)
    BY <1>1, <1>3, <2>2, <2>5 DEF IfsOK
  <2>7. \A j \in DOMAIN f : g[j].refs >= f[j].refs
    BY <1>1, <1>3, <2>1, <2>2, <2>5 DEF IfsOK, Idle, Row
  <2>8. /\ c.reference => g[i].refs >= e.ifs[i].refs + 1
        /\ e.ifs[i].refs >= 0
    BY <1>1, <1>3, <2>1, <2>2, <2>5 DEF IfsOK, Idle, Row
  <2>9. CASE h.ok
    <3> HIDE DEF e
    <3>1. t = Tables(g, e.stack, TRUE)
      BY <1>0, <1>3, <2>9
    <3>2. t.ifs = g /\ t.stack = e.stack /\ t.ok = TRUE
      BY <3>1 DEF Tables
    <3>3. \A j \in DOMAIN f : j \in DOMAIN t.ifs
      BY <1>1, <2>5, <3>2
    <3>4. c.reference => t.ifs[i].refs >= 1
      <4>1. g[i].refs \in Nat /\ e.ifs[i].refs \in Nat
        BY <1>1, <1>3, <2>5, <2>6 DEF IfsOK, Idle, Row
      <4>2. QED BY <2>8, <3>2, <4>1
    <3>5. c.reference /\ i \in DOMAIN f => t.ifs[i].refs >= f[i].refs + 1
      BY <1>1, <2>8, <3>2
    <3>6. i \in DOMAIN t.ifs
      BY <1>1, <1>3, <2>5, <3>2
    <3>7. QED BY <1>1, <2>6, <2>7, <3>2, <3>3, <3>4, <3>5, <3>6
  <2>10. CASE ~h.ok
    <3>1. c.activate /\ c.create \in BOOLEAN /\ c.reference \in BOOLEAN /\ c.activate \in BOOLEAN
      BY <2>4, <2>10 DEF CallOf
    <3>2. i \in DOMAIN g
      BY <1>1, <1>3, <2>5
    <3> HIDE DEF e
    <3>3. t = [u EXCEPT !.ok = FALSE]
      BY <1>0, <2>10
    <3>4. /\ u.stack = e.stack /\ IfsOK(u.ifs) /\ DOMAIN u.ifs = DOMAIN g
          /\ \A j \in DOMAIN g : u.ifs[j].refs = g[j].refs
      <4>1. c.create => c.activate
        BY <3>1
      <4>2. /\ u.stack = e.stack /\ IfsOK(u.ifs) /\ DOMAIN u.ifs = DOMAIN g
            /\ \A j \in DOMAIN g : j # i \/ c.activate => u.ifs[j].refs = g[j].refs
        BY <2>6, <4>1, RemoveReferenceOutcome
      <4> HIDE DEF u
      <4>3. QED BY <3>1, <4>2
    <3>5. u = Tables(u.ifs, u.stack, u.ok)
      BY RemoveReferenceShape
    <3> HIDE DEF u
    <3>6. t.stack = u.stack /\ t.ifs = u.ifs /\ t.ok = FALSE
      BY <3>3, <3>5 DEF Tables
    <3>7. \A j \in DOMAIN f : j \in DOMAIN g /\ t.ifs[j].refs >= f[j].refs
      BY <1>1, <2>5, <2>7, <3>4, <3>6
    <3>8. QED BY <1>1, <2>5, <3>1, <3>4, <3>6, <3>7
  <2>11. QED BY <2>2, <2>9, <2>10
<1>4. QED BY <1>1, <1>2, <1>3

-----------------------------------------------------------------------------
(* The invariant.                                                          *)

PendingOK == pending \in [row : Layer \X Layer, value : RowStatus \cup {"none"}, made : BOOLEAN]

\* What every step keeps.  That no row is ever active is what makes the count of
\* references right: a call that deactivates never gets as far as the reference.
IInv ==
  /\ IfsOK(ifs)
  /\ StackOK(stack)
  /\ holds \in [Client -> Layer]
  /\ PendingOK
  /\ ReferencesHeld
  /\ JoinsInterfaces

LEMMA Consequences == IInv => TypeOK /\ NeverActive /\ ReferencesHeld /\ JoinsInterfaces
BY DEF IInv, IfsOK, StackOK, StackTyped, PendingOK, TypeOK, NeverActive, Idle

LEMMA Initially == Init => IInv
<1> SUFFICES ASSUME Init PROVE IInv
  OBVIOUS
<1>0. DOMAIN ifs = {} /\ DOMAIN stack = {}
  BY DEF Init
<1>1. IfsOK(ifs) /\ StackOK(stack)
  BY <1>0 DEF IfsOK, StackOK, StackTyped, BelowOK
<1>2. holds \in [Client -> Layer] /\ \A c \in Client : holds[c] = 0
  BY IfTableAssumption DEF Init, Layer
<1>3. PendingOK
  BY IfTableAssumption DEF Init, PendingOK, NoRequest, NoRow, Layer
<1>4. ReferencesHeld
  BY <1>0, <1>2 DEF ReferencesHeld
<1>5. JoinsInterfaces
  BY <1>0 DEF JoinsInterfaces
<1>6. QED BY <1>1, <1>2, <1>3, <1>4, <1>5 DEF IInv

LEMMA HoldersFinite ==
  ASSUME NEW i
  PROVE  IsFiniteSet(HoldersOf(i)) /\ Cardinality(HoldersOf(i)) \in Nat
<1>1. HoldersOf(i) \subseteq Client
  BY DEF HoldersOf
<1>2. QED BY <1>1, IfTableAssumption, FS_Subset, FS_CardinalityType

\* Steps after which the same rows hold what they held.
LEMMA HoldersKept ==
  ASSUME IInv, IfsOK(ifs'), DOMAIN ifs \subseteq DOMAIN ifs',
         \A j \in DOMAIN ifs : ifs'[j].refs >= ifs[j].refs, holds' = holds
  PROVE  ReferencesHeld'
<1>1. \A c \in Client : holds'[c] # 0 => holds'[c] \in DOMAIN ifs'
  BY DEF IInv, ReferencesHeld
<1>2. ASSUME NEW j \in DOMAIN ifs' PROVE Cardinality(HoldersOf(j)') <= ifs'[j].refs
  <2>1. HoldersOf(j)' = HoldersOf(j)
    BY DEF HoldersOf
  <2>2. ifs'[j].refs \in Nat
    BY DEF IfsOK, Idle, Row
  <2>3. Cardinality(HoldersOf(j)) \in Nat
    BY HoldersFinite
  <2>4. CASE j \in DOMAIN ifs
    <3>1. Cardinality(HoldersOf(j)) <= ifs[j].refs
      BY <2>4 DEF IInv, ReferencesHeld
    <3>2. ifs[j].refs \in Nat /\ ifs'[j].refs >= ifs[j].refs
      BY <2>4 DEF IInv, IfsOK, Idle, Row
    <3>3. QED BY <2>1, <2>2, <2>3, <3>1, <3>2
  <2>5. CASE j \notin DOMAIN ifs
    <3>1. j # 0
      BY IfTableAssumption DEF IfsOK, Index
    <3>2. HoldersOf(j) = {}
      BY <2>5, <3>1 DEF IInv, ReferencesHeld, HoldersOf
    <3>3. QED BY <2>1, <2>2, <3>2, FS_EmptySet
  <2>6. QED BY <2>4, <2>5
<1>3. QED BY <1>1, <1>2 DEF ReferencesHeld

\* Steps of the interface table make rows, and make no row of the stack that joins.
LEMMA InterfaceStep ==
  ASSUME IInv, IfsOK(ifs'), DOMAIN ifs \subseteq DOMAIN ifs', StackOK(stack'),
         \A m \in DOMAIN stack' : Joins(m) => m \in DOMAIN stack,
         holds' \in [Client -> Layer], pending' = pending, ReferencesHeld'
  PROVE  IInv' /\ DOMAIN ifs \subseteq DOMAIN ifs'
<1>1. PendingOK'
  BY DEF IInv, PendingOK
<1>2. JoinsInterfaces'
  BY DEF IInv, JoinsInterfaces
<1>3. QED BY <1>1, <1>2 DEF IInv

LEMMA StackStep ==
  ASSUME IInv, StackOK(stack'), UNCHANGED <<ifs, holds>>, PendingOK', JoinsInterfaces'
  PROVE  IInv' /\ DOMAIN ifs \subseteq DOMAIN ifs'
<1>1. ReferencesHeld'
  BY DEF IInv, ReferencesHeld, HoldersOf
<1>2. QED BY <1>1 DEF IInv

-----------------------------------------------------------------------------
(* The steps of the interface table.                                       *)

LEMMA Callers ==
  ASSUME NEW c \in Client
  PROVE  /\ Call[c] \in CallOf
         /\ Returning(Call[c]).create => Returning(Call[c]).activate
         /\ Returning(Call[c]).activate <=> Call[c].destroy
         /\ Returning(Call[c]).reference <=> Call[c].reference
         /\ Call[c].undo => (Call[c].destroy <=> Call[c].activate)
<1>1. Call[c] \in CallOf
  BY IfTableAssumption
<1>2. /\ Call[c].create => Call[c].destroy
      /\ Call[c].undo => (Call[c].destroy <=> Call[c].activate)
  BY IfTableAssumption
<1>3. /\ Returning(Call[c]).create = Call[c].create
      /\ Returning(Call[c]).activate <=> Call[c].destroy
      /\ Returning(Call[c]).reference <=> Call[c].reference
  BY DEF Returning
<1>4. QED BY <1>1, <1>2, <1>3

\* One row changes, and not its references.
LEMMA RowStep ==
  ASSUME IInv, NEW i \in DOMAIN ifs, NEW r \in Idle, r.refs = ifs[i].refs,
         ifs' = [ifs EXCEPT ![i] = r], UNCHANGED <<stack, holds, pending>>
  PROVE  IInv' /\ DOMAIN ifs \subseteq DOMAIN ifs'
<1>1. /\ DOMAIN ifs' = DOMAIN ifs /\ ifs'[i] = r
      /\ \A j \in DOMAIN ifs : j # i => ifs'[j] = ifs[j]
  OBVIOUS
<1>2. IfsOK(ifs')
  BY <1>1 DEF IInv, IfsOK
<1>3. \A j \in DOMAIN ifs : ifs'[j].refs >= ifs[j].refs
  BY <1>1 DEF IInv, IfsOK, Idle, Row
<1>4. ReferencesHeld'
  BY <1>1, <1>2, <1>3, HoldersKept
<1>5. StackOK(stack') /\ holds' \in [Client -> Layer]
  BY DEF IInv
<1>6. \A m \in DOMAIN stack' : Joins(m) => m \in DOMAIN stack
  OBVIOUS
<1>7. QED BY <1>1, <1>2, <1>4, <1>5, <1>6, InterfaceStep

LEMMA SetAdminStatusStep ==
  ASSUME IInv, NEW i \in DOMAIN ifs, NEW s \in Written, SetAdminStatus(i, s)
  PROVE  IInv' /\ DOMAIN ifs \subseteq DOMAIN ifs'
<1> DEFINE h == AdminHandle(ifs[i], s, FALSE)
<1>1. ifs[i] \in Idle /\ s \in Nat
  BY IfTableAssumption DEF IInv, IfsOK
<1>2. h.row \in Idle /\ h.row.refs = ifs[i].refs
  BY <1>1, AdminHandleIdle
<1>3. ifs' = [ifs EXCEPT ![i] = h.row] /\ UNCHANGED <<stack, holds, pending>>
  BY DEF SetAdminStatus
<1> HIDE DEF h
<1>4. QED BY <1>2, <1>3, RowStep

LEMMA SetRowStatusStep ==
  ASSUME IInv, NEW i \in DOMAIN ifs, NEW s \in RowStatus, SetRowStatus(i, s)
  PROVE  IInv' /\ DOMAIN ifs \subseteq DOMAIN ifs'
<1> DEFINE h == Handle(ifs[i], s)
           f == [ifs EXCEPT ![i] = h.row]
<1>1. ifs[i] \in Idle
  BY DEF IInv, IfsOK
<1>2. h.row \in Idle /\ h.row.refs = ifs[i].refs /\ h.ok = (s = "notInService")
  BY <1>1, HandleIdle
<1>3. ~(h.ok /\ s = "destroy")
  BY <1>2
<1>4. /\ \E t \in {Tables(f, stack, TRUE)} \cup (IF h.ok /\ s = "destroy" THEN {RemoveExt(f, stack, i)} ELSE {}) : Change(t)
      /\ UNCHANGED <<holds, pending>>
  BY DEF SetRowStatus
<1> HIDE DEF h
<1>5. Change(Tables(f, stack, TRUE))
  BY <1>3, <1>4
<1>6. ifs' = [ifs EXCEPT ![i] = h.row] /\ UNCHANGED <<stack, holds, pending>>
  BY <1>4, <1>5 DEF Change, Tables
<1>7. QED BY <1>2, <1>6, RowStep

LEMMA SetTypeStep ==
  ASSUME IInv, NEW i \in DOMAIN ifs, NEW t \in Type, SetType(i, t)
  PROVE  IInv' /\ DOMAIN ifs \subseteq DOMAIN ifs'
<1> DEFINE r == [ifs[i] EXCEPT !.neType = t]
<1>1. ifs[i] \in Idle
  BY DEF IInv, IfsOK
<1>2. r \in Idle /\ r.refs = ifs[i].refs
  BY <1>1 DEF Idle, Row
<1>3. ifs' = [ifs EXCEPT ![i] = r] /\ UNCHANGED <<stack, holds, pending>>
  BY DEF SetType
<1> HIDE DEF r
<1>4. QED BY <1>2, <1>3, RowStep

LEMMA ReleaseILanStep ==
  ASSUME IInv, NEW i \in Index, ReleaseILan(i)
  PROVE  IInv' /\ DOMAIN ifs \subseteq DOMAIN ifs'
<1> DEFINE t == RemoveReference(ifs, stack, i, ILan)
<1>1. ILan.create => ILan.activate
  BY DEF ILan
<1>2. ILan.activate
  BY DEF ILan
<1>3. IfsOK(ifs) /\ StackOK(stack) /\ holds \in [Client -> Layer]
  BY DEF IInv
<1>4. /\ t.stack = stack /\ IfsOK(t.ifs) /\ DOMAIN t.ifs = DOMAIN ifs
      /\ \A j \in DOMAIN ifs : j # i \/ ILan.activate => t.ifs[j].refs = ifs[j].refs
  BY <1>1, <1>3, RemoveReferenceOutcome
<1>5. ifs' = t.ifs /\ stack' = t.stack /\ UNCHANGED <<holds, pending>>
  BY DEF ReleaseILan, Change
<1> HIDE DEF t
<1>6. \A j \in DOMAIN ifs : ifs'[j].refs >= ifs[j].refs
  BY <1>2, <1>3, <1>4, <1>5 DEF IfsOK, Idle, Row
<1>7. ReferencesHeld'
  BY <1>4, <1>5, <1>6, HoldersKept
<1>8. QED BY <1>3, <1>4, <1>5, <1>7, InterfaceStep

\* Where c no longer holds i, or now does, the count of i follows; the others keep theirs.
LEMMA ReleaseStep ==
  ASSUME IInv, NEW c \in Client, Release(c)
  PROVE  IInv' /\ DOMAIN ifs \subseteq DOMAIN ifs'
<1> DEFINE q == Returning(Call[c])
           i == holds[c]
           t == RemoveReference(ifs, stack, i, q)
<1>1. q.create => q.activate
  BY Callers
<1>2. q.reference <=> Call[c].reference
  BY Callers
<1>3. IfsOK(ifs) /\ StackOK(stack) /\ holds \in [Client -> Layer]
  BY DEF IInv
<1>4. i # 0 /\ i \in DOMAIN ifs /\ i \in Layer
  BY <1>3 DEF Release, IInv, ReferencesHeld
<1>5. /\ ifs' = t.ifs /\ stack' = t.stack /\ pending' = pending
      /\ holds' = [holds EXCEPT ![c] = IF t.ok THEN 0 ELSE i]
  BY DEF Release, Change
<1> HIDE DEF q
<1>6. /\ t.stack = stack /\ t.ok \in BOOLEAN
      /\ IfsOK(t.ifs) /\ DOMAIN t.ifs = DOMAIN ifs
      /\ \A j \in DOMAIN ifs : j # i \/ q.activate => t.ifs[j].refs = ifs[j].refs
      /\ i \in DOMAIN ifs /\ q.activate => ~t.ok
      /\ i \in DOMAIN ifs /\ ~q.activate =>
           t.ok /\ t.ifs[i].refs >= ifs[i].refs - (IF q.reference THEN 1 ELSE 0)
  BY <1>1, <1>3, RemoveReferenceOutcome
<1> HIDE DEF i, t
<1>7. \A j \in DOMAIN ifs : ifs[j].refs \in Nat
  BY <1>3 DEF IfsOK, Idle, Row
<1>8. ReferencesHeld'
  <2>1. CASE q.activate
    <3>1. \A j \in DOMAIN ifs : ifs'[j].refs >= ifs[j].refs
      BY <1>5, <1>6, <1>7, <2>1
    <3>2. holds' = holds
      BY <1>3, <1>4, <1>5, <1>6, <2>1 DEF i
    <3>3. QED BY <1>5, <1>6, <3>1, <3>2, HoldersKept
  <2>2. CASE ~q.activate
    <3>1. t.ok = TRUE /\ t.ifs[i].refs >= ifs[i].refs - (IF q.reference THEN 1 ELSE 0)
      BY <1>4, <1>6, <2>2
    <3>2. holds' = [holds EXCEPT ![c] = 0]
      BY <1>5, <3>1
    <3>3. \A d \in Client : holds'[d] # 0 => d # c /\ holds'[d] = holds[d]
      BY <1>3, <3>2
    <3>4. \A d \in Client : holds'[d] # 0 => holds'[d] \in DOMAIN ifs'
      BY <1>5, <1>6, <3>3 DEF IInv, ReferencesHeld
    <3>5. ASSUME NEW j \in DOMAIN ifs' PROVE Cardinality(HoldersOf(j)') <= ifs'[j].refs
      <4>1. j \in DOMAIN ifs /\ j # 0
        BY <1>3, <1>5, <1>6, IfTableAssumption DEF IfsOK, Index
      <4>2. HoldersOf(j)' \subseteq HoldersOf(j)
        BY <3>3, <4>1 DEF HoldersOf
      <4>3. Cardinality(HoldersOf(j)) \in Nat /\ Cardinality(HoldersOf(j)) <= ifs[j].refs
        BY <4>1, HoldersFinite DEF IInv, ReferencesHeld
      <4>4. Cardinality(HoldersOf(j)') \in Nat /\ Cardinality(HoldersOf(j)') <= Cardinality(HoldersOf(j))
        BY <4>2, HoldersFinite, FS_Subset, FS_CardinalityType
      <4>5. ifs'[j].refs \in Nat
        BY <1>5, <1>6 DEF IfsOK, Idle, Row
      <4>6. CASE j # i \/ ~q.reference
        <5>1. ifs'[j].refs >= ifs[j].refs
          BY <1>5, <1>6, <1>7, <3>1, <4>1, <4>6
        <5>2. QED BY <1>7, <4>1, <4>3, <4>4, <4>5, <5>1
      <4>7. CASE j = i /\ q.reference
        <5>1. c \in HoldersOf(j)
          BY <1>2, <4>7 DEF HoldersOf, i
        <5>2. HoldersOf(j)' = HoldersOf(j) \ {c}
          BY <1>3, <3>2, <4>1, <4>7 DEF HoldersOf, i
        <5>3. Cardinality(HoldersOf(j)') = Cardinality(HoldersOf(j)) - 1
          BY <5>1, <5>2, HoldersFinite, FS_RemoveElement
        <5>4. ifs'[j].refs >= ifs[j].refs - 1
          BY <1>5, <3>1, <4>7
        <5>5. QED BY <1>7, <4>1, <4>3, <4>5, <5>3, <5>4
      <4>8. QED BY <4>6, <4>7
    <3>6. QED BY <3>4, <3>5 DEF ReferencesHeld
  <2>3. QED BY <2>1, <2>2
<1>9. holds' \in [Client -> Layer]
  BY <1>3, <1>4, <1>5, IfTableAssumption DEF Layer
<1>10. QED BY <1>3, <1>5, <1>6, <1>8, <1>9, InterfaceStep

LEMMA RequestStep ==
  ASSUME IInv, NEW c \in Client, NEW i \in Index, Request(c, i)
  PROVE  IInv' /\ DOMAIN ifs \subseteq DOMAIN ifs'
<1> DEFINE t == CreateReference(ifs, stack, i, Call[c])
           q == Returning(Call[c])
           u == RemoveReference(t.ifs, t.stack, i, q)
           v == IF ~t.ok /\ Call[c].undo THEN u ELSE t
<1>1. Call[c] \in CallOf /\ (q.create => q.activate)
  BY Callers
<1>2. Call[c].undo => (q.activate <=> Call[c].activate)
  BY Callers
<1>3. IfsOK(ifs) /\ StackOK(stack) /\ holds \in [Client -> Layer]
  BY DEF IInv
<1>4. holds[c] = 0 /\ i # 0 /\ i \in Layer
  BY IfTableAssumption DEF Request, Index, Layer
<1>5. /\ ifs' = v.ifs /\ stack' = v.stack /\ pending' = pending
      /\ holds' = [holds EXCEPT ![c] = IF t.ok THEN i ELSE 0]
  BY DEF Request, Change
<1> HIDE DEF q
<1>6. /\ StackOK(t.stack)
      /\ \A m \in DOMAIN t.stack : Joins(m) => m \in DOMAIN stack
      /\ IfsOK(t.ifs) /\ DOMAIN ifs \subseteq DOMAIN t.ifs
      /\ \A j \in DOMAIN ifs : t.ifs[j].refs >= ifs[j].refs
      /\ t.ok \in BOOLEAN
      /\ t.ok => i \in DOMAIN t.ifs
      /\ t.ok /\ Call[c].reference /\ i \in DOMAIN ifs => t.ifs[i].refs >= ifs[i].refs + 1
      /\ t.ok /\ Call[c].reference => t.ifs[i].refs >= 1
      /\ ~t.ok /\ ~Call[c].activate => i \notin DOMAIN t.ifs
  <2> DEFINE c1 == Call[c]
  <2>1. c1 \in CallOf /\ t = CreateReference(ifs, stack, i, c1)
    BY <1>1
  <2> HIDE DEF c1, t
  <2>2. /\ StackOK(t.stack)
        /\ \A m \in DOMAIN t.stack : Joins(m) => m \in DOMAIN stack
    BY <1>3, <2>1, CreateReferenceOutcome, SMTT(60)
  <2>3. IfsOK(t.ifs) /\ DOMAIN ifs \subseteq DOMAIN t.ifs
    BY <1>3, <2>1, CreateReferenceOutcome, SMTT(60)
  <2>4. \A j \in DOMAIN ifs : t.ifs[j].refs >= ifs[j].refs
    BY <1>3, <2>1, CreateReferenceOutcome, SMTT(60)
  <2>5. t.ok \in BOOLEAN /\ (t.ok => i \in DOMAIN t.ifs)
    BY <1>3, <2>1, CreateReferenceOutcome, SMTT(60)
  <2>6. /\ t.ok /\ c1.reference /\ i \in DOMAIN ifs => t.ifs[i].refs >= ifs[i].refs + 1
        /\ t.ok /\ c1.reference => t.ifs[i].refs >= 1
    BY <1>3, <2>1, CreateReferenceOutcome, SMTT(60)
  <2>7. ~t.ok /\ ~c1.activate => i \notin DOMAIN t.ifs
    BY <1>3, <2>1, CreateReferenceOutcome, SMTT(60)
  <2>8. QED BY <2>2, <2>3, <2>4, <2>5, <2>6, <2>7 DEF c1
<1> HIDE DEF t
<1>7. /\ u.stack = t.stack /\ IfsOK(u.ifs) /\ DOMAIN u.ifs = DOMAIN t.ifs
      /\ \A j \in DOMAIN t.ifs : j # i \/ q.activate => u.ifs[j].refs = t.ifs[j].refs
  BY <1>1, <1>6, RemoveReferenceOutcome
<1> HIDE DEF u
<1>8. ~t.ok /\ Call[c].undo => \A j \in DOMAIN t.ifs : u.ifs[j].refs = t.ifs[j].refs
  BY <1>2, <1>6, <1>7
<1>9. /\ stack' = t.stack /\ IfsOK(ifs') /\ DOMAIN ifs' = DOMAIN t.ifs
      /\ \A j \in DOMAIN t.ifs : ifs'[j].refs = t.ifs[j].refs
  BY <1>5, <1>6, <1>7, <1>8
<1> HIDE DEF v
<1>10. ReferencesHeld'
  <2>1. CASE ~t.ok
    <3>1. holds' = holds
      BY <1>3, <1>4, <1>5, <2>1
    <3>2. \A j \in DOMAIN ifs : ifs'[j].refs >= ifs[j].refs
      BY <1>6, <1>9
    <3>3. QED BY <1>6, <1>9, <3>1, <3>2, HoldersKept
  <2>2. CASE t.ok
    <3>1. holds' = [holds EXCEPT ![c] = i]
      BY <1>5, <2>2
    <3>2. i \in DOMAIN ifs'
      BY <1>6, <1>9, <2>2
    <3>3. \A d \in Client : holds'[d] # 0 => holds'[d] \in DOMAIN ifs'
      BY <1>3, <1>6, <1>9, <3>1, <3>2 DEF IInv, ReferencesHeld
    <3>4. \A j \in DOMAIN ifs' : ifs'[j].refs \in Nat /\ j # 0
      BY <1>9, IfTableAssumption DEF IfsOK, Idle, Row, Index
    <3>5. \A j \in DOMAIN ifs : ifs[j].refs \in Nat
      BY <1>3 DEF IfsOK, Idle, Row
    <3>6. ASSUME NEW j \in DOMAIN ifs' PROVE Cardinality(HoldersOf(j)') <= ifs'[j].refs
      <4>1. IsFiniteSet(HoldersOf(j)) /\ Cardinality(HoldersOf(j)) \in Nat
        BY HoldersFinite
      <4>2. j \in DOMAIN ifs => Cardinality(HoldersOf(j)) <= ifs[j].refs /\ ifs'[j].refs >= ifs[j].refs
        BY <1>6, <1>9 DEF IInv, ReferencesHeld
      <4>3. j \notin DOMAIN ifs => HoldersOf(j) = {}
        BY <3>4 DEF IInv, ReferencesHeld, HoldersOf
      <4>4. CASE j # i \/ ~Call[c].reference
        <5>1. HoldersOf(j)' = HoldersOf(j)
          BY <1>3, <1>4, <3>1, <3>4, <4>4 DEF HoldersOf
        <5>2. CASE j \in DOMAIN ifs
          BY <3>4, <3>5, <4>1, <4>2, <5>1, <5>2
        <5>3. CASE j \notin DOMAIN ifs
          BY <3>4, <4>3, <5>1, <5>3, FS_EmptySet
        <5>4. QED BY <5>2, <5>3
      <4>5. CASE j = i /\ Call[c].reference
        <5>1. c \notin HoldersOf(j)
          BY <1>4, <4>5 DEF HoldersOf
        <5>2. HoldersOf(j)' = HoldersOf(j) \cup {c}
          BY <1>3, <3>1, <4>5 DEF HoldersOf
        <5>3. Cardinality(HoldersOf(j)') = Cardinality(HoldersOf(j)) + 1
          BY <4>1, <5>1, <5>2, FS_AddElement
        <5>4. CASE j \in DOMAIN ifs
          <6>1. ifs'[j].refs >= ifs[j].refs + 1
            BY <1>6, <1>9, <2>2, <4>5, <5>4
          <6>2. QED BY <3>4, <3>5, <4>1, <4>2, <5>3, <5>4, <6>1
        <5>5. CASE j \notin DOMAIN ifs
          <6>1. ifs'[j].refs >= 1
            BY <1>6, <1>9, <2>2, <4>5
          <6>2. Cardinality(HoldersOf(j)') = 1
            BY <4>3, <5>3, <5>5, FS_EmptySet
          <6>3. QED BY <3>4, <6>1, <6>2
        <5>6. QED BY <5>4, <5>5
      <4>6. QED BY <4>4, <4>5
    <3>7. QED BY <3>3, <3>6 DEF ReferencesHeld
  <2>3. QED BY <2>1, <2>2
<1>11. holds' \in [Client -> Layer]
  BY <1>3, <1>4, <1>5, IfTableAssumption DEF Layer
<1>12. QED BY <1>5, <1>6, <1>9, <1>10, <1>11, InterfaceStep

-----------------------------------------------------------------------------
(* The steps of the stack.                                                 *)

LEMMA NothingPending ==
  ASSUME IInv, pending = NoRequest
  PROVE  \A m \in DOMAIN stack : Joins(m) => {m[1], m[2]} \subseteq DOMAIN ifs
BY DEF IInv, JoinsInterfaces, NoRequest

LEMMA InterfacesAreLayers ==
  ASSUME IInv, NEW k \in (DOMAIN ifs) \X (DOMAIN ifs)
  PROVE  k \in Layer \X Layer /\ {k[1], k[2]} \subseteq DOMAIN ifs /\ Joins(k)
<1>1. DOMAIN ifs \subseteq Layer /\ 0 \notin DOMAIN ifs
  BY IfTableAssumption DEF IInv, IfsOK, Index, Layer
<1>2. QED BY <1>1 DEF Joins

LEMMA CreateRegisterStep ==
  ASSUME IInv, NEW k \in (DOMAIN ifs) \X (DOMAIN ifs), CreateRegister(k)
  PROVE  IInv' /\ DOMAIN ifs \subseteq DOMAIN ifs'
<1> DEFINE st == IF k \in DOMAIN stack THEN stack ELSE StackCreateExt(stack, k)
           h == StackHandle(st, k, "active")
<1>1. pending = NoRequest /\ stack' = h.stack /\ UNCHANGED <<ifs, holds, pending>>
  BY DEF CreateRegister
<1>2. k \in Layer \X Layer /\ {k[1], k[2]} \subseteq DOMAIN ifs /\ Joins(k)
  BY InterfacesAreLayers
<1>3. StackOK(stack)
  BY DEF IInv
<1>4. StackOK(st) /\ DOMAIN st \subseteq DOMAIN stack \cup {k}
  BY <1>2, <1>3, StackCreated
<1> HIDE DEF st
<1>5. StackOK(h.stack) /\ DOMAIN h.stack = DOMAIN st
  BY <1>4, StackHandled
<1> HIDE DEF h
<1>6. JoinsInterfaces'
  BY <1>1, <1>2, <1>4, <1>5, NothingPending DEF JoinsInterfaces
<1>7. StackOK(stack') /\ PendingOK'
  BY <1>1, <1>5 DEF IInv, PendingOK
<1>8. QED BY <1>1, <1>6, <1>7, StackStep

LEMMA RemoveRegisterStep ==
  ASSUME IInv, NEW k \in (DOMAIN ifs) \X (DOMAIN ifs), RemoveRegister(k)
  PROVE  IInv' /\ DOMAIN ifs \subseteq DOMAIN ifs'
<1> DEFINE st == StackRemoveExt(stack, k)
<1>1. pending = NoRequest /\ stack' = st /\ UNCHANGED <<ifs, holds, pending>>
  BY DEF RemoveRegister
<1>2. k \in Layer \X Layer
  BY InterfacesAreLayers
<1>3. StackOK(stack)
  BY DEF IInv
<1>4. StackOK(st) /\ \A m \in DOMAIN st : Joins(m) => m \in DOMAIN stack
  BY <1>2, <1>3, StackRemoved
<1> HIDE DEF st
<1>5. JoinsInterfaces'
  BY <1>1, <1>4, NothingPending DEF JoinsInterfaces
<1>6. StackOK(stack') /\ PendingOK'
  BY <1>1, <1>4 DEF IInv, PendingOK
<1>7. QED BY <1>1, <1>5, <1>6, StackStep

LEMMA StackReserveStep ==
  ASSUME IInv, NEW k \in Layer \X Layer, NEW v \in RowStatus, StackReserve(k, v)
  PROVE  IInv' /\ DOMAIN ifs \subseteq DOMAIN ifs'
<1> DEFINE st == StackCreateExt(stack, k)
<1>1. /\ pending = NoRequest
      /\ stack' = (IF v \in Create THEN st ELSE stack)
      /\ pending' = [row |-> k, value |-> v, made |-> v \in Create]
      /\ UNCHANGED <<ifs, holds>>
  BY DEF StackReserve
<1>2. StackOK(stack)
  BY DEF IInv
<1>3. v \in Create => StackOK(st) /\ DOMAIN st \subseteq DOMAIN stack \cup {k}
  BY <1>2, StackCreated DEF StackReserve
<1> HIDE DEF st
<1>4. \A m \in DOMAIN stack : Joins(m) => {m[1], m[2]} \subseteq DOMAIN ifs
  BY <1>1, NothingPending
<1>5. JoinsInterfaces'
  <2>1. CASE v \in Create
    <3>1. stack' = st /\ pending'.made = TRUE /\ pending'.row = k
      BY <1>1, <2>1
    <3>2. QED BY <1>1, <1>3, <1>4, <2>1, <3>1 DEF JoinsInterfaces
  <2>2. CASE v \notin Create
    BY <1>1, <1>4, <2>2 DEF JoinsInterfaces
  <2>3. QED BY <2>1, <2>2
<1>6. PendingOK'
  BY <1>1 DEF PendingOK
<1>7. StackOK(stack')
  BY <1>1, <1>2, <1>3
<1>8. QED BY <1>1, <1>5, <1>6, <1>7, StackStep

\* Taking back what the request made leaves rows that join interfaces.
LEMMA TakenBack ==
  ASSUME IInv, NEW st, StackOK(st), DOMAIN st = DOMAIN stack
  PROVE  /\ StackOK(TakeBack(st))
         /\ \A m \in DOMAIN TakeBack(st) : Joins(m) => {m[1], m[2]} \subseteq DOMAIN ifs
<1> DEFINE k == pending.row
           new == StackRemoveExt(st, k)
<1>1. k \in Layer \X Layer
  BY DEF IInv, PendingOK
<1>2. /\ StackOK(new) /\ k \notin DOMAIN new
      /\ \A m \in DOMAIN new : Joins(m) => m \in DOMAIN st
  BY <1>1, StackRemoved
<1>3. TakeBack(st) = IF pending.made THEN new ELSE st
  BY DEF TakeBack
<1> HIDE DEF new
<1>4. CASE pending.made
  BY <1>2, <1>3, <1>4 DEF IInv, JoinsInterfaces
<1>5. CASE ~pending.made
  BY <1>3, <1>5 DEF IInv, JoinsInterfaces
<1>6. QED BY <1>4, <1>5

\* Where a request ends, all rows that join join interfaces.
LEMMA RequestEnds ==
  ASSUME IInv, NEW st, StackOK(st),
         \A m \in DOMAIN st : Joins(m) => {m[1], m[2]} \subseteq DOMAIN ifs,
         stack' = st, pending' = NoRequest, UNCHANGED <<ifs, holds>>
  PROVE  IInv' /\ DOMAIN ifs \subseteq DOMAIN ifs'
<1>1. JoinsInterfaces'
  BY DEF JoinsInterfaces
<1>2. PendingOK'
  BY IfTableAssumption DEF PendingOK, NoRequest, NoRow, Layer
<1>3. QED BY <1>1, <1>2, StackStep

LEMMA StackFreeStep ==
  ASSUME IInv, StackFree
  PROVE  IInv' /\ DOMAIN ifs \subseteq DOMAIN ifs'
<1>1. StackOK(stack)
  BY DEF IInv
<1>2. /\ StackOK(TakeBack(stack))
      /\ \A m \in DOMAIN TakeBack(stack) : Joins(m) => {m[1], m[2]} \subseteq DOMAIN ifs
  BY <1>1, TakenBack
<1>3. stack' = TakeBack(stack) /\ pending' = NoRequest /\ UNCHANGED <<ifs, holds>>
  BY DEF StackFree
<1>4. QED BY <1>2, <1>3, RequestEnds

LEMMA StackActionStep ==
  ASSUME IInv, StackAction
  PROVE  IInv' /\ DOMAIN ifs \subseteq DOMAIN ifs'
<1> DEFINE k == pending.row
           h == StackHandle(stack, k, pending.value)
<1>1. StackOK(stack) /\ k \in Layer \X Layer
  BY DEF IInv, PendingOK
<1>2. /\ StackOK(h.stack) /\ DOMAIN h.stack = DOMAIN stack
      /\ h.ok => {k[1], k[2]} \subseteq DOMAIN ifs
  BY <1>1, StackHandled
<1>3. /\ pending' = NoRequest /\ UNCHANGED <<ifs, holds>>
      /\ \/ stack' = TakeBack(h.stack)
         \/ h.ok /\ stack' = IF pending.value = "destroy" THEN StackRemoveExt(h.stack, k) ELSE h.stack
  BY DEF StackAction
<1> HIDE DEF h
<1>4. CASE stack' = TakeBack(h.stack)
  <2>1. /\ StackOK(TakeBack(h.stack))
        /\ \A m \in DOMAIN TakeBack(h.stack) : Joins(m) => {m[1], m[2]} \subseteq DOMAIN ifs
    BY <1>2, TakenBack
  <2>2. QED BY <1>3, <1>4, <2>1, RequestEnds
<1>5. CASE h.ok /\ stack' = IF pending.value = "destroy" THEN StackRemoveExt(h.stack, k) ELSE h.stack
  <2>1. \A m \in DOMAIN h.stack : Joins(m) => {m[1], m[2]} \subseteq DOMAIN ifs
    BY <1>2, <1>5 DEF IInv, JoinsInterfaces
  <2>2. /\ StackOK(StackRemoveExt(h.stack, k))
        /\ \A m \in DOMAIN StackRemoveExt(h.stack, k) : Joins(m) => m \in DOMAIN h.stack
    BY <1>1, <1>2, StackRemoved
  <2>3. CASE pending.value = "destroy"
    <3>1. stack' = StackRemoveExt(h.stack, k)
      BY <1>5, <2>3
    <3>2. \A m \in DOMAIN StackRemoveExt(h.stack, k) : Joins(m) => {m[1], m[2]} \subseteq DOMAIN ifs
      BY <2>1, <2>2
    <3>3. QED BY <1>3, <2>2, <3>1, <3>2, RequestEnds
  <2>4. CASE pending.value # "destroy"
    <3>1. stack' = h.stack
      BY <1>5, <2>4
    <3>2. QED BY <1>2, <1>3, <2>1, <3>1, RequestEnds
  <2>5. QED BY <2>3, <2>4
<1>6. QED BY <1>3, <1>4, <1>5

-----------------------------------------------------------------------------
(* The theorems.                                                           *)

LEMMA Step == IInv /\ [Next]_vars => IInv' /\ DOMAIN ifs \subseteq DOMAIN ifs'
<1> SUFFICES ASSUME IInv, [Next]_vars PROVE IInv' /\ DOMAIN ifs \subseteq DOMAIN ifs'
  OBVIOUS
<1>1. ASSUME NEW c \in Client, Release(c) PROVE IInv' /\ DOMAIN ifs \subseteq DOMAIN ifs'
  BY <1>1, ReleaseStep
<1>2. ASSUME NEW c \in Client, NEW i \in Index, Request(c, i) PROVE IInv' /\ DOMAIN ifs \subseteq DOMAIN ifs'
  BY <1>2, RequestStep
<1>3. ASSUME NEW i \in Index, ReleaseILan(i) PROVE IInv' /\ DOMAIN ifs \subseteq DOMAIN ifs'
  BY <1>3, ReleaseILanStep
<1>4. ASSUME NEW i \in DOMAIN ifs, NEW s \in Written, SetAdminStatus(i, s) PROVE IInv' /\ DOMAIN ifs \subseteq DOMAIN ifs'
  BY <1>4, SetAdminStatusStep
<1>5. ASSUME NEW i \in DOMAIN ifs, NEW s \in RowStatus, SetRowStatus(i, s) PROVE IInv' /\ DOMAIN ifs \subseteq DOMAIN ifs'
  BY <1>5, SetRowStatusStep
<1>6. ASSUME NEW i \in DOMAIN ifs, NEW t \in Type, SetType(i, t) PROVE IInv' /\ DOMAIN ifs \subseteq DOMAIN ifs'
  BY <1>6, SetTypeStep
<1>7. ASSUME NEW k \in (DOMAIN ifs) \X (DOMAIN ifs), CreateRegister(k) PROVE IInv' /\ DOMAIN ifs \subseteq DOMAIN ifs'
  BY <1>7, CreateRegisterStep
<1>8. ASSUME NEW k \in (DOMAIN ifs) \X (DOMAIN ifs), RemoveRegister(k) PROVE IInv' /\ DOMAIN ifs \subseteq DOMAIN ifs'
  BY <1>8, RemoveRegisterStep
<1>9. ASSUME NEW k \in Layer \X Layer, NEW v \in RowStatus, StackReserve(k, v) PROVE IInv' /\ DOMAIN ifs \subseteq DOMAIN ifs'
  BY <1>9, StackReserveStep
<1>10. CASE StackFree
  BY <1>10, StackFreeStep
<1>11. CASE StackAction
  BY <1>11, StackActionStep
<1>12. CASE UNCHANGED vars
  BY <1>12 DEF vars, IInv, PendingOK, ReferencesHeld, HoldersOf, JoinsInterfaces
<1>13. QED
  BY <1>1, <1>2, <1>3, <1>4, <1>5, <1>6, <1>7, <1>8, <1>9, <1>10, <1>11, <1>12 DEF Next

\* The rows of both tables, what clients hold and the request under way keep their
\* types: indices within the pool and references that are never negative (ifMIB.c).
THEOREM TypeCorrect == Spec => []TypeOK
<1>1. QED BY Initially, Step, Consequences, PTL DEF Spec

\* A row of the interface table never goes, whatever modules call and managers set:
\* each way to remove one deactivates it first (ifMIB.c:667, 3501; ifUtils.c:585).
THEOREM RowsNeverGo == Spec => RowsStay
<1>1. IInv /\ [Next]_vars => [DOMAIN ifs \subseteq DOMAIN ifs']_vars
  BY Step
<1>2. QED BY <1>1, Initially, Step, PTL DEF Spec, RowsStay

\* Whoever keeps an interface finds it, with a reference for each row that took one,
\* for any number of callers and any mixture of flags that they call with (ifMIB.c:620, 638, 664).
THEOREM ReferencesCounted == Spec => []ReferencesHeld
<1>1. QED BY Initially, Step, Consequences, PTL DEF Spec

\* No sequence of calls, of any modules and managers, makes an interface active or
\* gives it a type (ifUtils.c:585).
THEOREM NoInterfaceActive == Spec => []NeverActive
<1>1. QED BY Initially, Step, Consequences, PTL DEF Spec

\* Rows of the stack join interfaces of the table, but for the row that a SET under
\* way has made and will take back (ifMIB.c:1771, 2080): checked when a row is
\* activated, and by RowsNeverGo true ever after.
THEOREM StackJoinsInterfaces == Spec => []JoinsInterfaces
<1>1. QED BY Initially, Step, Consequences, PTL DEF Spec

\* ifStackTable never says both that nothing is below an interface and what is:
\* ifStackTable_removeHier looks at what follows before it says so, and
\* ifStackTable_createHier takes it back.
THEOREM NoneBelowIsAlone == Spec => []NothingBelowAlone
<1>1. IInv => NothingBelowAlone
  BY DEF IInv, StackOK, BelowOK, NothingBelowAlone
<1>2. QED BY <1>1, Initially, Step, PTL DEF Spec
===============================================================================
