---------------------------- MODULE IpAddress_proofs ----------------------------
(***************************************************************************)
(* Proofs about IpAddress, for any addresses, interfaces, prefixes and     *)
(* requests: an interface counts a reference, and the row of a prefix an   *)
(* address, for exactly the rows that say so.                              *)
(*                                                                         *)
(* Of a row only two columns count: the interface that it is at and the    *)
(* length of the prefix that it uses.  A handler changes them one at a     *)
(* time, each together with the table that counts it, so that it may stop  *)
(* after any of its calls.                                                 *)
(***************************************************************************)
EXTENDS IpAddress, FiniteSetTheorems, TLAPS

Layer == 0 .. LastIndex

RowType == [status : {"none", "notInService", "active"}, ifIndex : Layer, length : Nat,
            at : Layer, used : Nat]
RowOK(r) == r \in RowType /\ (r.used # 0 => r.at # 0)

NetOK(n) == DOMAIN n = {"ifs", "inetIf", "prefixes", "version", "linked"}

\* The rows by the columns that count.
At(rw) == [a \in Address |-> rw[a].at]
Used(rw) == [a \in Address |-> rw[a].used]

UsersOf(at, i) == {a \in Address : at[a] = i}
CountedIn(at, used, key) == {a \in Address : used[a] # 0 /\ Prefix(a, at[a], used[a]) = key}

InterfaceRow == [status : {"notInService"}, type : {0}, neType : {0}, admin : Nat, refs : Nat]

\* The table of the interfaces counts what is at them.
References(f, at) ==
  /\ DOMAIN f \subseteq Index
  /\ \A i \in DOMAIN f : f[i] \in InterfaceRow /\ f[i].refs = Cardinality(UsersOf(at, i))
  /\ \A a \in Address : at[a] # 0 => at[a] \in DOMAIN f

\* The table of the prefixes counts what uses them.
Prefixes(p, at, used) ==
  /\ \A a \in Address : used[a] # 0 => Prefix(a, at[a], used[a]) \in DOMAIN p
  /\ \A key \in DOMAIN p : p[key] = Cardinality(CountedIn(at, used, key))

Counts(n, rw) ==
  References(n.ifs, At(rw)) /\ Prefixes(n.prefixes, At(rw), Used(rw))

Request == [phase : {"reserved", "acted", "refused"}, addr : Address, ifIndex : Layer \cup {Unnamed},
            status : {"active", "notInService", "createAndWait", "destroy", "none"},
            made : BOOLEAN, old : Layer, idle : BOOLEAN]

\* A row that is about to be freed is at no interface.
PendingOK ==
  \/ pending = NoRequest
  \/ /\ pending \in Request
     /\ pending.made => rows[pending.addr].at = 0 /\ pending.status = "createAndWait"
     /\ pending.phase = "acted" /\ pending.status = "destroy" => rows[pending.addr].at = 0

RowsOK == rows \in [Address -> RowType] /\ \A a \in Address : RowOK(rows[a])

IInv == RowsOK /\ NetOK(net) /\ Counts(net, rows) /\ PendingOK

-----------------------------------------------------------------------------
(* Sets of addresses.                                                      *)

LEMMA AddressesFinite ==
  ASSUME NEW S \in SUBSET Address
  PROVE  IsFiniteSet(S) /\ Cardinality(S) \in Nat /\ Cardinality(S) < Modulus
<1>1. IsFiniteSet(Address) /\ Cardinality(Address) \in Nat /\ Modulus \in Nat /\ Modulus > Cardinality(Address)
  BY IpAddressAssumption, FS_CardinalityType
<1>2. IsFiniteSet(S) /\ Cardinality(S) <= Cardinality(Address)
  BY <1>1, FS_Subset
<1>3. Cardinality(S) \in Nat
  BY <1>2, FS_CardinalityType
<1>4. QED BY <1>1, <1>2, <1>3

\* One address comes to a set, or goes.
LEMMA OneMore ==
  ASSUME NEW S \in SUBSET Address, NEW a \in Address, a \notin S
  PROVE  /\ Cardinality(S \cup {a}) = Cardinality(S) + 1
         /\ Cardinality(S \cup {a}) = More(Cardinality(S))
<1>1. IsFiniteSet(S) /\ Cardinality(S) \in Nat
  BY AddressesFinite
<1>2. Cardinality(S \cup {a}) = Cardinality(S) + 1
  BY <1>1, FS_AddElement
<1>3. Cardinality(S \cup {a}) < Modulus
  BY AddressesFinite
<1>4. Modulus \in Nat
  BY IpAddressAssumption
<1>5. (Cardinality(S) + 1) % Modulus = Cardinality(S) + 1
  BY <1>1, <1>2, <1>3, <1>4
<1>6. QED BY <1>2, <1>5 DEF More

LEMMA OneLess ==
  ASSUME NEW S \in SUBSET Address, NEW a \in S
  PROVE  /\ Cardinality(S) >= 1
         /\ Cardinality(S \ {a}) = Cardinality(S) - 1
         /\ Cardinality(S \ {a}) = Less(Cardinality(S))
<1>1. IsFiniteSet(S) /\ Cardinality(S) \in Nat /\ Cardinality(S) < Modulus
  BY AddressesFinite
<1>2. Cardinality(S \ {a}) = Cardinality(S) - 1
  BY <1>1, FS_RemoveElement
<1>3. Cardinality(S \ {a}) \in Nat
  BY AddressesFinite
<1>4. Modulus \in Nat
  BY IpAddressAssumption
<1>5. (Cardinality(S) - 1) % Modulus = Cardinality(S) - 1
  BY <1>1, <1>2, <1>3, <1>4
<1>6. QED BY <1>1, <1>2, <1>3, <1>5 DEF Less

LEMMA NoAddress ==
  ASSUME NEW S \in SUBSET Address
  PROVE  Cardinality(S) = 0 <=> S = {}
BY AddressesFinite, FS_EmptySet

-----------------------------------------------------------------------------
(* The interface of one address.                                           *)

\* What ifTable_createReference does at an interface that is there, and at one that is not.
Raised(r) == [r EXCEPT !.refs = @ + 1]
Refer(f, i) == [f EXCEPT ![i] = Raised(f[i])]

LEMMA CreateReferenceIs ==
  ASSUME NEW f, NEW i \in Index, i \in DOMAIN f => f[i] \in InterfaceRow,
         NEW c, c = Interfaces!CreateReference(f, << >>, i, Call)
  PROVE  /\ i \in DOMAIN f => c.ok = TRUE /\ c.ifs = Refer(f, i)
         /\ i \notin DOMAIN f => c.ok = FALSE /\ c.ifs = f
<1> DEFINE e == Interfaces!Enter(f, << >>, i, Call.type, Call.create)
           r == [e.ifs[i] EXCEPT !.neType = IF Call.type # 0 THEN Call.type ELSE @,
                                 !.admin = IF Call.admin # 0 THEN Call.admin ELSE @,
                                 !.refs = IF Call.reference THEN @ + 1 ELSE @]
           g == IF e.ok THEN [e.ifs EXCEPT ![i] = r] ELSE e.ifs
           undone == Interfaces!RemoveReference(g, e.stack, i, Call)
<1>0. /\ Call.type = 0 /\ Call.admin = 0 /\ Call.create = FALSE
      /\ Call.reference = TRUE /\ Call.activate = FALSE
  BY DEF Call
<1>1. Interfaces!Done(r).row = r /\ Interfaces!Done(r).ok = TRUE
  BY DEF Interfaces!Done
<1>2. c = IF e.ok THEN Interfaces!Tables(g, e.stack, TRUE)
          ELSE IF i = 0 THEN Interfaces!Tables(f, << >>, FALSE)
          ELSE [undone EXCEPT !.ok = FALSE]
  BY Zenon, <1>0, <1>1 DEF Interfaces!CreateReference
<1>3. CASE i \in DOMAIN f
  <2>1. e = Interfaces!Tables(f, << >>, TRUE)
    BY <1>0, <1>3 DEF Interfaces!Enter
  <2>2. e.ifs = f /\ e.stack = << >> /\ e.ok = TRUE
    BY <2>1 DEF Interfaces!Tables
  <2>3. r = Raised(f[i])
    BY <1>0, <1>3, <2>2 DEF InterfaceRow, Raised
  <2> HIDE DEF e, r
  <2>4. g = Refer(f, i)
    BY <1>3, <2>2, <2>3 DEF Refer
  <2> HIDE DEF g
  <2>5. c = Interfaces!Tables(g, e.stack, TRUE)
    BY <1>2, <2>2
  <2>6. c.ifs = g /\ c.ok = TRUE
    BY <2>5 DEF Interfaces!Tables
  <2>7. QED BY <1>3, <2>4, <2>6
<1>4. CASE i \notin DOMAIN f
  <2>1. e = Interfaces!Tables(f, << >>, FALSE)
    BY Zenon, <1>0, <1>4 DEF Interfaces!Enter
  <2>2. e.ifs = f /\ e.stack = << >> /\ e.ok = FALSE
    BY <2>1 DEF Interfaces!Tables
  <2>3. g = f
    BY <2>2
  <2>4. undone = Interfaces!Tables(f, << >>, TRUE)
    BY Zenon, <1>4, <2>2, <2>3 DEF Interfaces!RemoveReference
  <2>5. i # 0
    BY DEF Index
  <2> HIDE DEF e, undone
  <2>6. c = [undone EXCEPT !.ok = FALSE]
    BY <1>2, <2>2, <2>5
  <2>7. c.ifs = f /\ c.ok = FALSE
    BY <2>4, <2>6 DEF Interfaces!Tables
  <2>8. QED BY <1>4, <2>7
<1>5. QED BY Zenon, <1>3, <1>4

\* What ifTable_removeReference does to an interface that is there and referred to.
Lowered(r) == [r EXCEPT !.refs = @ - 1]
Drop(f, i) == [f EXCEPT ![i] = Lowered(f[i])]

LEMMA RemoveReferenceIs ==
  ASSUME NEW f, NEW i \in DOMAIN f, f[i] \in InterfaceRow, f[i].refs > 0,
         NEW t, t = Interfaces!RemoveReference(f, << >>, i, Call)
  PROVE  t.ifs = Drop(f, i)
<1> DEFINE g == [f EXCEPT ![i] = Lowered(f[i])]
<1>0. Call.create = FALSE /\ Call.reference = TRUE /\ Call.activate = FALSE
  BY DEF Call
<1>1. Interfaces!Done(f[i]).row = f[i] /\ Interfaces!Done(f[i]).ok = TRUE
  BY DEF Interfaces!Done
<1>2. t = Interfaces!Tables(g, << >>, TRUE)
  BY <1>0, <1>1 DEF Interfaces!RemoveReference, Lowered
<1>3. g = Drop(f, i)
  BY DEF Drop
<1> HIDE DEF g
<1>4. t.ifs = g
  BY <1>2 DEF Interfaces!Tables
<1>5. QED BY <1>3, <1>4

LEMMA EnterInterface ==
  ASSUME NEW f, NEW at \in [Address -> Layer], References(f, at),
         NEW a \in Address, at[a] = 0, NEW i \in DOMAIN f
  PROVE  References(Refer(f, i), [at EXCEPT ![a] = i])
<1> DEFINE g == Refer(f, i)
           to == [at EXCEPT ![a] = i]
<1>1. i \in Index /\ i # 0 /\ Index \subseteq Layer
  BY DEF References, Index, Layer
<1>2. /\ DOMAIN g = DOMAIN f
      /\ g[i] = Raised(f[i])
      /\ \A j \in DOMAIN f : j # i => g[j] = f[j]
  BY DEF Refer
<1>3. to \in [Address -> Layer] /\ to[a] = i /\ \A b \in Address : b # a => to[b] = at[b]
  BY <1>1
<1> HIDE DEF g, to
<1>4. g[i] \in InterfaceRow /\ g[i].refs = f[i].refs + 1
  BY <1>2 DEF References, InterfaceRow, Raised
<1>5. UsersOf(to, i) = UsersOf(at, i) \cup {a} /\ a \notin UsersOf(at, i)
  BY <1>1, <1>3 DEF UsersOf
<1>6. Cardinality(UsersOf(to, i)) = Cardinality(UsersOf(at, i)) + 1
  <2>1. UsersOf(at, i) \in SUBSET Address
    BY DEF UsersOf
  <2>2. QED BY <1>5, <2>1, OneMore
<1>7. \A j \in DOMAIN f : j # i => UsersOf(to, j) = UsersOf(at, j)
  <2>1. \A j \in DOMAIN f : j # 0
    BY DEF References, Index
  <2>2. QED BY <1>3, <2>1 DEF UsersOf
<1>8. \A j \in DOMAIN g : g[j] \in InterfaceRow /\ g[j].refs = Cardinality(UsersOf(to, j))
  BY <1>2, <1>4, <1>6, <1>7 DEF References
<1>9. \A b \in Address : to[b] # 0 => to[b] \in DOMAIN g
  BY <1>2, <1>3 DEF References
<1>10. References(g, to)
  BY <1>2, <1>8, <1>9 DEF References
<1>11. QED BY <1>10 DEF g, to

LEMMA LeaveInterface ==
  ASSUME NEW f, NEW at \in [Address -> Layer], References(f, at),
         NEW a \in Address, at[a] # 0
  PROVE  /\ at[a] \in DOMAIN f /\ f[at[a]] \in InterfaceRow /\ f[at[a]].refs > 0
         /\ References(Drop(f, at[a]), [at EXCEPT ![a] = 0])
<1> DEFINE i == at[a]
           g == Drop(f, i)
           to == [at EXCEPT ![a] = 0]
<1>1. i \in DOMAIN f /\ i # 0 /\ f[i] \in InterfaceRow /\ f[i].refs = Cardinality(UsersOf(at, i))
  BY DEF References
<1>2. /\ DOMAIN g = DOMAIN f
      /\ g[i] = Lowered(f[i])
      /\ \A j \in DOMAIN f : j # i => g[j] = f[j]
  BY <1>1 DEF Drop
<1>3. to \in [Address -> Layer] /\ to[a] = 0 /\ \A b \in Address : b # a => to[b] = at[b]
  BY IpAddressAssumption DEF Layer
<1>4. a \in UsersOf(at, i) /\ UsersOf(at, i) \in SUBSET Address
  BY DEF UsersOf
<1> HIDE DEF g, to, i
<1>5. UsersOf(to, i) = UsersOf(at, i) \ {a}
  BY <1>1, <1>3 DEF UsersOf
<1>6. f[i].refs >= 1 /\ Cardinality(UsersOf(to, i)) = f[i].refs - 1
  BY <1>1, <1>4, <1>5, OneLess
<1>7. g[i] \in InterfaceRow /\ g[i].refs = f[i].refs - 1
  BY <1>1, <1>2, <1>6 DEF InterfaceRow, Lowered
<1>8. \A j \in DOMAIN f : j # i => UsersOf(to, j) = UsersOf(at, j)
  <2>1. \A j \in DOMAIN f : j # 0
    BY DEF References, Index
  <2>2. QED BY <1>3, <2>1 DEF UsersOf, i
<1>9. \A j \in DOMAIN g : g[j] \in InterfaceRow /\ g[j].refs = Cardinality(UsersOf(to, j))
  BY <1>2, <1>6, <1>7, <1>8 DEF References
<1>10. \A b \in Address : to[b] # 0 => to[b] \in DOMAIN g
  BY <1>2, <1>3 DEF References
<1>11. References(g, to)
  BY <1>2, <1>9, <1>10 DEF References
<1>12. f[i].refs > 0
  BY <1>1, <1>6 DEF InterfaceRow
<1>13. QED BY <1>1, <1>11, <1>12 DEF g, to, i

-----------------------------------------------------------------------------
(* The prefix of one address.                                              *)

LEMMA UsePrefix ==
  ASSUME NEW p, NEW at, NEW used \in [Address -> Nat], Prefixes(p, at, used),
         NEW a \in Address, used[a] = 0, NEW l \in Nat, l # 0
  PROVE  Prefixes(CountPrefix(p, Prefix(a, at[a], l)), at, [used EXCEPT ![a] = l])
<1> DEFINE key == Prefix(a, at[a], l)
           q == CountPrefix(p, key)
           to == [used EXCEPT ![a] = l]
<1>1. to \in [Address -> Nat] /\ to[a] = l /\ \A b \in Address : b # a => to[b] = used[b]
  OBVIOUS
<1>2. /\ DOMAIN q = DOMAIN p \cup {key}
      /\ q[key] = IF key \in DOMAIN p THEN More(p[key]) ELSE 1
      /\ \A k \in DOMAIN p : k # key => q[k] = p[k]
  BY DEF CountPrefix, With
<1>3. Prefix(a, at[a], to[a]) = key
  BY <1>1
<1> HIDE DEF key, q, to
<1>4. CountedIn(at, to, key) = CountedIn(at, used, key) \cup {a} /\ a \notin CountedIn(at, used, key)
  BY <1>1, <1>3 DEF CountedIn
<1>5. \A k : k # key => CountedIn(at, to, k) = CountedIn(at, used, k)
  BY <1>1, <1>3 DEF CountedIn
<1>6. CountedIn(at, used, key) \in SUBSET Address
  BY DEF CountedIn
<1>7. q[key] = Cardinality(CountedIn(at, to, key))
  <2>1. CASE key \in DOMAIN p
    BY <1>2, <1>4, <1>6, <2>1, OneMore DEF Prefixes
  <2>2. CASE key \notin DOMAIN p
    <3>1. CountedIn(at, used, key) = {}
      BY <2>2 DEF Prefixes, CountedIn
    <3>2. Cardinality(CountedIn(at, used, key)) = 0
      BY <1>6, <3>1, NoAddress
    <3>3. QED BY <1>2, <1>4, <1>6, <2>2, <3>2, OneMore
  <2>3. QED BY <2>1, <2>2
<1>8. \A k \in DOMAIN q : q[k] = Cardinality(CountedIn(at, to, k))
  BY <1>2, <1>5, <1>7 DEF Prefixes
<1>9. \A b \in Address : to[b] # 0 => Prefix(b, at[b], to[b]) \in DOMAIN q
  BY <1>1, <1>2, <1>3 DEF Prefixes
<1>10. QED BY <1>8, <1>9 DEF Prefixes, q, key, to

LEMMA LeavePrefix ==
  ASSUME NEW p, NEW at, NEW used \in [Address -> Nat], Prefixes(p, at, used),
         NEW a \in Address, used[a] # 0
  PROVE  Prefixes(UncountPrefix(p, Prefix(a, at[a], used[a])), at, [used EXCEPT ![a] = 0])
<1> DEFINE key == Prefix(a, at[a], used[a])
           q == UncountPrefix(p, key)
           to == [used EXCEPT ![a] = 0]
<1>1. to \in [Address -> Nat] /\ to[a] = 0 /\ \A b \in Address : b # a => to[b] = used[b]
  OBVIOUS
<1>2. key \in DOMAIN p
  BY DEF Prefixes
<1>3. q = IF Less(p[key]) = 0 THEN Without(p, key) ELSE [p EXCEPT ![key] = Less(p[key])]
  BY <1>2 DEF UncountPrefix
<1>4. a \in CountedIn(at, used, key)
  BY DEF CountedIn
<1> HIDE DEF q, to
<1>5. CountedIn(at, to, key) = CountedIn(at, used, key) \ {a}
  BY <1>1 DEF CountedIn
<1>6. \A k : k # key => CountedIn(at, to, k) = CountedIn(at, used, k)
  BY <1>1 DEF CountedIn
<1> HIDE DEF key
<1>7. CountedIn(at, used, key) \in SUBSET Address /\ CountedIn(at, to, key) \in SUBSET Address
  BY DEF CountedIn
<1>8. p[key] = Cardinality(CountedIn(at, used, key))
  BY <1>2 DEF Prefixes
<1>9. Less(p[key]) = Cardinality(CountedIn(at, to, key))
  BY <1>4, <1>5, <1>7, <1>8, OneLess
<1>10. \A b \in Address : to[b] # 0 => Prefix(b, at[b], to[b]) \in DOMAIN p
  BY <1>1 DEF Prefixes
<1>11. CASE Less(p[key]) = 0
  <2>1. DOMAIN q = DOMAIN p \ {key} /\ \A k \in DOMAIN p \ {key} : q[k] = p[k]
    BY <1>3, <1>11 DEF Without
  <2>2. CountedIn(at, to, key) = {}
    BY <1>7, <1>9, <1>11, NoAddress
  <2>3. \A b \in Address : to[b] # 0 => Prefix(b, at[b], to[b]) # key
    BY <2>2 DEF CountedIn
  <2>4. \A k \in DOMAIN q : q[k] = Cardinality(CountedIn(at, to, k))
    BY <1>6, <2>1 DEF Prefixes
  <2>5. \A b \in Address : to[b] # 0 => Prefix(b, at[b], to[b]) \in DOMAIN q
    BY <1>10, <2>1, <2>3
  <2>6. QED BY <2>4, <2>5 DEF Prefixes, q, key, to
<1>12. CASE Less(p[key]) # 0
  <2>1. /\ DOMAIN q = DOMAIN p /\ q[key] = Less(p[key])
        /\ \A k \in DOMAIN p : k # key => q[k] = p[k]
    BY <1>2, <1>3, <1>12
  <2>2. \A k \in DOMAIN q : q[k] = Cardinality(CountedIn(at, to, k))
    BY <1>6, <1>9, <2>1 DEF Prefixes
  <2>3. QED BY <1>10, <2>1, <2>2 DEF Prefixes, q, key, to
<1>13. QED BY <1>11, <1>12

\* An address without a prefix may move.
LEMMA MoveWithout ==
  ASSUME NEW p, NEW at \in [Address -> Layer], NEW used \in [Address -> Nat], Prefixes(p, at, used),
         NEW a \in Address, used[a] = 0, NEW i
  PROVE  Prefixes(p, [at EXCEPT ![a] = i], used)
<1> DEFINE to == [at EXCEPT ![a] = i]
<1>1. \A b \in Address : used[b] # 0 => to[b] = at[b]
  OBVIOUS
<1> HIDE DEF to
<1>2. \A k : CountedIn(to, used, k) = CountedIn(at, used, k)
  BY <1>1 DEF CountedIn
<1>3. Prefixes(p, to, used)
  BY <1>1, <1>2 DEF Prefixes
<1>4. QED BY <1>3 DEF to

-----------------------------------------------------------------------------
(* The handlers.  The tables agree with the rows, the row of address a     *)
(* taken as r, before and after each.                                      *)

Agree(n, r, at, used, a) ==
  /\ NetOK(n) /\ RowOK(r)
  /\ References(n.ifs, [at EXCEPT ![a] = r.at])
  /\ Prefixes(n.prefixes, [at EXCEPT ![a] = r.at], [used EXCEPT ![a] = r.used])

LEMMA SameTables ==
  ASSUME NEW n, NEW m, NEW r, NEW q, NEW at, NEW used, NEW a, Agree(n, r, at, used, a),
         NetOK(m), m.ifs = n.ifs, m.prefixes = n.prefixes,
         RowOK(q), q.at = r.at, q.used = r.used
  PROVE  Agree(m, q, at, used, a)
BY DEF Agree

LEMMA LinkTables ==
  ASSUME NEW n, NetOK(n), NEW a
  PROVE  NetOK(Link(n, a)) /\ Link(n, a).ifs = n.ifs /\ Link(n, a).prefixes = n.prefixes
BY DEF NetOK, Link

LEMMA InetIfCreateTables ==
  ASSUME NEW n, NetOK(n), NEW i, NEW v, NEW m, m = InetIfCreateExt(n, i, v)
  PROVE  NetOK(m) /\ m.ifs = n.ifs /\ m.prefixes = n.prefixes
BY DEF NetOK, InetIfCreateExt

LEMMA InetIfRemoveTables ==
  ASSUME NEW n, NetOK(n), NEW i, NEW v, NEW g, g = InetIfRemoveExt(n, i, v)
  PROVE  NetOK(g.net) /\ g.net.ifs = n.ifs /\ g.net.prefixes = n.prefixes /\ g.ok \in BOOLEAN
<1> DEFINE counts == [n.inetIf[i] EXCEPT ![v] = Less(n.inetIf[i][v])]
           less == [n EXCEPT !.inetIf = [n.inetIf EXCEPT ![i] = counts]]
           version == IF counts[v] = 0 THEN less.version \ {<<v, i>>} ELSE less.version
           inetIf == IF \A w \in Versions : counts[w] = 0 THEN Without(less.inetIf, i) ELSE less.inetIf
           gone == [less EXCEPT !.version = version, !.inetIf = inetIf]
<1>1. g = IF <<v, i>> \in n.version THEN [net |-> gone, ok |-> TRUE] ELSE [net |-> less, ok |-> FALSE]
  BY DEF InetIfRemoveExt
<1>2. NetOK(less) /\ less.ifs = n.ifs /\ less.prefixes = n.prefixes
  <2> HIDE DEF counts
  <2>1. QED BY DEF NetOK
<1> HIDE DEF less, version, inetIf
<1>3. NetOK(gone) /\ gone.ifs = n.ifs /\ gone.prefixes = n.prefixes
  BY <1>2 DEF NetOK
<1> HIDE DEF gone
<1>4. QED BY <1>1, <1>2, <1>3

LEMMA ResultFields ==
  \A n, r, ok : Result(n, r, ok).net = n /\ Result(n, r, ok).row = r
BY DEF Result

LEMMA Unlinked ==
  ASSUME NEW n, NEW r, NEW at \in [Address -> Layer], NEW used \in [Address -> Nat],
         NEW a \in Address, Agree(n, r, at, used, a)
  PROVE  Agree(Unlink(n, a, r), [r EXCEPT !.used = 0], at, used, a)
<1> DEFINE A == [at EXCEPT ![a] = r.at]
           U == [used EXCEPT ![a] = r.used]
           q == [r EXCEPT !.used = 0]
           p == IF r.used = 0 THEN n.prefixes ELSE UncountPrefix(n.prefixes, Prefix(a, r.at, r.used))
           m == Unlink(n, a, r)
<1>1. RowOK(r) /\ r.at \in Layer /\ r.used \in Nat
  BY DEF Agree, RowOK, RowType
<1>2. A \in [Address -> Layer] /\ A[a] = r.at /\ U \in [Address -> Nat] /\ U[a] = r.used
  BY <1>1
<1>3. RowOK(q) /\ q.at = r.at /\ q.used = 0
  BY <1>1 DEF RowOK, RowType
<1>4. m = [n EXCEPT !.linked = n.linked \ {a}, !.prefixes = p]
  BY DEF Unlink
<1>5. References(n.ifs, A) /\ Prefixes(n.prefixes, A, U) /\ NetOK(n)
  BY DEF Agree
<1>6. Prefixes(p, A, [U EXCEPT ![a] = 0])
  <2>1. CASE r.used = 0
    <3>1. [U EXCEPT ![a] = 0] = U
      BY <1>2, <2>1
    <3>2. QED BY <1>5, <2>1, <3>1
  <2>2. CASE r.used # 0
    <3> HIDE DEF A, U
    <3>1. Prefixes(UncountPrefix(n.prefixes, Prefix(a, A[a], U[a])), A, [U EXCEPT ![a] = 0])
      BY <1>2, <1>5, <2>2, LeavePrefix
    <3>2. QED BY <1>2, <2>2, <3>1
  <2>3. QED BY <2>1, <2>2
<1>7. [U EXCEPT ![a] = 0] = [used EXCEPT ![a] = q.used]
  BY <1>2, <1>3
<1> HIDE DEF p, m, q
<1>8. NetOK(m) /\ m.ifs = n.ifs /\ m.prefixes = p
  BY <1>4, <1>5 DEF NetOK
<1>9. Agree(m, q, at, used, a)
  BY <1>3, <1>5, <1>6, <1>7, <1>8 DEF Agree
<1>10. QED BY <1>9 DEF m, q

LEMMA DereferencedAgrees ==
  ASSUME NEW g, NEW r, NEW at \in [Address -> Layer], NEW used \in [Address -> Nat],
         NEW a \in Address, Agree(g.net, r, at, used, a), g.ok \in BOOLEAN,
         r.at # 0, r.used = 0, NEW h, h = Dereferenced(g, r)
  PROVE  /\ Agree(h.net, h.row, at, used, a) /\ h.ok = g.ok
         /\ h.ok => h.row.at = 0
         /\ h.row.ifIndex = r.ifIndex
<1>1. CASE ~g.ok
  BY <1>1 DEF Dereferenced, Result
<1>2. CASE g.ok
  <2> DEFINE n == g.net
             A == [at EXCEPT ![a] = r.at]
             f == Interfaces!RemoveReference(n.ifs, << >>, r.at, Call).ifs
             m == [n EXCEPT !.ifs = f]
             q == [r EXCEPT !.used = 0, !.at = 0]
  <2>1. h = Result(m, q, TRUE)
    BY <1>2 DEF Dereferenced
  <2>2. RowOK(r) /\ r.at \in Layer /\ NetOK(n) /\ References(n.ifs, A)
    BY DEF Agree, RowOK, RowType
  <2>3. RowOK(q) /\ q.at = 0 /\ q.used = 0 /\ q.ifIndex = r.ifIndex
    <3>1. 0 \in Layer /\ 0 \in Nat
      BY IpAddressAssumption DEF Layer
    <3>2. QED BY <2>2, <3>1 DEF RowOK, RowType
  <2>4. A \in [Address -> Layer] /\ A[a] = r.at
    BY <2>2
  <2> HIDE DEF f
  <2>5. m.ifs = f /\ m.prefixes = n.prefixes /\ NetOK(m)
    BY <2>2 DEF NetOK
  <2>6. /\ r.at \in DOMAIN n.ifs /\ n.ifs[r.at] \in InterfaceRow /\ n.ifs[r.at].refs > 0
        /\ References(Drop(n.ifs, r.at), [A EXCEPT ![a] = 0])
    <3> HIDE DEF A
    <3>1. QED BY <2>2, <2>4, LeaveInterface
  <2>7. f = Drop(n.ifs, r.at)
    BY <2>6, RemoveReferenceIs DEF f
  <2>8. [A EXCEPT ![a] = 0] = [at EXCEPT ![a] = q.at]
    BY <2>3
  <2>9. Prefixes(n.prefixes, [A EXCEPT ![a] = 0], [used EXCEPT ![a] = 0])
    <3>1. Prefixes(n.prefixes, A, [used EXCEPT ![a] = 0])
      BY DEF Agree
    <3>2. [used EXCEPT ![a] = 0] \in [Address -> Nat] /\ [used EXCEPT ![a] = 0][a] = 0
      OBVIOUS
    <3> HIDE DEF A
    <3>3. QED BY <2>4, <3>1, <3>2, MoveWithout
  <2> HIDE DEF m, q, A
  <2>10. Agree(m, q, at, used, a)
    BY <2>3, <2>5, <2>6, <2>7, <2>8, <2>9 DEF Agree
  <2>11. h.net = m /\ h.row = q /\ h.ok = TRUE
    BY <2>1 DEF Result
  <2>12. QED BY <1>2, <2>3, <2>10, <2>11
<1>3. QED BY <1>1, <1>2

LEMMA Detached ==
  ASSUME NEW n, NEW r, NEW at \in [Address -> Layer], NEW used \in [Address -> Nat],
         NEW a \in Address, Agree(n, r, at, used, a), r.at # 0,
         NEW h, h = Detach(n, a, r)
  PROVE  /\ Agree(h.net, h.row, at, used, a) /\ h.ok \in BOOLEAN
         /\ h.ok => h.row.at = 0
         /\ h.row.ifIndex = r.ifIndex
<1> DEFINE u == Unlink(n, a, r)
           g == InetIfRemoveExt(u, r.at, Version[a])
           q == [r EXCEPT !.used = 0]
<1>1. h = Dereferenced(g, q)
  BY DEF Detach
<1>2. Agree(u, q, at, used, a)
  BY Unlinked
<1>3. q.at = r.at /\ q.used = 0 /\ q.ifIndex = r.ifIndex
  BY DEF Agree, RowOK, RowType
<1> HIDE DEF u, q
<1>4. NetOK(g.net) /\ g.net.ifs = u.ifs /\ g.net.prefixes = u.prefixes /\ g.ok \in BOOLEAN
  BY <1>2, InetIfRemoveTables DEF Agree
<1> HIDE DEF g
<1>5. Agree(g.net, q, at, used, a)
  <2>1. RowOK(q)
    BY <1>2 DEF Agree
  <2>2. QED BY <1>2, <1>4, <2>1, SameTables
<1>6. QED BY <1>1, <1>3, <1>4, <1>5, DereferencedAgrees

LEMMA Attached ==
  ASSUME NEW n, NEW r, NEW at \in [Address -> Layer], NEW used \in [Address -> Nat],
         NEW a \in Address, Agree(n, r, at, used, a), r.at = 0,
         NEW h, h = Attach(n, a, r)
  PROVE  /\ Agree(h.net, h.row, at, used, a) /\ h.ok \in BOOLEAN
         /\ h.ok => h.row.at = r.ifIndex
<1>1. RowOK(r) /\ r.ifIndex \in Layer /\ r.length \in Nat /\ r.used = 0 /\ NetOK(n)
  BY DEF Agree, RowOK, RowType
<1>2. CASE r.ifIndex = 0
  <2>1. h = Result(Link(n, a), r, TRUE)
    BY <1>2 DEF Attach
  <2>2. h.net = Link(n, a) /\ h.row = r /\ h.ok = TRUE
    BY <2>1 DEF Result
  <2>3. Agree(Link(n, a), r, at, used, a)
    BY <1>1, LinkTables, SameTables
  <2>4. QED BY <1>2, <2>2, <2>3
<1>3. CASE r.ifIndex # 0
  <2> DEFINE i == r.ifIndex
             c == Interfaces!CreateReference(n.ifs, << >>, i, Call)
             key == Prefix(a, i, r.length)
             known == IF i \in DOMAIN n.inetIf THEN n ELSE InetIfCreateExt(n, i, Version[a])
             counted == IF r.length = 0 THEN known
                        ELSE [known EXCEPT !.prefixes = CountPrefix(known.prefixes, key)]
             there == [counted EXCEPT !.ifs = c.ifs]
             m == Link(there, a)
             q == [r EXCEPT !.used = r.length, !.at = i]
             A == [at EXCEPT ![a] = 0]
             U == [used EXCEPT ![a] = 0]
  <2>1. h = IF ~c.ok THEN Result([n EXCEPT !.ifs = c.ifs], r, FALSE) ELSE Result(m, q, TRUE)
    BY <1>3 DEF Attach, Referenced
  <2>2. i \in Index
    BY <1>1, <1>3 DEF Index, Layer
  <2>3. /\ A \in [Address -> Layer] /\ A[a] = 0 /\ U \in [Address -> Nat] /\ U[a] = 0
        /\ References(n.ifs, A) /\ Prefixes(n.prefixes, A, U)
    <3>1. 0 \in Layer
      BY IpAddressAssumption DEF Layer
    <3>2. QED BY <1>1, <3>1 DEF Agree
  <2>4. /\ i \in DOMAIN n.ifs => c.ok = TRUE /\ c.ifs = Refer(n.ifs, i)
        /\ i \notin DOMAIN n.ifs => c.ok = FALSE /\ c.ifs = n.ifs
    <3> HIDE DEF i, A, U
    <3>1. i \in DOMAIN n.ifs => n.ifs[i] \in InterfaceRow
      BY <2>3 DEF References
    <3>2. QED BY <2>2, <3>1, CreateReferenceIs
  <2> HIDE DEF c
  <2>5. CASE i \notin DOMAIN n.ifs
    <3> DEFINE k == [n EXCEPT !.ifs = c.ifs]
    <3>1. NetOK(k) /\ k.ifs = n.ifs /\ k.prefixes = n.prefixes
      BY <1>1, <2>4, <2>5 DEF NetOK
    <3> HIDE DEF k
    <3>2. Agree(k, r, at, used, a)
      BY <1>1, <3>1, SameTables
    <3>3. h.net = k /\ h.row = r /\ h.ok = FALSE
      BY <2>1, <2>4, <2>5 DEF Result, k
    <3>4. QED BY <3>2, <3>3
  <2>6. CASE i \in DOMAIN n.ifs
    <3>1. NetOK(known) /\ known.ifs = n.ifs /\ known.prefixes = n.prefixes
      BY <1>1, InetIfCreateTables
    <3>2. NetOK(counted) /\ counted.prefixes = IF r.length = 0 THEN n.prefixes ELSE CountPrefix(n.prefixes, key)
      <4> HIDE DEF known, key
      <4>1. QED BY <3>1 DEF NetOK
    <3> HIDE DEF known, counted
    <3>3. NetOK(there) /\ there.ifs = c.ifs /\ there.prefixes = counted.prefixes
      BY <3>2 DEF NetOK
    <3> HIDE DEF there
    <3>4. NetOK(m) /\ m.ifs = c.ifs /\ m.prefixes = counted.prefixes
      BY <3>3, LinkTables
    <3>5. RowOK(q) /\ q.at = i /\ q.used = r.length
      BY <1>1, <1>3 DEF RowOK, RowType
    <3>6. References(c.ifs, [A EXCEPT ![a] = i])
      <4> HIDE DEF A, i
      <4>1. References(Refer(n.ifs, i), [A EXCEPT ![a] = i])
        BY <2>3, <2>6, EnterInterface
      <4>2. QED BY <2>4, <2>6, <4>1
    <3>7. Prefixes(counted.prefixes, [A EXCEPT ![a] = i], [U EXCEPT ![a] = r.length])
      <4> DEFINE B == [A EXCEPT ![a] = i]
      <4>1. Prefixes(n.prefixes, B, U)
        <5> HIDE DEF A, U, i
        <5>1. QED BY <2>3, MoveWithout
      <4>2. B[a] = i
        BY <2>3
      <4>3. CASE r.length = 0
        <5>1. [U EXCEPT ![a] = r.length] = U
          BY <4>3
        <5>2. QED BY <3>2, <4>1, <4>3, <5>1
      <4>4. CASE r.length # 0
        <5> HIDE DEF B, U
        <5>1. Prefixes(CountPrefix(n.prefixes, Prefix(a, B[a], r.length)), B, [U EXCEPT ![a] = r.length])
          BY <1>1, <2>3, <4>1, <4>4, UsePrefix
        <5>2. QED BY <3>2, <4>2, <4>4, <5>1 DEF B, key
      <4>5. QED BY <4>3, <4>4
    <3>8. [A EXCEPT ![a] = i] = [at EXCEPT ![a] = q.at] /\ [U EXCEPT ![a] = r.length] = [used EXCEPT ![a] = q.used]
      BY <3>5
    <3> HIDE DEF m, q, A, U
    <3>9. Agree(m, q, at, used, a)
      BY <3>4, <3>5, <3>6, <3>7, <3>8 DEF Agree
    <3>10. h.net = m /\ h.row = q /\ h.ok = TRUE
      BY <2>1, <2>4, <2>6 DEF Result
    <3>11. QED BY <3>5, <3>9, <3>10
  <2>7. QED BY <2>5, <2>6
<1>4. QED BY <1>2, <1>3

LEMMA IfIndexHandled ==
  ASSUME NEW n, NEW r, NEW at \in [Address -> Layer], NEW used \in [Address -> Nat],
         NEW a \in Address, Agree(n, r, at, used, a),
         NEW h, h = IfIndexHandle(n, a, r)
  PROVE  /\ Agree(h.net, h.row, at, used, a) /\ h.ok \in BOOLEAN
         /\ h.ok => h.row.at = r.ifIndex
<1> DEFINE d == IF r.at = 0 THEN Result(n, r, TRUE) ELSE Detach(n, a, r)
<1>1. h = IF r.at = r.ifIndex THEN Result(n, r, TRUE)
          ELSE IF r.at # 0 /\ r.at \notin DOMAIN n.inetIf THEN Result(n, r, FALSE)
          ELSE Arrive(d, a)
  BY DEF IfIndexHandle
<1>2. /\ Agree(d.net, d.row, at, used, a) /\ d.ok \in BOOLEAN
      /\ d.ok => d.row.at = 0
      /\ d.row.ifIndex = r.ifIndex
  <2>1. CASE r.at = 0
    BY <2>1 DEF Result
  <2>2. CASE r.at # 0
    BY <2>2, Detached
  <2>3. QED BY <2>1, <2>2
<1> HIDE DEF d
<1>3. CASE h = Result(n, r, TRUE) /\ r.at = r.ifIndex
  BY <1>3 DEF Result
<1>4. CASE h = Result(n, r, FALSE)
  BY <1>4 DEF Result
<1>5. CASE h = Arrive(d, a)
  <2>1. CASE d.ok
    <3>1. h = Attach(d.net, a, d.row)
      BY <1>5, <2>1 DEF Arrive
    <3>2. QED BY <1>2, <2>1, <3>1, Attached
  <2>2. CASE ~d.ok
    BY <1>2, <1>5, <2>2 DEF Arrive
  <2>3. QED BY <2>1, <2>2
<1>6. QED BY <1>1, <1>3, <1>4, <1>5

LEMMA SettledAgrees ==
  ASSUME NEW h, NEW s \in {"notInService", "active"}, NEW at, NEW used, NEW a,
         Agree(h.net, h.row, at, used, a), h.ok \in BOOLEAN, DOMAIN h = {"net", "row", "ok"},
         NEW t, t = Settle(h, s)
  PROVE  /\ Agree(t.net, t.row, at, used, a) /\ t.ok = h.ok /\ t.row.at = h.row.at
<1> DEFINE q == [h.row EXCEPT !.status = s]
<1>1. CASE ~h.ok
  BY <1>1 DEF Settle
<1>2. CASE h.ok
  <2>1. t = [h EXCEPT !.row = q]
    BY <1>2 DEF Settle
  <2>2. RowOK(q) /\ q.at = h.row.at /\ q.used = h.row.used
    BY DEF Agree, RowOK, RowType
  <2> HIDE DEF q
  <2>3. t.net = h.net /\ t.row = q /\ t.ok = h.ok
    BY <2>1
  <2>4. Agree(h.net, q, at, used, a)
    <3>1. NetOK(h.net)
      BY DEF Agree
    <3>2. QED BY <2>2, <3>1, SameTables
  <2>5. QED BY <2>2, <2>3, <2>4
<1>3. QED BY <1>1, <1>2

LEMMA IfIndexHandleShape ==
  ASSUME NEW n, NEW a, NEW r
  PROVE  DOMAIN IfIndexHandle(n, a, r) = {"net", "row", "ok"}
<1> DEFINE IsResult(d) == \E x, y, ok : d = Result(x, y, ok)
<1>1. \A x, y, ok : IsResult(Result(x, y, ok))
  BY Zenon
<1>2. ASSUME NEW m, NEW q PROVE IsResult(Attach(m, a, q))
  <2> HIDE DEF IsResult
  <2> QED BY <1>1 DEF Attach, Referenced
<1>3. IsResult(Detach(n, a, r))
  <2> HIDE DEF IsResult
  <2> QED BY <1>1 DEF Detach, Dereferenced
<1>4. ASSUME NEW d, IsResult(d) PROVE IsResult(Arrive(d, a))
  <2> HIDE DEF IsResult
  <2> QED BY <1>2, <1>4 DEF Arrive
<1>5. IsResult(IfIndexHandle(n, a, r))
  <2> HIDE DEF IsResult
  <2> QED BY <1>1, <1>3, <1>4 DEF IfIndexHandle
<1>6. \A x, y, ok : DOMAIN Result(x, y, ok) = {"net", "row", "ok"}
  BY DEF Result
<1>7. QED BY <1>5, <1>6

LEMMA Activated ==
  ASSUME NEW n, NEW r, NEW at \in [Address -> Layer], NEW used \in [Address -> Nat],
         NEW a \in Address, Agree(n, r, at, used, a),
         NEW h, h = Activate(n, a, r)
  PROVE  Agree(h.net, h.row, at, used, a) /\ h.ok \in BOOLEAN
<1> DEFINE i == IfIndexHandle(n, a, r)
           p == Present(i)
<1>1. Agree(i.net, i.row, at, used, a) /\ i.ok \in BOOLEAN /\ DOMAIN i = {"net", "row", "ok"}
  BY IfIndexHandled, IfIndexHandleShape
<1>2. p.net = i.net /\ p.row = i.row /\ p.ok \in BOOLEAN /\ DOMAIN p = {"net", "row", "ok"}
  <2> HIDE DEF i
  <2>1. QED BY <1>1 DEF Present
<1>3. h = Result(n, r, TRUE) \/ h = Result(n, r, FALSE) \/ h = Settle(p, "active")
  BY DEF Activate
<1> HIDE DEF p
<1>4. CASE h = Settle(p, "active")
  <2>1. Agree(p.net, p.row, at, used, a)
    BY <1>1, <1>2
  <2>2. Agree(h.net, h.row, at, used, a) /\ h.ok = p.ok
    BY <1>2, <1>4, <2>1, SettledAgrees
  <2>3. QED BY <1>2, <2>2
<1>5. CASE h = Result(n, r, TRUE)
  BY <1>5 DEF Result
<1>6. CASE h = Result(n, r, FALSE)
  BY <1>6 DEF Result
<1>7. QED BY <1>3, <1>4, <1>5, <1>6

LEMMA Destroyed ==
  ASSUME NEW n, NEW r, NEW at \in [Address -> Layer], NEW used \in [Address -> Nat],
         NEW a \in Address, Agree(n, r, at, used, a),
         NEW h, h = Destroy(n, a, r)
  PROVE  /\ Agree(h.net, h.row, at, used, a) /\ h.ok \in BOOLEAN
         /\ h.ok => h.row.at = 0
<1> DEFINE q == [r EXCEPT !.ifIndex = 0]
           i == IfIndexHandle(n, a, q)
<1>1. RowOK(q) /\ q.at = r.at /\ q.used = r.used /\ q.ifIndex = 0
  <2>1. 0 \in Layer
    BY IpAddressAssumption DEF Layer
  <2>2. QED BY <2>1 DEF Agree, RowOK, RowType
<1> HIDE DEF q
<1>2. Agree(n, q, at, used, a)
  <2>1. NetOK(n)
    BY DEF Agree
  <2>2. QED BY <1>1, <2>1, SameTables
<1>3. /\ Agree(i.net, i.row, at, used, a) /\ i.ok \in BOOLEAN /\ DOMAIN i = {"net", "row", "ok"}
      /\ i.ok => i.row.at = 0
  BY <1>1, <1>2, IfIndexHandled, IfIndexHandleShape
<1>4. \/ h = Result(n, r, TRUE) /\ r.at = 0
      \/ h = Result(n, r, FALSE)
      \/ h = Settle(i, "notInService")
  BY DEF Destroy, q
<1> HIDE DEF i
<1>5. CASE h = Settle(i, "notInService")
  BY <1>3, <1>5, SettledAgrees
<1>6. CASE h = Result(n, r, TRUE) /\ r.at = 0
  BY <1>6 DEF Result
<1>7. CASE h = Result(n, r, FALSE)
  BY <1>7 DEF Result
<1>8. QED BY <1>4, <1>5, <1>6, <1>7

LEMMA Handled ==
  ASSUME NEW n, NEW r, NEW at \in [Address -> Layer], NEW used \in [Address -> Nat],
         NEW a \in Address, Agree(n, r, at, used, a),
         NEW s \in {"active", "notInService", "createAndWait", "destroy", "none"},
         NEW h, h = RowStatusHandle(n, a, r, s)
  PROVE  /\ Agree(h.net, h.row, at, used, a) /\ h.ok \in BOOLEAN
         /\ s = "destroy" /\ h.ok => h.row.at = 0
         /\ s = "createAndWait" => h.row.at = r.at
<1>1. CASE s = "active"
  BY <1>1, Activated DEF RowStatusHandle
<1>2. CASE s = "destroy"
  BY <1>2, Destroyed DEF RowStatusHandle
<1>3. CASE s \in {"notInService", "createAndWait"}
  <2> DEFINE q == [r EXCEPT !.status = "notInService"]
  <2>1. RowOK(q) /\ q.at = r.at /\ q.used = r.used /\ NetOK(n)
    BY DEF Agree, RowOK, RowType
  <2>2. h = Result(n, q, TRUE)
    BY <1>3 DEF RowStatusHandle
  <2> HIDE DEF q
  <2>3. h.net = n /\ h.row = q /\ h.ok = TRUE
    BY <2>2 DEF Result
  <2>4. Agree(n, q, at, used, a)
    BY <2>1, SameTables
  <2>5. QED BY <1>3, <2>1, <2>3, <2>4
<1>4. CASE s = "none"
  BY <1>4 DEF RowStatusHandle, Result
<1>5. QED BY <1>1, <1>2, <1>3, <1>4

-----------------------------------------------------------------------------
(* The steps.                                                              *)

LEMMA Columns ==
  ASSUME NEW rw \in [Address -> RowType]
  PROVE  At(rw) \in [Address -> Layer] /\ Used(rw) \in [Address -> Nat]
BY DEF At, Used, RowType

\* The tables agree with the rows just when they agree with the row of any address.
LEMMA AgreesBefore ==
  ASSUME RowsOK, NetOK(net), Counts(net, rows), NEW a \in Address
  PROVE  Agree(net, rows[a], At(rows), Used(rows), a)
<1>1. At(rows) \in [Address -> Layer] /\ Used(rows) \in [Address -> Nat]
  BY Columns DEF RowsOK
<1>2. [At(rows) EXCEPT ![a] = rows[a].at] = At(rows)
  BY DEF At
<1>3. [Used(rows) EXCEPT ![a] = rows[a].used] = Used(rows)
  BY DEF Used
<1>4. RowOK(rows[a])
  BY DEF RowsOK
<1>5. QED BY <1>2, <1>3, <1>4 DEF Agree, Counts

LEMMA AgreesAfter ==
  ASSUME RowsOK, NEW a \in Address, NEW m, NEW q, Agree(m, q, At(rows), Used(rows), a),
         rows' = [rows EXCEPT ![a] = q], NetOK(net'), net'.ifs = m.ifs, net'.prefixes = m.prefixes
  PROVE  RowsOK' /\ NetOK(net') /\ Counts(net', rows')
<1>1. /\ At(rows') = [At(rows) EXCEPT ![a] = q.at]
      /\ Used(rows') = [Used(rows) EXCEPT ![a] = q.used]
      /\ rows' \in [Address -> RowType] /\ \A b \in Address : RowOK(rows'[b])
  <2>1. rows'[a] = q /\ DOMAIN rows' = Address /\ \A b \in Address : b # a => rows'[b] = rows[b]
    BY DEF RowsOK
  <2>2. At(rows') = [At(rows) EXCEPT ![a] = q.at]
    BY <2>1 DEF At
  <2>3. Used(rows') = [Used(rows) EXCEPT ![a] = q.used]
    BY <2>1 DEF Used
  <2>4. \A b \in Address : RowOK(rows'[b])
    BY <2>1 DEF RowsOK, Agree
  <2>5. rows' \in [Address -> RowType]
    BY <2>4 DEF RowsOK, RowOK
  <2>6. QED BY <2>2, <2>3, <2>4, <2>5
<1>2. RowsOK'
  BY <1>1 DEF RowsOK
<1>3. Counts(net', rows')
  BY <1>1 DEF Counts, Agree
<1>4. QED BY <1>2, <1>3

LEMMA RowTypes ==
  /\ NewRow \in RowType /\ RowOK(NewRow) /\ NewRow.at = 0 /\ NewRow.used = 0
  /\ NoRow \in RowType /\ RowOK(NoRow) /\ NoRow.at = 0 /\ NoRow.used = 0
<1>1. 0 \in Layer
  BY IpAddressAssumption DEF Layer
<1>2. QED BY <1>1 DEF NewRow, NoRow, RowOK, RowType

\* The table of interfaces alone changes.
LEMMA InterfacesChange ==
  ASSUME IInv, UNCHANGED <<rows, pending>>, NEW f, net' = [net EXCEPT !.ifs = f],
         References(f, At(rows))
  PROVE  IInv'
<1>1. NetOK(net') /\ net'.ifs = f /\ net'.prefixes = net.prefixes
  BY DEF IInv, NetOK
<1>2. RowsOK' /\ PendingOK'
  BY DEF IInv, RowsOK, PendingOK
<1>3. Counts(net', rows')
  BY <1>1 DEF IInv, Counts
<1>4. QED BY <1>1, <1>2, <1>3 DEF IInv

LEMMA CreateInterfaceStep ==
  ASSUME IInv, NEW i \in Index, CreateInterface(i)
  PROVE  IInv'
<1> DEFINE f == net.ifs
           g == Interfaces!With(f, i, Interfaces!NewRow)
           e == Interfaces!Enter(f, << >>, i, 0, TRUE)
<1>1. i \notin DOMAIN f /\ i # 0 /\ References(f, At(rows)) /\ At(rows) \in [Address -> Layer]
  BY Columns DEF CreateInterface, Index, IInv, Counts, RowsOK
<1>2. e.ifs = g
  <2>1. e = Interfaces!Tables(g, Interfaces!IfCreateHier(<< >>, i), TRUE)
    BY <1>1 DEF Interfaces!Enter
  <2> HIDE DEF g, e
  <2>2. QED BY <2>1 DEF Interfaces!Tables
<1>3. /\ DOMAIN g = DOMAIN f \cup {i} /\ g[i] = Interfaces!NewRow
      /\ \A j \in DOMAIN f : g[j] = f[j]
  BY <1>1 DEF Interfaces!With
<1>4. Interfaces!NewRow \in InterfaceRow /\ Interfaces!NewRow.refs = 0
  BY DEF Interfaces!NewRow, InterfaceRow, Interfaces!Down
<1> HIDE DEF g
<1>5. Cardinality(UsersOf(At(rows), i)) = 0
  <2>1. UsersOf(At(rows), i) = {}
    BY <1>1 DEF References, UsersOf
  <2>2. QED BY <2>1, NoAddress
<1>6. References(g, At(rows))
  BY <1>1, <1>3, <1>4, <1>5 DEF References
<1>7. UNCHANGED <<rows, pending>> /\ net' = [net EXCEPT !.ifs = g]
  BY <1>2 DEF CreateInterface
<1>8. QED BY <1>6, <1>7, InterfacesChange

LEMMA RemoveInterfaceStep ==
  ASSUME IInv, NEW i \in Index, RemoveInterface(i)
  PROVE  IInv'
<1> DEFINE f == net.ifs
           g == Interfaces!Without(f, i)
           e == Interfaces!RemoveExt(f, << >>, i)
<1>1. i \in DOMAIN f /\ References(f, At(rows)) /\ At(rows) \in [Address -> Layer]
  BY Columns DEF RemoveInterface, IInv, Counts, RowsOK
<1>2. f[i].refs \in Nat /\ f[i].refs = Cardinality(UsersOf(At(rows), i))
  BY <1>1 DEF References, InterfaceRow
<1>3. References(e.ifs, At(rows))
  <2>1. CASE f[i].refs > 0
    <3>1. e = Interfaces!Tables(f, << >>, TRUE)
      BY <2>1 DEF Interfaces!RemoveExt
    <3>2. e.ifs = f
      BY <3>1 DEF Interfaces!Tables
    <3>3. QED BY <1>1, <3>2
  <2>2. CASE ~(f[i].refs > 0)
    <3>1. e = Interfaces!Tables(g, Interfaces!IfRemoveHier(<< >>, i), TRUE)
      BY <2>2 DEF Interfaces!RemoveExt
    <3>2. DOMAIN g = DOMAIN f \ {i} /\ \A j \in DOMAIN f \ {i} : g[j] = f[j]
      BY DEF Interfaces!Without
    <3> HIDE DEF g, e
    <3>3. e.ifs = g
      BY <3>1 DEF Interfaces!Tables
    <3>4. UsersOf(At(rows), i) = {}
      <4>1. Cardinality(UsersOf(At(rows), i)) = 0
        BY <1>2, <2>2
      <4>2. UsersOf(At(rows), i) \in SUBSET Address
        BY DEF UsersOf
      <4>3. QED BY <4>1, <4>2, NoAddress
    <3>5. \A a \in Address : At(rows)[a] # i
      BY <3>4 DEF UsersOf
    <3>6. References(g, At(rows))
      BY <1>1, <3>2, <3>5 DEF References
    <3>7. QED BY <3>3, <3>6
  <2>3. QED BY <2>1, <2>2
<1>4. UNCHANGED <<rows, pending>> /\ net' = [net EXCEPT !.ifs = e.ifs]
  BY DEF RemoveInterface
<1> HIDE DEF e
<1>5. QED BY <1>3, <1>4, InterfacesChange

\* A row that is at no interface is replaced by one that is at none.
LEMMA RowReplaced ==
  ASSUME IInv, NEW a \in Address, NEW q, RowOK(q), q.at = rows[a].at, q.used = rows[a].used,
         rows' = [rows EXCEPT ![a] = q], NetOK(net'), net'.ifs = net.ifs, net'.prefixes = net.prefixes
  PROVE  RowsOK' /\ NetOK(net') /\ Counts(net', rows')
<1>1. Agree(net, rows[a], At(rows), Used(rows), a)
  BY AgreesBefore DEF IInv
<1>2. Agree(net, q, At(rows), Used(rows), a)
  <2>1. NetOK(net)
    BY DEF IInv
  <2>2. QED BY <1>1, <2>1, SameTables
<1>3. RowsOK
  BY DEF IInv
<1>4. QED BY <1>2, <1>3, AgreesAfter

LEMMA FreeStep ==
  ASSUME IInv, NEW a \in Address, rows[a].at = 0, Free(a)
  PROVE  RowsOK' /\ NetOK(net') /\ Counts(net', rows')
<1>1. rows[a].used = 0
  BY DEF IInv, RowsOK, RowOK
<1>2. rows' = [rows EXCEPT ![a] = NoRow]
  BY DEF Free
<1>3. NetOK(net') /\ net'.ifs = net.ifs /\ net'.prefixes = net.prefixes
  BY DEF Free, IInv, NetOK
<1>4. QED BY <1>1, <1>2, <1>3, RowTypes, RowReplaced

LEMMA SetPrefixLengthStep ==
  ASSUME IInv, NEW a \in Address, NEW l \in Length, SetPrefixLength(a, l)
  PROVE  IInv'
<1> DEFINE q == [rows[a] EXCEPT !.length = l]
<1>1. rows[a] \in RowType /\ RowOK(rows[a]) /\ l \in Nat
  BY IpAddressAssumption DEF IInv, RowsOK
<1>2. RowOK(q) /\ q.at = rows[a].at /\ q.used = rows[a].used
  BY <1>1 DEF RowOK, RowType
<1>3. rows' = [rows EXCEPT ![a] = q] /\ UNCHANGED <<net, pending>>
  BY DEF SetPrefixLength
<1> HIDE DEF q
<1>4. RowsOK' /\ NetOK(net') /\ Counts(net', rows')
  BY <1>2, <1>3, RowReplaced DEF IInv
<1>5. \A b \in Address : rows'[b].at = rows[b].at
  BY <1>2, <1>3 DEF IInv, RowsOK
<1>6. PendingOK'
  <2>1. pending # NoRequest => pending.addr \in Address
    BY DEF IInv, PendingOK, Request
  <2>2. QED BY <1>3, <1>5, <2>1 DEF IInv, PendingOK
<1>7. QED BY <1>4, <1>6 DEF IInv

LEMMA ReserveStep ==
  ASSUME IInv, NEW a \in Address, NEW w \in Requested, Reserve(a, w[1], w[2])
  PROVE  IInv'
<1> DEFINE create == w[2] = "createAndWait"
<1>1. /\ w[1] \in Layer \cup {Unnamed}
      /\ w[2] \in {"active", "notInService", "createAndWait", "destroy", "none"}
  BY IpAddressAssumption DEF Layer, Unnamed
<1>2. UNCHANGED net /\ rows' = IF create THEN [rows EXCEPT ![a] = NewRow] ELSE rows
  BY DEF Reserve
<1>3. create => rows[a] = NoRow
  BY DEF Reserve
<1>4. RowsOK' /\ NetOK(net') /\ Counts(net', rows')
  <2>1. CASE create
    <3>1. /\ RowOK(NewRow) /\ NewRow.at = rows[a].at /\ NewRow.used = rows[a].used
          /\ rows' = [rows EXCEPT ![a] = NewRow]
      BY <1>2, <1>3, <2>1, RowTypes
    <3>2. QED BY <1>2, <3>1, RowReplaced DEF IInv
  <2>2. CASE ~create
    BY <1>2, <2>2 DEF IInv, RowsOK
  <2>3. QED BY <2>1, <2>2
<1>5. rows'[a] \in RowType /\ (create => rows'[a].at = 0)
  <2>1. rows'[a] \in RowType
    BY <1>4 DEF RowsOK
  <2>2. create => rows'[a] = NewRow
    BY <1>2 DEF IInv, RowsOK
  <2>3. QED BY <2>1, <2>2, RowTypes
<1>6. pending' = [phase |-> "reserved", addr |-> a, ifIndex |-> w[1], status |-> w[2], made |-> create,
                  old |-> rows'[a].ifIndex, idle |-> rows'[a].status # "active"]
  BY DEF Reserve
<1>7. PendingOK'
  <2>1. rows'[a].ifIndex \in Layer
    BY <1>5 DEF RowType
  <2>2. pending' \in Request
    BY <1>1, <1>6, <2>1 DEF Request
  <2>3. /\ pending'.made => rows'[pending'.addr].at = 0 /\ pending'.status = "createAndWait"
        /\ pending'.phase # "acted"
    BY <1>5, <1>6
  <2>4. QED BY <2>2, <2>3 DEF PendingOK
<1>8. QED BY <1>4, <1>7 DEF IInv

LEMMA Pending ==
  ASSUME IInv, pending.phase \in {"reserved", "acted", "refused"}
  PROVE  /\ pending \in Request
         /\ pending.made => rows[pending.addr].at = 0 /\ pending.status = "createAndWait"
         /\ pending.phase = "acted" /\ pending.status = "destroy" => rows[pending.addr].at = 0
BY DEF IInv, PendingOK, NoRequest

LEMMA ReleaseStep ==
  ASSUME IInv, Release
  PROVE  IInv'
<1>1. /\ pending.addr \in Address /\ pending' = NoRequest
      /\ pending.made => rows[pending.addr].at = 0
  BY Pending DEF Release, Request
<1>2. RowsOK' /\ NetOK(net') /\ Counts(net', rows')
  <2>1. CASE pending.made
    BY <1>1, <2>1, FreeStep DEF Release
  <2>2. CASE ~pending.made
    BY <2>2 DEF Release, IInv, RowsOK
  <2>3. QED BY <2>1, <2>2
<1>3. QED BY <1>1, <1>2 DEF IInv, PendingOK

LEMMA ActionStep ==
  ASSUME IInv, Action
  PROVE  IInv'
<1> DEFINE a == pending.addr
           s == pending.status
           r == IF pending.ifIndex = Unnamed THEN rows[a]
                ELSE [rows[a] EXCEPT !.ifIndex = pending.ifIndex]
           h == RowStatusHandle(net, a, r, s)
<1>1. /\ pending \in Request /\ pending.phase = "reserved"
      /\ pending.made => rows[a].at = 0 /\ s = "createAndWait"
  BY Pending DEF Action
<1>2. /\ rows' = [rows EXCEPT ![a] = h.row] /\ net' = h.net
      /\ pending' = [pending EXCEPT !.phase = IF h.ok THEN "acted" ELSE "refused"]
  BY DEF Action
<1>3. /\ a \in Address /\ pending.ifIndex \in Layer \cup {Unnamed}
      /\ s \in {"active", "notInService", "createAndWait", "destroy", "none"}
  BY <1>1 DEF Request
<1>4. RowOK(r) /\ r.at = rows[a].at /\ r.used = rows[a].used
  <2>1. rows[a] \in RowType /\ RowOK(rows[a])
    BY <1>3 DEF IInv, RowsOK
  <2>2. QED BY <1>3, <2>1 DEF RowOK, RowType
<1>5. Agree(net, r, At(rows), Used(rows), a)
  <2>1. Agree(net, rows[a], At(rows), Used(rows), a)
    BY <1>3, AgreesBefore DEF IInv
  <2>2. NetOK(net)
    BY DEF IInv
  <2> HIDE DEF r
  <2>3. QED BY <1>4, <2>1, <2>2, SameTables
<1> HIDE DEF r
<1>6. At(rows) \in [Address -> Layer] /\ Used(rows) \in [Address -> Nat]
  BY Columns DEF IInv, RowsOK
<1>7. /\ Agree(h.net, h.row, At(rows), Used(rows), a) /\ h.ok \in BOOLEAN
      /\ s = "destroy" /\ h.ok => h.row.at = 0
      /\ s = "createAndWait" => h.row.at = r.at
  <2>1. h = RowStatusHandle(net, a, r, s)
    OBVIOUS
  <2> HIDE DEF a, s, h
  <2>2. Agree(h.net, h.row, At(rows), Used(rows), a) /\ h.ok \in BOOLEAN
    BY ZenonT(60), <1>3, <1>5, <1>6, <2>1, Handled
  <2>3. s = "destroy" /\ h.ok => h.row.at = 0
    BY <1>3, <1>5, <1>6, <2>1, Handled
  <2>4. s = "createAndWait" => h.row.at = r.at
    BY <1>3, <1>5, <1>6, <2>1, Handled
  <2>5. QED BY <2>2, <2>3, <2>4
<1> HIDE DEF h
<1>8. RowsOK' /\ NetOK(net') /\ Counts(net', rows')
  <2>1. RowsOK /\ NetOK(h.net)
    BY <1>7 DEF IInv, Agree
  <2>2. QED BY <1>2, <1>3, <1>7, <2>1, AgreesAfter
<1>9. rows'[a] = h.row
  BY <1>2, <1>3 DEF IInv, RowsOK
<1>10. PendingOK'
  <2>1. /\ pending' \in Request /\ pending'.addr = a /\ pending'.status = s
        /\ pending'.made = pending.made
        /\ pending'.phase = IF h.ok THEN "acted" ELSE "refused"
    BY <1>1, <1>2 DEF Request
  <2>2. pending'.made => rows'[a].at = 0 /\ s = "createAndWait"
    BY <1>1, <1>4, <1>7, <1>9, <2>1
  <2>3. pending'.phase = "acted" /\ s = "destroy" => rows'[a].at = 0
    BY <1>7, <1>9, <2>1
  <2>4. QED BY <2>1, <2>2, <2>3 DEF PendingOK
<1>11. QED BY <1>8, <1>10 DEF IInv

LEMMA UndoStep ==
  ASSUME IInv, Undo
  PROVE  IInv'
<1> DEFINE a == pending.addr
           i == IF pending.ifIndex = Unnamed THEN rows[a].ifIndex ELSE pending.old
           q == [rows[a] EXCEPT !.ifIndex = i]
<1>1. /\ pending \in Request /\ pending' = NoRequest
      /\ pending.made => rows[a].at = 0
  BY Pending DEF Undo
<1>2. a \in Address /\ pending.old \in Layer
  BY <1>1 DEF Request
<1>3. RowsOK' /\ NetOK(net') /\ Counts(net', rows')
  <2>1. CASE pending.made
    BY <1>1, <1>2, <2>1, FreeStep DEF Undo
  <2>2. CASE ~pending.made
    <3>1. rows' = [rows EXCEPT ![a] = q] /\ UNCHANGED net
      BY <2>2 DEF Undo
    <3>2. RowOK(q) /\ q.at = rows[a].at /\ q.used = rows[a].used
      <4>1. rows[a] \in RowType /\ RowOK(rows[a])
        BY <1>2 DEF IInv, RowsOK
      <4>2. QED BY <1>2, <4>1 DEF RowOK, RowType
    <3> HIDE DEF q
    <3>3. QED BY <1>2, <3>1, <3>2, RowReplaced DEF IInv
  <2>3. QED BY <2>1, <2>2
<1>4. QED BY <1>1, <1>3 DEF IInv, PendingOK

LEMMA CommitStep ==
  ASSUME IInv, Commit
  PROVE  IInv'
<1>1. /\ pending.addr \in Address /\ pending' = NoRequest
      /\ pending.status = "destroy" => rows[pending.addr].at = 0
  BY Pending DEF Commit, Request
<1>2. RowsOK' /\ NetOK(net') /\ Counts(net', rows')
  <2>1. CASE pending.status = "destroy"
    BY <1>1, <2>1, FreeStep DEF Commit
  <2>2. CASE pending.status # "destroy"
    BY <2>2 DEF Commit, IInv, RowsOK
  <2>3. QED BY <2>1, <2>2
<1>3. QED BY <1>1, <1>2 DEF IInv, PendingOK

LEMMA Start == Init => IInv
<1> SUFFICES ASSUME Init PROVE IInv
  OBVIOUS
<1>1. RowsOK
  BY RowTypes DEF Init, RowsOK
<1>2. /\ NetOK(net) /\ net.ifs = << >> /\ net.prefixes = << >>
  BY DEF Init, NetOK
<1>3. \A a \in Address : At(rows)[a] = 0 /\ Used(rows)[a] = 0
  BY RowTypes DEF Init, At, Used
<1>4. DOMAIN << >> = {}
  OBVIOUS
<1>5. Counts(net, rows)
  BY <1>2, <1>3, <1>4 DEF Counts, References, Prefixes
<1>6. QED BY <1>1, <1>2, <1>5 DEF Init, IInv, PendingOK

LEMMA Step == IInv /\ [Next]_vars => IInv'
<1> SUFFICES ASSUME IInv, [Next]_vars PROVE IInv'
  OBVIOUS
<1>1. ASSUME NEW i \in Index, CreateInterface(i) PROVE IInv'
  BY <1>1, CreateInterfaceStep
<1>2. ASSUME NEW i \in Index, RemoveInterface(i) PROVE IInv'
  BY <1>2, RemoveInterfaceStep
<1>3. ASSUME NEW a \in Address, NEW l \in Length, SetPrefixLength(a, l) PROVE IInv'
  BY <1>3, SetPrefixLengthStep
<1>4. ASSUME NEW a \in Address, NEW w \in Requested, Reserve(a, w[1], w[2]) PROVE IInv'
  BY <1>4, ReserveStep
<1>5. CASE Release
  BY <1>5, ReleaseStep
<1>6. CASE Action
  BY <1>6, ActionStep
<1>7. CASE Undo
  BY <1>7, UndoStep
<1>8. CASE Commit
  BY <1>8, CommitStep
<1>9. CASE UNCHANGED vars
  BY <1>9 DEF vars, IInv, RowsOK, Counts, PendingOK
<1>10. QED BY <1>1, <1>2, <1>3, <1>4, <1>5, <1>6, <1>7, <1>8, <1>9 DEF Next

LEMMA Consequence == IInv => UsesCounted
<1> SUFFICES ASSUME IInv PROVE UsesCounted
  OBVIOUS
<1>1. \A a \in Address : At(rows)[a] = rows[a].at /\ Used(rows)[a] = rows[a].used
  BY DEF At, Used
<1>2. References(net.ifs, At(rows)) /\ Prefixes(net.prefixes, At(rows), Used(rows))
  BY DEF IInv, Counts
<1>3. \A i : UsersOf(At(rows), i) = Users(i)
  BY <1>1 DEF UsersOf, Users
<1>4. \A key : CountedIn(At(rows), Used(rows), key) = Counting(key)
  <2>1. \A a, i, l : Prefix(a, i, l)[1] = i
    BY DEF Prefix
  <2>2. QED BY <1>1, <2>1 DEF CountedIn, Counting, Users
<1>5. \A i \in Index : Users(i) # {} => i \in DOMAIN net.ifs
  <2>1. \A i \in Index : i # 0
    BY DEF Index
  <2>2. QED BY <1>1, <1>2, <2>1 DEF References, Users
<1>6. \A i \in DOMAIN net.ifs : net.ifs[i].refs = Cardinality(Users(i))
  BY <1>2, <1>3 DEF References
<1>7. \A a \in Address : rows[a].used # 0 => Prefix(a, rows[a].at, rows[a].used) \in DOMAIN net.prefixes
  BY <1>1, <1>2 DEF Prefixes
<1>8. \A key \in DOMAIN net.prefixes : net.prefixes[key] = Cardinality(Counting(key))
  BY <1>2, <1>4 DEF Prefixes
<1>9. QED BY <1>5, <1>6, <1>7, <1>8 DEF UsesCounted

\* An interface counts a reference, and the row of a prefix an address, for exactly
\* the rows of ipAddressTable that say so (ipMIB.c:2004, 2522, 2537 and 2551), wherever
\* a handler stops and however requests and interfaces come and go.
THEOREM UsesAlwaysCounted == Spec => []UsesCounted
<1>1. IInv => UsesCounted
  BY Consequence
<1>2. QED BY <1>1, Start, Step, PTL DEF Spec
===============================================================================
