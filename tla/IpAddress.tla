------------------------------- MODULE IpAddress -------------------------------
(***************************************************************************)
(* Addresses on interfaces (inet/ipMIB.c, inet/neInetMIB.c): a row of      *)
(* ipAddressTable that becomes active takes a reference to its interface   *)
(* (IfTable), counts in the row of its prefix and in the rows that the     *)
(* interface has for the versions of IP, and gives these back when it      *)
(* moves or goes.  Calls can fail between these steps, and nothing is      *)
(* undone then.                                                            *)
(*                                                                         *)
(* The phases of a SET of ipAddressTable are steps of their own: mappers   *)
(* of other tables of the same request run between them.  Allocation does  *)
(* not fail.  Addresses with zones are left out: the code writes outside   *)
(* the prefix that it computes for them.  So are the tables of statistics  *)
(* and zones and the sums over interfaces, which no handler reads for its  *)
(* result.                                                                 *)
(***************************************************************************)
EXTENDS Integers, FiniteSets

CONSTANTS
  Address,   \* the indices of ipAddressTable
  Version,   \* of each address: 4 or 6
  Octets,    \* of each address and prefix length: the octets that the prefix keeps
  Length,    \* the prefix lengths that a manager writes
  Requested, \* the pairs of ipAddressIfIndex and ipAddressRowStatus that it writes
  LastIndex, \* the last index of an interface
  Modulus    \* 2^32 in the code: one more than the largest count

Versions == {4, 6}

ASSUME IpAddressAssumption ==
  /\ IsFiniteSet(Address)
  /\ Version \in [Address -> Versions]
  /\ Length \subseteq Nat
  /\ LastIndex \in Nat
  /\ Requested \subseteq (0 .. LastIndex + 1) \X
       {"active", "notInService", "createAndWait", "destroy", "none"}
  /\ Modulus \in Nat /\ Modulus > Cardinality(Address)

VARIABLES
  rows,    \* oIpAddressData_BTree
  net,     \* what the rows count in, see Init
  stale,   \* whether oIpAddressData_If_BTree holds a node that has been freed
  pending  \* the SET of a row that is under way

vars == <<rows, net, stale, pending>>

Index == 1 .. LastIndex

Unnamed == LastIndex + 1   \* the request does not name ipAddressIfIndex
NoRequest == [phase |-> "none"]

\* ifIndex and length are the columns, at and used what the row counts with.
NewRow == [status |-> "notInService", ifIndex |-> 0, length |-> 0, at |-> 0, used |-> 0]
NoRow == [NewRow EXCEPT !.status = "none"]

\* The calls at ipMIB.c:2537 and 2551.
Call == [given |-> TRUE, type |-> 0, admin |-> 0, create |-> FALSE, reference |-> TRUE,
         activate |-> FALSE, undo |-> FALSE, destroy |-> FALSE]

Interfaces == INSTANCE IfTable WITH
  Registered <- {}, Type <- {0}, Client <- Address, Call <- [a \in Address |-> Call],
  Written <- {}, MaxReferences <- Cardinality(Address), MaxStack <- 0,
  ifs <- net.ifs, stack <- << >>, pending <- [row |-> <<0, 0>>, value |-> "none", made |-> FALSE],
  holds <- [a \in Address |-> rows[a].at]

With(f, x, v) == [y \in DOMAIN f \cup {x} |-> IF y = x THEN v ELSE f[y]]
Without(f, x) == [y \in DOMAIN f \ {x} |-> f[y]]

-----------------------------------------------------------------------------
(* What an address counts in.                                              *)

Less(n) == (n - 1) % Modulus
More(n) == (n + 1) % Modulus

\* The prefix keeps one octet of an address of version 4 and two of version 6 at most,
\* since the code takes the number of the version for the size (ipMIB.c:2004).
Prefix(a, i, length) == <<i, Version[a], Octets[a][length], length>>

CountPrefix(p, key) == With(p, key, IF key \in DOMAIN p THEN More(p[key]) ELSE 1)

UncountPrefix(p, key) ==
  IF key \notin DOMAIN p THEN p
  ELSE IF Less(p[key]) = 0 THEN Without(p, key)
  ELSE [p EXCEPT ![key] = Less(@)]

\* For an interface without a row; the row of the version goes with it.
InetIfCreateExt(n, i, v) ==
  [n EXCEPT !.inetIf = With(@, i, [w \in Versions |-> IF w = v THEN 1 ELSE 0]),
            !.version = @ \cup {<<v, i>>}]

InetIfRemoveExt(n, i, v) ==
  LET counts == [n.inetIf[i] EXCEPT ![v] = Less(@)]
      less   == [n EXCEPT !.inetIf[i] = counts]
      gone   == [less EXCEPT
                   !.version = IF counts[v] = 0 THEN @ \ {<<v, i>>} ELSE @,
                   !.inetIf = IF \A w \in Versions : counts[w] = 0 THEN Without(@, i) ELSE @]
  IN IF <<v, i>> \in n.version THEN [net |-> gone, ok |-> TRUE] ELSE [net |-> less, ok |-> FALSE]

-----------------------------------------------------------------------------
(* The handlers.  Each returns what the address counts in and its row      *)
(* after the call, with "ok", the call's result.                           *)

Result(n, r, ok) == [net |-> n, row |-> r, ok |-> ok]

Link(n, a) == [n EXCEPT !.linked = @ \cup {a}]

\* c: what ifTable_createReference returned.  An interface that has a row already
\* is not asked to count the address.
Referenced(c, n, a, r) ==
  LET known == IF r.ifIndex \in DOMAIN n.inetIf THEN n
               ELSE InetIfCreateExt(n, r.ifIndex, Version[a])
      counted == IF r.length = 0 THEN known
                 ELSE [known EXCEPT !.prefixes = CountPrefix(@, Prefix(a, r.ifIndex, r.length))]
  IN IF ~c.ok THEN Result([n EXCEPT !.ifs = c.ifs], r, FALSE)
     ELSE Result(Link([counted EXCEPT !.ifs = c.ifs], a),
                 [r EXCEPT !.used = r.length, !.at = r.ifIndex], TRUE)

Attach(n, a, r) ==
  IF r.ifIndex = 0 THEN Result(Link(n, a), r, TRUE)
  ELSE Referenced(Interfaces!CreateReference(n.ifs, << >>, r.ifIndex, Call), n, a, r)

\* g: what neInetIfTable_removeExt returned.  ifTable_removeReference does not
\* refuse where it has nothing to deactivate.
Dereferenced(g, r) ==
  IF ~g.ok THEN Result(g.net, r, FALSE)
  ELSE Result([g.net EXCEPT !.ifs = Interfaces!RemoveReference(@, << >>, r.at, Call).ifs],
              [r EXCEPT !.used = 0, !.at = 0], TRUE)

Unlink(n, a, r) ==
  [n EXCEPT !.linked = @ \ {a},
            !.prefixes = IF r.used = 0 THEN @ ELSE UncountPrefix(@, Prefix(a, r.at, r.used))]

\* Mutant of Detach: the length is cleared once all calls have succeeded.
Detach_Late(n, a, r) == Dereferenced(InetIfRemoveExt(Unlink(n, a, r), r.at, Version[a]), r)

Detach(n, a, r) ==
  Dereferenced(InetIfRemoveExt(Unlink(n, a, r), r.at, Version[a]), [r EXCEPT !.used = 0])

\* d: what came of leaving the old interface.
Arrive(d, a) == IF d.ok THEN Attach(d.net, a, d.row) ELSE d

IfIndexHandle(n, a, r) ==
  IF r.at = r.ifIndex THEN Result(n, r, TRUE)
  ELSE IF r.at # 0 /\ r.at \notin DOMAIN n.inetIf THEN Result(n, r, FALSE)
  ELSE Arrive(IF r.at = 0 THEN Result(n, r, TRUE) ELSE Detach(n, a, r), a)

\* h: what came of the interface's handler.
Settle(h, s) == IF h.ok THEN [h EXCEPT !.row.status = s] ELSE h

Present(h) == [h EXCEPT !.ok = h.ok /\ h.row.at \in DOMAIN h.net.inetIf]

Activate(n, a, r) ==
  IF r.status = "active" THEN Result(n, r, TRUE)
  ELSE IF r.ifIndex = 0 \/ r.length = 0 THEN Result(n, r, FALSE)
  ELSE Settle(Present(IfIndexHandle(n, a, r)), "active")

Destroy(n, a, r) ==
  IF r.at = 0 THEN Result(n, r, TRUE)
  ELSE IF r.at \notin DOMAIN n.inetIf THEN Result(n, r, FALSE)
  ELSE Settle(IfIndexHandle(n, a, [r EXCEPT !.ifIndex = 0]), "notInService")

RowStatusHandle(n, a, r, s) ==
  CASE s = "active"  -> Activate(n, a, r)
    [] s = "destroy" -> Destroy(n, a, r)
    [] s \in {"notInService", "createAndWait"} ->
         Result(n, [r EXCEPT !.status = "notInService"], TRUE)
    [] s = "none"    -> Result(n, r, TRUE)

\* What the handler does to the tree of the interfaces is defined: it takes out a
\* node that is in the tree, adds one that is not, and meets no node that was freed.
TreeDefined(a, r, s) ==
  LET to == IF s = "destroy" THEN 0 ELSE r.ifIndex
  IN \/ s \notin {"active", "destroy"} \/ r.at = to
     \/ s = "active" /\ (r.status = "active" \/ r.ifIndex = 0 \/ r.length = 0)
     \/ r.at # 0 /\ r.at \notin DOMAIN net.inetIf
     \/ ~stale /\ (r.at # 0 <=> a \in net.linked)

-----------------------------------------------------------------------------
Init ==
  /\ rows = [a \in Address |-> NoRow]
  /\ net = [ifs      |-> << >>,  \* oIfTable_BTree, as in IfTable
            inetIf   |-> << >>,  \* oNeInetIfTable_BTree: addresses by version
            prefixes |-> << >>,  \* oIpAddressPrefixTable_BTree: u32NumAddresses
            version  |-> {},     \* the rows of ipv4InterfaceTable and ipv6InterfaceTable
            linked   |-> {}]     \* the rows in oIpAddressData_If_BTree
  /\ stale = FALSE
  /\ pending = NoRequest

\* Interfaces come, and go when nobody refers to them.
CreateInterface(i) ==
  /\ i \notin DOMAIN net.ifs
  /\ net' = [net EXCEPT !.ifs = Interfaces!Enter(@, << >>, i, 0, TRUE).ifs]
  /\ UNCHANGED <<rows, stale, pending>>

RemoveInterface(i) ==
  /\ i \in DOMAIN net.ifs
  /\ net' = [net EXCEPT !.ifs = Interfaces!RemoveExt(@, << >>, i).ifs]
  /\ UNCHANGED <<rows, stale, pending>>

\* A row of the request under way counts with the status that it had in RESERVE2.
Idle(a) ==
  IF pending # NoRequest /\ pending.addr = a THEN pending.idle ELSE rows[a].status # "active"

\* A SET of neIpAddressPrefixLength, or its UNDO.
SetPrefixLength(a, l) ==
  /\ rows[a] # NoRow /\ Idle(a)
  /\ rows' = [rows EXCEPT ![a].length = l]
  /\ UNCHANGED <<net, stale, pending>>

Free(a) ==
  /\ rows' = [rows EXCEPT ![a] = NoRow]
  /\ stale' = (stale \/ a \in net.linked)
  /\ net' = [net EXCEPT !.linked = @ \ {a}]

\* RESERVE1 and RESERVE2.  A row is made by a request that names only its status.
Reserve(a, i, s) ==
  LET create == s = "createAndWait"
  IN /\ pending = NoRequest
     /\ IF create THEN rows[a] = NoRow /\ i = Unnamed ELSE rows[a] # NoRow
     /\ i # Unnamed => rows[a].status # "active"
     /\ rows' = IF create THEN [rows EXCEPT ![a] = NewRow] ELSE rows
     /\ pending' = [phase |-> "reserved", addr |-> a, ifIndex |-> i, status |-> s, made |-> create,
                    old |-> rows'[a].ifIndex, idle |-> rows'[a].status # "active"]
     /\ UNCHANGED <<net, stale>>

\* FREE: another table refuses in RESERVE2.
Release ==
  /\ pending.phase = "reserved"
  /\ IF pending.made THEN Free(pending.addr) ELSE UNCHANGED <<rows, net, stale>>
  /\ pending' = NoRequest

Action ==
  LET a == pending.addr
      r == IF pending.ifIndex = Unnamed THEN rows[a]
           ELSE [rows[a] EXCEPT !.ifIndex = pending.ifIndex]
  IN /\ pending.phase = "reserved"
     /\ TreeDefined(a, r, pending.status)
     /\ \E h \in {RowStatusHandle(net, a, r, pending.status)} :
          /\ rows' = [rows EXCEPT ![a] = h.row]
          /\ net' = h.net
          /\ pending' = [pending EXCEPT !.phase = IF h.ok THEN "acted" ELSE "refused"]
     /\ UNCHANGED stale

\* UNDO: this table or another refused in ACTION.
Undo ==
  LET a == pending.addr
  IN /\ pending.phase \in {"acted", "refused"}
     /\ IF pending.made THEN Free(a)
        ELSE /\ rows' = [rows EXCEPT ![a].ifIndex = IF pending.ifIndex = Unnamed THEN @ ELSE pending.old]
             /\ UNCHANGED <<net, stale>>
     /\ pending' = NoRequest

Commit ==
  /\ pending.phase = "acted"
  /\ IF pending.status = "destroy" THEN Free(pending.addr) ELSE UNCHANGED <<rows, net, stale>>
  /\ pending' = NoRequest

Next ==
  \/ \E i \in Index : CreateInterface(i) \/ RemoveInterface(i)
  \/ \E a \in Address, l \in Length : SetPrefixLength(a, l)
  \/ \E a \in Address, w \in Requested : Reserve(a, w[1], w[2])
  \/ Release
  \/ Action
  \/ Undo
  \/ Commit

Spec == Init /\ [][Next]_vars

-----------------------------------------------------------------------------
\* An interface counts a reference, and the row of a prefix an address, for exactly
\* the rows that say so, although a move or a destroy fails half-way (ipMIB.c:2522,
\* 2532 and 2551) and is not undone, and a freed row counts nowhere: no interface is
\* held for ever, or removed under an address.
Users(i) == {a \in Address : rows[a].at = i}

Counting(key) == {a \in Users(key[1]) : rows[a].used # 0 /\ Prefix(a, rows[a].at, rows[a].used) = key}

UsesCounted ==
  /\ \A i \in Index : Users(i) # {} => i \in DOMAIN net.ifs
  /\ \A i \in DOMAIN net.ifs : net.ifs[i].refs = Cardinality(Users(i))
  /\ \A a \in Address : rows[a].used # 0 =>
       Prefix(a, rows[a].at, rows[a].used) \in DOMAIN net.prefixes
  /\ \A key \in DOMAIN net.prefixes : net.prefixes[key] = Cardinality(Counting(key))
===============================================================================
