------------------------------- MODULE TableWalk -------------------------------
(***************************************************************************)
(* A manager walks a table with GETNEXT while rows are made and removed    *)
(* between its requests.  The rows are in a tree in the order of           *)
(* T_BTreeNodeCmp; the agent's table iterator is declared sorted           *)
(* (NETSNMP_ITERATOR_FLAG_SORTED), so that it answers GETNEXT with the     *)
(* first row that getFirst and getNext name beyond the name it was asked   *)
(* for.  The manager sees each row if the tree's order is the one of the   *)
(* names, part by part of the index.                                       *)
(*                                                                         *)
(* T_BTreeNodeCmp tests for -1, and octets and object identifiers answer   *)
(* with a difference: where it is greater, neither key is smaller than the *)
(* other, and the tree is in the order in which the rows were made as much *)
(* as in that of the keys.  So the tree is modelled as the sequence of its *)
(* rows from left to right, into which a row goes where a search for its   *)
(* key ends; the shape of the tree, which says where that is if there are  *)
(* several such places, is left open.                                      *)
(***************************************************************************)
EXTENDS Tables, SequencesExt

CONSTANTS
  Catalogue,   \* the tables, by their names
  Differences, \* memcmp answers with a difference, as glibc does, not with its sign
  MaxChanges   \* rows made and removed

ASSUME WalkAssumption == Differences \in BOOLEAN /\ MaxChanges \in Nat

\* The fields of a key have the widths of C's integers.
ASSUME KeysAssumption ==
  \A n \in DOMAIN Catalogue :
    Catalogue[n].index.keys \in
      Seq([type  : {"UNSIGNED", "INTEGER", "TIMETICKS", "OCTET_STR", "PADDED", "OBJECT_ID", "WITHIN"},
           bits  : {0, 8, 16, 32, 64},
           field : STRING])

VARIABLES
  table,   \* the table that is walked
  entries, \* the keys of the rows in its tree, from left to right
  last,    \* the name that the manager asks for the next of
  seen,    \* the rows it has been answered with
  ended,   \* the answer was the end of the table
  kept,    \* the rows that have been there since the walk began (history)
  made,    \* the rows that were ever in the tree (history)
  changes  \* rows made or removed

vars == <<table, entries, last, seen, ended, kept, made, changes>>

-----------------------------------------------------------------------------
(* Parts of a key.                                                         *)

parts == Catalogue[table].index.keys

\* A number in a name is a sub-identifier; octets and object identifiers are
\* preceded by their length.
IsNumber(k) == k.type \in {"UNSIGNED", "INTEGER", "TIMETICKS"}

\* What names hold in this part: a number beyond 16 bits is one of them, and
\* octets that fill a field of two and that do not.
Given(k) ==
  IF IsNumber(k) THEN {1, 65537}
  ELSE IF k.type = "PADDED" THEN {<<2>>, <<2, 0>>, <<2, 1>>, <<2, 3>>}
  ELSE {<<2>>, <<1, 1>>, <<1, 2>>, <<1, 4>>}

\* The part of a name as the row's field takes it.
Stored(k, x) ==
  IF IsNumber(k) THEN IF k.bits >= 32 THEN x ELSE x % 2 ^ k.bits
  ELSE IF k.type = "PADDED" /\ Len(x) = 1 THEN Append(x, 0)
  ELSE x

\* Where two sequences differ first.
FirstDifference(x, y) ==
  CHOOSE j \in DOMAIN x : x[j] # y[j] /\ \A h \in 1 .. j - 1 : x[h] = y[h]

Sign(d) == IF d < 0 THEN -1 ELSE IF d > 0 THEN 1 ELSE 0

\* Mutant of Cmp: octets are compared before their number.
Cmp_Octets(k, x, y) ==
  IF x = y THEN 0
  ELSE IF Len(x) = Len(y) \/ x[1] # y[1] THEN Sign(x[FirstDifference(x, y)] - y[FirstDifference(x, y)])
  ELSE Sign(Len(x) - Len(y))

\* xBinCmp and xOidCmp: the number of octets first, then the octets.
Cmp(k, x, y) ==
  LET d == FirstDifference(x, y) IN
  IF Len(x) # Len(y) THEN Sign(Len(x) - Len(y))
  ELSE IF x = y THEN 0
  ELSE IF Differences \/ k.type = "OBJECT_ID" THEN x[d] - y[d]
  ELSE Sign(x[d] - y[d])

Less(k, x, y) == IF IsNumber(k) THEN x < y ELSE Cmp(k, x, y) = -1

\* BTreeNodeCmp is -1: the parts are compared in the order of the index.  It is
\* 0 for equal keys, otherwise 1.
Before(a, b) ==
  \E j \in DOMAIN parts : Less(parts[j], a[j], b[j]) /\ \A h \in 1 .. j - 1 : a[h] = b[h]

\* The name that getNext writes for a row: the sub-identifiers of each part.
Name(r) == [j \in DOMAIN r |-> IF IsNumber(parts[j]) THEN <<r[j]>> ELSE <<Len(r[j])>> \o r[j]]

\* The agent's order of names; all follow the empty name.
Beyond(m, n) ==
  \/ n = <<>>
  \/ \E j \in DOMAIN m \cap DOMAIN n :
       /\ m[j] # n[j] /\ \A h \in 1 .. j - 1 : m[h] = n[h]
       /\ m[j][FirstDifference(m[j], n[j])] > n[j][FirstDifference(m[j], n[j])]

-----------------------------------------------------------------------------
(* Indices as a manager sends them: at most two parts that are neighbours  *)
(* differ from the first choice of each.                                   *)

Walkable(t) ==
  /\ t.index.keys # <<>>
  /\ t.index.walks = t.index.finds
  /\ \A j \in DOMAIN t.index.keys : t.index.keys[j].type # "WITHIN"

Base(t) == [j \in DOMAIN t.index.keys |-> CHOOSE x \in Given(t.index.keys[j]) : TRUE]
Varied(t) ==
  UNION {{[Base(t) EXCEPT ![p[2]] = y, ![p[1]] = x] :
            x \in Given(t.index.keys[p[1]]), y \in Given(t.index.keys[p[2]])} :
           p \in {q \in (DOMAIN t.index.keys) \X (DOMAIN t.index.keys) : q[2] \in {q[1], q[1] + 1}}}
\* For each table, which TLC computes once.
Indices == [n \in DOMAIN Catalogue |-> Varied(Catalogue[n])]
Key(t, n) == [j \in DOMAIN n |-> Stored(t.index.keys[j], n[j])]

TypeOK ==
  /\ entries \in Seq(made)
  /\ \A r \in made : DOMAIN r = DOMAIN parts /\ r = Key(Catalogue[table], r)
  /\ kept \subseteq ToSet(entries)
  /\ last = IF seen = <<>> THEN <<>> ELSE Name(Last(seen))
  /\ changes \in 0 .. MaxChanges

Init ==
  /\ table \in {n \in DOMAIN Catalogue : Walkable(Catalogue[n])}
  /\ entries = <<>>
  /\ last = <<>>
  /\ seen = <<>>
  /\ ended = FALSE
  /\ kept = {}
  /\ made = {}
  /\ changes = 0

Begun == seen # <<>> \/ ended

\* nodeFind and nodeAdd look for a key: left of the rows that it is smaller than,
\* right of those that it is neither smaller than nor equal to.  They come to a
\* place between two rows past both of them.
Ends(k, p) ==
  /\ p <= Len(entries) => Before(k, entries[p])
  /\ p > 1 => ~Before(k, entries[p - 1]) /\ k # entries[p - 1]

\* Mutant of CreateEntry: the key is the index as it was sent.
CreateEntry_AsSent(n) ==
  /\ changes < MaxChanges
  /\ \E p \in 1 .. Len(entries) + 1 :
       /\ Ends(Key(Catalogue[table], n), p)
       /\ entries' = InsertAt(entries, p, n)
  /\ made' = made \cup {n}
  /\ kept' = IF Begun THEN kept ELSE kept \cup {n}
  /\ changes' = changes + 1
  /\ UNCHANGED <<table, last, seen, ended>>

\* createEntry: a row that nodeFind finds is not made again.
CreateEntry(n) ==
  LET k == Key(Catalogue[table], n) IN
  /\ changes < MaxChanges
  /\ \E p \in 1 .. Len(entries) + 1 :
       /\ Ends(k, p)
       /\ entries' = InsertAt(entries, p, k)
  /\ made' = made \cup {k}
  /\ kept' = IF Begun THEN kept ELSE kept \cup {k}
  /\ changes' = changes + 1
  /\ UNCHANGED <<table, last, seen, ended>>

\* removeEntry: the row stays where nodeFind does not find it.
RemoveEntry(p) ==
  /\ changes < MaxChanges
  /\ entries' = RemoveAt(entries, p)
  /\ kept' = kept \ {entries[p]}
  /\ changes' = changes + 1
  /\ UNCHANGED <<table, last, seen, ended, made>>

\* getFirst and getNext in the order of the tree, up to the first row that is
\* named beyond the name.
Stops(p) ==
  /\ Beyond(Name(entries[p]), last)
  /\ \A q \in 1 .. p - 1 : ~Beyond(Name(entries[q]), last)

GetNext ==
  /\ ~ended
  /\ \/ \E p \in DOMAIN entries :
          /\ Stops(p)
          /\ seen' = Append(seen, entries[p])
          /\ last' = Name(entries[p])
          /\ UNCHANGED ended
     \/ /\ \A p \in DOMAIN entries : ~Stops(p)
        /\ ended' = TRUE
        /\ UNCHANGED <<seen, last>>
  /\ UNCHANGED <<table, entries, kept, made, changes>>

Next ==
  \/ \E n \in Indices[table] : CreateEntry(n)
  \/ \E p \in DOMAIN entries : RemoveEntry(p)
  \/ GetNext

Spec == Init /\ [][Next]_vars

-----------------------------------------------------------------------------
(* Properties.                                                             *)

\* The first part in which two keys differ is a number, or has other octets: more
\* of them, or the first that differs by one only.
Comparable(a, b) ==
  \A j \in DOMAIN parts :
    ~IsNumber(parts[j]) /\ (\A h \in 1 .. j - 1 : a[h] = b[h]) => Cmp(parts[j], a[j], b[j]) \in -1 .. 1

\* When a walk ends it has shown each row that was in the table all the time: the
\* order of the tree (BTreeNodeCmp) is the one of the names (getNext).  Not so once
\* there were two rows that BTreeNodeCmp cannot tell apart, as its test for -1
\* misses a greater difference.
WalkSeesAll ==
  ended => \/ kept \subseteq ToSet(seen)
           \/ \E a, b \in made : ~Comparable(a, b)
=============================================================================
