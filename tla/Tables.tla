-------------------------------- MODULE Tables --------------------------------
(***************************************************************************)
(* The vocabulary of the table catalogues.  About three hundred tables and *)
(* groups of scalars answer the SNMP agent; their mappers follow one       *)
(* pattern and differ in columns, types and the way each column is         *)
(* checked, written and put back.  A catalogue says those differences:     *)
(*                                                                         *)
(*   T_Index  the key of a row, as T_init registers it, T_BTreeNodeCmp     *)
(*            orders it, T_getNext names it and T_getByIndex finds it      *)
(*   T_Read   MODE_GET: how each column is shown                           *)
(*   T_Check  RESERVE1, RESERVE2 and FREE: what a SET must satisfy and     *)
(*            which rows it creates                                        *)
(*   T_Write  ACTION, UNDO and COMMIT: how each column is written and put  *)
(*            back                                                         *)
(*                                                                         *)
(* A column is named by the field of the row that holds it: GET, ACTION    *)
(* and UNDO of a column use one field.  TableSet carries SET requests out  *)
(* as the catalogues say, TableWalk answers GET and GETNEXT.               *)
(***************************************************************************)
EXTENDS Integers, Sequences, TLC

-----------------------------------------------------------------------------
(* Keys: the parts of a key in the order of the index.  An integer of the  *)
(* name is stored in a field of so many bits.  Octets are compared as many *)
(* as their count says, or padded to the size of the field.                *)

Unsigned(bits, f) == [type |-> "UNSIGNED", bits |-> bits, field |-> f]
Signed(bits, f)   == [type |-> "INTEGER", bits |-> bits, field |-> f]
Ticks(bits, f)    == [type |-> "TIMETICKS", bits |-> bits, field |-> f]
Octets(f)         == [type |-> "OCTET_STR", bits |-> 0, field |-> f]
Padded(f)         == [type |-> "PADDED", bits |-> 0, field |-> f]
Oid(f)            == [type |-> "OBJECT_ID", bits |-> 0, field |-> f]
\* A part that is not in the key of the row: one row answers for its values.
Within(type, f)   == [type |-> "WITHIN", bits |-> 0, field |-> f]

\* getFirst and getNext walk a tree, get and getByIndex find rows in a tree:
\* the table's own, or that of another table.
RowsBetween(walks, finds, keys) == [walks |-> walks, finds |-> finds, keys |-> keys]
RowsOf(tree, keys) == RowsBetween(tree, tree, keys)
Rows(keys)         == RowsOf("own", keys)
NoIndex            == Rows(<<>>)

-----------------------------------------------------------------------------
(* MODE_GET: an integer, octets as many as the row counts, or all octets   *)
(* of the field.                                                           *)

Value(type, F)   == [f \in F |-> [type |-> type, by |-> "value"]]
Counted(type, F) == [f \in F |-> [type |-> type, by |-> "count"]]
Entire(type, F)  == [f \in F |-> [type |-> type, by |-> "size"]]
\* The time since the field was stamped.
Elapsed(type, F) == [f \in F |-> [type |-> type, by |-> "elapsed"]]

-----------------------------------------------------------------------------
(* RESERVE1: a column is checked against the type of the first variable of *)
(* the request, or against its own and a size: the one of its field, or    *)
(* the number of octets that the row holds at the time.                    *)

OfFirst(type, F) == [f \in F |-> [type |-> type, limit |-> "none"]]
Sized(type, F)   == [f \in F |-> [type |-> type, limit |-> "size"]]
Held(type, F)    == [f \in F |-> [type |-> type, limit |-> "held"]]

\* RESERVE2: the ways a table comes by its rows.
Check(rows, statusColumn, types) ==
  [rows    |-> rows,        \* "fixed", "commit", "handler", "column" or "scalars"
   status  |-> statusColumn, \* the column of the row status, "" if there is none
   types   |-> types,       \* the checks of the other columns
   creates |-> {"createAndGo", "createAndWait"},
   needs   |-> "nothing",   \* another row that createEntry is passed a value of
   frozen  |-> {},          \* not to be set while the row is active or not ready
   tested  |-> TRUE,        \* no use is made of a row that is missing
   context |-> "row",       \* "parent": the row is a part of what the tree holds
   missing |-> "continue"]  \* a missing row lets the loop go on, or ends it

\* Rows that are not made or removed by SET.
FixedRows(types) == Check("fixed", "", types)
\* Rows made by their row status, which COMMIT gives them.
CommitRows(statusColumn, types) == Check("commit", statusColumn, types)
\* Rows made by their row status, which the handler gives them in ACTION.
HandlerRows(statusColumn, types) == Check("handler", statusColumn, types)
\* Rows made by setting any of their columns.
ColumnRows(types) == [Check("column", "", types) EXCEPT !.creates = {}]
\* Variables that are not in a row.
Scalars(types) == Check("scalars", "", types)

-----------------------------------------------------------------------------
(* ACTION and UNDO.  The old value is kept                                 *)
(*   "word"      whole, and so put back                                    *)
(*   "counted"   as octets with their count, both put back                 *)
(*   "sized"     as all octets of the field, put back                      *)
(*   "buffer"    as the field itself, put back                             *)
(*   "uncounted" as octets whose count is left 0: none is put back         *)
(*   "strayed"   as the field itself, put back from where it points        *)
(* A "handled" column is written by a function that may refuse.            *)

Word(bits, F)   == [f \in F |-> [form |-> "word", bits |-> bits]]
Saved(form, F)  == [f \in F |-> [form |-> form, bits |-> 0]]
Handled(bits, F) == [f \in F |-> [form |-> "handled", bits |-> bits]]
\* A scalar is written in place and not put back.
InPlace(bits, F) == [f \in F |-> [form |-> "inPlace", bits |-> bits]]

\* The row status: given at COMMIT, or by a handler in ACTION; COMMIT removes
\* the row with removeEntry, or with a removeExt that may refuse.
Status(f, given, remove) == f :> [form |-> "status", bits |-> 8, given |-> given, remove |-> remove]
AtCommit(f)         == Status(f, {"commit"}, "removeEntry")
AtAction(f, remove) == Status(f, {"action"}, remove)
\* By a handler in ACTION, and once more at COMMIT.
AtBoth(f, remove)   == Status(f, {"action", "commit"}, remove)

NoColumns == <<>>

Table(index, read, check, write) ==
  [index |-> index, read |-> read, check |-> check, write |-> write]
ReadOnly(index, read) ==
  Table(index, read, Check("read", "", NoColumns), NoColumns)
=============================================================================
