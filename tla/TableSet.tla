------------------------------- MODULE TableSet -------------------------------
(***************************************************************************)
(* A SET request on one row of any table of the catalogues.  The agent     *)
(* takes the request through RESERVE1, RESERVE2, ACTION and COMMIT, or to  *)
(* FREE or UNDO when a mapper reports an error; in each phase the mapper   *)
(* of the table runs over the variables of the request.  What a phase does *)
(* with a variable is the same code in every mapper, up to the differences *)
(* that the catalogue states.                                              *)
(*                                                                         *)
(* The agent (net-snmp) is modelled from its use.  It looks the row up     *)
(* once, before RESERVE1; a mapper that makes the row hands it to all      *)
(* variables of the request with that index, as they rely on it in ACTION. *)
(* Data kept under ROLLBACK_BUFFER is freed when the request ends, unless  *)
(* the mapper has taken it back.  The mapper of another table in the same  *)
(* request may report an error at the end of each phase.                   *)
(***************************************************************************)
EXTENDS Tables

CONSTANTS
  Catalogue, \* the tables, by their names
  Both       \* whether requests of two variables are sent as well

VARIABLES
  table,   \* the table that the request is for, as the catalogue gives it
  status,  \* the row status of its row, "none" where there is no row
  cells,   \* the columns of the row that the request names
  request, \* the variables of the request
  mode,    \* reqinfo->mode; "handle" is the second loop of ACTION
  i,       \* the position of the loop over the requests
  error,   \* an error has been set on the way, the loop goes on
  context, \* the row that the variables have in their iterator context
  buffer,  \* ROLLBACK_BUFFER of the variables
  fault,   \* the memory that was wrongly used, if any
  before   \* the row when the request arrived (history)

vars == <<table, status, cells, request, mode, i, error, context, buffer, fault, before>>

-----------------------------------------------------------------------------
(* Columns and values.                                                     *)

check == table.check
write == table.write
read  == table.read

\* Octets of a field of this size, as many of them as are counted.
Size == 2
Padding(s) == [k \in 1 .. Size |-> IF k <= Len(s) THEN s[k] ELSE 0]
OctetString(s) == [held |-> Padding(s), count |-> Len(s)]

IsOctets(t, c) == c # t.check.status /\ t.write[c].bits = 0

\* What a column holds in a new row and in the rows that requests find.
Fresh(t, c) == IF IsOctets(t, c) THEN OctetString(<<>>) ELSE 0
Found(t, c) == IF IsOctets(t, c) THEN OctetString(<<3>>) ELSE 7

Create    == {"createAndGo", "createAndWait"}
RowStatus == {"active", "notInService", "destroy"} \cup Create

\* The number fits no field of 8 or 16 bits.  Octets that are more than the
\* field holds are sent where RESERVE1 looks at their number.
Given(t, c) ==
  IF c = t.check.status THEN RowStatus
  ELSE IF ~IsOctets(t, c) THEN {5, 65538}
  ELSE {<<4>>, <<4, 4>>} \cup (IF t.check.types[c].limit = "none" THEN {} ELSE {<<4, 4, 4>>})

TypeOf(t, c) == IF c = t.check.status THEN "INTEGER" ELSE t.check.types[c].type

Variable(t, c) == [col : {c}, type : {TypeOf(t, c)}, val : Given(t, c)]
\* A variable of a type that the column has not.
Mistyped(t, c) == [col : {c}, type : {"IPADDRESS"}, val : {"mistyped"}]

SetColumns(t) == DOMAIN t.check.types \cup ({t.check.status} \ {""})

\* Columns that are checked, frozen and written alike.
Alike(t, c, d) ==
  \/ c = d
  \/ /\ {c, d} \subseteq DOMAIN t.check.types
     /\ t.check.types[c] = t.check.types[d]
     /\ t.write[c] = t.write[d]
     /\ c \in t.check.frozen <=> d \in t.check.frozen
First(t, c) == CHOOSE d \in SetColumns(t) : Alike(t, c, d)
\* Two of each kind of column, for requests of two variables.
Samples(t) ==
  LET firsts == {First(t, c) : c \in SetColumns(t)}
      seconds == {CHOOSE d \in SetColumns(t) \ firsts : Alike(t, c, d) :
                    c \in {f \in firsts : \E d \in SetColumns(t) \ firsts : Alike(t, f, d)}}
  IN  firsts \cup seconds

Singles(t) == UNION {{<<v>> : v \in Variable(t, c) \cup Mistyped(t, c)} : c \in SetColumns(t)}
Pairs(t) ==
  UNION {{<<v, w>> : v \in Variable(t, p[1]), w \in Variable(t, p[2]) \cup Mistyped(t, p[2])} :
           p \in {q \in Samples(t) \X Samples(t) : q[1] # q[2]}}
Requests(t) == Singles(t) \cup (IF Both THEN Pairs(t) ELSE {})

\* The states of a row.
Statuses(t) ==
  CASE t.check.rows = "scalars" -> {"active"}
    [] t.check.rows = "column" -> {"none", "active"}
    [] t.check.rows = "commit" -> {"none", "notInService", "active"}
    [] t.check.rows = "handler" -> {"none", "notInService", "active", "notReady"}
    [] t.check.rows = "fixed" ->
         IF t.check.frozen = {} THEN {"none", "active"} ELSE {"none", "notInService", "active", "notReady"}

\* The ways an old value is kept and put back.
Forms == {"word", "counted", "sized", "buffer", "uncounted", "strayed", "handled", "inPlace"}

\* The catalogue is consistent: a column that may be set is checked and
\* written, and can be read; rows have a status where SET makes them by one;
\* numbers are shown as they are, octets by the count that ACTION writes or all
\* of them; only octets have a limit, and no octets are an IP address.
ASSUME CatalogueAssumption ==
  /\ Both \in BOOLEAN
  /\ \A n \in DOMAIN Catalogue :
       LET t == Catalogue[n] IN
       /\ t.check.rows \in {"fixed", "commit", "handler", "column", "scalars"}
       /\ DOMAIN t.write = SetColumns(t)
       /\ SetColumns(t) \subseteq DOMAIN t.read
       /\ t.check.frozen \subseteq DOMAIN t.check.types
       /\ t.check.status \notin DOMAIN t.check.types /\ "" \notin DOMAIN t.check.types
       /\ t.check.status # "" <=> t.check.rows \in {"commit", "handler"}
       /\ t.check.frozen # {} => t.check.rows \in {"fixed", "commit", "handler"}
       /\ t.check.context = "parent" => t.check.rows = "handler"
       /\ \A c \in DOMAIN t.check.types :
            /\ t.write[c].form \in Forms
            /\ t.write[c].form = "counted" => t.write[c].bits = 0 /\ t.read[c].by = "count"
            /\ t.read[c].by \in IF t.write[c].bits = 0 THEN {"count", "size"} ELSE {"value", "elapsed"}
            /\ t.read[c].by = "count" => t.write[c].form \in {"counted", "inPlace"}
            /\ t.check.types[c].limit # "none" => t.write[c].bits = 0
            /\ t.write[c].bits = 0 => t.check.types[c].type # "IPADDRESS"

-----------------------------------------------------------------------------
(* What ROLLBACK_BUFFER holds: nothing, the row just made, an old value.   *)

Nothing == [kind |-> "nothing"]
NewRow  == [kind |-> "row"]
Old(x)  == [kind |-> "old", val |-> x]

Modes == {"reserve1", "reserve2", "free", "action", "handle", "undo", "commit", "done", "refused", "stopped"}
Faults == {"none", "null", "stray", "freed", "mistyped"}

TypeOK ==
  /\ status \in {"none", "notInService", "active", "notReady"}
  /\ DOMAIN cells = {request[n].col : n \in DOMAIN request}
  /\ mode \in Modes
  /\ i \in 1 .. Len(request) + 1
  /\ error \in BOOLEAN
  /\ context \in {"none", "row", "stray"}
  /\ DOMAIN buffer = DOMAIN request
  /\ \A n \in DOMAIN request : buffer[n].kind \in {"nothing", "row", "old"}
  /\ fault \in Faults
  /\ fault # "none" <=> mode = "stopped"

\* The address of a part of a row that is missing is not null.
Looked == IF status # "none" THEN "row" ELSE IF check.context = "parent" THEN "stray" ELSE "none"

Init ==
  /\ table \in {Catalogue[n] : n \in DOMAIN Catalogue}
  /\ request \in Requests(table)
  /\ status \in Statuses(table)
  /\ cells = [c \in {request[n].col : n \in DOMAIN request} |-> Found(table, c)]
  /\ mode = "reserve1"
  /\ i = 1
  /\ error = FALSE
  /\ context = Looked
  /\ buffer = [n \in DOMAIN request |-> Nothing]
  /\ fault = "none"
  /\ before = [status |-> status, cells |-> cells]

-----------------------------------------------------------------------------
(* The agent.                                                              *)

Goto(p) ==
  /\ mode' = p
  /\ i' = 1
  /\ error' = FALSE

\* The phases that may follow when the mapper has run to the end of its loop.
Following ==
  [reserve1 |-> {"reserve2", "free"}, reserve2 |-> {"action", "free"},
   action |-> IF check.rows = "handler" THEN {"handle"} ELSE {"commit", "undo"},
   handle |-> {"commit", "undo"}]

\* The mappers of other tables run between two phases of this one: they may
\* activate the row of a table whose rows are not its own.
Return ==
  /\ mode \in DOMAIN Following
  /\ i > Len(request)
  /\ \E p \in Following[mode] :
       /\ error => p = "free"
       /\ Goto(p)
       /\ \/ UNCHANGED status
          \/ /\ p = "action" /\ check.rows = "fixed" /\ check.frozen # {} /\ status = "notInService"
             /\ status' = "active"
  /\ UNCHANGED <<table, cells, request, context, buffer, fault, before>>

\* The request is answered, and what its buffers still hold is freed.
Finish ==
  /\ mode \in {"free", "undo", "commit"}
  /\ i > Len(request)
  /\ LET freed == status # "none" /\ \E n \in DOMAIN request : buffer[n] = NewRow IN
     /\ fault' = IF freed THEN "freed" ELSE "none"
     /\ mode' = IF freed THEN "stopped" ELSE IF mode = "commit" THEN "done" ELSE "refused"
  /\ UNCHANGED <<table, status, cells, request, i, error, context, buffer, before>>

\* The request is over.
Over ==
  /\ mode \in {"done", "refused", "stopped"}
  /\ UNCHANGED vars

-----------------------------------------------------------------------------
(* The mapper: one step is one turn of the loop of its phase.              *)

Loop(p) == mode = p /\ i <= Len(request)

Turn ==
  /\ i' = i + 1
  /\ UNCHANGED <<table, request, mode, fault, before>>

\* The mapper sets an error and returns at once.
Refuse(p) ==
  /\ Goto(p)
  /\ UNCHANGED <<table, status, cells, request, context, buffer, fault, before>>

\* The mapper uses memory that it should not.
Stop(f) ==
  /\ fault' = f
  /\ mode' = "stopped"
  /\ UNCHANGED <<table, status, cells, request, i, error, context, buffer, before>>

IsStatus(v)  == v.col = check.status
IsMistyped(v) == v.type # TypeOf(table, v.col)
IsCreate(v)  == IsStatus(v) /\ v.val \in Create
IsDestroy(v) == IsStatus(v) /\ v.val = "destroy"

\* RESERVE1: the octets that the row holds are looked up in it.
Limit(v) == check.types[v.col].limit
Most(v)  == IF Limit(v) = "held" THEN cells[v.col].count ELSE Size

\* Mutant of FitsStatus: a row that is there may be created.
FitsStatus_Again(x) ==
  \/ x \in Create \cup {"destroy"}
  \/ x \in {"active", "notInService"} /\ context # "none"

FitsStatus(x) ==
  \/ x = "destroy"
  \/ x \in Create /\ context = "none"
  \/ x \in {"active", "notInService"} /\ context # "none"

Fits(v) ==
  IF IsStatus(v) THEN v.type = "INTEGER" /\ FitsStatus(v.val)
  ELSE IF Limit(v) = "none"
  THEN request[1].type = TypeOf(table, v.col)
  ELSE /\ v.type = TypeOf(table, v.col)
       /\ Len(v.val) <= Most(v)

NeedsRow(v) == ~IsStatus(v) /\ Limit(v) = "held"

Reserve1 ==
  /\ Loop("reserve1")
  /\ LET v == request[i] IN
     \/ NeedsRow(v) /\ context = "none" /\ Stop("null")
     \/ /\ NeedsRow(v) => context # "none"
        /\ ~Fits(v)
        /\ check.rows # "scalars"
        /\ Refuse("free")
     \/ /\ NeedsRow(v) => context # "none"
        /\ Fits(v) \/ check.rows = "scalars"
        /\ error' = (error \/ ~Fits(v))
        /\ Turn
        /\ UNCHANGED <<status, cells, context, buffer>>

\* RESERVE2: createEntry finds no memory at times, nor a row that it needs.
NewStatus == IF check.rows = "column" THEN "active" ELSE "notInService"

\* Mutant of CreateEntry: the row is not handed to the request.
CreateEntry_NotHanded ==
  /\ status = "none"
  /\ status' = NewStatus
  /\ cells' = [c \in DOMAIN cells |-> Fresh(table, c)]
  /\ buffer' = [buffer EXCEPT ![i] = NewRow]
  /\ UNCHANGED context

CreateEntry ==
  /\ status = "none"
  /\ status' = NewStatus
  /\ cells' = [c \in DOMAIN cells |-> Fresh(table, c)]
  /\ context' = IF check.context = "parent" THEN "stray" ELSE "row"
  /\ buffer' = [buffer EXCEPT ![i] = NewRow]

RemoveEntry ==
  /\ status' = "none"
  /\ UNCHANGED cells

Makes(v) == IsCreate(v) \/ (check.rows = "column" /\ context = "none")

Reserve2Create ==
  /\ Loop("reserve2")
  /\ LET v == request[i] IN
     /\ Makes(v)
     /\ \/ /\ v.val \in check.creates \/ check.rows = "column"
           /\ CreateEntry
           /\ Turn
           /\ UNCHANGED error
        \/ Refuse("free")

Up == {"active", "notReady"}

\* Mutant of IsFrozen: the row is looked at for the first variable only.
IsFrozen_First(v) ==
  v.col \in check.frozen /\ context = "row" /\ status \in Up /\ i = 1

IsFrozen(v) == v.col \in check.frozen /\ context = "row" /\ status \in Up

\* Mutant of Misses: a variable without a row is not an error.
Misses_Ignored == FALSE

Misses == context = "none"

\* The columns that are frozen in an active row are looked at in some tables
\* whether there is a row or not; a missing row ends the loop in some.
Reserve2 ==
  /\ Loop("reserve2")
  /\ LET v == request[i]
         astray ==
           IF v.col \notin check.frozen THEN "none"
           ELSE IF context = "none" /\ ~check.tested THEN "null"
           ELSE IF context = "stray" THEN "stray" ELSE "none" IN
     /\ ~Makes(v)
     /\ IF astray # "none" THEN Stop(astray)
        ELSE IF IsFrozen(v) \/ (Misses /\ check.missing = "return") THEN Refuse("free")
        ELSE /\ error' = (error \/ Misses)
             /\ Turn
             /\ UNCHANGED <<status, cells, context, buffer>>

\* FREE and UNDO pass over a variable that has no row or nothing kept.
Passed(n) == context # "row" \/ buffer[n] = Nothing

\* Mutant of Discard: the buffer is emptied and the row stays.
Discard_BufferOnly ==
  /\ buffer' = [buffer EXCEPT ![i] = Nothing]
  /\ UNCHANGED <<status, cells>>

\* The row goes by removeExt, which may refuse.
MayRefuse == check.status # "" /\ write[check.status].remove = "removeExt"

\* A row made for this request is removed and its buffer emptied.  FREE and UNDO
\* do not look at what removeExt returns: where it refuses, the row stays.
Discard ==
  /\ \/ RemoveEntry
     \/ MayRefuse /\ UNCHANGED <<status, cells>>
  /\ buffer' = [buffer EXCEPT ![i] = Nothing]

Free ==
  /\ Loop("free")
  /\ IF Passed(i) THEN UNCHANGED <<status, cells, buffer>> ELSE Discard
  /\ Turn
  /\ UNCHANGED <<error, context>>

\* ACTION: the value as the field takes it.  The numbers given fit 32 bits.
Truncated(x, bits) == IF bits >= 32 THEN x ELSE x % 2 ^ bits

\* Mutant of Put: the octets are written and their number is not.
Put_NotCounted(v) ==
  IF write[v.col].bits # 0 THEN Truncated(v.val, write[v.col].bits)
  ELSE [held |-> Padding(v.val), count |-> cells[v.col].count]

Put(v) ==
  LET w == write[v.col] IN
  IF w.bits # 0 THEN Truncated(v.val, w.bits)
  ELSE [held |-> Padding(v.val),
        count |-> IF w.form \in {"counted", "inPlace"} THEN Len(v.val) ELSE cells[v.col].count]

Keeps(v) == write[v.col].form # "inPlace" /\ buffer[i] # NewRow

Action ==
  /\ Loop("action")
  /\ LET v == request[i] IN
     \/ /\ IsStatus(v)
        /\ Turn
        /\ UNCHANGED <<status, cells, buffer>>
     \/ ~IsStatus(v) /\ context = "none" /\ Stop("null")
     \/ ~IsStatus(v) /\ context = "stray" /\ Stop("stray")
     \/ ~IsStatus(v) /\ context = "row" /\ IsMistyped(v) /\ Stop("mistyped")
     \/ /\ ~IsStatus(v) /\ context = "row" /\ ~IsMistyped(v)
        /\ cells' = [cells EXCEPT ![v.col] = Put(v)]
        /\ buffer' = IF Keeps(v) THEN [buffer EXCEPT ![i] = Old(cells[v.col])] ELSE buffer
        /\ Turn
        /\ UNCHANGED status
  /\ UNCHANGED <<error, context>>

\* Memory runs out, or the function that writes the column refuses.
ActionFails ==
  /\ Loop("action")
  /\ ~IsStatus(request[i]) /\ context = "row" /\ Keeps(request[i])
  /\ \/ Refuse("undo")
     \/ /\ write[request[i].col].form = "handled"
        /\ Goto("undo")
        /\ buffer' = [buffer EXCEPT ![i] = Old(cells[request[i].col])]
        /\ UNCHANGED <<table, status, cells, request, context, fault, before>>

\* The second loop of ACTION: the function of the row status succeeds or
\* fails, and may have given the row its status either way.
Gives ==
  [active |-> Up, createAndGo |-> Up, notInService |-> {"notInService"},
   createAndWait |-> {"notInService"}, destroy |-> {"notInService"}]

Handle ==
  /\ Loop("handle")
  /\ LET v == request[i] IN
     \/ /\ ~IsStatus(v)
        /\ Turn
        /\ UNCHANGED <<status, cells, error, context, buffer>>
     \/ IsStatus(v) /\ context # "row" /\ Stop("stray")
     \/ /\ IsStatus(v) /\ context = "row"
        /\ status' \in {status} \cup Gives[v.val]
        /\ \/ Turn /\ UNCHANGED error
           \/ Goto("undo") /\ UNCHANGED <<table, request, fault, before>>
        /\ UNCHANGED <<cells, context, buffer>>

\* UNDO: what the column holds once the old value is put back.
PutBack(c, old) ==
  CASE write[c].form \in {"word", "handled", "buffer", "sized"} -> old
    [] write[c].form = "counted" ->
         [held |-> [k \in 1 .. Size |-> IF k <= old.count THEN old.held[k] ELSE cells[c].held[k]],
          count |-> old.count]
    [] write[c].form = "uncounted" -> cells[c]

Undo ==
  /\ Loop("undo")
  /\ LET c == request[i].col IN
     \/ /\ Passed(i)
        /\ Turn
        /\ UNCHANGED <<status, cells, buffer>>
     \/ /\ ~Passed(i) /\ buffer[i] = NewRow
        /\ Discard
        /\ Turn
     \/ /\ ~Passed(i) /\ buffer[i] # NewRow
        /\ status = "none"
        /\ Stop("freed")
     \/ /\ ~Passed(i) /\ buffer[i] # NewRow
        /\ status # "none" /\ write[c].form = "strayed"
        /\ Stop("stray")
     \/ /\ ~Passed(i) /\ buffer[i] # NewRow
        /\ status # "none" /\ write[c].form # "strayed"
        /\ cells' = [cells EXCEPT ![c] = PutBack(c, buffer[i].val)]
        /\ Turn
        /\ UNCHANGED <<status, buffer>>
  /\ UNCHANGED <<error, context>>

\* Mutant of Committed: the row gets the value that was set.
Committed_AsSet ==
  [createAndGo |-> "createAndGo", active |-> "active", createAndWait |-> "createAndWait",
   notInService |-> "notInService"]

\* The status a row gets for the value that was set.
Committed ==
  [createAndGo |-> "active", active |-> "active", createAndWait |-> "notInService",
   notInService |-> "notInService"]

\* COMMIT takes the new rows out of their buffers, gives the rows their status
\* where ACTION has not, and removes them; removeExt may refuse.
Commit ==
  /\ Loop("commit")
  /\ LET v == request[i] IN
     \/ /\ ~IsStatus(v)
        /\ UNCHANGED <<status, cells, buffer>>
     \/ /\ IsStatus(v) /\ ~IsDestroy(v)
        /\ status' = IF "commit" \in write[v.col].given THEN Committed[v.val] ELSE status
        /\ buffer' = IF IsCreate(v) THEN [buffer EXCEPT ![i] = Nothing] ELSE buffer
        /\ UNCHANGED cells
     \/ /\ IsDestroy(v)
        /\ \/ RemoveEntry
           \/ MayRefuse /\ UNCHANGED <<status, cells>>
        /\ UNCHANGED buffer
  /\ Turn
  /\ UNCHANGED <<error, context>>

Next ==
  \/ Return
  \/ Finish
  \/ Over
  \/ Reserve1
  \/ Reserve2Create
  \/ Reserve2
  \/ Free
  \/ Action
  \/ ActionFails
  \/ Handle
  \/ Undo
  \/ Commit

Spec == Init /\ [][Next]_vars

-----------------------------------------------------------------------------
(* Properties.                                                             *)

\* What GET shows of a column.
Shown(c, x) ==
  CASE read[c].by = "count" -> SubSeq(x.held, 1, x.count)
    [] read[c].by = "size"  -> x.held
    [] read[c].by \in {"value", "elapsed"} -> x

\* ACTION and COMMIT use the row without a test, and FREE and UNDO the buffers
\* without a look at what they hold.  Memory is misused in these cases only:
\* RESERVE1 or RESERVE2 looks into a row that is not there; the row is a part
\* of one that is not there; UNDO of the row status frees the row that another
\* variable then puts its old value back to; a row stays in its tree when the
\* agent frees it, as its table has no COMMIT; octets were kept without their
\* pointer; a variable passed with the type of the first one.
NoOtherFault ==
  LET v == request[i] IN
  /\ fault = "null" =>
       /\ before.status = "none"
       /\ \/ mode = "stopped" /\ NeedsRow(v)
          \/ v.col \in check.frozen /\ ~check.tested
  /\ fault = "stray" =>
       \/ check.context = "parent" /\ before.status = "none"
       \/ write[v.col].form = "strayed"
  /\ fault = "freed" =>
       \/ check.rows = "column" /\ before.status = "none"
       \/ i > 1 /\ IsCreate(request[1])
  /\ fault = "mistyped" => i > 1 /\ Limit(v) = "none"

\* Columns whose old value UNDO puts back.
Restored(c) == c \notin {check.status} /\ write[c].form \notin {"uncounted", "strayed", "inPlace"}

\* The new row of a refused request that FREE or UNDO could not remove.
LeftBehind ==
  /\ before.status = "none" /\ status # "none"
  /\ MayRefuse
  /\ \E n \in DOMAIN request : IsCreate(request[n])

\* A request that is refused in any phase leaves no row behind, unless it made
\* one that removeExt refuses to remove, and takes none away, and GET shows the
\* old values again; the number of octets that was kept is enough for that.
\* The status stays where COMMIT gives it.
RolledBack ==
  mode = "refused" =>
    \/ LeftBehind
    \/ /\ status = "none" <=> before.status = "none"
       /\ check.rows \in {"commit", "column"} => status = before.status
       /\ before.status # "none" =>
            \A c \in DOMAIN cells : Restored(c) => Shown(c, cells[c]) = Shown(c, before.cells[c])

\* A column that the row status freezes is not written in a row that is active
\* or waits to be, whatever the order of the variables.  UNDO may write it: the
\* function of the row status has activated the row by then.  Where the row is
\* another table's, it may be activated between RESERVE2 and ACTION.
FrozenWhileUp ==
  [][\A c \in check.frozen \cap DOMAIN cells :
       cells'[c] # cells[c] /\ mode # "undo" =>
         /\ before.status \notin Up
         /\ check.rows # "fixed" => status \notin Up]_vars

\* The value of a variable in so far as its field can hold it.
Fitting(v) ==
  IF write[v.col].bits = 0
  THEN IF read[v.col].by = "size" THEN Padding(v.val) ELSE v.val
  ELSE Truncated(v.val, write[v.col].bits)

\* When a request is answered without an error, GET shows the values that were
\* set and the row has the status that was set.
TakesEffect ==
  mode = "done" =>
    \A n \in DOMAIN request :
      LET v == request[n] IN
      /\ ~IsStatus(v) /\ status # "none" => Shown(v.col, cells[v.col]) = Fitting(v)
      /\ IsStatus(v) =>
           /\ IsDestroy(v) => status = "none" \/ MayRefuse
           /\ ~IsDestroy(v) => status # "none"
           /\ ~IsDestroy(v) /\ "commit" \in write[v.col].given => status = Committed[v.val]

\* A value is set only in a row: a request that names a row that is not there
\* is refused, unless it makes the row.
RowsAreMade ==
  mode = "done" =>
    \/ before.status # "none"
    \/ IsCreate(request[1]) /\ request[1].val \in check.creates
    \/ check.rows = "column"

\* The tables whose rows are a part of another table's can make no rows: the
\* missing row looks like one in RESERVE1, so that a create is refused.
PartsAreNotMade ==
  check.context = "parent" /\ before.status = "none" => status = "none"

\* The comment at UNDO of the scalars: "return to previous value for the object".
ReturnsToPreviousValue ==
  mode = "refused" => \A c \in DOMAIN cells : cells[c] = before.cells[c]
=============================================================================
