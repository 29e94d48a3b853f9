------------------------------ MODULE RouteTable ------------------------------
(***************************************************************************)
(* inet/ipForward.c: inetCidrRouteTable and its SNMP mapper, the pattern   *)
(* that about ninety conceptual tables of the switch follow.  The agent    *)
(* takes a SET request through RESERVE1, RESERVE2, ACTION and COMMIT, or   *)
(* to FREE and UNDO when a mapper reports an error; in each phase the      *)
(* mapper runs over the variables of the request from first to last.       *)
(*                                                                         *)
(* The agent (net-snmp) is modelled from its use: it looks the rows of a   *)
(* request up once, before RESERVE1 (netsnmp_extract_iterator_context),    *)
(* hands a row inserted for one variable to all variables of the request   *)
(* with its index (netsnmp_insert_iterator_context), keeps data for each   *)
(* variable under ROLLBACK_BUFFER, and drives one request at a time.  The  *)
(* mapper of another table in the same request may report an error at the  *)
(* end of each phase.                                                      *)
(***************************************************************************)
EXTENDS Naturals, Sequences

CONSTANTS
  Key,         \* the indices of routes
  Column,      \* writable columns beside inetCidrRouteStatus
  Unsigned,    \* those of the type ASN_UNSIGNED, the others are ASN_INTEGER
  Value,       \* the values of the columns
  Default,     \* the value of each column in a new row
  MaxVariables \* bound on the variables of one request

ASSUME RouteTableAssumption ==
  /\ "status" \notin Column
  /\ Unsigned \subseteq Column
  /\ Default \in [Column -> Value]
  /\ MaxVariables \in Nat

VARIABLES
  status,  \* u8Status of the rows, "none" where there is no row
  cell,    \* the other columns of the rows, their defaults where there is none
  request, \* the variables of the request
  phase,   \* reqinfo->mode, "idle" between two requests
  i,       \* the position of the loop over the requests
  error,   \* an error has been set on the way, the loop goes on
  entry,   \* the variables with a row in their iterator context
  buffer,  \* ROLLBACK_BUFFER of the variables
  before   \* the table when the request arrived (history)

table == <<status, cell>>
vars == <<status, cell, request, phase, i, error, entry, buffer, before>>

Create == {"createAndGo", "createAndWait"}
RowStatus == {"active", "notInService", "destroy"} \cup Create

Variable ==
  [key : Key, col : Column, val : Value] \cup [key : Key, col : {"status"}, val : RowStatus]

IsCreate(v)  == v.col = "status" /\ v.val \in Create
IsDestroy(v) == v.col = "status" /\ v.val = "destroy"

\* The row of a variable after one that destroys the row is freed memory,
\* and COMMIT uses it when the variable is a row status.
Requests ==
  {req \in UNION {[1 .. n -> Variable] : n \in 1 .. MaxVariables} :
     \A m, n \in DOMAIN req :
       m < n /\ IsDestroy(req[m]) => ~(req[n].key = req[m].key /\ req[n].col = "status")}

\* A request that names one variable twice.
Ambiguous(req) ==
  \E m, n \in DOMAIN req : m # n /\ req[m].key = req[n].key /\ req[m].col = req[n].col

\* What ROLLBACK_BUFFER holds: nothing, the row just created, an old value.
Nothing == [kind |-> "nothing"]
NewRow  == [kind |-> "row"]
Old(x)  == [kind |-> "old", val |-> x]
Buffer  == {Nothing, NewRow} \cup {Old(x) : x \in Value}

Phase == {"idle", "reserve1", "reserve2", "free", "action", "undo", "commit"}

TypeOK ==
  /\ status \in [Key -> {"none", "active", "notInService"}]
  /\ cell \in [Key -> [Column -> Value]]
  /\ request \in Seq(Variable)
  /\ phase \in Phase
  /\ i \in 1 .. Len(request) + 1
  /\ error \in BOOLEAN
  /\ entry \in [DOMAIN request -> BOOLEAN]
  /\ buffer \in [DOMAIN request -> Buffer]
  /\ before \in [status : [Key -> {"none", "active", "notInService"}], cell : [Key -> [Column -> Value]]]

Init ==
  /\ status = [k \in Key |-> "none"]
  /\ cell = [k \in Key |-> Default]
  /\ request = <<>>
  /\ phase = "idle"
  /\ i = 1
  /\ error = FALSE
  /\ entry = <<>>
  /\ buffer = <<>>
  /\ before = [status |-> status, cell |-> cell]

-----------------------------------------------------------------------------
(* The agent.                                                              *)

Goto(p) ==
  /\ phase' = p
  /\ i' = 1
  /\ error' = FALSE

\* A request arrives and the row of each variable is looked up.
Begin ==
  /\ phase = "idle"
  /\ Goto("reserve1")
  /\ request' \in Requests
  /\ entry' = [n \in DOMAIN request' |-> status[request'[n].key] # "none"]
  /\ buffer' = [n \in DOMAIN request' |-> Nothing]
  /\ before' = [status |-> status, cell |-> cell]
  /\ UNCHANGED table

\* The phases that may follow when the mapper has run to the end of its loop.
Following ==
  [reserve1 |-> {"reserve2", "free"}, reserve2 |-> {"action", "free"}, action |-> {"commit", "undo"}]

Return ==
  /\ phase \in DOMAIN Following
  /\ i > Len(request)
  /\ \E p \in Following[phase] :
       /\ error => p = "free"
       /\ Goto(p)
  /\ UNCHANGED <<status, cell, request, entry, buffer, before>>

\* The request is answered and its data freed.
Finish ==
  /\ phase \in {"free", "undo", "commit"}
  /\ i > Len(request)
  /\ Goto("idle")
  /\ request' = <<>> /\ entry' = <<>> /\ buffer' = <<>>
  /\ before' = [status |-> status, cell |-> cell]
  /\ UNCHANGED table

-----------------------------------------------------------------------------
(* The mapper: one step is one turn of the loop of its phase.              *)

Loop(p) == phase = p /\ i <= Len(request)

\* The loop goes on with the next variable.
Turn ==
  /\ i' = i + 1
  /\ UNCHANGED <<request, phase, entry, before>>

\* The mapper sets an error and returns at once: the agent takes phase p next.
Refuse(p) ==
  /\ Goto(p)
  /\ UNCHANGED <<status, cell, request, entry, buffer, before>>

\* Mutant of CreateEntry: the row gets the status that was set, not its own.
CreateEntry_AsSet(k) ==
  /\ status[k] = "none"
  /\ status' = [status EXCEPT ![k] = request[i].val]
  /\ cell' = [cell EXCEPT ![k] = Default]

CreateEntry(k) ==
  /\ status[k] = "none"
  /\ status' = [status EXCEPT ![k] = "notInService"]
  /\ cell' = [cell EXCEPT ![k] = Default]

RemoveEntry(k) ==
  /\ status' = [status EXCEPT ![k] = "none"]
  /\ cell' = [cell EXCEPT ![k] = Default]

\* The checks of RESERVE1: a row status must fit the row, a column is checked
\* against the type of the first variable of the request (requests->requestvb).
IsUnsigned(v) == v.col \in Unsigned
Fits(n) ==
  IF request[n].col = "status"
  THEN \/ request[n].val = "destroy"
       \/ request[n].val \in Create /\ ~entry[n]
       \/ request[n].val \in {"active", "notInService"} /\ entry[n]
  ELSE IsUnsigned(request[1]) <=> IsUnsigned(request[n])

Reserve1 ==
  /\ Loop("reserve1")
  /\ \/ /\ Fits(i)
        /\ Turn
        /\ UNCHANGED <<status, cell, error, buffer>>
     \/ /\ ~Fits(i)
        /\ Refuse("free")

SameRow(m, n) == request[m].key = request[n].key

\* RESERVE2 creates rows, and the new row is handed to every variable with its
\* index; another variable without a row is an error that lets the loop go on.
Reserve2Create ==
  /\ Loop("reserve2")
  /\ IsCreate(request[i])
  /\ \/ /\ CreateEntry(request[i].key)
        /\ entry' = [n \in DOMAIN request |-> entry[n] \/ SameRow(n, i)]
        /\ buffer' = [buffer EXCEPT ![i] = NewRow]
        /\ i' = i + 1
        /\ UNCHANGED <<request, phase, error, before>>
     \/ Refuse("free")

\* Mutant of Reserve2: a variable without a row is not an error.
Reserve2_Ignores ==
  /\ Loop("reserve2")
  /\ ~IsCreate(request[i])
  /\ Turn
  /\ UNCHANGED <<status, cell, error, buffer>>

Reserve2 ==
  /\ Loop("reserve2")
  /\ ~IsCreate(request[i])
  /\ error' = (error \/ ~entry[i])
  /\ Turn
  /\ UNCHANGED <<status, cell, buffer>>

\* Mutant of Discard: the row stays.
Discard_BufferOnly ==
  /\ buffer' = [buffer EXCEPT ![i] = Nothing]
  /\ UNCHANGED table

\* A row created for this request is removed and its buffer emptied.
Discard ==
  /\ RemoveEntry(request[i].key)
  /\ buffer' = [buffer EXCEPT ![i] = Nothing]

IsNew(n) == entry[n] /\ buffer[n] # Nothing /\ IsCreate(request[n])

Free ==
  /\ Loop("free")
  /\ IF IsNew(i) THEN Discard ELSE UNCHANGED <<status, cell, buffer>>
  /\ Turn
  /\ UNCHANGED error

\* ACTION writes the columns and keeps the old value; it is out of memory at
\* times.  A row status waits for COMMIT.
Action ==
  /\ Loop("action")
  /\ \/ /\ request[i].col # "status"
        /\ buffer' = [buffer EXCEPT ![i] = Old(cell[request[i].key][request[i].col])]
        /\ cell' = [cell EXCEPT ![request[i].key][request[i].col] = request[i].val]
        /\ Turn
        /\ UNCHANGED <<status, error>>
     \/ /\ request[i].col = "status"
        /\ Turn
        /\ UNCHANGED <<status, cell, error, buffer>>
     \/ /\ request[i].col # "status"
        /\ Refuse("undo")

HasOld(n) == request[n].col # "status" /\ buffer[n] # Nothing
HasRow(n) == status[request[n].key] # "none"

\* UNDO puts the old values back and removes the new rows.  The old value of a
\* column whose row an earlier turn removed goes to the memory of that row,
\* which is free: no row of the table changes.
Undo ==
  /\ Loop("undo")
  /\ \/ /\ HasOld(i) /\ HasRow(i)
        /\ cell' = [cell EXCEPT ![request[i].key][request[i].col] = buffer[i].val]
        /\ UNCHANGED <<status, buffer>>
     \/ /\ HasOld(i) /\ ~HasRow(i)
        /\ UNCHANGED <<status, cell, buffer>>
     \/ /\ IsNew(i)
        /\ Discard
     \/ /\ buffer[i] = Nothing
        /\ UNCHANGED <<status, cell, buffer>>
  /\ Turn
  /\ UNCHANGED error

\* Mutant of Committed: the case of createAndWait falls into the one of active.
Committed_Falls ==
  [createAndGo |-> "active", active |-> "active", createAndWait |-> "active",
   notInService |-> "notInService"]

\* The status a row gets for the value that was set.
Committed ==
  [createAndGo |-> "active", active |-> "active", createAndWait |-> "notInService",
   notInService |-> "notInService"]

\* COMMIT gives the rows their status, or removes them.
Commit ==
  /\ Loop("commit")
  /\ \/ /\ request[i].col # "status"
        /\ UNCHANGED <<status, cell, buffer>>
     \/ /\ request[i].col = "status" /\ request[i].val # "destroy"
        /\ status' = [status EXCEPT ![request[i].key] = Committed[request[i].val]]
        /\ buffer' = [buffer EXCEPT ![i] = Nothing]
        /\ UNCHANGED cell
     \/ /\ IsDestroy(request[i])
        /\ RemoveEntry(request[i].key)
        /\ UNCHANGED buffer
  /\ Turn
  /\ UNCHANGED error

Next ==
  \/ Begin
  \/ Return
  \/ Finish
  \/ Reserve1
  \/ Reserve2Create
  \/ Reserve2
  \/ Free
  \/ Action
  \/ Undo
  \/ Commit

Spec == Init /\ [][Next]_vars

-----------------------------------------------------------------------------
(* Properties.                                                             *)

\* The variables whose row the mapper reads or writes in each phase.
Touches(n) ==
  \/ phase = "free" /\ IsNew(n)
  \/ phase = "action" /\ request[n].col # "status"
  \/ phase = "undo" /\ buffer[n] # Nothing
  \/ phase = "commit" /\ request[n].col = "status"

\* The row of the variable is one that an earlier variable of the request made.
OfNewRow(n) == \E m \in DOMAIN request : m < n /\ IsCreate(request[m]) /\ SameRow(m, n)

\* ACTION and COMMIT do not test table_entry: the mapper never goes through it
\* without a row.  Nor does it go to a row that another variable of the request
\* freed, except in one case: UNDO removes the new row at the turn of the
\* variable that made it and then puts the columns of that row back.
NoDangling ==
  i <= Len(request) /\ Touches(i) =>
    /\ entry[i]
    /\ HasRow(i) \/ (phase = "undo" /\ request[i].col # "status" /\ OfNewRow(i))

\* A request that fails, after RESERVE1, RESERVE2 or ACTION, leaves no trace,
\* whatever phase and variable it failed at.  The values are put back from the
\* first variable to the last, so this is about requests that name each once.
RolledBack ==
  phase \in {"free", "undo"} /\ i > Len(request) /\ ~Ambiguous(request)
    => before = [status |-> status, cell |-> cell]

\* To a manager that looks between requests, each is carried out as a whole
\* when it is committed, and not at all when it is refused.
AS == INSTANCE AtomicSet
        WITH status <- IF phase = "idle" THEN status ELSE before.status,
             cell   <- IF phase = "idle" THEN cell ELSE before.cell,
             asked  <- request,
             answer <- IF phase = "idle" THEN "none"
                       ELSE IF phase \in {"free", "undo"} THEN "refused" ELSE "pending"
AllOrNothing == AS!Spec
=============================================================================
