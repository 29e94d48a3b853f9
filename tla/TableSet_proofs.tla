---------------------------- MODULE TableSet_proofs ----------------------------
(***************************************************************************)
(* Proofs about TableSet, for any catalogue of tables: the request stays   *)
(* well-formed, a request that names a missing row is refused unless it    *)
(* makes the row, parts of other rows are not made, frozen columns are not *)
(* written in rows that are up, a refused request is undone, memory is     *)
(* misused in the known cases only, and an answered request takes effect.  *)
(***************************************************************************)
EXTENDS TableSet, SequenceTheorems, TLAPS

-----------------------------------------------------------------------------
(* What arrives.                                                           *)

TableOK(t) ==
  /\ t.check.rows \in {"fixed", "commit", "handler", "column", "scalars"}
  /\ t.check.frozen \subseteq DOMAIN t.check.types
  /\ t.check.status \notin DOMAIN t.check.types /\ "" \notin DOMAIN t.check.types
  /\ t.check.status # "" <=> t.check.rows \in {"commit", "handler"}
  /\ t.check.frozen # {} => t.check.rows \in {"fixed", "commit", "handler"}
  /\ t.check.context = "parent" => t.check.rows = "handler"

\* A variable sets a column that can be set, and a row status has such a value
\* where its type is right.
VariableOK(t, v) ==
  /\ v.col \in SetColumns(t)
  /\ v.col = t.check.status /\ v.type = "INTEGER" => v.val \in RowStatus

RequestOK(t, r) ==
  /\ Len(r) \in Nat /\ Len(r) >= 1
  /\ DOMAIN r = 1 .. Len(r)
  /\ \A n \in DOMAIN r : VariableOK(t, r[n])

LEMMA Variables ==
  ASSUME NEW t, NEW c \in SetColumns(t), NEW v \in Variable(t, c) \cup Mistyped(t, c)
  PROVE  VariableOK(t, v)
<1>1. CASE v \in Variable(t, c)
  <2>1. v.col = c /\ v.val \in Given(t, c)
    BY <1>1 DEF Variable
  <2>2. c = t.check.status => Given(t, c) = RowStatus
    BY DEF Given
  <2>3. QED BY <2>1, <2>2 DEF VariableOK
<1>2. CASE v \in Mistyped(t, c)
  <2>1. v.col = c /\ v.type = "IPADDRESS"
    BY <1>2 DEF Mistyped
  <2>2. QED BY <2>1 DEF VariableOK
<1>3. QED BY <1>1, <1>2

LEMMA SamplesAreColumns ==
  ASSUME NEW t
  PROVE  Samples(t) \subseteq SetColumns(t)
<1> DEFINE firsts == {First(t, c) : c \in SetColumns(t)}
           kinds == {f \in firsts : \E d \in SetColumns(t) \ firsts : Alike(t, f, d)}
           second(c) == CHOOSE d \in SetColumns(t) \ firsts : Alike(t, c, d)
<1>1. \A c \in SetColumns(t) : First(t, c) \in SetColumns(t)
  <2> TAKE c \in SetColumns(t)
  <2>1. \E d \in SetColumns(t) : Alike(t, c, d)
    BY DEF Alike
  <2>2. QED BY <2>1 DEF First
<1>2. \A c \in kinds : second(c) \in SetColumns(t)
  OBVIOUS
<1>3. Samples(t) = firsts \cup {second(c) : c \in kinds}
  BY DEF Samples
<1> HIDE DEF second, kinds
<1>4. QED BY <1>1, <1>2, <1>3

LEMMA RequestsOK ==
  ASSUME NEW t, NEW r \in Requests(t)
  PROVE  RequestOK(t, r)
<1>1. CASE r \in Singles(t)
  <2>1. PICK c \in SetColumns(t) : r \in {<<v>> : v \in Variable(t, c) \cup Mistyped(t, c)}
    BY <1>1 DEF Singles
  <2>2. PICK v \in Variable(t, c) \cup Mistyped(t, c) : r = <<v>>
    BY <2>1
  <2>3. VariableOK(t, v)
    BY Variables
  <2>4. QED BY <2>2, <2>3 DEF RequestOK
<1>2. CASE r \in Pairs(t)
  <2>1. PICK p \in Samples(t) \X Samples(t) :
          r \in {<<v, w>> : v \in Variable(t, p[1]), w \in Variable(t, p[2]) \cup Mistyped(t, p[2])}
    BY <1>2 DEF Pairs
  <2>2. p[1] \in SetColumns(t) /\ p[2] \in SetColumns(t)
    BY SamplesAreColumns
  <2>3. PICK v \in Variable(t, p[1]), w \in Variable(t, p[2]) \cup Mistyped(t, p[2]) : r = <<v, w>>
    BY <2>1
  <2>4. VariableOK(t, v) /\ VariableOK(t, w)
    BY <2>2, Variables
  <2>5. QED BY <2>3, <2>4 DEF RequestOK
<1>3. QED BY <1>1, <1>2 DEF Requests

-----------------------------------------------------------------------------
(* The invariant.                                                          *)

\* The type of a row status has been looked at.
StatusValues ==
  \A n \in DOMAIN request :
    /\ (mode = "reserve1" /\ n < i) \/ mode \in {"reserve2", "action", "handle", "commit"}
    /\ IsStatus(request[n])
    => request[n].val \in RowStatus

\* Until ACTION the status is the one found, or that of a row just made.
StatusKept ==
  /\ check.rows = "scalars" => before.status = "active"
  /\ mode = "reserve1" => status = before.status
  /\ mode = "reserve2" \/ (mode = "action" /\ check.rows # "fixed") =>
       status = before.status \/ (before.status = "none" /\ status = NewStatus)

\* A part of a row that is missing: RESERVE1 takes it for a row and refuses to
\* make it, ACTION stops at the first variable.
PartsMissing ==
  check.context = "parent" /\ before.status = "none" =>
    /\ status = "none" /\ context = "stray"
    /\ mode \notin {"commit", "done"}
    /\ \A n \in DOMAIN request :
         (mode = "reserve1" /\ n < i) \/ mode = "reserve2" => ~IsCreate(request[n])
    /\ mode = "action" /\ i > 1 => IsStatus(request[1])
    /\ mode = "handle" => IsStatus(request[1]) /\ i = 1

\* A row that is missing: the first variable makes it, or is an error.
Creates == IsCreate(request[1]) /\ request[1].val \in check.creates

RowsMissing ==
  check.context # "parent" /\ before.status = "none" /\ check.rows # "column" =>
    /\ mode = "reserve1" \/ (mode = "reserve2" /\ i = 1) => context = "none"
    /\ mode = "reserve2" /\ i > 1 => error \/ Creates
    /\ mode \in {"action", "handle", "undo", "commit", "done"} => Creates

\* Of the variables that RESERVE2 has passed, none is frozen.
FrozenPassed ==
  \A n \in DOMAIN request :
    /\ (mode = "reserve2" /\ n < i) \/ mode = "action"
    /\ request[n].col \in check.frozen
    => before.status \notin Up \/ context # "row"

IInv ==
  /\ TableOK(table)
  /\ RequestOK(table, request)
  /\ TypeOK
  /\ StatusValues
  /\ StatusKept
  /\ PartsMissing
  /\ RowsMissing
  /\ FrozenPassed

LEMMA Initially == Init => IInv
<1> SUFFICES ASSUME Init PROVE IInv
  OBVIOUS
<1>1. TableOK(table)
  BY ZenonT(60), CatalogueAssumption DEF Init, TableOK
<1>2. RequestOK(table, request)
  BY RequestsOK DEF Init
<1>3. status \in Statuses(table) /\ before.status = status
  BY DEF Init
<1>4. /\ status \in {"none", "notInService", "active", "notReady"}
      /\ check.rows = "scalars" => status = "active"
  BY <1>1, <1>3 DEF Statuses, TableOK, check
<1>5. context = Looked /\ mode = "reserve1" /\ i = 1 /\ error = FALSE /\ fault = "none"
  BY DEF Init
<1>6. TypeOK
  <2>1. DOMAIN cells = {request[n].col : n \in DOMAIN request}
    BY DEF Init
  <2>2. DOMAIN buffer = DOMAIN request /\ \A n \in DOMAIN request : buffer[n].kind = "nothing"
    BY DEF Init, Nothing
  <2>3. context \in {"none", "row", "stray"}
    BY <1>5 DEF Looked
  <2>4. i \in 1 .. Len(request) + 1
    BY <1>2, <1>5 DEF RequestOK
  <2>5. mode \in Modes /\ fault \in Faults /\ (fault # "none" <=> mode = "stopped") /\ error \in BOOLEAN
    BY <1>5 DEF Modes, Faults
  <2>6. QED BY <1>4, <2>1, <2>2, <2>3, <2>4, <2>5 DEF TypeOK
<1>7. StatusValues /\ FrozenPassed
  BY <1>2, <1>5 DEF StatusValues, FrozenPassed, RequestOK
<1>8. StatusKept
  BY <1>3, <1>4, <1>5 DEF StatusKept
<1>9. PartsMissing /\ RowsMissing
  BY <1>2, <1>3, <1>5 DEF PartsMissing, RowsMissing, Looked, RequestOK
<1>10. QED BY <1>1, <1>2, <1>6, <1>7, <1>8, <1>9 DEF IInv

-----------------------------------------------------------------------------
(* Steps that the actions have in common.                                  *)

LEMMA SameRequest ==
  ASSUME IInv, UNCHANGED <<table, request, before>>
  PROVE  TableOK(table)' /\ RequestOK(table, request)'
BY DEF IInv

\* The mapper refuses, or uses memory that it should not.
LEMMA RefuseStep ==
  ASSUME IInv, NEW p \in {"free", "undo"}, Refuse(p), mode # "stopped",
         p = "undo" => mode = "action" /\ context = "row"
  PROVE  IInv'
<1>1. TableOK(table)' /\ RequestOK(table, request)'
  BY SameRequest DEF Refuse
<1>2. TypeOK'
  <2>1. /\ mode' \in Modes /\ mode' # "stopped" /\ error' = FALSE
        /\ UNCHANGED <<status, cells, request, context, buffer, fault>>
    BY DEF Refuse, Goto, Modes
  <2>2. i' \in 1 .. Len(request) + 1
    BY DEF IInv, RequestOK, Refuse, Goto
  <2>3. mode # "stopped"
    OBVIOUS
  <2>4. QED BY <2>1, <2>2, <2>3 DEF IInv, TypeOK
<1>3. StatusValues' /\ StatusKept' /\ FrozenPassed'
  BY DEF IInv, StatusValues, StatusKept, FrozenPassed, Refuse, Goto, check, NewStatus
<1>4. PartsMissing'
  BY DEF IInv, PartsMissing, Refuse, Goto, check
<1>5. RowsMissing'
  BY DEF IInv, RowsMissing, Refuse, Goto, check, Creates, IsCreate, IsStatus
<1>6. QED BY <1>1, <1>2, <1>3, <1>4, <1>5 DEF IInv

LEMMA StopStep ==
  ASSUME IInv, NEW f \in Faults \ {"none"}, Stop(f)
  PROVE  IInv'
<1>1. TableOK(table)' /\ RequestOK(table, request)'
  BY SameRequest DEF Stop
<1>2. TypeOK'
  BY DEF IInv, TypeOK, Stop, Modes, Faults
<1>3. StatusValues' /\ StatusKept' /\ FrozenPassed'
  BY DEF IInv, StatusValues, StatusKept, FrozenPassed, Stop, check
<1>4. PartsMissing' /\ RowsMissing'
  BY DEF IInv, PartsMissing, RowsMissing, Stop, check
<1>5. QED BY <1>1, <1>2, <1>3, <1>4 DEF IInv

-----------------------------------------------------------------------------
(* The agent.                                                              *)

LEMMA ReturnStep ==
  ASSUME IInv, Return
  PROVE  IInv'
<1>1. PICK p \in Following[mode] :
        /\ error => p = "free"
        /\ mode' = p /\ i' = 1 /\ error' = FALSE
        /\ \/ UNCHANGED status
           \/ /\ p = "action" /\ check.rows = "fixed" /\ check.frozen # {} /\ status = "notInService"
              /\ status' = "active"
  BY DEF Return, Goto
<1>2. /\ mode \in {"reserve1", "reserve2", "action", "handle"} /\ i > Len(request)
      /\ UNCHANGED <<table, cells, request, context, buffer, fault, before>>
  BY DEF Return, Following
<1>3. /\ mode = "reserve1" => p \in {"reserve2", "free"}
      /\ mode = "reserve2" => p \in {"action", "free"}
      /\ mode = "action" => p \in {"handle", "commit", "undo"}
      /\ mode = "action" /\ check.rows = "handler" => p = "handle"
      /\ mode = "handle" => p \in {"commit", "undo"}
  BY <1>1, <1>2 DEF Following
<1>4. TableOK(table)' /\ RequestOK(table, request)'
  BY <1>2, SameRequest
<1>5. Len(request) \in Nat /\ Len(request) >= 1 /\ DOMAIN request = 1 .. Len(request)
  BY DEF IInv, RequestOK
<1>6. i > 1 /\ \A n \in DOMAIN request : n < i
  BY <1>2, <1>5 DEF IInv, TypeOK
<1>7. TypeOK'
  <2>1. mode' \in Modes /\ i' \in 1 .. Len(request') + 1 /\ mode' # "stopped" /\ mode # "stopped"
    BY <1>1, <1>2, <1>3, <1>5 DEF Modes
  <2>2. QED BY <1>1, <1>2, <2>1 DEF IInv, TypeOK
<1>8. StatusValues'
  BY <1>1, <1>2, <1>3, <1>6 DEF IInv, StatusValues, IsStatus, check
<1>9. StatusKept'
  BY <1>1, <1>2, <1>3 DEF IInv, StatusKept, check, NewStatus
<1>10. PartsMissing'
  <2>1. check.context = "parent" => check.rows = "handler"
    BY DEF IInv, TableOK, check
  <2>2. SUFFICES ASSUME check.context = "parent", before.status = "none"
                 PROVE  PartsMissing'
    BY <1>2 DEF PartsMissing, check
  <2>3. /\ status = "none" /\ context = "stray"
        /\ \A n \in DOMAIN request : mode \in {"reserve1", "reserve2"} => ~IsCreate(request[n])
        /\ mode = "action" => IsStatus(request[1])
        /\ mode # "handle"
    BY <1>2, <1>5, <1>6, <2>2 DEF IInv, PartsMissing
  <2>4. status' = "none" /\ context' = "stray" /\ mode' \in {"reserve2", "free", "action", "handle"}
    BY <1>1, <1>2, <1>3, <2>1, <2>2, <2>3
  <2>5. \A n \in DOMAIN request : mode' = "reserve2" => ~IsCreate(request[n])
    BY <1>1, <1>2, <1>3, <2>3
  <2>6. mode' = "handle" => IsStatus(request[1])
    BY <1>1, <1>2, <1>3, <2>3
  <2>7. QED BY <1>1, <1>2, <2>4, <2>5, <2>6 DEF PartsMissing, IsCreate, IsStatus, check
<1>11. RowsMissing'
  BY <1>1, <1>2, <1>3, <1>6 DEF IInv, RowsMissing, Creates, IsCreate, IsStatus, check
<1>12. FrozenPassed'
  BY <1>1, <1>2, <1>3, <1>6 DEF IInv, FrozenPassed, check
<1>13. QED BY <1>4, <1>7, <1>8, <1>9, <1>10, <1>11, <1>12 DEF IInv

LEMMA FinishStep ==
  ASSUME IInv, Finish
  PROVE  IInv'
<1>1. /\ mode \in {"free", "undo", "commit"}
      /\ mode' \in {"stopped", "done", "refused"} /\ (mode' = "done" => mode = "commit")
      /\ fault' \in {"none", "freed"} /\ (fault' = "freed" <=> mode' = "stopped")
      /\ UNCHANGED <<table, status, cells, request, i, error, context, buffer, before>>
  BY DEF Finish
<1>2. TableOK(table)' /\ RequestOK(table, request)'
  BY <1>1, SameRequest
<1>3. TypeOK'
  BY <1>1 DEF IInv, TypeOK, Modes, Faults
<1>4. StatusValues' /\ StatusKept' /\ FrozenPassed'
  BY <1>1 DEF IInv, StatusValues, StatusKept, FrozenPassed, check
<1>5. PartsMissing'
  BY <1>1 DEF IInv, PartsMissing, check
<1>6. RowsMissing'
  BY <1>1 DEF IInv, RowsMissing, Creates, IsCreate, IsStatus, check
<1>7. QED BY <1>2, <1>3, <1>4, <1>5, <1>6 DEF IInv

-----------------------------------------------------------------------------
(* The mapper.                                                             *)

\* A turn of a loop that is not at its end.
LEMMA TurnFacts ==
  ASSUME IInv, NEW p \in Modes, Loop(p), Turn
  PROVE  /\ TableOK(table)' /\ RequestOK(table, request)'
         /\ mode = p /\ mode' = p /\ i' = i + 1 /\ i \in DOMAIN request
         /\ i \in Nat /\ i' \in 1 .. Len(request) + 1
         /\ UNCHANGED <<table, request, fault, before>>
<1>1. UNCHANGED <<table, request, mode, fault, before>> /\ i' = i + 1 /\ mode = p /\ i <= Len(request)
  BY DEF Turn, Loop
<1>2. i \in 1 .. Len(request) + 1 /\ Len(request) \in Nat /\ DOMAIN request = 1 .. Len(request)
  BY DEF IInv, TypeOK, RequestOK
<1>3. TableOK(table)' /\ RequestOK(table, request)'
  BY <1>1, SameRequest
<1>4. QED BY <1>1, <1>2, <1>3

LEMMA Reserve1Step ==
  ASSUME IInv, Reserve1
  PROVE  IInv'
<1> DEFINE v == request[i]
<1>1. Loop("reserve1") /\ mode = "reserve1"
  BY DEF Reserve1, Loop
<1>2. CASE Stop("null")
  BY <1>2, StopStep DEF Faults
<1>3. CASE Refuse("free")
  BY <1>1, <1>3, RefuseStep
<1>4. CASE /\ Fits(v) \/ check.rows = "scalars"
           /\ error' = (error \/ ~Fits(v))
           /\ Turn
           /\ UNCHANGED <<status, cells, context, buffer>>
  <2>1. /\ TableOK(table)' /\ RequestOK(table, request)'
        /\ mode' = "reserve1" /\ i' = i + 1 /\ i \in DOMAIN request /\ i \in Nat
        /\ i' \in 1 .. Len(request) + 1
        /\ UNCHANGED <<table, request, fault, before>>
    BY <1>1, <1>4, TurnFacts DEF Modes
  <2>2. TypeOK'
    <3>1. error' \in BOOLEAN
      BY <1>4
    <3>2. QED BY <1>1, <1>4, <2>1, <3>1 DEF IInv, TypeOK
  <2>3. VariableOK(table, v)
    BY <2>1 DEF IInv, RequestOK
  <2>4. StatusValues'
    <3>1. IsStatus(v) => v.val \in RowStatus
      <4>1. ASSUME IsStatus(v), check.rows = "scalars" PROVE FALSE
        BY <2>3, <4>1 DEF IInv, TableOK, VariableOK, IsStatus, SetColumns, check
      <4>2. IsStatus(v) => v.col = table.check.status /\ v.type = "INTEGER"
        BY <1>4, <4>1 DEF Fits, IsStatus, check
      <4>3. QED BY <2>3, <4>2 DEF VariableOK
    <3>2. \A n \in DOMAIN request : n < i' => n < i \/ n = i
      BY <2>1 DEF IInv, RequestOK
    <3>3. QED BY <1>1, <2>1, <3>1, <3>2 DEF IInv, StatusValues, IsStatus, check
  <2>5. StatusKept' /\ FrozenPassed'
    BY <1>1, <1>4, <2>1 DEF IInv, StatusKept, FrozenPassed, check
  <2>6. PartsMissing'
    <3>1. context = "stray" /\ check.rows = "handler" => ~IsCreate(v)
      <4>1. "destroy" \notin Create /\ "active" \notin Create /\ "notInService" \notin Create
        BY DEF Create
      <4>2. context = "stray" /\ check.rows = "handler" /\ IsStatus(v) => FitsStatus(v.val)
        BY <1>4 DEF Fits
      <4>3. QED BY <4>1, <4>2 DEF FitsStatus, IsCreate
    <3>2. check.context = "parent" => check.rows = "handler"
      BY DEF IInv, TableOK, check
    <3>3. \A n \in DOMAIN request : n < i' => n < i \/ n = i
      BY <2>1 DEF IInv, RequestOK
    <3>4. QED BY <1>1, <1>4, <2>1, <3>1, <3>2, <3>3 DEF IInv, PartsMissing, IsCreate, IsStatus, check
  <2>7. RowsMissing'
    BY <1>1, <1>4, <2>1 DEF IInv, RowsMissing, check
  <2>8. QED BY <2>1, <2>2, <2>4, <2>5, <2>6, <2>7 DEF IInv
<1>5. QED BY <1>2, <1>3, <1>4 DEF Reserve1

LEMMA Reserve2CreateStep ==
  ASSUME IInv, Reserve2Create
  PROVE  IInv'
<1> DEFINE v == request[i]
<1>1. Loop("reserve2") /\ mode = "reserve2" /\ Makes(v)
  BY DEF Reserve2Create, Loop
<1>2. CASE Refuse("free")
  BY <1>1, <1>2, RefuseStep
<1>3. CASE /\ v.val \in check.creates \/ check.rows = "column"
           /\ CreateEntry
           /\ Turn
           /\ UNCHANGED error
  <2>1. /\ TableOK(table)' /\ RequestOK(table, request)'
        /\ mode' = "reserve2" /\ i' = i + 1 /\ i \in DOMAIN request /\ i \in Nat
        /\ i' \in 1 .. Len(request) + 1
        /\ UNCHANGED <<table, request, fault, before>>
    BY <1>1, <1>3, TurnFacts DEF Modes
  <2>2. /\ status = "none" /\ status' = NewStatus
        /\ DOMAIN cells' = DOMAIN cells
        /\ context' = IF check.context = "parent" THEN "stray" ELSE "row"
        /\ buffer' = [buffer EXCEPT ![i] = NewRow]
    BY <1>3 DEF CreateEntry
  <2>3. before.status = "none"
    BY <1>1, <2>2 DEF IInv, StatusKept
  <2>4. TypeOK'
    <3>1. status' \in {"active", "notInService"}
      BY <2>2 DEF NewStatus
    <3>2. DOMAIN buffer' = DOMAIN request /\ \A n \in DOMAIN request : buffer'[n].kind \in {"nothing", "row", "old"}
      <4>1. DOMAIN buffer = DOMAIN request /\ \A n \in DOMAIN request : buffer[n].kind \in {"nothing", "row", "old"}
        BY DEF IInv, TypeOK
      <4>2. QED BY <2>2, <4>1 DEF NewRow
    <3>3. QED BY <1>1, <1>3, <2>1, <2>2, <3>1, <3>2 DEF IInv, TypeOK
  <2>5. StatusValues'
    BY <1>1, <2>1 DEF IInv, StatusValues, IsStatus, check
  <2>6. StatusKept'
    BY <1>1, <2>1, <2>2, <2>3 DEF IInv, StatusKept, NewStatus, check
  <2>7. PartsMissing'
    <3>1. check.context = "parent" => check.rows = "handler"
      BY DEF IInv, TableOK, check
    <3>2. check.context # "parent"
      BY <1>1, <2>1, <2>3, <3>1 DEF IInv, PartsMissing, Makes
    <3>3. QED BY <2>1, <3>2 DEF PartsMissing, check
  <2>8. RowsMissing'
    <3>1. check.rows # "column" /\ i = 1 => Creates
      BY <1>1, <1>3 DEF Makes, Creates
    <3>2. check.context # "parent" /\ check.rows # "column" => error \/ Creates
      BY <1>1, <2>1, <2>3, <3>1 DEF IInv, RowsMissing, RequestOK
    <3>3. i' # 1
      BY <2>1 DEF IInv, RequestOK
    <3>4. QED BY <1>3, <2>1, <3>2, <3>3 DEF RowsMissing, Creates, IsCreate, IsStatus, check
  <2>9. FrozenPassed'
    BY <2>1, <2>3 DEF FrozenPassed, Up
  <2>10. QED BY <2>1, <2>4, <2>5, <2>6, <2>7, <2>8, <2>9 DEF IInv
<1>4. QED BY <1>2, <1>3 DEF Reserve2Create

LEMMA Reserve2Step ==
  ASSUME IInv, Reserve2
  PROVE  IInv'
<1> DEFINE v == request[i]
<1>1. Loop("reserve2") /\ mode = "reserve2" /\ ~Makes(v)
  BY DEF Reserve2, Loop
<1>2. CASE \E f \in {"null", "stray"} : Stop(f)
  BY <1>2, StopStep DEF Faults
<1>3. CASE Refuse("free")
  BY <1>1, <1>3, RefuseStep
<1>4. CASE /\ ~IsFrozen(v)
           /\ error' = (error \/ Misses)
           /\ Turn
           /\ UNCHANGED <<status, cells, context, buffer>>
  <2>1. /\ TableOK(table)' /\ RequestOK(table, request)'
        /\ mode' = "reserve2" /\ i' = i + 1 /\ i \in DOMAIN request /\ i \in Nat
        /\ i' \in 1 .. Len(request) + 1
        /\ UNCHANGED <<table, request, fault, before>>
    BY <1>1, <1>4, TurnFacts DEF Modes
  <2>2. TypeOK'
    <3>1. error' \in BOOLEAN
      BY <1>4
    <3>2. QED BY <1>1, <1>4, <2>1, <3>1 DEF IInv, TypeOK
  <2>3. StatusValues'
    BY <1>1, <2>1 DEF IInv, StatusValues, IsStatus, check
  <2>4. StatusKept'
    BY <1>1, <1>4, <2>1 DEF IInv, StatusKept, NewStatus, check
  <2>5. PartsMissing'
    BY <1>1, <1>4, <2>1 DEF IInv, PartsMissing, IsCreate, IsStatus, check
  <2>6. RowsMissing'
    <3>1. SUFFICES ASSUME check.context # "parent", before.status = "none", check.rows # "column"
                   PROVE  error' \/ Creates
      <4>1. i' # 1
        BY <2>1 DEF IInv, RequestOK
      <4>2. QED BY <2>1, <4>1 DEF RowsMissing, Creates, IsCreate, IsStatus, check
    <3>2. CASE i = 1
      <4>1. context = "none"
        BY <1>1, <3>1, <3>2 DEF IInv, RowsMissing
      <4>2. QED BY <1>4, <4>1 DEF Misses
    <3>3. CASE i # 1
      <4>1. error \/ Creates
        BY <1>1, <2>1, <3>1, <3>3 DEF IInv, RowsMissing, RequestOK
      <4>2. QED BY <1>4, <4>1
    <3>4. QED BY <3>2, <3>3
  <2>7. FrozenPassed'
    <3>1. v.col \in check.frozen /\ context = "row" => before.status \notin Up
      BY <1>1, <1>4 DEF IsFrozen, IInv, StatusKept, Up
    <3>2. \A n \in DOMAIN request : n < i' => n < i \/ n = i
      BY <2>1 DEF IInv, RequestOK
    <3>3. QED BY <1>1, <1>4, <2>1, <3>1, <3>2 DEF IInv, FrozenPassed, check
  <2>8. QED BY <2>1, <2>2, <2>3, <2>4, <2>5, <2>6, <2>7 DEF IInv
<1>5. \/ \E f \in {"null", "stray"} : Stop(f)
      \/ Refuse("free")
      \/ /\ ~IsFrozen(v)
         /\ error' = (error \/ Misses)
         /\ Turn
         /\ UNCHANGED <<status, cells, context, buffer>>
  BY DEF Reserve2
<1>6. QED BY <1>2, <1>3, <1>4, <1>5

LEMMA Buffers ==
  ASSUME IInv
  PROVE  /\ DOMAIN buffer = DOMAIN request
         /\ \A n \in DOMAIN request : buffer[n].kind \in {"nothing", "row", "old"}
BY DEF IInv, TypeOK

LEMMA FreeStep ==
  ASSUME IInv, Free
  PROVE  IInv'
<1>1. Loop("free") /\ Turn /\ mode = "free" /\ UNCHANGED <<error, context>>
  BY DEF Free, Loop
<1>2. /\ TableOK(table)' /\ RequestOK(table, request)'
      /\ mode' = "free" /\ i' \in 1 .. Len(request) + 1
      /\ UNCHANGED <<table, request, fault, before>>
  BY <1>1, TurnFacts DEF Modes
<1>3. /\ status' \in {status, "none"} /\ (context = "stray" => status' = status)
      /\ UNCHANGED cells
      /\ buffer' = buffer \/ buffer' = [buffer EXCEPT ![i] = Nothing]
  BY DEF Free, Passed, Discard, RemoveEntry
<1>4. TypeOK'
  <2>1. /\ DOMAIN buffer' = DOMAIN request'
        /\ \A n \in DOMAIN request' : buffer'[n].kind \in {"nothing", "row", "old"}
    BY <1>2, <1>3, Buffers DEF Nothing
  <2>2. QED BY <1>1, <1>2, <1>3, <2>1 DEF IInv, TypeOK
<1>5. StatusValues' /\ StatusKept' /\ FrozenPassed' /\ RowsMissing'
  BY <1>1, <1>2 DEF IInv, StatusValues, StatusKept, FrozenPassed, RowsMissing, check
<1>6. PartsMissing'
  BY <1>1, <1>2, <1>3 DEF IInv, PartsMissing, check
<1>7. QED BY <1>2, <1>4, <1>5, <1>6 DEF IInv

LEMMA ActionStep ==
  ASSUME IInv, Action
  PROVE  IInv'
<1> DEFINE v == request[i]
<1>1. Loop("action") /\ mode = "action" /\ UNCHANGED <<error, context>>
  BY DEF Action, Loop
<1>2. CASE \E f \in {"null", "stray", "mistyped"} : Stop(f)
  BY <1>2, StopStep DEF Faults
<1>3. CASE /\ Turn
           /\ IsStatus(v) \/ context = "row"
           /\ UNCHANGED status
           /\ DOMAIN cells' = DOMAIN cells
           /\ buffer' = buffer \/ buffer' = [buffer EXCEPT ![i] = Old(cells[v.col])]
  <2>1. /\ TableOK(table)' /\ RequestOK(table, request)'
        /\ mode' = "action" /\ i' = i + 1 /\ i \in DOMAIN request /\ i \in Nat
        /\ i' \in 1 .. Len(request) + 1
        /\ UNCHANGED <<table, request, fault, before>>
    BY <1>1, <1>3, TurnFacts DEF Modes
  <2>2. TypeOK'
    <3>1. Old(cells[v.col]).kind = "old"
      BY DEF Old
    <3>2. /\ DOMAIN buffer' = DOMAIN request'
          /\ \A n \in DOMAIN request' : buffer'[n].kind \in {"nothing", "row", "old"}
      BY <1>3, <2>1, <3>1, Buffers
    <3>3. QED BY <1>1, <1>3, <2>1, <3>2 DEF IInv, TypeOK
  <2>3. StatusValues' /\ StatusKept' /\ FrozenPassed'
    BY <1>1, <1>3, <2>1 DEF IInv, StatusValues, StatusKept, FrozenPassed, IsStatus, NewStatus, check
  <2>4. PartsMissing'
    <3>1. SUFFICES ASSUME check.context = "parent", before.status = "none"
                   PROVE  IsStatus(request[1])
      BY <1>1, <1>3, <2>1 DEF IInv, PartsMissing, IsStatus, check
    <3>2. context = "stray" /\ (i > 1 => IsStatus(request[1]))
      BY <1>1, <3>1 DEF IInv, PartsMissing
    <3>3. CASE i = 1
      BY <1>3, <3>2, <3>3
    <3>4. CASE i # 1
      BY <2>1, <3>2, <3>4 DEF IInv, RequestOK
    <3>5. QED BY <3>3, <3>4
  <2>5. RowsMissing'
    BY <1>1, <2>1 DEF IInv, RowsMissing, Creates, IsCreate, IsStatus, check
  <2>6. QED BY <2>1, <2>2, <2>3, <2>4, <2>5 DEF IInv
<1>4. \/ \E f \in {"null", "stray", "mistyped"} : Stop(f)
      \/ /\ Turn
         /\ IsStatus(v) \/ context = "row"
         /\ UNCHANGED status
         /\ DOMAIN cells' = DOMAIN cells
         /\ buffer' = buffer \/ buffer' = [buffer EXCEPT ![i] = Old(cells[v.col])]
  BY DEF Action
<1>5. QED BY <1>2, <1>3, <1>4

LEMMA ActionFailsStep ==
  ASSUME IInv, ActionFails
  PROVE  IInv'
<1> DEFINE v == request[i]
<1>1. mode = "action" /\ context = "row" /\ i \in DOMAIN request
  BY DEF ActionFails, Loop, IInv, TypeOK, RequestOK
<1>2. CASE Refuse("undo")
  BY <1>1, <1>2, RefuseStep
<1>3. CASE /\ Goto("undo")
           /\ buffer' = [buffer EXCEPT ![i] = Old(cells[v.col])]
           /\ UNCHANGED <<table, status, cells, request, context, fault, before>>
  <2>1. mode' = "undo" /\ i' = 1 /\ error' = FALSE
    BY <1>3 DEF Goto
  <2>2. TableOK(table)' /\ RequestOK(table, request)'
    BY <1>3, SameRequest
  <2>3. TypeOK'
    <3>1. Old(cells[v.col]).kind = "old"
      BY DEF Old
    <3>2. /\ DOMAIN buffer' = DOMAIN request'
          /\ \A n \in DOMAIN request' : buffer'[n].kind \in {"nothing", "row", "old"}
      BY <1>3, <3>1, Buffers
    <3>3. i' \in 1 .. Len(request') + 1 /\ mode' \in Modes
      BY <1>3, <2>1 DEF IInv, RequestOK, Modes
    <3>4. QED BY ZenonT(60), <1>1, <1>3, <2>1, <3>2, <3>3 DEF IInv, TypeOK
  <2>4. StatusValues' /\ StatusKept' /\ FrozenPassed' /\ PartsMissing'
    BY <1>1, <1>3, <2>1 DEF IInv, StatusValues, StatusKept, FrozenPassed, PartsMissing, check
  <2>5. RowsMissing'
    BY <1>1, <1>3, <2>1 DEF IInv, RowsMissing, Creates, IsCreate, IsStatus, check
  <2>6. QED BY <2>2, <2>3, <2>4, <2>5 DEF IInv
<1>4. QED BY <1>2, <1>3 DEF ActionFails

LEMMA HandleStep ==
  ASSUME IInv, Handle
  PROVE  IInv'
<1> DEFINE v == request[i]
<1>1. mode = "handle" /\ Loop("handle") /\ i \in DOMAIN request
  BY DEF Handle, Loop, IInv, TypeOK, RequestOK
<1>2. CASE Stop("stray")
  BY <1>2, StopStep DEF Faults
<1>3. CASE ~Stop("stray")
  <2>1. /\ IsStatus(v) => context = "row"
        /\ status' = status \/ (IsStatus(v) /\ status' \in Gives[v.val])
        /\ \/ Turn /\ UNCHANGED error
           \/ Goto("undo") /\ IsStatus(v) /\ UNCHANGED <<table, request, fault, before>>
        /\ UNCHANGED <<cells, context, buffer>>
    BY <1>3 DEF Handle
  <2>2. /\ TableOK(table)' /\ RequestOK(table, request)'
        /\ UNCHANGED <<table, request, fault, before>>
    BY <2>1, <1>1, TurnFacts, SameRequest DEF Modes
  <2>3. \/ mode' = "handle" /\ i' = i + 1 /\ i' \in 1 .. Len(request) + 1 /\ error' = error
        \/ mode' = "undo" /\ i' = 1 /\ error' = FALSE /\ IsStatus(v)
    BY <2>1, <1>1, TurnFacts DEF Modes, Goto
  <2>4. status' \in {"none", "notInService", "active", "notReady"}
    <3>1. IsStatus(v) => v.val \in RowStatus
      BY <1>1 DEF IInv, StatusValues
    <3>2. \A x \in RowStatus : Gives[x] \subseteq {"notInService", "active", "notReady"}
      BY DEF RowStatus, Create, Gives, Up
    <3>3. status \in {"none", "notInService", "active", "notReady"}
      BY DEF IInv, TypeOK
    <3>4. QED BY <2>1, <3>1, <3>2, <3>3
  <2>5. TypeOK'
    <3>1. i' \in 1 .. Len(request') + 1
      BY <2>2, <2>3 DEF IInv, RequestOK
    <3>2. mode' \in Modes /\ mode' # "stopped"
      BY <2>3 DEF Modes
    <3>3. error' \in BOOLEAN
      BY <2>3 DEF IInv, TypeOK
    <3>4. QED BY <1>1, <2>1, <2>2, <2>4, <3>1, <3>2, <3>3 DEF IInv, TypeOK
  <2>6. StatusValues'
    BY <1>1, <2>2, <2>3 DEF IInv, StatusValues, IsStatus, check
  <2>7. StatusKept' /\ FrozenPassed'
    BY <1>1, <2>2, <2>3 DEF IInv, StatusKept, FrozenPassed, check
  <2>8. PartsMissing'
    <3>1. ASSUME check.context = "parent", before.status = "none" PROVE FALSE
      BY <1>1, <2>1, <3>1 DEF IInv, PartsMissing
    <3>2. QED BY <2>2, <3>1 DEF PartsMissing, check
  <2>9. RowsMissing'
    BY <1>1, <2>2, <2>3 DEF IInv, RowsMissing, Creates, IsCreate, IsStatus, check
  <2>10. QED BY <2>2, <2>5, <2>6, <2>7, <2>8, <2>9 DEF IInv
<1>4. QED BY <1>2, <1>3

LEMMA UndoStep ==
  ASSUME IInv, Undo
  PROVE  IInv'
<1> DEFINE c == request[i].col
<1>1. mode = "undo" /\ Loop("undo") /\ UNCHANGED <<error, context>>
  BY DEF Undo, Loop
<1>2. CASE \E f \in {"freed", "stray"} : Stop(f)
  BY <1>2, StopStep DEF Faults
<1>3. CASE /\ Turn
           /\ status' = status \/ (status' = "none" /\ context = "row")
           /\ DOMAIN cells' = DOMAIN cells
           /\ buffer' = buffer \/ buffer' = [buffer EXCEPT ![i] = Nothing]
  <2>1. /\ TableOK(table)' /\ RequestOK(table, request)'
        /\ mode' = "undo" /\ i' \in 1 .. Len(request) + 1
        /\ UNCHANGED <<table, request, fault, before>>
    BY <1>1, <1>3, TurnFacts DEF Modes
  <2>2. TypeOK'
    <3>1. /\ DOMAIN buffer' = DOMAIN request'
          /\ \A n \in DOMAIN request' : buffer'[n].kind \in {"nothing", "row", "old"}
      BY <1>3, <2>1, Buffers DEF Nothing
    <3>2. QED BY <1>1, <1>3, <2>1, <3>1 DEF IInv, TypeOK
  <2>3. StatusValues' /\ StatusKept' /\ FrozenPassed' /\ PartsMissing'
    BY <1>1, <1>3, <2>1 DEF IInv, StatusValues, StatusKept, FrozenPassed, PartsMissing, check
  <2>4. RowsMissing'
    BY <1>1, <2>1 DEF IInv, RowsMissing, Creates, IsCreate, IsStatus, check
  <2>5. QED BY <2>1, <2>2, <2>3, <2>4 DEF IInv
<1>4. \/ \E f \in {"freed", "stray"} : Stop(f)
      \/ /\ Turn
         /\ status' = status \/ (status' = "none" /\ context = "row")
         /\ DOMAIN cells' = DOMAIN cells
         /\ buffer' = buffer \/ buffer' = [buffer EXCEPT ![i] = Nothing]
  BY DEF Undo, Passed, Discard, RemoveEntry
<1>5. QED BY <1>2, <1>3, <1>4

LEMMA CommitStep ==
  ASSUME IInv, Commit
  PROVE  IInv'
<1> DEFINE v == request[i]
<1>1. mode = "commit" /\ Loop("commit") /\ Turn /\ UNCHANGED <<error, context>>
  BY DEF Commit, Loop
<1>2. /\ TableOK(table)' /\ RequestOK(table, request)'
      /\ mode' = "commit" /\ i' \in 1 .. Len(request) + 1 /\ i \in DOMAIN request
      /\ UNCHANGED <<table, request, fault, before>>
  BY <1>1, TurnFacts DEF Modes
<1>3. /\ status' \in {status, "none"} \/ (IsStatus(v) /\ ~IsDestroy(v) /\ status' = Committed[v.val])
      /\ UNCHANGED cells
      /\ buffer' = buffer \/ buffer' = [buffer EXCEPT ![i] = Nothing]
  BY DEF Commit, RemoveEntry
<1>4. status' \in {"none", "notInService", "active", "notReady"}
  <2>1. IsStatus(v) => v.val \in RowStatus
    BY <1>1, <1>2 DEF IInv, StatusValues
  <2>2. \A x \in RowStatus : x = "destroy" \/ Committed[x] \in {"notInService", "active"}
    BY DEF RowStatus, Create, Committed
  <2>3. status \in {"none", "notInService", "active", "notReady"}
    BY DEF IInv, TypeOK
  <2>4. QED BY <1>3, <2>1, <2>2, <2>3 DEF IsDestroy
<1>5. TypeOK'
  <2>1. /\ DOMAIN buffer' = DOMAIN request'
        /\ \A n \in DOMAIN request' : buffer'[n].kind \in {"nothing", "row", "old"}
    BY <1>2, <1>3, Buffers DEF Nothing
  <2>2. QED BY <1>1, <1>2, <1>3, <1>4, <2>1 DEF IInv, TypeOK
<1>6. StatusValues' /\ StatusKept' /\ FrozenPassed'
  BY <1>1, <1>2 DEF IInv, StatusValues, StatusKept, FrozenPassed, IsStatus, check
<1>7. PartsMissing'
  BY <1>1, <1>2 DEF IInv, PartsMissing, check
<1>8. RowsMissing'
  BY <1>1, <1>2 DEF IInv, RowsMissing, Creates, IsCreate, IsStatus, check
<1>9. QED BY <1>2, <1>5, <1>6, <1>7, <1>8 DEF IInv

LEMMA StutterStep ==
  ASSUME IInv, UNCHANGED vars
  PROVE  IInv'
<1>1. TableOK(table)' /\ RequestOK(table, request)'
  BY SameRequest DEF vars
<1>2. TypeOK' /\ StatusValues'
  BY DEF IInv, TypeOK, StatusValues, IsStatus, check, vars
<1>3. StatusKept' /\ FrozenPassed'
  BY DEF IInv, StatusKept, FrozenPassed, NewStatus, check, vars
<1>4. PartsMissing' /\ RowsMissing'
  BY DEF IInv, PartsMissing, RowsMissing, Creates, IsCreate, IsStatus, check, vars
<1>5. QED BY <1>1, <1>2, <1>3, <1>4 DEF IInv

LEMMA Step == IInv /\ [Next]_vars => IInv'
<1> SUFFICES ASSUME IInv, [Next]_vars PROVE IInv'
  OBVIOUS
<1>1. CASE Return BY <1>1, ReturnStep
<1>2. CASE Finish BY <1>2, FinishStep
<1>3. CASE Over BY <1>3, StutterStep DEF Over
<1>4. CASE Reserve1 BY <1>4, Reserve1Step
<1>5. CASE Reserve2Create BY <1>5, Reserve2CreateStep
<1>6. CASE Reserve2 BY <1>6, Reserve2Step
<1>7. CASE Free BY <1>7, FreeStep
<1>8. CASE Action BY <1>8, ActionStep
<1>9. CASE ActionFails BY <1>9, ActionFailsStep
<1>10. CASE Handle BY <1>10, HandleStep
<1>11. CASE Undo BY <1>11, UndoStep
<1>12. CASE Commit BY <1>12, CommitStep
<1>13. CASE UNCHANGED vars BY <1>13, StutterStep
<1>14. QED
  BY <1>1, <1>2, <1>3, <1>4, <1>5, <1>6, <1>7, <1>8, <1>9, <1>10, <1>11, <1>12, <1>13 DEF Next

-----------------------------------------------------------------------------
(* The theorems.                                                           *)

\* A SET request on a row of any table keeps its types in all phases; a row status that
\* reaches ACTION or COMMIT has one of the values that RowStatus has (RESERVE1 of the mappers).
THEOREM TypeCorrect == Spec => []TypeOK
<1>1. IInv => TypeOK
  BY DEF IInv
<1>2. QED BY <1>1, Initially, Step, PTL DEF Spec

\* A request that is answered without an error has found its row or made it: the error
\* that RESERVE2 sets at a missing row is never lost, although the loop goes on.
THEOREM RowsAreMadeOrFound == Spec => []RowsAreMade
<1>1. IInv => RowsAreMade
  BY DEF IInv, RowsAreMade, RowsMissing, PartsMissing, Creates
<1>2. QED BY <1>1, Initially, Step, PTL DEF Spec

\* Tables whose rows are a part of another table's make no row, as a missing one has
\* an address that is not null (ifMIB.c, lagMIB.c: the getNext of the ne tables).
THEOREM PartsNeverMade == Spec => []PartsAreNotMade
<1>1. IInv => PartsAreNotMade
  BY DEF IInv, PartsAreNotMade, PartsMissing
<1>2. QED BY <1>1, Initially, Step, PTL DEF Spec

\* No order of the variables writes a frozen column in a row that is up.
LEMMA FrozenStep ==
  ASSUME IInv, [Next]_vars, NEW c \in check.frozen \cap DOMAIN cells, cells'[c] # cells[c], mode # "undo"
  PROVE  before.status \notin Up /\ (check.rows # "fixed" => status \notin Up)
<1>1. c # check.status /\ check.rows \in {"fixed", "commit", "handler"}
  BY DEF IInv, TableOK, check
<1>2. cells' # cells
  OBVIOUS
<1>3. CASE Reserve2Create
  <2>1. mode = "reserve2" /\ status = "none"
    BY <1>2, <1>3 DEF Reserve2Create, Loop, CreateEntry, Refuse
  <2>2. before.status = "none"
    BY <2>1 DEF IInv, StatusKept
  <2>3. QED BY <2>1, <2>2 DEF Up
<1>4. CASE Action
  <2>1. /\ mode = "action" /\ context = "row" /\ i \in DOMAIN request
        /\ cells' = [cells EXCEPT ![request[i].col] = Put(request[i])]
    BY <1>2, <1>4 DEF Action, Loop, Stop, IInv, TypeOK, RequestOK
  <2>2. request[i].col = c
    BY <2>1
  <2>3. before.status \notin Up
    BY <2>1, <2>2 DEF IInv, FrozenPassed
  <2>4. check.rows # "fixed" => status \notin Up
    BY <1>1, <2>1, <2>3 DEF IInv, StatusKept, NewStatus, Up
  <2>5. QED BY <2>3, <2>4
<1>5. ~Reserve2Create /\ ~Action => cells' = cells
  <2>1. Return \/ Finish \/ Over \/ UNCHANGED vars => cells' = cells
    BY DEF Return, Finish, Over, vars
  <2>2. Reserve1 \/ Reserve2 => cells' = cells
    BY DEF Reserve1, Reserve2, Refuse, Stop
  <2>3. Free \/ Commit => cells' = cells
    BY DEF Free, Discard, RemoveEntry, Commit
  <2>4. ActionFails \/ Handle => cells' = cells
    BY DEF ActionFails, Handle, Refuse, Stop
  <2>5. ~Undo
    BY DEF Undo, Loop
  <2>6. QED BY <2>1, <2>2, <2>3, <2>4, <2>5 DEF Next
<1>6. QED BY <1>2, <1>3, <1>4, <1>5

\* A column that the row status freezes keeps its value while the row is active or waits
\* to be, for any table, whatever the request sets and in whatever order (RESERVE2, ACTION).
THEOREM FrozenKept == Spec => FrozenWhileUp
<1>1. IInv /\ [Next]_vars =>
        [\A c \in check.frozen \cap DOMAIN cells :
           cells'[c] # cells[c] /\ mode # "undo" =>
             /\ before.status \notin Up
             /\ check.rows # "fixed" => status \notin Up]_vars
  BY FrozenStep
<1>2. QED BY <1>1, Initially, Step, PTL DEF Spec, FrozenWhileUp

-----------------------------------------------------------------------------
(***************************************************************************)
(* Proof that a SET request that is refused is rolled back, for any        *)
(* catalogue of tables: the row that it made is gone, the row that it      *)
(* found is still there, and GET shows the old values of the columns.      *)
(***************************************************************************)

-----------------------------------------------------------------------------
(* What UNDO puts back, of a table t.                                      *)

FormOK(t) ==
  \A c \in DOMAIN t.check.types :
    /\ t.write[c].form \in Forms
    /\ t.write[c].form = "counted" => t.write[c].bits = 0 /\ t.read[c].by = "count"

\* Each column is set once.
OnceEach(r) == \A m, n \in DOMAIN r : r[m].col = r[n].col => m = n

RestoredIn(t, c) == c # t.check.status /\ t.write[c].form \notin {"uncounted", "strayed", "inPlace"}

\* GET of a column of table t shows the same of x and y.
ShowsAlike(t, c, x, y) ==
  \/ x = y
  \/ t.read[c].by = "count" /\ SubSeq(x.held, 1, x.count) = SubSeq(y.held, 1, y.count)

LEMMA ShownAlike ==
  ASSUME NEW c, NEW x, NEW y, ShowsAlike(table, c, x, y)
  PROVE  Shown(c, x) = Shown(c, y)
BY DEF ShowsAlike, Shown, read

LEMMA RequestsOnce ==
  ASSUME NEW t, NEW r \in Requests(t)
  PROVE  OnceEach(r)
<1>1. CASE r \in Singles(t)
  <2>1. PICK c \in SetColumns(t) : r \in {<<v>> : v \in Variable(t, c) \cup Mistyped(t, c)}
    BY <1>1 DEF Singles
  <2>2. QED BY <2>1 DEF OnceEach
<1>2. CASE r \in Pairs(t)
  <2>1. PICK p \in Samples(t) \X Samples(t) :
          /\ p[1] # p[2]
          /\ r \in {<<v, w>> : v \in Variable(t, p[1]), w \in Variable(t, p[2]) \cup Mistyped(t, p[2])}
    BY <1>2 DEF Pairs
  <2>2. PICK v \in Variable(t, p[1]), w \in Variable(t, p[2]) \cup Mistyped(t, p[2]) : r = <<v, w>>
    BY <2>1
  <2>3. v.col = p[1] /\ w.col = p[2]
    BY DEF Variable, Mistyped
  <2>4. QED BY <2>1, <2>2, <2>3 DEF OnceEach
<1>3. QED BY <1>1, <1>2 DEF Requests

\* UNDO of the value that the column had when the request arrived.
LEMMA PutBackAlike ==
  ASSUME NEW c \in DOMAIN check.types, FormOK(table), RestoredIn(table, c)
  PROVE  ShowsAlike(table, c, PutBack(c, Found(table, c)), Found(table, c))
<1> DEFINE old == Found(table, c)
<1>1. write[c].form \in {"word", "counted", "sized", "buffer", "handled"}
  BY DEF FormOK, RestoredIn, Forms, check, write
<1>2. CASE write[c].form \in {"word", "sized", "buffer", "handled"}
  BY <1>2 DEF PutBack, ShowsAlike
<1>3. CASE write[c].form = "counted"
  <2>1. table.write[c].bits = 0 /\ table.read[c].by = "count"
    BY <1>3 DEF FormOK, check, write
  <2>2. old = OctetString(<<3>>)
    BY <2>1 DEF Found, IsOctets, RestoredIn
  <2>3. old.count = 1 /\ old.held = Padding(<<3>>)
    BY <2>2 DEF OctetString
  <2>4. PutBack(c, old) =
          [held |-> [k \in 1 .. Size |-> IF k <= old.count THEN old.held[k] ELSE cells[c].held[k]],
           count |-> old.count]
    BY <1>3 DEF PutBack
  <2> DEFINE new == PutBack(c, old)
  <2>5. new.count = 1 /\ new.held[1] = old.held[1] /\ DOMAIN new.held = 1 .. 2 /\ DOMAIN old.held = 1 .. 2
    BY <2>3, <2>4 DEF Size, Padding
  <2> HIDE DEF new, old
  <2>6. SubSeq(new.held, 1, new.count) = SubSeq(old.held, 1, old.count)
    BY <2>3, <2>5
  <2>7. QED BY <2>1, <2>6 DEF ShowsAlike, new, old
<1>4. QED BY <1>1, <1>2, <1>3

-----------------------------------------------------------------------------
(* The invariant.                                                          *)

Early == {"reserve1", "reserve2", "action", "handle"}
BeforeCommit == Early \cup {"free", "undo"}

\* The variables have the row as long as there is one, and only then.
ContextKept ==
  /\ before.status # "none" => context = "row"
  /\ mode \in Early /\ context = "row" => status # "none"
  /\ mode = "handle" => check.rows = "handler"

\* A row made for the request is in the buffer of a variable that FREE and
\* UNDO have yet to reach, unless they could not remove it.
MadeRowKept ==
  before.status = "none" /\ status # "none" /\ mode \in BeforeCommit =>
    /\ context = "row"
    /\ \/ \E n \in DOMAIN request : buffer[n] = NewRow /\ (mode \in {"free", "undo"} => n >= i)
       \/ mode \in {"free", "undo"} /\ LeftBehind

\* The buffers that hold a new row: of the variables that made it; FREE and
\* UNDO leave none behind them.
NewRowsKnown ==
  \A n \in DOMAIN request :
    buffer[n] = NewRow =>
      /\ IsCreate(request[n]) \/ check.rows = "column"
      /\ mode \in {"free", "undo"} /\ context = "row" => n >= i

\* A row that was found stays, and is in no buffer to be removed.
FoundRowStays ==
  before.status # "none" /\ mode \in BeforeCommit =>
    /\ status # "none"
    /\ check.rows \in {"commit", "column"} => status = before.status
    /\ \A n \in DOMAIN request : buffer[n] # NewRow

\* Nothing is written before ACTION.
NotWritten ==
  mode \in {"reserve1", "reserve2", "free"} =>
    /\ \A n \in DOMAIN request : buffer[n] \in {Nothing, NewRow}
    /\ before.status # "none" => cells = before.cells

\* From ACTION on a column has its old value, or the buffer of its variable has.
OldKept ==
  before.status # "none" /\ mode \in {"action", "handle", "undo"} =>
    \A n \in DOMAIN request :
      RestoredIn(table, request[n].col) =>
        \/ buffer[n] = Nothing /\ cells[request[n].col] = before.cells[request[n].col]
        \/ /\ buffer[n] = Old(before.cells[request[n].col])
           /\ mode = "action" => n < i
           /\ mode = "undo" /\ n < i =>
                ShowsAlike(table, request[n].col, cells[request[n].col], before.cells[request[n].col])

Arrived ==
  /\ FormOK(table)
  /\ OnceEach(request)
  /\ \A c \in DOMAIN cells : before.cells[c] = Found(table, c)

UInv ==
  /\ Arrived
  /\ ContextKept
  /\ MadeRowKept
  /\ FoundRowStays
  /\ NotWritten
  /\ OldKept
  /\ RolledBack

LEMMA UndoInitially == Init => UInv
<1> SUFFICES ASSUME Init PROVE UInv
  OBVIOUS
<1>1. /\ mode = "reserve1" /\ context = Looked
      /\ before.status = status /\ before.cells = cells
      /\ \A n \in DOMAIN request : buffer[n] = Nothing
  BY DEF Init
<1>2. Arrived
  <2>1. FormOK(table)
    <3>1. PICK n \in DOMAIN Catalogue : table = Catalogue[n]
      BY DEF Init
    <3>2. QED BY <3>1, CatalogueAssumption DEF FormOK
  <2>2. OnceEach(request)
    BY RequestsOnce DEF Init
  <2>3. \A c \in DOMAIN cells : before.cells[c] = Found(table, c)
    BY <1>1 DEF Init
  <2>4. QED BY <2>1, <2>2, <2>3 DEF Arrived
<1>3. ContextKept
  BY <1>1 DEF ContextKept, Looked
<1>4. MadeRowKept
  BY <1>1 DEF MadeRowKept
<1>5. FoundRowStays
  BY <1>1 DEF FoundRowStays, Nothing, NewRow
<1>6. NotWritten /\ OldKept /\ RolledBack
  BY <1>1 DEF NotWritten, OldKept, RolledBack
<1>7. QED BY <1>2, <1>3, <1>4, <1>5, <1>6 DEF UInv

-----------------------------------------------------------------------------
(* The steps.                                                              *)

\* Facts about a request that no step changes.
LEMMA ArrivedStep ==
  ASSUME UInv, UNCHANGED <<table, request, before>>, DOMAIN cells' = DOMAIN cells
  PROVE  Arrived'
BY DEF UInv, Arrived

\* A step that leaves the row, its columns and the buffers alone.
LEMMA QuietStep ==
  ASSUME IInv, UInv, mode \in Early,
         UNCHANGED <<table, status, cells, request, context, buffer, before>>,
         \/ mode' = mode /\ i' = i + 1
         \/ mode' = "free" /\ i' = 1 /\ mode \in {"reserve1", "reserve2"}
         \/ mode' = "undo" /\ i' = 1 /\ mode \in {"action", "handle"}
         \/ mode' = "stopped"
  PROVE  UInv'
<1>1. Arrived'
  BY ArrivedStep
<1>2. ContextKept'
  BY DEF UInv, ContextKept, Early, check
<1>3. MadeRowKept'
  BY DEF IInv, RequestOK, UInv, MadeRowKept, Early, BeforeCommit
<1>4. FoundRowStays'
  BY DEF UInv, FoundRowStays, Early, BeforeCommit, check
<1>5. NotWritten'
  BY DEF UInv, NotWritten, Early
<1>6. OldKept'
  BY SMTT(60) DEF IInv, RequestOK, TypeOK, UInv, OldKept, Early
<1>7. RolledBack'
  BY DEF RolledBack, Early
<1>8. QED BY <1>1, <1>2, <1>3, <1>4, <1>5, <1>6, <1>7 DEF UInv

LEMMA UndoReturnStep ==
  ASSUME IInv, UInv, Return
  PROVE  UInv'
<1>1. PICK p \in Following[mode] :
        /\ mode' = p /\ i' = 1
        /\ \/ UNCHANGED status
           \/ check.rows = "fixed" /\ status = "notInService" /\ status' = "active"
  BY DEF Return, Goto
<1>2. /\ mode \in Early /\ i > Len(request)
      /\ UNCHANGED <<table, cells, request, context, buffer, fault, before>>
  BY DEF Return, Following, Early
<1>3. /\ mode = "reserve1" => p \in {"reserve2", "free"}
      /\ mode = "reserve2" => p \in {"action", "free"}
      /\ mode = "action" => p \in {"commit", "undo"} \/ (p = "handle" /\ check.rows = "handler")
      /\ mode = "handle" => p \in {"commit", "undo"}
  BY <1>1, <1>2 DEF Following
<1>4. Arrived'
  BY <1>2, ArrivedStep
<1>5. status' = "none" <=> status = "none"
  BY <1>1
<1>6. ContextKept'
  BY <1>1, <1>2, <1>3, <1>5 DEF UInv, ContextKept, Early, check
<1>7. MadeRowKept'
  BY <1>1, <1>2, <1>3, <1>5 DEF IInv, RequestOK, UInv, MadeRowKept, Early, BeforeCommit
<1>8. FoundRowStays'
  BY <1>1, <1>2, <1>3, <1>5 DEF UInv, FoundRowStays, Early, BeforeCommit, check
<1>9. NotWritten'
  BY <1>1, <1>2, <1>3 DEF UInv, NotWritten, Early
<1>10. OldKept'
  <2>1. SUFFICES ASSUME before.status # "none", mode' \in {"action", "handle", "undo"},
                        NEW n \in DOMAIN request, RestoredIn(table, request[n].col)
                 PROVE  \/ buffer[n] = Nothing /\ cells[request[n].col] = before.cells[request[n].col]
                        \/ buffer[n] = Old(before.cells[request[n].col]) /\ mode' # "action" /\ ~(n < 1)
    BY <1>1, <1>2 DEF OldKept
  <2>2. CASE mode = "reserve2"
    BY <1>2, <2>1, <2>2 DEF UInv, NotWritten, FoundRowStays, BeforeCommit, Early
  <2>3. CASE mode \in {"action", "handle"}
    BY <1>1, <1>3, <2>1, <2>3 DEF IInv, RequestOK, UInv, OldKept
  <2>4. mode # "reserve1"
    BY <1>1, <1>3, <2>1
  <2>5. QED BY <1>2, <2>2, <2>3, <2>4 DEF Early
<1>11. RolledBack'
  BY <1>1, <1>2, <1>3 DEF RolledBack, Early
<1>12. QED BY <1>4, <1>6, <1>7, <1>8, <1>9, <1>10, <1>11 DEF UInv

\* A row that is left behind stays as it is for the rest of the request.
LEMMA StaysBehind ==
  ASSUME LeftBehind, UNCHANGED <<table, status, request, before>>
  PROVE  LeftBehind'
BY DEF LeftBehind, MayRefuse, IsCreate, IsStatus, check, write

LEMMA RefusedIsRolledBack ==
  ASSUME IInv, UInv, mode \in {"free", "undo"}, i > Len(request)
  PROVE  \/ LeftBehind
         \/ /\ status = "none" <=> before.status = "none"
            /\ check.rows \in {"commit", "column"} => status = before.status
            /\ before.status # "none" =>
                 \A c \in DOMAIN cells : Restored(c) => Shown(c, cells[c]) = Shown(c, before.cells[c])
<1> SUFFICES ASSUME ~LeftBehind
             PROVE  /\ status = "none" <=> before.status = "none"
                    /\ check.rows \in {"commit", "column"} => status = before.status
                    /\ before.status # "none" =>
                         \A c \in DOMAIN cells : Restored(c) => Shown(c, cells[c]) = Shown(c, before.cells[c])
  OBVIOUS
<1>1. i \in Nat /\ Len(request) \in Nat /\ \A n \in DOMAIN request : n \in Nat /\ n < i
  BY DEF IInv, TypeOK, RequestOK
<1>2. before.status = "none" => status = "none"
  BY <1>1 DEF UInv, MadeRowKept, BeforeCommit
<1>3. before.status # "none" =>
        status # "none" /\ (check.rows \in {"commit", "column"} => status = before.status)
  BY DEF UInv, FoundRowStays, BeforeCommit
<1>4. ASSUME before.status # "none", NEW c \in DOMAIN cells, Restored(c)
      PROVE  Shown(c, cells[c]) = Shown(c, before.cells[c])
  <2>1. CASE mode = "free"
    BY <1>4, <2>1 DEF UInv, NotWritten
  <2>2. CASE mode = "undo"
    <3>1. PICK n \in DOMAIN request : c = request[n].col
      BY DEF IInv, TypeOK
    <3>2. RestoredIn(table, c)
      BY <1>4 DEF Restored, RestoredIn, check, write
    <3>3. \/ cells[c] = before.cells[c]
          \/ ShowsAlike(table, c, cells[c], before.cells[c])
      BY <1>1, <1>4, <2>2, <3>1, <3>2 DEF UInv, OldKept
    <3>4. QED BY <3>3, ShownAlike
  <2>3. QED BY <2>1, <2>2
<1>5. QED BY <1>2, <1>3, <1>4

LEMMA UndoFinishStep ==
  ASSUME IInv, UInv, Finish
  PROVE  UInv'
<1>1. /\ mode \in {"free", "undo", "commit"} /\ i > Len(request)
      /\ mode' \in {"stopped", "done", "refused"} /\ (mode' = "refused" => mode # "commit")
      /\ UNCHANGED <<table, status, cells, request, context, buffer, before>>
  BY DEF Finish
<1>2. Arrived'
  BY <1>1, ArrivedStep
<1>3. ContextKept' /\ MadeRowKept' /\ FoundRowStays' /\ NotWritten' /\ OldKept'
  BY <1>1 DEF UInv, ContextKept, MadeRowKept, FoundRowStays, NotWritten, OldKept, Early, BeforeCommit
<1>4. RolledBack'
  <2>1. CASE LeftBehind
    BY <1>1, <2>1, StaysBehind DEF RolledBack
  <2>2. CASE ~LeftBehind
    BY <1>1, <2>2, RefusedIsRolledBack DEF RolledBack, Restored, Shown, check, write, read
  <2>3. QED BY <2>1, <2>2
<1>5. QED BY <1>2, <1>3, <1>4 DEF UInv

LEMMA UndoReserve1Step ==
  ASSUME IInv, UInv, Reserve1
  PROVE  UInv'
<1>1. mode = "reserve1" /\ mode \in Early
  BY DEF Reserve1, Loop, Early
<1>2. \/ Stop("null")
      \/ Refuse("free")
      \/ Turn /\ UNCHANGED <<status, cells, context, buffer>>
  BY DEF Reserve1
<1>3. QED BY <1>1, <1>2, QuietStep DEF Stop, Refuse, Goto, Turn

LEMMA UndoReserve2Step ==
  ASSUME IInv, UInv, Reserve2
  PROVE  UInv'
<1>1. mode = "reserve2" /\ mode \in Early
  BY DEF Reserve2, Loop, Early
<1>2. \/ \E f \in {"null", "stray"} : Stop(f)
      \/ Refuse("free")
      \/ Turn /\ UNCHANGED <<status, cells, context, buffer>>
  BY DEF Reserve2
<1>3. QED BY <1>1, <1>2, QuietStep DEF Stop, Refuse, Goto, Turn

\* The buffer of one variable is changed.
LEMMA OneBuffer ==
  ASSUME IInv, i \in DOMAIN request, NEW b, buffer' = [buffer EXCEPT ![i] = b]
  PROVE  buffer'[i] = b /\ \A n \in DOMAIN request : n # i => buffer'[n] = buffer[n]
BY DEF IInv, TypeOK

LEMMA UndoReserve2CreateStep ==
  ASSUME IInv, UInv, Reserve2Create
  PROVE  UInv'
<1> DEFINE v == request[i]
<1>1. Loop("reserve2") /\ mode = "reserve2" /\ mode \in Early /\ Makes(v)
  BY DEF Reserve2Create, Loop, Early
<1>2. CASE Refuse("free")
  BY <1>1, <1>2, QuietStep DEF Refuse, Goto
<1>3. CASE CreateEntry /\ Turn
  <2>1. /\ mode' = "reserve2" /\ i \in DOMAIN request
        /\ UNCHANGED <<table, request, before>>
    BY <1>1, <1>3, TurnFacts DEF Modes
  <2>2. /\ status = "none" /\ status' = NewStatus
        /\ DOMAIN cells' = DOMAIN cells
        /\ context' = IF check.context = "parent" THEN "stray" ELSE "row"
        /\ buffer' = [buffer EXCEPT ![i] = NewRow]
    BY <1>3 DEF CreateEntry
  <2>3. before.status = "none" /\ status' # "none"
    BY <1>1, <2>2 DEF IInv, StatusKept, NewStatus
  <2>4. check.context # "parent"
    BY <1>1, <2>1, <2>3 DEF IInv, TableOK, PartsMissing, Makes, check
  <2>5. buffer'[i] = NewRow /\ \A n \in DOMAIN request : n # i => buffer'[n] = buffer[n]
    BY <2>1, <2>2, OneBuffer
  <2>6. Arrived'
    BY <2>1, <2>2, ArrivedStep
  <2>7. ContextKept' /\ FoundRowStays' /\ OldKept'
    BY <2>1, <2>3 DEF ContextKept, FoundRowStays, OldKept
  <2>8. MadeRowKept'
    BY <2>1, <2>2, <2>4, <2>5 DEF MadeRowKept
  <2>9. NotWritten'
    BY <1>1, <2>1, <2>3, <2>5 DEF UInv, NotWritten
  <2>10. RolledBack'
    BY <2>1 DEF RolledBack
  <2>11. QED BY <2>6, <2>7, <2>8, <2>9, <2>10 DEF UInv
<1>4. QED BY <1>2, <1>3 DEF Reserve2Create

\* Only RESERVE2 puts a new row into a buffer.
LEMMA KnownStep ==
  ASSUME IInv, NewRowsKnown, UNCHANGED <<table, request>>,
         \A n \in DOMAIN request : buffer'[n] = NewRow => buffer[n] = NewRow,
         \/ mode' \notin {"free", "undo"}
         \/ i' = 1
         \/ /\ mode' = mode /\ context' = context /\ (i' = i \/ i' = i + 1)
            /\ i' = i + 1 => context # "row" \/ buffer'[i] # NewRow
  PROVE  NewRowsKnown'
<1> SUFFICES ASSUME NEW n \in DOMAIN request, buffer'[n] = NewRow
             PROVE  /\ IsCreate(request[n]) \/ check.rows = "column"
                    /\ mode' \in {"free", "undo"} /\ context' = "row" => n >= i'
  BY DEF NewRowsKnown, IsCreate, IsStatus, check
<1>1. /\ IsCreate(request[n]) \/ check.rows = "column"
      /\ mode \in {"free", "undo"} /\ context = "row" => n >= i
  BY DEF NewRowsKnown
<1>2. n \in Nat /\ n >= 1 /\ i \in Nat
  BY DEF IInv, TypeOK, RequestOK
<1>3. QED BY <1>1, <1>2

LEMMA NewRowsInitially == Init => NewRowsKnown
BY DEF Init, NewRowsKnown, Nothing, NewRow

LEMMA NewRowsStep == IInv /\ NewRowsKnown /\ [Next]_vars => NewRowsKnown'
<1> SUFFICES ASSUME IInv, NewRowsKnown, [Next]_vars PROVE NewRowsKnown'
  OBVIOUS
<1>1. CASE Reserve2Create
  <2>1. CASE Refuse("free")
    BY <2>1, KnownStep DEF Refuse, Goto
  <2>2. CASE CreateEntry /\ Turn
    <3>1. mode = "reserve2" /\ mode' = "reserve2" /\ i \in DOMAIN request /\ UNCHANGED <<table, request>>
      BY <1>1, <2>2, TurnFacts DEF Reserve2Create, Loop, Modes
    <3>2. \A n \in DOMAIN request : n # i => buffer'[n] = buffer[n]
      BY <2>2, <3>1, OneBuffer DEF CreateEntry
    <3>3. IsCreate(request[i]) \/ check.rows = "column"
      BY <1>1 DEF Reserve2Create, Makes
    <3>4. QED BY <3>1, <3>2, <3>3 DEF NewRowsKnown, IsCreate, IsStatus, check
  <2>3. QED BY <1>1, <2>1, <2>2 DEF Reserve2Create
<1>2. CASE Return
  BY <1>2, KnownStep DEF Return, Goto
<1>3. CASE Finish
  <2>1. mode' \in {"stopped", "done", "refused"} /\ UNCHANGED <<table, request, buffer>>
    BY <1>3 DEF Finish
  <2>2. QED BY <2>1, KnownStep
<1>4. CASE Over \/ UNCHANGED vars
  BY <1>4 DEF NewRowsKnown, IsCreate, IsStatus, check, Over, vars
<1>5. CASE Reserve1
  <2>1. mode = "reserve1" /\ UNCHANGED <<table, request, buffer>>
    BY <1>5 DEF Reserve1, Loop, Stop, Refuse, Turn
  <2>2. mode' \notin {"free", "undo"} \/ i' = 1
    BY <1>5, <2>1 DEF Reserve1, Stop, Refuse, Turn, Goto
  <2>3. QED BY <2>1, <2>2, KnownStep
<1>6. CASE Reserve2
  <2>1. mode = "reserve2" /\ UNCHANGED <<table, request, buffer>>
    BY <1>6 DEF Reserve2, Loop, Stop, Refuse, Turn
  <2>2. mode' \notin {"free", "undo"} \/ i' = 1
    BY <1>6, <2>1 DEF Reserve2, Stop, Refuse, Turn, Goto
  <2>3. QED BY <2>1, <2>2, KnownStep
<1>7. CASE Free
  <2>1. /\ mode' = mode /\ context' = context /\ i \in DOMAIN request /\ i' = i + 1
        /\ UNCHANGED <<table, request>>
    BY <1>7, TurnFacts DEF Free, Loop, Modes, Turn
  <2>2. CASE Passed(i) /\ UNCHANGED buffer
    BY <2>1, <2>2, KnownStep DEF Passed, Nothing, NewRow
  <2>3. CASE Discard
    <3>1. buffer'[i] = Nothing /\ \A n \in DOMAIN request : n # i => buffer'[n] = buffer[n]
      BY <2>1, <2>3, OneBuffer DEF Discard
    <3>2. QED BY <2>1, <3>1, KnownStep DEF Nothing, NewRow
  <2>4. QED BY <1>7, <2>2, <2>3 DEF Free
<1>8. CASE Action
  <2>1. mode = "action" /\ mode' \in {"action", "stopped"} /\ i \in DOMAIN request /\ UNCHANGED <<table, request>>
    BY <1>8 DEF Action, Loop, Stop, Turn, IInv, TypeOK, RequestOK
  <2>2. \/ UNCHANGED buffer
        \/ buffer' = [buffer EXCEPT ![i] = Old(cells[request[i].col])]
    BY <1>8 DEF Action, Stop
  <2>3. \A n \in DOMAIN request : buffer'[n] = NewRow => buffer[n] = NewRow
    BY <2>1, <2>2, OneBuffer DEF Old, NewRow
  <2>4. QED BY <2>1, <2>3, KnownStep
<1>9. CASE ActionFails
  <2>1. i' = 1 /\ i \in DOMAIN request /\ UNCHANGED <<table, request>>
    BY <1>9 DEF ActionFails, Loop, Refuse, Goto, IInv, TypeOK, RequestOK
  <2>2. \/ UNCHANGED buffer
        \/ buffer' = [buffer EXCEPT ![i] = Old(cells[request[i].col])]
    BY <1>9 DEF ActionFails, Refuse
  <2>3. \A n \in DOMAIN request : buffer'[n] = NewRow => buffer[n] = NewRow
    BY <2>1, <2>2, OneBuffer DEF Old, NewRow
  <2>4. QED BY <2>1, <2>3, KnownStep
<1>10. CASE Handle
  <2>1. mode = "handle" /\ UNCHANGED <<table, request, buffer>>
    BY <1>10 DEF Handle, Loop, Stop, Turn
  <2>2. mode' \notin {"free", "undo"} \/ i' = 1
    BY <1>10, <2>1 DEF Handle, Stop, Turn, Goto
  <2>3. QED BY <2>1, <2>2, KnownStep
<1>11. CASE Undo
  <2>1. context' = context /\ i \in DOMAIN request /\ mode = "undo" /\ UNCHANGED <<table, request>>
    BY <1>11 DEF Undo, Loop, Stop, Turn, IInv, TypeOK, RequestOK
  <2>2. CASE \E f \in {"freed", "stray"} : Stop(f)
    <3>1. mode' = "stopped" /\ UNCHANGED buffer
      BY <2>2 DEF Stop
    <3>2. QED BY <2>1, <3>1, KnownStep
  <2>3. CASE Turn /\ UNCHANGED buffer /\ (Passed(i) \/ buffer[i] # NewRow)
    BY <2>1, <2>3, KnownStep DEF Turn, Passed, Nothing, NewRow
  <2>4. CASE Turn /\ Discard
    <3>1. buffer'[i] = Nothing /\ \A n \in DOMAIN request : n # i => buffer'[n] = buffer[n]
      BY <2>1, <2>4, OneBuffer DEF Discard
    <3>2. QED BY <2>1, <2>4, <3>1, KnownStep DEF Turn, Nothing, NewRow
  <2>5. QED BY <1>11, <2>2, <2>3, <2>4 DEF Undo
<1>12. CASE Commit
  <2>1. mode = "commit" /\ mode' = "commit" /\ i \in DOMAIN request /\ UNCHANGED <<table, request>>
    BY <1>12 DEF Commit, Loop, Turn, IInv, TypeOK, RequestOK
  <2>2. buffer' = buffer \/ buffer' = [buffer EXCEPT ![i] = Nothing]
    BY <1>12 DEF Commit
  <2>3. \A n \in DOMAIN request : buffer'[n] = NewRow => buffer[n] = NewRow
    BY <2>1, <2>2, OneBuffer DEF Nothing, NewRow
  <2>4. QED BY <2>1, <2>3, KnownStep
<1>13. QED
  BY <1>1, <1>2, <1>3, <1>4, <1>5, <1>6, <1>7, <1>8, <1>9, <1>10, <1>11, <1>12 DEF Next

\* A removal that is refused: only a table whose row status takes the row away
\* by removeExt does so, and a variable of the row status made the row.
LEMMA RemovalRefused ==
  ASSUME IInv, NewRowsKnown, i \in DOMAIN request, buffer[i] = NewRow, MayRefuse,
         before.status = "none", status # "none"
  PROVE  LeftBehind
<1>1. check.rows # "column"
  BY DEF MayRefuse, IInv, TableOK, check
<1>2. QED BY <1>1 DEF NewRowsKnown, LeftBehind

\* FREE and UNDO pass over a variable whose buffer does not hold the new row.
LEMMA PassedOver ==
  ASSUME IInv, UInv, mode \in {"free", "undo"}, i \in DOMAIN request,
         Passed(i) \/ buffer[i] # NewRow, before.status = "none", status # "none"
  PROVE  /\ context = "row"
         /\ (\E n \in DOMAIN request : buffer[n] = NewRow /\ n >= i + 1) \/ LeftBehind
<1>1. context = "row"
  BY DEF UInv, MadeRowKept, BeforeCommit
<1> SUFFICES ASSUME ~LeftBehind
             PROVE  \E n \in DOMAIN request : buffer[n] = NewRow /\ n >= i + 1
  BY <1>1
<1>2. PICK n \in DOMAIN request : buffer[n] = NewRow /\ n >= i
  BY DEF UInv, MadeRowKept, BeforeCommit
<1>3. n # i
  BY <1>1, <1>2 DEF Passed, Nothing, NewRow
<1>4. n \in Nat /\ i \in Nat
  BY DEF IInv, RequestOK
<1>5. QED BY <1>1, <1>2, <1>3, <1>4

LEMMA UndoFreeStep ==
  ASSUME IInv, UInv, NewRowsKnown, Free
  PROVE  UInv'
<1>1. Loop("free") /\ Turn /\ mode = "free" /\ UNCHANGED context
  BY DEF Free, Loop
<1>2. /\ mode' = "free" /\ i \in DOMAIN request /\ i' = i + 1
      /\ UNCHANGED <<table, request, before>>
  BY <1>1, TurnFacts DEF Modes
<1>3. UNCHANGED cells
  BY DEF Free, Discard, RemoveEntry
<1>4. Arrived'
  BY <1>2, <1>3, ArrivedStep
<1>5. ContextKept' /\ OldKept' /\ RolledBack'
  BY <1>1, <1>2 DEF UInv, ContextKept, OldKept, RolledBack, Early
<1>6. CASE Passed(i) /\ UNCHANGED <<status, buffer>>
  <2>1. MadeRowKept'
    BY <1>1, <1>2, <1>6, PassedOver, StaysBehind DEF MadeRowKept
  <2>2. FoundRowStays' /\ NotWritten'
    BY <1>1, <1>2, <1>3, <1>6 DEF UInv, FoundRowStays, NotWritten, BeforeCommit, check
  <2>3. QED BY <1>4, <1>5, <2>1, <2>2 DEF UInv
<1>7. CASE ~Passed(i) /\ Discard
  <2>1. buffer[i] = NewRow
    BY <1>1, <1>2, <1>7 DEF Passed, UInv, NotWritten
  <2>2. before.status = "none" /\ (status' = "none" \/ (MayRefuse /\ status' = status))
    BY <1>1, <1>2, <1>7, <2>1 DEF UInv, FoundRowStays, BeforeCommit, Discard, RemoveEntry
  <2>3. buffer'[i] = Nothing /\ \A n \in DOMAIN request : n # i => buffer'[n] = buffer[n]
    BY <1>2, <1>7, OneBuffer DEF Discard
  <2>4. MadeRowKept' /\ FoundRowStays'
    <3>1. CASE status' = "none"
      BY <1>2, <2>2, <3>1 DEF MadeRowKept, FoundRowStays
    <3>2. CASE MayRefuse /\ status' = status /\ status # "none"
      <4>1. LeftBehind'
        BY <1>2, <2>1, <2>2, <3>2, RemovalRefused, StaysBehind
      <4>2. context = "row"
        BY <1>7 DEF Passed
      <4>3. QED BY <1>1, <1>2, <2>2, <4>1, <4>2 DEF MadeRowKept, FoundRowStays
    <3>3. QED BY <2>2, <3>1, <3>2
  <2>5. NotWritten'
    BY <1>1, <1>2, <2>2, <2>3 DEF UInv, NotWritten
  <2>6. QED BY <1>4, <1>5, <2>4, <2>5 DEF UInv
<1>8. QED BY <1>6, <1>7 DEF Free

\* The columns after one was written.
LEMMA OneCell ==
  ASSUME IInv, UInv, i \in DOMAIN request, NEW x,
         cells' = [cells EXCEPT ![request[i].col] = x]
  PROVE  /\ DOMAIN cells' = DOMAIN cells
         /\ cells'[request[i].col] = x
         /\ \A n \in DOMAIN request : n # i => cells'[request[n].col] = cells[request[n].col]
<1>1. \A n \in DOMAIN request : request[n].col \in DOMAIN cells
  BY DEF IInv, TypeOK
<1>2. \A n \in DOMAIN request : n # i => request[n].col # request[i].col
  BY DEF UInv, Arrived, OnceEach
<1>3. QED BY <1>1, <1>2

\* A variable that sets a column of the row, in ACTION.
LEMMA Unwritten ==
  ASSUME IInv, UInv, mode = "action", i \in DOMAIN request,
         before.status # "none", RestoredIn(table, request[i].col)
  PROVE  /\ buffer[i] = Nothing
         /\ cells[request[i].col] = before.cells[request[i].col]
BY DEF IInv, RequestOK, UInv, OldKept

LEMMA UndoActionStep ==
  ASSUME IInv, UInv, Action
  PROVE  UInv'
<1> DEFINE v == request[i]
<1>1. Loop("action") /\ mode = "action" /\ mode \in Early /\ UNCHANGED <<error, context>>
  BY DEF Action, Loop, Early
<1>2. CASE \E f \in {"null", "stray", "mistyped"} : Stop(f)
  BY <1>1, <1>2, QuietStep DEF Stop
<1>3. CASE Turn /\ UNCHANGED <<status, cells, buffer>>
  BY <1>1, <1>3, QuietStep DEF Turn
<1>4. CASE /\ ~IsStatus(v) /\ Turn /\ UNCHANGED status
           /\ cells' = [cells EXCEPT ![v.col] = Put(v)]
           /\ buffer' = IF Keeps(v) THEN [buffer EXCEPT ![i] = Old(cells[v.col])] ELSE buffer
  <2>1. /\ mode' = "action" /\ i \in DOMAIN request /\ i' = i + 1 /\ i \in Nat
        /\ UNCHANGED <<table, request, before>>
    BY <1>1, <1>4, TurnFacts DEF Modes
  <2>2. /\ DOMAIN cells' = DOMAIN cells
        /\ \A n \in DOMAIN request : n # i => cells'[request[n].col] = cells[request[n].col]
    BY <1>4, <2>1, OneCell
  <2>3. /\ \A n \in DOMAIN request : n # i => buffer'[n] = buffer[n]
        /\ Keeps(v) => buffer'[i] = Old(cells[v.col])
        /\ ~Keeps(v) => buffer'[i] = buffer[i]
    BY <1>4, <2>1, OneBuffer
  <2>4. buffer[i] = NewRow => ~Keeps(v)
    BY DEF Keeps
  <2>5. Old(cells[v.col]) # NewRow
    BY DEF Old, NewRow
  <2>6. Arrived'
    BY <2>1, <2>2, ArrivedStep
  <2>7. ContextKept'
    BY <1>1, <1>4, <2>1 DEF UInv, ContextKept, Early, check
  <2>8. MadeRowKept'
    BY <1>1, <1>4, <2>1, <2>3, <2>4 DEF UInv, MadeRowKept, Early, BeforeCommit
  <2>9. FoundRowStays'
    BY <1>1, <1>4, <2>1, <2>3, <2>5 DEF UInv, FoundRowStays, Early, BeforeCommit, check
  <2>10. NotWritten' /\ RolledBack'
    BY <2>1 DEF NotWritten, RolledBack
  <2>11. OldKept'
    <3>1. SUFFICES ASSUME before.status # "none", NEW n \in DOMAIN request, RestoredIn(table, request[n].col)
                   PROVE  \/ /\ buffer'[n] = Nothing
                             /\ cells'[request[n].col] = before.cells[request[n].col]
                          \/ buffer'[n] = Old(before.cells[request[n].col]) /\ n < i + 1
      BY <2>1 DEF OldKept
    <3>2. CASE n # i
      <4>1. n < i => n < i + 1
        BY <2>1 DEF IInv, RequestOK
      <4>2. QED BY <1>1, <2>2, <2>3, <3>1, <3>2, <4>1 DEF UInv, OldKept
    <3>3. CASE n = i
      <4>1. buffer[i] = Nothing /\ cells[v.col] = before.cells[v.col]
        BY <1>1, <2>1, <3>1, <3>3, Unwritten
      <4>2. Keeps(v)
        BY <3>1, <3>3, <4>1 DEF Keeps, RestoredIn, write, Nothing, NewRow
      <4>3. QED BY <2>1, <2>3, <3>3, <4>1, <4>2
    <3>4. QED BY <3>2, <3>3
  <2>12. QED BY <2>6, <2>7, <2>8, <2>9, <2>10, <2>11 DEF UInv
<1>5. QED BY <1>2, <1>3, <1>4 DEF Action

LEMMA UndoActionFailsStep ==
  ASSUME IInv, UInv, ActionFails
  PROVE  UInv'
<1> DEFINE v == request[i]
<1>1. mode = "action" /\ mode \in Early /\ i \in DOMAIN request /\ i \in Nat /\ Keeps(v)
  BY DEF ActionFails, Loop, Early, IInv, TypeOK, RequestOK
<1>2. CASE Refuse("undo")
  BY <1>1, <1>2, QuietStep DEF Refuse, Goto
<1>3. CASE /\ Goto("undo")
           /\ buffer' = [buffer EXCEPT ![i] = Old(cells[v.col])]
           /\ UNCHANGED <<table, status, cells, request, context, fault, before>>
  <2>1. mode' = "undo" /\ i' = 1
    BY <1>3 DEF Goto
  <2>2. buffer'[i] = Old(cells[v.col]) /\ \A n \in DOMAIN request : n # i => buffer'[n] = buffer[n]
    BY <1>1, <1>3, OneBuffer
  <2>3. buffer[i] # NewRow /\ Old(cells[v.col]) # NewRow
    BY <1>1 DEF Keeps, Old, NewRow
  <2>4. \A n \in DOMAIN request : n >= 1 /\ ~(n < 1)
    BY DEF IInv, RequestOK
  <2>5. Arrived'
    BY <1>3, ArrivedStep
  <2>6. ContextKept' /\ NotWritten' /\ RolledBack'
    BY <1>3, <2>1 DEF UInv, ContextKept, NotWritten, RolledBack, Early
  <2>7. MadeRowKept'
    BY <1>1, <1>3, <2>1, <2>2, <2>3, <2>4 DEF UInv, MadeRowKept, Early, BeforeCommit
  <2>8. FoundRowStays'
    BY <1>1, <1>3, <2>1, <2>2, <2>3 DEF UInv, FoundRowStays, Early, BeforeCommit, check
  <2>9. OldKept'
    <3>1. SUFFICES ASSUME before.status # "none", NEW n \in DOMAIN request, RestoredIn(table, request[n].col)
                   PROVE  \/ /\ buffer'[n] = Nothing
                             /\ cells[request[n].col] = before.cells[request[n].col]
                          \/ buffer'[n] = Old(before.cells[request[n].col])
      BY <1>3, <2>1, <2>4 DEF OldKept
    <3>2. CASE n # i
      BY <1>1, <2>2, <3>1, <3>2 DEF UInv, OldKept
    <3>3. CASE n = i
      BY <1>1, <2>2, <3>1, <3>3, Unwritten
    <3>4. QED BY <3>2, <3>3
  <2>10. QED BY <2>5, <2>6, <2>7, <2>8, <2>9 DEF UInv
<1>4. QED BY <1>2, <1>3 DEF ActionFails

\* The function of the row status never takes the row away.
LEMMA UndoHandleStep ==
  ASSUME IInv, UInv, Handle
  PROVE  UInv'
<1> DEFINE v == request[i]
<1>1. mode = "handle" /\ mode \in Early /\ Loop("handle") /\ i \in DOMAIN request
  BY DEF Handle, Loop, Early, IInv, TypeOK, RequestOK
<1>2. CASE Stop("stray")
  BY <1>1, <1>2, QuietStep DEF Stop
<1>3. CASE ~IsStatus(v) /\ Turn /\ UNCHANGED <<status, cells, context, buffer>>
  BY <1>1, <1>3, QuietStep DEF Turn
<1>4. CASE /\ IsStatus(v) /\ context = "row"
           /\ status' \in {status} \cup Gives[v.val]
           /\ (Turn \/ (Goto("undo") /\ UNCHANGED <<table, request, fault, before>>))
           /\ UNCHANGED <<cells, context, buffer>>
  <2>1. UNCHANGED <<table, request, before>>
    BY <1>4 DEF Turn
  <2>2. mode' = "handle" \/ (mode' = "undo" /\ i' = 1)
    BY <1>1, <1>4 DEF Turn, Goto
  <2>3. status # "none" /\ status' # "none"
    <3>1. v.val \in RowStatus
      BY <1>1, <1>4 DEF IInv, StatusValues
    <3>2. \A x \in RowStatus : "none" \notin Gives[x]
      BY DEF RowStatus, Create, Gives, Up
    <3>3. status # "none"
      BY <1>1, <1>4 DEF UInv, ContextKept
    <3>4. QED BY <1>4, <3>1, <3>2, <3>3
  <2>4. check.rows = "handler"
    BY <1>1 DEF UInv, ContextKept
  <2>5. \A n \in DOMAIN request : n >= 1 /\ ~(n < 1)
    BY DEF IInv, RequestOK
  <2>6. Arrived'
    BY <1>4, <2>1, ArrivedStep
  <2>7. ContextKept'
    BY <1>1, <1>4, <2>1, <2>2, <2>3 DEF UInv, ContextKept, check
  <2>8. MadeRowKept'
    BY <1>1, <1>4, <2>1, <2>2, <2>3, <2>5 DEF UInv, MadeRowKept, Early, BeforeCommit
  <2>9. FoundRowStays'
    BY <1>1, <1>4, <2>1, <2>2, <2>3, <2>4 DEF UInv, FoundRowStays, Early, BeforeCommit, check
  <2>10. NotWritten' /\ RolledBack'
    BY <2>2 DEF NotWritten, RolledBack
  <2>11. OldKept'
    BY <1>1, <1>4, <2>1, <2>2, <2>5 DEF UInv, OldKept
  <2>12. QED BY <2>6, <2>7, <2>8, <2>9, <2>10, <2>11 DEF UInv
<1>5. QED BY <1>2, <1>3, <1>4 DEF Handle

LEMMA UndoUndoStep ==
  ASSUME IInv, UInv, NewRowsKnown, Undo
  PROVE  UInv'
<1> DEFINE c == request[i].col
<1>1. mode = "undo" /\ Loop("undo") /\ UNCHANGED context
  BY DEF Undo, Loop
<1>2. CASE mode' = "stopped" /\ UNCHANGED <<table, status, cells, request, context, buffer, before>>
  <2>1. Arrived'
    BY <1>2, ArrivedStep
  <2>2. ContextKept' /\ MadeRowKept' /\ FoundRowStays' /\ NotWritten' /\ OldKept' /\ RolledBack'
    BY <1>2 DEF UInv, ContextKept, MadeRowKept, FoundRowStays, NotWritten, OldKept, RolledBack, Early, BeforeCommit
  <2>3. QED BY <2>1, <2>2 DEF UInv
<1>3. CASE Turn /\ Passed(i) /\ UNCHANGED <<status, cells, buffer>>
  <2>1. mode' = "undo" /\ i' = i + 1 /\ i \in DOMAIN request /\ UNCHANGED <<table, request, before>>
    BY <1>1, <1>3, TurnFacts DEF Modes
  <2>2. Arrived'
    BY <1>3, <2>1, ArrivedStep
  <2>3. ContextKept' /\ NotWritten' /\ RolledBack'
    BY <1>1, <2>1 DEF UInv, ContextKept, NotWritten, RolledBack, Early
  <2>4. MadeRowKept'
    BY <1>1, <1>3, <2>1, PassedOver, StaysBehind DEF MadeRowKept
  <2>5. FoundRowStays'
    BY <1>1, <1>3, <2>1 DEF UInv, FoundRowStays, BeforeCommit, check
  <2>6. OldKept'
    <3>1. SUFFICES ASSUME before.status # "none", NEW n \in DOMAIN request, RestoredIn(table, request[n].col)
                   PROVE  \/ buffer[n] = Nothing /\ cells[request[n].col] = before.cells[request[n].col]
                          \/ /\ buffer[n] = Old(before.cells[request[n].col])
                             /\ n < i + 1 => ShowsAlike(table, request[n].col, cells[request[n].col],
                                                        before.cells[request[n].col])
      BY <1>3, <2>1 DEF OldKept
    <3>2. buffer[i] = Nothing
      BY <1>3, <3>1 DEF Passed, UInv, ContextKept
    <3>3. Old(before.cells[c]) # Nothing
      BY DEF Old, Nothing
    <3>4. n < i + 1 => n < i \/ n = i
      BY <2>1 DEF IInv, RequestOK
    <3>5. QED BY <1>1, <2>1, <3>1, <3>2, <3>3, <3>4 DEF UInv, OldKept
  <2>7. QED BY <2>2, <2>3, <2>4, <2>5, <2>6 DEF UInv
<1>4. CASE ~Passed(i) /\ buffer[i] = NewRow /\ Discard /\ Turn
  <2>1. mode' = "undo" /\ i \in DOMAIN request /\ UNCHANGED <<table, request, before>>
    BY <1>1, <1>4, TurnFacts DEF Modes
  <2>2. /\ before.status = "none" /\ cells' = cells
        /\ status' = "none" \/ (MayRefuse /\ status' = status)
    BY <1>1, <1>4, <2>1 DEF UInv, FoundRowStays, BeforeCommit, Discard, RemoveEntry
  <2>3. Arrived'
    BY <2>1, <2>2, ArrivedStep
  <2>4. ContextKept' /\ FoundRowStays' /\ NotWritten' /\ OldKept' /\ RolledBack'
    BY <2>1, <2>2 DEF ContextKept, FoundRowStays, NotWritten, OldKept, RolledBack, Early
  <2>5. MadeRowKept'
    <3>1. CASE status' = "none"
      BY <3>1 DEF MadeRowKept
    <3>2. CASE MayRefuse /\ status' = status /\ status # "none"
      <4>1. LeftBehind'
        BY <1>4, <2>1, <2>2, <3>2, RemovalRefused, StaysBehind
      <4>2. context' = "row"
        BY <1>1, <1>4 DEF Passed
      <4>3. QED BY <2>1, <4>1, <4>2 DEF MadeRowKept
    <3>3. QED BY <2>2, <3>1, <3>2
  <2>6. QED BY <2>3, <2>4, <2>5 DEF UInv
<1>5. CASE /\ ~Passed(i) /\ buffer[i] # NewRow
           /\ cells' = [cells EXCEPT ![c] = PutBack(c, buffer[i].val)]
           /\ Turn
           /\ UNCHANGED <<status, buffer>>
  <2>1. mode' = "undo" /\ i' = i + 1 /\ i \in DOMAIN request /\ UNCHANGED <<table, request, before>>
    BY <1>1, <1>5, TurnFacts DEF Modes
  <2>2. /\ DOMAIN cells' = DOMAIN cells
        /\ cells'[c] = PutBack(c, buffer[i].val)
        /\ \A n \in DOMAIN request : n # i => cells'[request[n].col] = cells[request[n].col]
    BY <1>5, <2>1, OneCell
  <2>3. Arrived'
    BY <2>1, <2>2, ArrivedStep
  <2>4. ContextKept' /\ NotWritten' /\ RolledBack'
    BY <1>1, <2>1 DEF UInv, ContextKept, NotWritten, RolledBack, Early
  <2>5. MadeRowKept'
    BY <1>1, <1>5, <2>1, PassedOver, StaysBehind DEF MadeRowKept
  <2>6. FoundRowStays'
    BY <1>1, <1>5, <2>1 DEF UInv, FoundRowStays, BeforeCommit, check
  <2>7. OldKept'
    <3>1. SUFFICES ASSUME before.status # "none", NEW n \in DOMAIN request, RestoredIn(table, request[n].col)
                   PROVE  \/ /\ buffer[n] = Nothing
                             /\ cells'[request[n].col] = before.cells[request[n].col]
                          \/ /\ buffer[n] = Old(before.cells[request[n].col])
                             /\ n < i + 1 => ShowsAlike(table, request[n].col, cells'[request[n].col],
                                                        before.cells[request[n].col])
      BY <1>5, <2>1 DEF OldKept
    <3>2. CASE n # i
      <4>1. n < i + 1 => n < i
        BY <2>1, <3>2 DEF IInv, RequestOK
      <4>2. QED BY <1>1, <2>2, <3>1, <3>2, <4>1 DEF UInv, OldKept
    <3>3. CASE n = i
      <4>1. buffer[i] = Old(before.cells[c])
        BY <1>1, <1>5, <3>1, <3>3 DEF UInv, OldKept, Passed
      <4>2. buffer[i].val = before.cells[c]
        BY <4>1 DEF Old
      <4>3. c \in DOMAIN cells
        BY <2>1 DEF IInv, TypeOK
      <4>4. before.cells[c] = Found(table, c) /\ FormOK(table)
        BY <4>3 DEF UInv, Arrived
      <4>5. c \in DOMAIN check.types
        BY <2>1, <3>1, <3>3 DEF IInv, RequestOK, VariableOK, SetColumns, RestoredIn, check
      <4>6. ShowsAlike(table, c, cells'[c], before.cells[c])
        BY <2>2, <3>1, <3>3, <4>2, <4>4, <4>5, PutBackAlike
      <4>7. QED BY <3>3, <4>1, <4>6
    <3>4. QED BY <3>2, <3>3
  <2>8. QED BY <2>3, <2>4, <2>5, <2>6, <2>7 DEF UInv
<1>6. QED BY <1>2, <1>3, <1>4, <1>5 DEF Undo, Stop

LEMMA UndoCommitStep ==
  ASSUME IInv, UInv, Commit
  PROVE  UInv'
<1>1. mode = "commit" /\ Loop("commit") /\ Turn /\ UNCHANGED context /\ UNCHANGED cells
  BY DEF Commit, Loop, RemoveEntry
<1>2. mode' = "commit" /\ UNCHANGED <<table, request, before>>
  BY <1>1, TurnFacts DEF Modes
<1>3. Arrived'
  BY <1>1, <1>2, ArrivedStep
<1>4. ContextKept' /\ MadeRowKept' /\ FoundRowStays' /\ NotWritten' /\ OldKept' /\ RolledBack'
  BY <1>1, <1>2 DEF UInv, ContextKept, MadeRowKept, FoundRowStays, NotWritten, OldKept, RolledBack, Early, BeforeCommit
<1>5. QED BY <1>3, <1>4 DEF UInv

LEMMA UndoStutterStep ==
  ASSUME UInv, UNCHANGED vars
  PROVE  UInv'
<1>1. Arrived'
  BY ArrivedStep DEF vars
<1>2. ContextKept' /\ NotWritten' /\ OldKept'
  BY DEF UInv, ContextKept, NotWritten, OldKept, check, vars
<1>3. MadeRowKept' /\ FoundRowStays'
  BY StaysBehind DEF UInv, MadeRowKept, FoundRowStays, check, vars
<1>4. RolledBack'
  BY StaysBehind DEF UInv, RolledBack, Restored, Shown, check, write, read, vars
<1>5. QED BY <1>1, <1>2, <1>3, <1>4 DEF UInv

LEMMA RollbackStep == IInv /\ UInv /\ NewRowsKnown /\ [Next]_vars => UInv'
<1> SUFFICES ASSUME IInv, UInv, NewRowsKnown, [Next]_vars PROVE UInv'
  OBVIOUS
<1>1. CASE Return BY <1>1, UndoReturnStep
<1>2. CASE Finish BY <1>2, UndoFinishStep
<1>3. CASE Over BY <1>3, UndoStutterStep DEF Over
<1>4. CASE Reserve1 BY <1>4, UndoReserve1Step
<1>5. CASE Reserve2Create BY <1>5, UndoReserve2CreateStep
<1>6. CASE Reserve2 BY <1>6, UndoReserve2Step
<1>7. CASE Free BY <1>7, UndoFreeStep
<1>8. CASE Action BY <1>8, UndoActionStep
<1>9. CASE ActionFails BY <1>9, UndoActionFailsStep
<1>10. CASE Handle BY <1>10, UndoHandleStep
<1>11. CASE Undo BY <1>11, UndoUndoStep
<1>12. CASE Commit BY <1>12, UndoCommitStep
<1>13. CASE UNCHANGED vars BY <1>13, UndoStutterStep
<1>14. QED
  BY <1>1, <1>2, <1>3, <1>4, <1>5, <1>6, <1>7, <1>8, <1>9, <1>10, <1>11, <1>12, <1>13 DEF Next

\* A request that a mapper refuses in any phase is taken back by FREE and UNDO, for any
\* table: no row is left behind, but for one that removeExt refuses to remove, none is lost,
\* and GET shows what the columns held before.
THEOREM RefusedIsUndone == Spec => []RolledBack
<1>1. UInv => RolledBack
  BY DEF UInv
<1>2. QED
  BY <1>1, Initially, Step, NewRowsInitially, NewRowsStep, UndoInitially, RollbackStep, PTL DEF Spec

-----------------------------------------------------------------------------
(***************************************************************************)
(* Proof that memory is misused in the cases that NoOtherFault lists only. *)
(***************************************************************************)

\* How the columns of a table are shown (CatalogueAssumption).
ReadOK(t) ==
  \A c \in DOMAIN t.check.types :
    /\ t.read[c].by \in IF t.write[c].bits = 0 THEN {"count", "size"} ELSE {"value", "elapsed"}
    /\ t.read[c].by = "count" => t.write[c].form \in {"counted", "inPlace"}
    /\ t.check.types[c].limit # "none" => t.write[c].bits = 0
    /\ t.write[c].bits = 0 => t.check.types[c].type # "IPADDRESS"

\* Octets of the right type; where RESERVE1 does not count them they fit.
OctetsOK(t, v) ==
  v.type = TypeOf(t, v.col) /\ IsOctets(t, v.col) =>
    /\ v.val \in Seq(Nat)
    /\ t.check.types[v.col].limit = "none" => Len(v.val) <= Size

ArrivedSound ==
  /\ ReadOK(table)
  /\ \A n \in DOMAIN request : OctetsOK(table, request[n])

\* What RESERVE1 has found right in a variable that sets a column.
Checked(n) ==
  ~IsStatus(request[n]) =>
    IF Limit(request[n]) = "none"
    THEN request[1].type = TypeOf(table, request[n].col)
    ELSE request[n].type = TypeOf(table, request[n].col) /\ Len(request[n].val) <= Size

VariablesChecked ==
  \A n \in DOMAIN request :
    (mode = "reserve1" /\ n < i /\ ~error) \/ mode \in {"reserve2", "action", "handle", "commit"}
      => Checked(n)

\* The number of octets that RESERVE1 looks up is the one found.
CellsFound == mode = "reserve1" => \A c \in DOMAIN cells : cells[c] = Found(table, c)

\* ACTION and the phases after it have a row to work on, but for parts of rows.
RowInHand ==
  /\ context = "stray" => check.context = "parent" /\ before.status = "none"
  /\ check.context # "parent" =>
       /\ mode = "reserve2" /\ i > 1 => error \/ context = "row"
       /\ mode \in {"action", "handle", "undo", "commit"} => context = "row"

\* New rows are in the buffers of the variables that made them, until COMMIT
\* takes them out; ACTION keeps no old value for a row status.
BuffersKnown ==
  \A n \in DOMAIN request :
    /\ buffer[n] = NewRow => before.status = "none" /\ (IsCreate(request[n]) \/ check.rows = "column")
    /\ IsStatus(request[n]) => buffer[n] \in {Nothing, NewRow}
    /\ mode = "commit" /\ n < i /\ IsCreate(request[n]) => buffer[n] # NewRow

FInv ==
  /\ VariablesChecked
  /\ CellsFound
  /\ RowInHand
  /\ BuffersKnown
  /\ NoOtherFault

\* The uses of memory that NoOtherFault allows.
MayFault(f) ==
  LET v == request[i] IN
  /\ f = "null" =>
       before.status = "none" /\ (NeedsRow(v) \/ (v.col \in check.frozen /\ ~check.tested))
  /\ f = "stray" =>
       (check.context = "parent" /\ before.status = "none") \/ write[v.col].form = "strayed"
  /\ f = "freed" =>
       (check.rows = "column" /\ before.status = "none") \/ (i > 1 /\ IsCreate(request[1]))
  /\ f = "mistyped" => i > 1 /\ Limit(v) = "none"

LEMMA FaultInitially == Init => FInv
<1> SUFFICES ASSUME Init PROVE FInv
  OBVIOUS
<1>1. RequestOK(table, request)
  BY RequestsOK DEF Init
<1>2. /\ mode = "reserve1" /\ i = 1 /\ context = Looked /\ fault = "none" /\ before.status = status
      /\ \A n \in DOMAIN request : buffer[n] = Nothing
  BY DEF Init
<1>3. VariablesChecked
  BY <1>1, <1>2 DEF VariablesChecked, RequestOK
<1>4. CellsFound
  BY DEF Init, CellsFound
<1>5. RowInHand
  BY <1>2 DEF RowInHand, Looked
<1>6. BuffersKnown
  BY <1>2 DEF BuffersKnown, Nothing, NewRow
<1>7. NoOtherFault
  BY <1>2 DEF NoOtherFault
<1>8. QED BY <1>3, <1>4, <1>5, <1>6, <1>7 DEF FInv

\* Steps without a fault.
LEMMA NoFault ==
  ASSUME fault' = "none"
  PROVE  NoOtherFault'
BY DEF NoOtherFault

LEMMA StopFault ==
  ASSUME IInv, FInv, NEW f \in Faults \ {"none"}, Stop(f), MayFault(f)
  PROVE  FInv'
<1>1. /\ fault' = f /\ mode' = "stopped"
      /\ UNCHANGED <<table, status, cells, request, i, error, context, buffer, before>>
  BY DEF Stop
<1>2. VariablesChecked' /\ CellsFound'
  BY <1>1 DEF VariablesChecked, CellsFound
<1>3. RowInHand'
  BY <1>1 DEF FInv, RowInHand, check
<1>4. BuffersKnown'
  BY <1>1 DEF FInv, BuffersKnown, IsCreate, IsStatus, check
<1>5. NoOtherFault'
  BY <1>1 DEF NoOtherFault, MayFault, NeedsRow, Limit, IsCreate, IsStatus, write, check, Faults
<1>6. QED BY <1>2, <1>3, <1>4, <1>5 DEF FInv

\* The mapper refuses.
LEMMA RefuseFault ==
  ASSUME IInv, FInv, NEW p \in {"free", "undo"}, Refuse(p), mode \notin {"stopped", "done", "refused"},
         p = "undo" => context = "row"
  PROVE  FInv'
<1>1. mode' = p /\ UNCHANGED <<table, status, cells, request, context, buffer, fault, before>>
  BY DEF Refuse, Goto
<1>2. VariablesChecked' /\ CellsFound'
  BY <1>1 DEF VariablesChecked, CellsFound
<1>3. RowInHand'
  BY <1>1 DEF FInv, RowInHand, check
<1>4. BuffersKnown'
  BY <1>1 DEF FInv, BuffersKnown, IsCreate, IsStatus, check
<1>5. NoOtherFault'
  BY <1>1, NoFault DEF IInv, TypeOK
<1>6. QED BY <1>2, <1>3, <1>4, <1>5 DEF FInv

\* A turn of a loop that leaves the context and the buffers alone; what it has
\* found of its variable is said by the hypotheses.
LEMMA TurnFault ==
  ASSUME IInv, FInv, NEW p \in Modes \ {"stopped"}, Loop(p), Turn, UNCHANGED <<context, buffer>>,
         p = "reserve1" => (cells' = cells /\ (~error' => ~error /\ Checked(i))),
         p = "reserve2" => (error => error') /\ (context = "none" => error'),
         p = "commit" => ~(IsCreate(request[i]) /\ buffer[i] = NewRow)
  PROVE  FInv'
<1>1. /\ mode = p /\ mode' = p /\ i' = i + 1 /\ i \in DOMAIN request /\ i \in Nat
      /\ UNCHANGED <<table, request, fault, before>>
  BY TurnFacts
<1>2. \A n \in DOMAIN request : n < i' => n < i \/ n = i
  BY <1>1 DEF IInv, RequestOK
<1>3. VariablesChecked'
  <2>1. SUFFICES ASSUME NEW n \in DOMAIN request,
                        (p = "reserve1" /\ n < i' /\ ~error') \/ p \in {"reserve2", "action", "handle", "commit"}
                 PROVE  Checked(n)
    BY <1>1 DEF VariablesChecked, Checked, Limit, IsStatus, TypeOf, check
  <2>2. QED BY <1>1, <1>2, <2>1 DEF FInv, VariablesChecked
<1>4. CellsFound'
  BY <1>1 DEF FInv, CellsFound
<1>5. RowInHand'
  <2>1. context \in {"none", "row", "stray"}
    BY DEF IInv, TypeOK
  <2>2. QED BY <1>1, <2>1 DEF FInv, RowInHand, check
<1>6. BuffersKnown'
  BY <1>1, <1>2 DEF FInv, BuffersKnown, IsCreate, IsStatus, check
<1>7. NoOtherFault'
  BY <1>1, NoFault DEF IInv, TypeOK
<1>8. QED BY <1>3, <1>4, <1>5, <1>6, <1>7 DEF FInv

LEMMA FaultReturnStep ==
  ASSUME IInv, UInv, FInv, Return
  PROVE  FInv'
<1>1. PICK p \in Following[mode] : (error => p = "free") /\ mode' = p /\ i' = 1 /\ error' = FALSE
  BY DEF Return, Goto
<1>2. /\ mode \in {"reserve1", "reserve2", "action", "handle"} /\ i > Len(request)
      /\ UNCHANGED <<table, cells, request, context, buffer, fault, before>>
  BY DEF Return, Following
<1>3. /\ mode = "reserve1" => p \in {"reserve2", "free"}
      /\ mode = "reserve2" => p \in {"action", "free"}
      /\ mode = "action" => p \in {"handle", "commit", "undo"}
      /\ mode = "handle" => p \in {"commit", "undo"}
  BY <1>1, <1>2 DEF Following
<1>4. i > 1 /\ \A n \in DOMAIN request : n < i /\ ~(n < 1)
  BY <1>2 DEF IInv, RequestOK, TypeOK
<1>5. VariablesChecked'
  <2>1. SUFFICES ASSUME NEW n \in DOMAIN request, p \in {"reserve2", "action", "handle", "commit"}
                 PROVE  Checked(n)
    BY <1>1, <1>2, <1>3, <1>4 DEF VariablesChecked, Checked, Limit, IsStatus, TypeOf, check
  <2>2. ~error \/ mode # "reserve1"
    BY <1>1, <2>1
  <2>3. QED BY <1>2, <1>4, <2>2 DEF FInv, VariablesChecked
<1>6. CellsFound'
  BY <1>1, <1>2, <1>3 DEF CellsFound
<1>7. RowInHand'
  <2>1. mode' # "reserve1" /\ ~(mode' = "reserve2" /\ i' > 1)
    BY <1>1, <1>2, <1>3
  <2>2. check.context # "parent" /\ mode' \in {"action", "handle", "undo", "commit"} => context = "row"
    BY <1>1, <1>2, <1>3, <1>4 DEF FInv, RowInHand
  <2>3. QED BY <1>2, <2>1, <2>2 DEF FInv, RowInHand, check
<1>8. BuffersKnown'
  BY <1>1, <1>2, <1>4 DEF FInv, BuffersKnown, IsCreate, IsStatus, check
<1>9. NoOtherFault'
  BY <1>2, NoFault DEF IInv, TypeOK
<1>10. QED BY <1>5, <1>6, <1>7, <1>8, <1>9 DEF FInv

\* A row is freed in its tree where its table has no COMMIT only: FREE and UNDO
\* have removed the row from the tree, COMMIT has taken it out of the buffer.
LEMMA FaultFinishStep ==
  ASSUME IInv, UInv, NewRowsKnown, FInv, Finish
  PROVE  FInv'
<1>1. /\ mode \in {"free", "undo", "commit"} /\ i > Len(request)
      /\ mode' \in {"stopped", "done", "refused"}
      /\ \/ fault' = "none"
         \/ fault' = "freed" /\ status # "none" /\ \E n \in DOMAIN request : buffer[n] = NewRow
      /\ UNCHANGED <<table, status, cells, request, i, error, context, buffer, before>>
  BY DEF Finish
<1>2. VariablesChecked' /\ CellsFound'
  BY <1>1 DEF VariablesChecked, CellsFound
<1>3. RowInHand'
  BY <1>1 DEF FInv, RowInHand, check
<1>4. BuffersKnown'
  BY <1>1 DEF FInv, BuffersKnown, IsCreate, IsStatus, check
<1>5. NoOtherFault'
  <2>1. CASE fault' = "none"
    BY <2>1, NoFault
  <2>2. CASE /\ fault' = "freed" /\ status # "none"
             /\ \E n \in DOMAIN request : buffer[n] = NewRow
    <3>1. PICK n \in DOMAIN request : buffer[n] = NewRow
      BY <2>2
    <3>2. n \in Nat /\ n < i /\ i \in Nat
      BY <1>1 DEF IInv, RequestOK, TypeOK
    <3>3. before.status = "none" /\ (IsCreate(request[n]) \/ check.rows = "column")
      BY <3>1 DEF FInv, BuffersKnown
    <3>4. mode = "commit"
      <4>1. SUFFICES ASSUME mode \in {"free", "undo"} PROVE FALSE
        BY <1>1
      <4>2. context = "row"
        BY <2>2, <3>3, <4>1 DEF UInv, MadeRowKept, BeforeCommit
      <4>3. QED BY <3>1, <3>2, <4>1, <4>2 DEF NewRowsKnown
    <3>5. check.rows = "column"
      BY <3>1, <3>2, <3>3, <3>4 DEF FInv, BuffersKnown
    <3>6. QED BY <1>1, <2>2, <3>3, <3>5 DEF NoOtherFault, check
  <2>3. QED BY <1>1, <2>1, <2>2
<1>6. QED BY <1>2, <1>3, <1>4, <1>5 DEF FInv

LEMMA FaultReserve1Step ==
  ASSUME IInv, UInv, FInv, ArrivedSound, Reserve1
  PROVE  FInv'
<1> DEFINE v == request[i]
<1>1. Loop("reserve1") /\ mode = "reserve1" /\ i \in DOMAIN request
  BY DEF Reserve1, Loop, IInv, RequestOK, TypeOK
<1>2. CASE NeedsRow(v) /\ context = "none" /\ Stop("null")
  <2>1. before.status = "none"
    BY <1>2 DEF UInv, ContextKept
  <2>2. MayFault("null")
    BY <1>2, <2>1 DEF MayFault
  <2>3. QED BY <1>2, <2>2, StopFault DEF Faults
<1>3. CASE Refuse("free")
  BY <1>1, <1>3, RefuseFault
<1>4. CASE /\ Fits(v) \/ check.rows = "scalars"
           /\ error' = (error \/ ~Fits(v))
           /\ Turn
           /\ UNCHANGED <<status, cells, context, buffer>>
  <2>1. ASSUME Fits(v), ~IsStatus(v), Limit(v) # "none"
        PROVE  v.type = TypeOf(table, v.col) /\ Len(v.val) <= Size
    <3>1. v.type = TypeOf(table, v.col) /\ Len(v.val) <= Most(v)
      BY <2>1 DEF Fits
    <3>2. CASE Limit(v) # "held"
      BY <3>1, <3>2 DEF Most
    <3>3. CASE Limit(v) = "held"
      <4>1. v.col \in DOMAIN cells /\ cells[v.col] = Found(table, v.col)
        BY <1>1 DEF IInv, TypeOK, FInv, CellsFound
      <4>2. IsOctets(table, v.col)
        BY <1>1, <2>1 DEF IInv, RequestOK, VariableOK, SetColumns, ArrivedSound, ReadOK, IsOctets, IsStatus, Limit, check
      <4>3. cells[v.col] = OctetString(<<3>>)
        BY <4>1, <4>2 DEF Found
      <4>4. Most(v) = 1
        BY <3>3, <4>3 DEF Most, OctetString
      <4>5. QED BY <3>1, <4>4 DEF Size
    <3>4. QED BY <3>2, <3>3
  <2>2. Fits(v) => Checked(i)
    BY <2>1 DEF Fits, Checked
  <2>3. QED BY <1>1, <1>4, <2>2, TurnFault DEF Modes
<1>5. QED BY <1>2, <1>3, <1>4 DEF Reserve1

LEMMA FaultReserve2CreateStep ==
  ASSUME IInv, UInv, FInv, Reserve2Create
  PROVE  FInv'
<1> DEFINE v == request[i]
<1>1. Loop("reserve2") /\ mode = "reserve2" /\ Makes(v)
  BY DEF Reserve2Create, Loop
<1>2. CASE Refuse("free")
  BY <1>1, <1>2, RefuseFault
<1>3. CASE CreateEntry /\ Turn
  <2>1. /\ mode' = "reserve2" /\ i \in DOMAIN request
        /\ UNCHANGED <<table, request, fault, before>>
    BY <1>1, <1>3, TurnFacts DEF Modes
  <2>2. /\ status = "none"
        /\ context' = IF check.context = "parent" THEN "stray" ELSE "row"
        /\ buffer' = [buffer EXCEPT ![i] = NewRow]
    BY <1>3 DEF CreateEntry
  <2>3. before.status = "none"
    BY <1>1, <2>2 DEF IInv, StatusKept
  <2>4. buffer'[i] = NewRow /\ \A n \in DOMAIN request : n # i => buffer'[n] = buffer[n]
    BY <2>1, <2>2, OneBuffer
  <2>5. VariablesChecked'
    BY <1>1, <2>1 DEF FInv, VariablesChecked, Checked, Limit, IsStatus, TypeOf, check
  <2>6. CellsFound'
    BY <2>1 DEF CellsFound
  <2>7. RowInHand'
    BY <2>1, <2>2, <2>3 DEF RowInHand, check
  <2>8. BuffersKnown'
    <3>1. IsCreate(v) \/ check.rows = "column"
      BY <1>1 DEF Makes
    <3>2. \A n \in DOMAIN request :
            buffer'[n] = NewRow => before.status = "none" /\ (IsCreate(request[n]) \/ check.rows = "column")
      BY <2>3, <2>4, <3>1 DEF FInv, BuffersKnown
    <3>3. \A n \in DOMAIN request : IsStatus(request[n]) => buffer'[n] \in {Nothing, NewRow}
      BY <2>4 DEF FInv, BuffersKnown
    <3>4. QED BY <2>1, <3>2, <3>3 DEF BuffersKnown, IsCreate, IsStatus, check
  <2>9. NoOtherFault'
    BY <1>1, <2>1, NoFault DEF IInv, TypeOK
  <2>10. QED BY <2>5, <2>6, <2>7, <2>8, <2>9 DEF FInv
<1>4. QED BY <1>2, <1>3 DEF Reserve2Create

LEMMA FaultReserve2Step ==
  ASSUME IInv, UInv, FInv, Reserve2
  PROVE  FInv'
<1> DEFINE v == request[i]
<1>1. Loop("reserve2") /\ mode = "reserve2"
  BY DEF Reserve2, Loop
<1>2. CASE Stop("null") /\ v.col \in check.frozen /\ context = "none" /\ ~check.tested
  <2>1. before.status = "none"
    BY <1>2 DEF UInv, ContextKept
  <2>2. MayFault("null")
    BY <1>2, <2>1 DEF MayFault
  <2>3. QED BY <1>2, <2>2, StopFault DEF Faults
<1>3. CASE Stop("stray") /\ context = "stray"
  <2>1. MayFault("stray")
    BY <1>3 DEF MayFault, FInv, RowInHand
  <2>2. QED BY <1>3, <2>1, StopFault DEF Faults
<1>4. CASE Refuse("free")
  BY <1>1, <1>4, RefuseFault
<1>5. CASE error' = (error \/ Misses) /\ Turn /\ UNCHANGED <<status, cells, context, buffer>>
  <2>1. (error => error') /\ (context = "none" => error')
    BY <1>5 DEF Misses
  <2>2. QED BY <1>1, <1>5, <2>1, TurnFault DEF Modes
<1>6. \/ Stop("null") /\ v.col \in check.frozen /\ context = "none" /\ ~check.tested
      \/ Stop("stray") /\ context = "stray"
      \/ Refuse("free")
      \/ error' = (error \/ Misses) /\ Turn /\ UNCHANGED <<status, cells, context, buffer>>
  BY DEF Reserve2
<1>7. QED BY <1>2, <1>3, <1>4, <1>5, <1>6

\* A buffer loses its row.
LEMMA DiscardFault ==
  ASSUME IInv, FInv, NEW p \in {"free", "undo"}, Loop(p), Turn, Discard, UNCHANGED context
  PROVE  FInv'
<1>1. /\ mode = p /\ mode' = p /\ i \in DOMAIN request
      /\ UNCHANGED <<table, request, fault, before>>
  BY TurnFacts DEF Modes
<1>2. buffer'[i] = Nothing /\ \A n \in DOMAIN request : n # i => buffer'[n] = buffer[n]
  BY <1>1, OneBuffer DEF Discard
<1>3. VariablesChecked' /\ CellsFound'
  BY <1>1 DEF VariablesChecked, CellsFound
<1>4. RowInHand'
  BY <1>1 DEF FInv, RowInHand, check
<1>5. BuffersKnown'
  <2>1. Nothing # NewRow
    BY DEF Nothing, NewRow
  <2>2. QED BY <1>1, <1>2, <2>1 DEF FInv, BuffersKnown, IsCreate, IsStatus, check
<1>6. NoOtherFault'
  BY <1>1, NoFault DEF IInv, TypeOK
<1>7. QED BY <1>3, <1>4, <1>5, <1>6 DEF FInv

LEMMA FaultFreeStep ==
  ASSUME IInv, FInv, Free
  PROVE  FInv'
<1>1. Loop("free") /\ Turn /\ UNCHANGED context
  BY DEF Free
<1>2. CASE UNCHANGED <<status, cells, buffer>>
  BY <1>1, <1>2, TurnFault DEF Modes
<1>3. CASE Discard
  BY <1>1, <1>3, DiscardFault
<1>4. QED BY <1>2, <1>3 DEF Free

\* A variable whose old value is kept is no row status.
LEMMA KeptFault ==
  ASSUME IInv, FInv, i \in DOMAIN request, ~IsStatus(request[i]), NEW x,
         UNCHANGED <<table, request, before>>, mode' # "commit",
         buffer' = [buffer EXCEPT ![i] = Old(x)]
  PROVE  BuffersKnown'
<1>1. buffer'[i] = Old(x) /\ \A n \in DOMAIN request : n # i => buffer'[n] = buffer[n]
  BY OneBuffer
<1>2. Old(x) # NewRow
  BY DEF Old, NewRow
<1>3. QED BY <1>1, <1>2 DEF FInv, BuffersKnown, IsCreate, IsStatus, check

LEMMA FaultActionStep ==
  ASSUME IInv, UInv, FInv, Action
  PROVE  FInv'
<1> DEFINE v == request[i]
<1>1. Loop("action") /\ mode = "action" /\ i \in DOMAIN request /\ UNCHANGED <<error, context>>
  BY DEF Action, Loop, IInv, RequestOK, TypeOK
<1>2. CASE Turn /\ UNCHANGED <<status, cells, buffer>>
  BY <1>1, <1>2, TurnFault DEF Modes
<1>3. CASE context = "none"
  <2>1. before.status = "none" /\ check.context # "parent"
    BY <1>1, <1>3 DEF UInv, ContextKept, IInv, PartsMissing
  <2>2. QED BY <1>1, <1>3, <2>1 DEF FInv, RowInHand
<1>4. CASE context = "stray" /\ Stop("stray")
  <2>1. MayFault("stray")
    BY <1>4 DEF MayFault, FInv, RowInHand
  <2>2. QED BY <1>4, <2>1, StopFault DEF Faults
<1>5. CASE ~IsStatus(v) /\ IsMistyped(v) /\ Stop("mistyped")
  <2>1. Checked(i)
    BY <1>1 DEF FInv, VariablesChecked
  <2>2. Limit(v) = "none" /\ request[1].type = TypeOf(table, v.col)
    BY <1>5, <2>1 DEF Checked, IsMistyped
  <2>3. i # 1
    BY <1>5, <2>2 DEF IsMistyped
  <2>4. i > 1
    BY <1>1, <2>3 DEF IInv, RequestOK
  <2>5. MayFault("mistyped")
    BY <2>2, <2>4 DEF MayFault
  <2>6. QED BY <1>5, <2>5, StopFault DEF Faults
<1>6. CASE /\ ~IsStatus(v) /\ Turn
           /\ buffer' = IF Keeps(v) THEN [buffer EXCEPT ![i] = Old(cells[v.col])] ELSE buffer
  <2>1. CASE ~Keeps(v)
    BY <1>1, <1>6, <2>1, TurnFault DEF Modes
  <2>2. CASE Keeps(v)
    <3>1. mode' = "action" /\ UNCHANGED <<table, request, fault, before>>
      BY <1>1, <1>6, TurnFacts DEF Modes
    <3>2. VariablesChecked'
      BY <1>1, <3>1 DEF FInv, VariablesChecked, Checked, Limit, IsStatus, TypeOf, check
    <3>3. CellsFound'
      BY <3>1 DEF CellsFound
    <3>4. RowInHand'
      BY <1>1, <3>1 DEF FInv, RowInHand, check
    <3>5. BuffersKnown'
      BY <1>1, <1>6, <2>2, <3>1, KeptFault
    <3>6. NoOtherFault'
      BY <1>1, <3>1, NoFault DEF IInv, TypeOK
    <3>7. QED BY <3>2, <3>3, <3>4, <3>5, <3>6 DEF FInv
  <2>3. QED BY <2>1, <2>2
<1>7. QED BY <1>2, <1>3, <1>4, <1>5, <1>6 DEF Action

LEMMA FaultActionFailsStep ==
  ASSUME IInv, FInv, ActionFails
  PROVE  FInv'
<1> DEFINE v == request[i]
<1>1. mode = "action" /\ context = "row" /\ ~IsStatus(v) /\ i \in DOMAIN request
  BY DEF ActionFails, Loop, IInv, TypeOK, RequestOK
<1>2. CASE Refuse("undo")
  BY <1>1, <1>2, RefuseFault
<1>3. CASE /\ Goto("undo")
           /\ buffer' = [buffer EXCEPT ![i] = Old(cells[v.col])]
           /\ UNCHANGED <<table, status, cells, request, context, fault, before>>
  <2>1. mode' = "undo"
    BY <1>3 DEF Goto
  <2>2. VariablesChecked' /\ CellsFound'
    BY <2>1 DEF VariablesChecked, CellsFound
  <2>3. RowInHand'
    BY <1>1, <1>3, <2>1 DEF RowInHand
  <2>4. BuffersKnown'
    BY <1>1, <1>3, <2>1, KeptFault
  <2>5. NoOtherFault'
    BY <1>1, <1>3, NoFault DEF IInv, TypeOK
  <2>6. QED BY <2>2, <2>3, <2>4, <2>5 DEF FInv
<1>4. QED BY <1>2, <1>3 DEF ActionFails

LEMMA FaultHandleStep ==
  ASSUME IInv, UInv, FInv, Handle
  PROVE  FInv'
<1> DEFINE v == request[i]
<1>1. mode = "handle" /\ Loop("handle")
  BY DEF Handle, Loop
<1>2. CASE context # "row" /\ Stop("stray")
  <2>1. check.context = "parent" /\ before.status = "none"
    BY <1>1, <1>2 DEF FInv, RowInHand, UInv, ContextKept
  <2>2. MayFault("stray")
    BY <2>1 DEF MayFault
  <2>3. QED BY <1>2, <2>2, StopFault DEF Faults
<1>3. CASE Turn /\ UNCHANGED <<context, buffer>>
  BY <1>1, <1>3, TurnFault DEF Modes
<1>4. CASE Goto("undo") /\ context = "row" /\ UNCHANGED <<table, request, fault, before, cells, context, buffer>>
  <2>1. mode' = "undo"
    BY <1>4 DEF Goto
  <2>2. VariablesChecked' /\ CellsFound' /\ RowInHand'
    BY <1>4, <2>1 DEF VariablesChecked, CellsFound, RowInHand
  <2>3. BuffersKnown'
    BY <1>4, <2>1 DEF FInv, BuffersKnown, IsCreate, IsStatus, check
  <2>4. NoOtherFault'
    BY <1>1, <1>4, NoFault DEF IInv, TypeOK
  <2>5. QED BY <2>2, <2>3, <2>4 DEF FInv
<1>5. QED BY <1>2, <1>3, <1>4 DEF Handle

\* UNDO writes to a row that is gone where another variable has made it, and
\* that is the first one, or any where each column makes the row.
LEMMA FaultUndoStep ==
  ASSUME IInv, UInv, FInv, Undo
  PROVE  FInv'
<1> DEFINE c == request[i].col
<1>1. mode = "undo" /\ Loop("undo") /\ UNCHANGED context /\ i \in DOMAIN request
  BY DEF Undo, Loop, IInv, RequestOK, TypeOK
<1>2. CASE Turn /\ UNCHANGED buffer
  BY <1>1, <1>2, TurnFault DEF Modes
<1>3. CASE Discard /\ Turn
  BY <1>1, <1>3, DiscardFault
<1>4. CASE ~Passed(i) /\ buffer[i] # NewRow /\ status = "none" /\ Stop("freed")
  <2>1. before.status = "none" /\ check.context # "parent"
    BY <1>1, <1>4 DEF UInv, FoundRowStays, BeforeCommit, Passed, IInv, PartsMissing
  <2>2. CASE check.rows # "column"
    <3>1. IsCreate(request[1])
      BY <1>1, <2>1, <2>2 DEF IInv, RowsMissing, Creates
    <3>2. i # 1
      BY <1>1, <1>4, <3>1 DEF FInv, BuffersKnown, Passed, IsCreate
    <3>3. i > 1
      BY <1>1, <3>2 DEF IInv, RequestOK
    <3>4. MayFault("freed")
      BY <3>1, <3>3 DEF MayFault
    <3>5. QED BY <1>4, <3>4, StopFault DEF Faults
  <2>3. CASE check.rows = "column"
    <3>1. MayFault("freed")
      BY <2>1, <2>3 DEF MayFault
    <3>2. QED BY <1>4, <3>1, StopFault DEF Faults
  <2>4. QED BY <2>2, <2>3
<1>5. CASE write[c].form = "strayed" /\ Stop("stray")
  <2>1. MayFault("stray")
    BY <1>5 DEF MayFault
  <2>2. QED BY <1>5, <2>1, StopFault DEF Faults
<1>6. QED BY <1>2, <1>3, <1>4, <1>5 DEF Undo

LEMMA FaultCommitStep ==
  ASSUME IInv, FInv, Commit
  PROVE  FInv'
<1> DEFINE v == request[i]
<1>1. mode = "commit" /\ Loop("commit") /\ Turn /\ UNCHANGED <<error, context>>
  BY DEF Commit, Loop
<1>2. /\ mode' = "commit" /\ i \in DOMAIN request /\ i \in Nat /\ i' = i + 1
      /\ UNCHANGED <<table, request, fault, before>>
  BY <1>1, TurnFacts DEF Modes
<1>3. CASE ~IsCreate(v) /\ UNCHANGED buffer
  BY <1>1, <1>3, TurnFault DEF Modes
<1>4. CASE buffer' = [buffer EXCEPT ![i] = Nothing]
  <2>1. buffer'[i] = Nothing /\ \A n \in DOMAIN request : n # i => buffer'[n] = buffer[n]
    BY <1>2, <1>4, OneBuffer
  <2>2. VariablesChecked'
    BY <1>1, <1>2 DEF FInv, VariablesChecked, Checked, Limit, IsStatus, TypeOf, check
  <2>3. CellsFound'
    BY <1>2 DEF CellsFound
  <2>4. RowInHand'
    BY <1>1, <1>2 DEF FInv, RowInHand, check
  <2>5. BuffersKnown'
    <3>1. Nothing # NewRow
      BY DEF Nothing, NewRow
    <3>2. \A n \in DOMAIN request : n < i' => n < i \/ n = i
      BY <1>2 DEF IInv, RequestOK
    <3>3. QED BY <1>1, <1>2, <2>1, <3>1, <3>2 DEF FInv, BuffersKnown, IsCreate, IsStatus, check
  <2>6. NoOtherFault'
    BY <1>1, <1>2, NoFault DEF IInv, TypeOK
  <2>7. QED BY <2>2, <2>3, <2>4, <2>5, <2>6 DEF FInv
<1>5. \/ ~IsCreate(v) /\ UNCHANGED buffer
      \/ buffer' = [buffer EXCEPT ![i] = Nothing]
  BY DEF Commit, IsCreate, IsDestroy, Create
<1>6. QED BY <1>3, <1>4, <1>5

LEMMA FaultStutterStep ==
  ASSUME FInv, UNCHANGED vars
  PROVE  FInv'
<1>1. VariablesChecked' /\ CellsFound'
  BY DEF FInv, VariablesChecked, Checked, CellsFound, Limit, IsStatus, TypeOf, check, vars
<1>2. RowInHand' /\ BuffersKnown'
  BY DEF FInv, RowInHand, BuffersKnown, IsCreate, IsStatus, check, vars
<1>3. NoOtherFault'
  BY DEF FInv, NoOtherFault, NeedsRow, Limit, IsCreate, IsStatus, check, write, vars
<1>4. QED BY <1>1, <1>2, <1>3 DEF FInv

LEMMA FaultStep == IInv /\ UInv /\ NewRowsKnown /\ FInv /\ ArrivedSound /\ [Next]_vars => FInv'
<1> SUFFICES ASSUME IInv, UInv, NewRowsKnown, FInv, ArrivedSound, [Next]_vars PROVE FInv'
  OBVIOUS
<1>1. CASE Return BY <1>1, FaultReturnStep
<1>2. CASE Finish BY <1>2, FaultFinishStep
<1>3. CASE Over BY <1>3, FaultStutterStep DEF Over
<1>4. CASE Reserve1 BY <1>4, FaultReserve1Step
<1>5. CASE Reserve2Create BY <1>5, FaultReserve2CreateStep
<1>6. CASE Reserve2 BY <1>6, FaultReserve2Step
<1>7. CASE Free BY <1>7, FaultFreeStep
<1>8. CASE Action BY <1>8, FaultActionStep
<1>9. CASE ActionFails BY <1>9, FaultActionFailsStep
<1>10. CASE Handle BY <1>10, FaultHandleStep
<1>11. CASE Undo BY <1>11, FaultUndoStep
<1>12. CASE Commit BY <1>12, FaultCommitStep
<1>13. CASE UNCHANGED vars BY <1>13, FaultStutterStep
<1>14. QED
  BY <1>1, <1>2, <1>3, <1>4, <1>5, <1>6, <1>7, <1>8, <1>9, <1>10, <1>11, <1>12, <1>13 DEF Next

-----------------------------------------------------------------------------
(***************************************************************************)
(* Proof that a request that is answered without an error takes effect.    *)
(***************************************************************************)

\* A column that ACTION has passed shows what was set.
Written ==
  \A n \in DOMAIN request :
    /\ (mode = "action" /\ n < i) \/ mode \in {"handle", "commit", "done"}
    /\ ~IsStatus(request[n])
    => Shown(request[n].col, cells[request[n].col]) = Fitting(request[n])

\* COMMIT comes to its row status with a row.
RowAtCommit ==
  mode = "commit" /\ (\A n \in DOMAIN request : n < i => ~IsStatus(request[n])) => status # "none"

\* The row status that COMMIT has passed is the one of the row.
StatusGiven(v) ==
  /\ IsDestroy(v) => status = "none" \/ MayRefuse
  /\ ~IsDestroy(v) => status # "none"
  /\ ~IsDestroy(v) /\ "commit" \in write[v.col].given => status = Committed[v.val]

StatusCommitted ==
  \A n \in DOMAIN request :
    ((mode = "commit" /\ n < i) \/ mode = "done") /\ IsStatus(request[n]) => StatusGiven(request[n])

TInv ==
  /\ ArrivedSound
  /\ Written
  /\ RowAtCommit
  /\ StatusCommitted

-----------------------------------------------------------------------------
(* What arrives, and what is shown of it.                                  *)

LEMMA VariablesSound ==
  ASSUME NEW t, ReadOK(t), TableOK(t), NEW c \in SetColumns(t),
         NEW v \in Variable(t, c) \cup Mistyped(t, c)
  PROVE  OctetsOK(t, v)
<1> SUFFICES ASSUME v.type = TypeOf(t, v.col), IsOctets(t, v.col)
             PROVE  /\ v.val \in Seq(Nat)
                    /\ t.check.types[v.col].limit = "none" => Len(v.val) <= Size
  BY DEF OctetsOK
<1>1. v.col = c
  BY DEF Variable, Mistyped
<1>2. c # t.check.status /\ c \in DOMAIN t.check.types /\ t.write[c].bits = 0
  BY <1>1 DEF IsOctets, SetColumns
<1>3. v.type # "IPADDRESS"
  BY <1>1, <1>2 DEF TypeOf, ReadOK
<1>4. v \notin Mistyped(t, c)
  BY <1>3 DEF Mistyped
<1>5. v.val \in Given(t, c)
  BY <1>4 DEF Variable
<1>6. Given(t, c) = {<<4>>, <<4, 4>>} \cup (IF t.check.types[c].limit = "none" THEN {} ELSE {<<4, 4, 4>>})
  BY <1>1, <1>2 DEF Given, IsOctets
<1>7. <<4>> \in Seq(Nat) /\ <<4, 4>> \in Seq(Nat) /\ <<4, 4, 4>> \in Seq(Nat)
      /\ Len(<<4>>) = 1 /\ Len(<<4, 4>>) = 2
  OBVIOUS
<1>8. v.val \in {<<4>>, <<4, 4>>, <<4, 4, 4>>}
      /\ (t.check.types[c].limit = "none" => v.val \in {<<4>>, <<4, 4>>})
  BY <1>5, <1>6
<1> DEFINE a == <<4>>
           b == <<4, 4>>
           d == <<4, 4, 4>>
<1>9. v.val \in {a, b, d} /\ (t.check.types[c].limit = "none" => v.val \in {a, b})
  BY <1>8
<1>10. a \in Seq(Nat) /\ b \in Seq(Nat) /\ d \in Seq(Nat) /\ Len(a) <= Size /\ Len(b) <= Size
  BY <1>7 DEF Size
<1> HIDE DEF a, b, d
<1>11. v.val \in Seq(Nat) /\ (t.check.types[c].limit = "none" => Len(v.val) <= Size)
  BY <1>9, <1>10
<1>12. QED BY <1>1, <1>11

LEMMA RequestsSound ==
  ASSUME NEW t, ReadOK(t), TableOK(t), NEW r \in Requests(t)
  PROVE  \A n \in DOMAIN r : OctetsOK(t, r[n])
<1>1. CASE r \in Singles(t)
  <2>1. PICK c \in SetColumns(t) : r \in {<<v>> : v \in Variable(t, c) \cup Mistyped(t, c)}
    BY <1>1 DEF Singles
  <2>2. PICK v \in Variable(t, c) \cup Mistyped(t, c) : r = <<v>>
    BY <2>1
  <2>3. OctetsOK(t, v)
    BY VariablesSound
  <2>4. QED BY <2>2, <2>3
<1>2. CASE r \in Pairs(t)
  <2>1. PICK p \in Samples(t) \X Samples(t) :
          r \in {<<v, w>> : v \in Variable(t, p[1]), w \in Variable(t, p[2]) \cup Mistyped(t, p[2])}
    BY <1>2 DEF Pairs
  <2>2. p[1] \in SetColumns(t) /\ p[2] \in SetColumns(t)
    BY SamplesAreColumns
  <2>3. PICK v \in Variable(t, p[1]), w \in Variable(t, p[2]) \cup Mistyped(t, p[2]) : r = <<v, w>>
    BY <2>1
  <2>4. OctetsOK(t, v) /\ OctetsOK(t, w)
    BY <2>2, VariablesSound
  <2>5. QED BY <2>3, <2>4
<1>3. QED BY <1>1, <1>2 DEF Requests

\* The octets of a field, as many as were counted, are those that were given.
LEMMA CountedOctets ==
  ASSUME NEW s \in Seq(Nat), Len(s) <= Size
  PROVE  SubSeq(Padding(s), 1, Len(s)) = s
<1>1. Padding(s) \in Seq(Nat) /\ Len(Padding(s)) = 2
  BY DEF Padding, Size
<1>2. \A k \in 1 .. Len(s) : Padding(s)[k] = s[k]
  BY DEF Padding, Size
<1> DEFINE p == Padding(s)
           q == SubSeq(p, 1, Len(s))
<1>3. Len(s) \in Nat /\ Len(s) <= 2
  BY DEF Size
<1> HIDE DEF p
<1>4. q \in Seq(Nat) /\ Len(q) = Len(s) /\ \A k \in 1 .. Len(s) : q[k] = p[k]
  BY <1>1, <1>3 DEF p
<1>5. \A k \in 1 .. Len(s) : q[k] = s[k]
  BY <1>2, <1>4 DEF p
<1> HIDE DEF q
<1>6. q = s
  BY <1>4, <1>5, SeqEqual
<1>7. QED BY <1>6 DEF p, q

\* GET shows what ACTION has put.
LEMMA PutShows ==
  ASSUME ReadOK(table), NEW v, v.col \in DOMAIN check.types, v.col # check.status,
         IsOctets(table, v.col) => v.val \in Seq(Nat) /\ Len(v.val) <= Size
  PROVE  Shown(v.col, Put(v)) = Fitting(v)
<1> DEFINE c == v.col
<1>1. CASE write[c].bits # 0
  <2>1. Put(v) = Truncated(v.val, write[c].bits) /\ Fitting(v) = Truncated(v.val, write[c].bits)
    BY <1>1 DEF Put, Fitting
  <2>2. read[c].by \in {"value", "elapsed"}
    BY <1>1 DEF ReadOK, check, write, read
  <2>3. QED BY <2>1, <2>2 DEF Shown
<1>2. CASE write[c].bits = 0
  <2>1. v.val \in Seq(Nat) /\ Len(v.val) <= Size
    BY <1>2 DEF IsOctets, write, check
  <2>2. read[c].by \in {"count", "size"}
    BY <1>2 DEF ReadOK, check, write, read
  <2>3. /\ Put(v).held = Padding(v.val)
        /\ write[c].form \in {"counted", "inPlace"} => Put(v).count = Len(v.val)
    BY <1>2 DEF Put
  <2>4. CASE read[c].by = "size"
    BY <1>2, <2>3, <2>4 DEF Shown, Fitting
  <2>5. CASE read[c].by = "count"
    <3>1. Put(v).count = Len(v.val)
      BY <2>3, <2>5 DEF ReadOK, check, write, read
    <3>2. Shown(c, Put(v)) = SubSeq(Padding(v.val), 1, Len(v.val))
      BY <2>3, <2>5, <3>1 DEF Shown
    <3>3. Fitting(v) = v.val
      BY <1>2, <2>5 DEF Fitting
    <3>4. QED BY <2>1, <3>2, <3>3, CountedOctets
  <2>6. QED BY <2>2, <2>4, <2>5
<1>3. QED BY <1>1, <1>2

-----------------------------------------------------------------------------
(* The steps.                                                              *)

LEMMA EffectInitially == Init => TInv
<1> SUFFICES ASSUME Init PROVE TInv
  OBVIOUS
<1>1. PICK n \in DOMAIN Catalogue : table = Catalogue[n]
  BY DEF Init
<1>2. ReadOK(table) /\ TableOK(table)
  BY <1>1, CatalogueAssumption DEF ReadOK, TableOK
<1>3. ArrivedSound
  BY <1>2, RequestsSound DEF ArrivedSound, Init
<1>4. mode = "reserve1"
  BY DEF Init
<1>5. Written /\ RowAtCommit /\ StatusCommitted
  BY <1>4 DEF Written, RowAtCommit, StatusCommitted
<1>6. QED BY <1>3, <1>5 DEF TInv

\* The properties of a request look at the table, the request and the row.
LEMMA SameSound ==
  ASSUME TInv, UNCHANGED <<table, request>>
  PROVE  ArrivedSound'
BY DEF TInv, ArrivedSound

\* Before COMMIT, where no column is written.
LEMMA EarlyStep ==
  ASSUME TInv, UNCHANGED <<table, request>>, mode' \notin {"action", "handle", "commit", "done"}
  PROVE  TInv'
<1>1. ArrivedSound'
  BY SameSound
<1>2. Written' /\ RowAtCommit' /\ StatusCommitted'
  BY DEF Written, RowAtCommit, StatusCommitted
<1>3. QED BY <1>1, <1>2 DEF TInv

LEMMA EffectReturnStep ==
  ASSUME IInv, UInv, FInv, TInv, FInv', IInv', Return
  PROVE  TInv'
<1>1. PICK p \in Following[mode] :
        /\ mode' = p /\ i' = 1
        /\ UNCHANGED status \/ (p = "action" /\ status' = "active")
  BY DEF Return, Goto
<1>2. /\ mode \in {"reserve1", "reserve2", "action", "handle"} /\ i > Len(request)
      /\ UNCHANGED <<table, cells, request, context, buffer, fault, before>>
  BY DEF Return, Following
<1>3. /\ mode = "reserve1" => p \in {"reserve2", "free"}
      /\ mode = "reserve2" => p \in {"action", "free"}
      /\ mode = "action" => p \in {"handle", "commit", "undo"}
      /\ mode = "handle" => p \in {"commit", "undo"}
  BY <1>1, <1>2 DEF Following
<1>4. \A n \in DOMAIN request : n < i /\ ~(n < 1)
  BY <1>2 DEF IInv, RequestOK, TypeOK
<1>5. ArrivedSound'
  BY <1>2, SameSound
<1>6. Written'
  <2>1. SUFFICES ASSUME NEW n \in DOMAIN request, p \in {"handle", "commit"}, ~IsStatus(request[n])
                 PROVE  Shown(request[n].col, cells[request[n].col]) = Fitting(request[n])
    BY <1>1, <1>2, <1>3, <1>4 DEF Written, IsStatus, Shown, Fitting, check, read, write
  <2>2. mode \in {"action", "handle"}
    BY <1>2, <1>3, <2>1
  <2>3. QED BY <1>4, <2>1, <2>2 DEF TInv, Written
<1>7. RowAtCommit'
  <2>1. SUFFICES ASSUME p = "commit" PROVE status # "none"
    BY <1>1, <1>2 DEF RowAtCommit
  <2>2. mode \in Early
    BY <1>2 DEF Early
  <2>3. context = "row"
    <3>1. CASE check.context # "parent"
      BY <1>1, <1>2, <2>1, <3>1 DEF FInv, RowInHand, check
    <3>2. CASE check.context = "parent"
      BY <1>1, <1>2, <2>1, <3>2 DEF IInv, PartsMissing, check, UInv, ContextKept
    <3>3. QED BY <3>1, <3>2
  <2>4. QED BY <2>2, <2>3 DEF UInv, ContextKept
<1>8. StatusCommitted'
  BY <1>1, <1>2, <1>3, <1>4 DEF StatusCommitted
<1>9. QED BY <1>5, <1>6, <1>7, <1>8 DEF TInv

LEMMA EffectFinishStep ==
  ASSUME IInv, TInv, Finish
  PROVE  TInv'
<1>1. /\ mode \in {"free", "undo", "commit"} /\ i > Len(request)
      /\ mode' \in {"stopped", "done", "refused"} /\ (mode' = "done" => mode = "commit")
      /\ UNCHANGED <<table, status, cells, request, i, error, context, buffer, before>>
  BY DEF Finish
<1>2. \A n \in DOMAIN request : n < i
  BY <1>1 DEF IInv, RequestOK, TypeOK
<1>3. ArrivedSound'
  BY <1>1, SameSound
<1>4. Written'
  BY <1>1 DEF TInv, Written, IsStatus, Shown, Fitting, check, read, write
<1>5. RowAtCommit'
  BY <1>1 DEF RowAtCommit
<1>6. StatusCommitted'
  BY <1>1, <1>2 DEF TInv, StatusCommitted, StatusGiven, MayRefuse, IsDestroy, IsStatus, check, write
<1>7. QED BY <1>3, <1>4, <1>5, <1>6 DEF TInv

LEMMA EffectActionStep ==
  ASSUME IInv, UInv, FInv, TInv, Action
  PROVE  TInv'
<1> DEFINE v == request[i]
<1>1. Loop("action") /\ mode = "action"
  BY DEF Action, Loop
<1>2. CASE mode' = "stopped" /\ UNCHANGED <<table, request>>
  BY <1>2, EarlyStep
<1>3. CASE /\ Turn
           /\ \/ IsStatus(v) /\ UNCHANGED cells
              \/ /\ ~IsStatus(v) /\ ~IsMistyped(v)
                 /\ cells' = [cells EXCEPT ![v.col] = Put(v)]
  <2>1. /\ mode' = "action" /\ i \in DOMAIN request /\ i' = i + 1 /\ i \in Nat
        /\ UNCHANGED <<table, request, before>>
    BY <1>1, <1>3, TurnFacts DEF Modes
  <2>2. ArrivedSound'
    BY <2>1, SameSound
  <2>3. Written'
    <3>1. SUFFICES ASSUME NEW n \in DOMAIN request, n < i + 1, ~IsStatus(request[n])
                   PROVE  Shown(request[n].col, cells'[request[n].col]) = Fitting(request[n])
      BY <2>1 DEF Written, IsStatus, Shown, Fitting, check, read, write
    <3>2. CASE n # i
      <4>1. n < i
        BY <2>1, <3>1, <3>2 DEF IInv, RequestOK
      <4>2. cells'[request[n].col] = cells[request[n].col]
        BY <1>3, <2>1, <3>2, OneCell
      <4>3. QED BY <1>1, <3>1, <4>1, <4>2 DEF TInv, Written
    <3>3. CASE n = i
      <4>1. cells' = [cells EXCEPT ![v.col] = Put(v)] /\ v.type = TypeOf(table, v.col)
        BY <1>3, <3>1, <3>3 DEF IsMistyped
      <4>2. cells'[v.col] = Put(v)
        BY <2>1, <4>1, OneCell
      <4>3. v.col # check.status /\ v.col \in DOMAIN check.types
        BY <2>1, <3>1, <3>3 DEF IsStatus, IInv, RequestOK, VariableOK, SetColumns, check
      <4>4. ASSUME IsOctets(table, v.col) PROVE v.val \in Seq(Nat) /\ Len(v.val) <= Size
        <5>1. OctetsOK(table, v)
          BY <2>1 DEF TInv, ArrivedSound
        <5>2. Checked(i)
          BY <1>1, <2>1 DEF FInv, VariablesChecked
        <5>3. QED BY <3>1, <3>3, <4>1, <4>4, <5>1, <5>2 DEF OctetsOK, Checked, Limit, check
      <4>5. Shown(v.col, Put(v)) = Fitting(v)
        BY <4>3, <4>4, PutShows DEF TInv, ArrivedSound
      <4>6. QED BY <3>3, <4>2, <4>5
    <3>4. QED BY <3>2, <3>3
  <2>4. RowAtCommit' /\ StatusCommitted'
    BY <2>1 DEF RowAtCommit, StatusCommitted
  <2>5. QED BY <2>2, <2>3, <2>4 DEF TInv
<1>4. QED BY <1>2, <1>3 DEF Action, Stop

LEMMA EffectHandleStep ==
  ASSUME IInv, TInv, Handle
  PROVE  TInv'
<1>1. mode = "handle" /\ Loop("handle") /\ i \in DOMAIN request
  BY DEF Handle, Loop, IInv, RequestOK, TypeOK
<1>2. CASE mode' \in {"stopped", "undo"} /\ UNCHANGED <<table, request>>
  BY <1>2, EarlyStep
<1>3. CASE Turn /\ UNCHANGED cells
  <2>1. mode' = "handle" /\ UNCHANGED <<table, request>>
    BY <1>1, <1>3 DEF Turn
  <2>2. ArrivedSound'
    BY <2>1, SameSound
  <2>3. Written'
    BY <1>1, <1>3, <2>1 DEF TInv, Written, IsStatus, Shown, Fitting, check, read, write
  <2>4. RowAtCommit' /\ StatusCommitted'
    BY <2>1 DEF RowAtCommit, StatusCommitted
  <2>5. QED BY <2>2, <2>3, <2>4 DEF TInv
<1>4. QED BY <1>2, <1>3 DEF Handle, Stop, Goto

\* One row status: the variables before it set columns, and the row is there.
LEMMA EffectCommitStep ==
  ASSUME IInv, UInv, TInv, Commit
  PROVE  TInv'
<1> DEFINE v == request[i]
<1>1. mode = "commit" /\ Loop("commit") /\ Turn /\ UNCHANGED cells
  BY DEF Commit, Loop, RemoveEntry
<1>2. /\ mode' = "commit" /\ i \in DOMAIN request /\ i' = i + 1 /\ i \in Nat
      /\ UNCHANGED <<table, request, before>>
  BY <1>1, TurnFacts DEF Modes
<1>3. ArrivedSound'
  BY <1>2, SameSound
<1>4. Written'
  BY <1>1, <1>2 DEF TInv, Written, IsStatus, Shown, Fitting, check, read, write
<1>5. \A n \in DOMAIN request : (n < i' <=> n < i \/ n = i) /\ ~(i < i)
  BY <1>2 DEF IInv, RequestOK
<1>6. CASE ~IsStatus(v)
  <2>1. status' = status
    BY <1>6 DEF Commit, IsDestroy
  <2>2. RowAtCommit'
    BY <1>1, <1>2, <1>5, <2>1 DEF TInv, RowAtCommit, IsStatus, check
  <2>3. StatusCommitted'
    BY <1>1, <1>2, <1>5, <1>6, <2>1 DEF TInv, StatusCommitted, StatusGiven, MayRefuse, IsDestroy, IsStatus, check, write
  <2>4. QED BY <1>3, <1>4, <2>2, <2>3 DEF TInv
<1>7. CASE IsStatus(v)
  <2>1. \A n \in DOMAIN request : IsStatus(request[n]) => n = i
    BY <1>2, <1>7 DEF UInv, Arrived, OnceEach, IsStatus
  <2>2. status # "none"
    BY <1>1, <1>5, <2>1 DEF TInv, RowAtCommit
  <2>3. RowAtCommit'
    BY <1>2, <1>5, <1>7 DEF RowAtCommit, IsStatus, check
  <2>4. /\ IsDestroy(v) => status' = "none" \/ MayRefuse
        /\ ~IsDestroy(v) => status' = IF "commit" \in write[v.col].given THEN Committed[v.val] ELSE status
    BY <1>7 DEF Commit, RemoveEntry
  <2>5. ~IsDestroy(v) => Committed[v.val] # "none"
    <3>1. v.val \in RowStatus
      BY <1>1, <1>2, <1>7 DEF IInv, StatusValues
    <3>2. \A x \in RowStatus : x = "destroy" \/ Committed[x] \in {"notInService", "active"}
      BY DEF RowStatus, Create, Committed
    <3>3. QED BY <1>7, <3>1, <3>2 DEF IsDestroy
  <2>6. /\ IsDestroy(v) => status' = "none" \/ MayRefuse
        /\ ~IsDestroy(v) => status' # "none"
        /\ ~IsDestroy(v) /\ "commit" \in write[v.col].given => status' = Committed[v.val]
    BY <2>2, <2>4, <2>5
  <2>7. StatusCommitted'
    <3>1. SUFFICES ASSUME NEW n \in DOMAIN request, IsStatus(request[n])
                   PROVE  StatusGiven(request[n])'
      BY <1>2 DEF StatusCommitted, IsStatus, check
    <3>2. n = i
      BY <2>1, <3>1
    <3>3. UNCHANGED <<table, request>>
      BY <1>2
    <3>4. QED BY <2>6, <3>2, <3>3 DEF StatusGiven, MayRefuse, IsDestroy, IsStatus, check, write
  <2>8. QED BY <1>3, <1>4, <2>3, <2>7 DEF TInv
<1>8. QED BY <1>6, <1>7

LEMMA EffectStutterStep ==
  ASSUME TInv, UNCHANGED vars
  PROVE  TInv'
<1>1. ArrivedSound'
  BY SameSound DEF vars
<1>2. Written'
  BY ZenonT(60) DEF TInv, Written, IsStatus, Shown, Fitting, check, read, write, vars
<1>3. RowAtCommit' /\ StatusCommitted'
  BY DEF TInv, RowAtCommit, StatusCommitted, StatusGiven, MayRefuse, IsDestroy, IsStatus, check, write, vars
<1>4. QED BY <1>1, <1>2, <1>3 DEF TInv

LEMMA EffectStep == IInv /\ UInv /\ FInv /\ TInv /\ IInv' /\ FInv' /\ [Next]_vars => TInv'
<1> SUFFICES ASSUME IInv, UInv, FInv, TInv, IInv', FInv', [Next]_vars PROVE TInv'
  OBVIOUS
<1>1. CASE Return BY <1>1, EffectReturnStep
<1>2. CASE Finish BY <1>2, EffectFinishStep
<1>3. CASE Over BY <1>3, EffectStutterStep DEF Over
<1>4. CASE Reserve1
  <2>1. mode' \in {"reserve1", "free", "stopped"} /\ UNCHANGED <<table, request>>
    BY <1>4 DEF Reserve1, Loop, Turn, Refuse, Stop, Goto
  <2>2. QED BY <2>1, EarlyStep
<1>5. CASE Reserve2Create
  <2>1. mode' \in {"reserve2", "free"} /\ UNCHANGED <<table, request>>
    BY <1>5 DEF Reserve2Create, Loop, Turn, Refuse, Goto
  <2>2. QED BY <2>1, EarlyStep
<1>6. CASE Reserve2
  <2>1. mode' \in {"reserve2", "free", "stopped"} /\ UNCHANGED <<table, request>>
    BY <1>6 DEF Reserve2, Loop, Turn, Refuse, Stop, Goto
  <2>2. QED BY <2>1, EarlyStep
<1>7. CASE Free
  BY <1>7, EarlyStep DEF Free, Loop, Turn
<1>8. CASE Action BY <1>8, EffectActionStep
<1>9. CASE ActionFails
  BY <1>9, EarlyStep DEF ActionFails, Refuse, Goto
<1>10. CASE Handle BY <1>10, EffectHandleStep
<1>11. CASE Undo
  BY <1>11, EarlyStep DEF Undo, Loop, Turn, Stop
<1>12. CASE Commit BY <1>12, EffectCommitStep
<1>13. CASE UNCHANGED vars BY <1>13, EffectStutterStep
<1>14. QED
  BY <1>1, <1>2, <1>3, <1>4, <1>5, <1>6, <1>7, <1>8, <1>9, <1>10, <1>11, <1>12, <1>13 DEF Next

\* For any catalogue, memory is misused in the cases that NoOtherFault lists and in no
\* other: ACTION and COMMIT, which do not test the row, have one in all other cases.
THEOREM OnlyKnownFaults == Spec => []NoOtherFault
<1>1. FInv => NoOtherFault
  BY DEF FInv
<1>2. TInv => ArrivedSound
  BY DEF TInv
<1>3. QED
  BY <1>1, <1>2, Initially, Step, NewRowsInitially, NewRowsStep, UndoInitially, RollbackStep,
     FaultInitially, FaultStep, EffectInitially, EffectStep, PTL DEF Spec

\* A request that is answered without an error has done what it says, for any catalogue:
\* GET shows each value that ACTION has put, in so far as the field can hold it, and the
\* row has the status that COMMIT gives it.
THEOREM AnsweredTakesEffect == Spec => []TakesEffect
<1>1. TInv => TakesEffect
  BY DEF TInv, Written, StatusCommitted, StatusGiven, TakesEffect
<1>2. TInv => ArrivedSound
  BY DEF TInv
<1>3. QED
  BY <1>1, <1>2, Initially, Step, NewRowsInitially, NewRowsStep, UndoInitially, RollbackStep,
     FaultInitially, FaultStep, EffectInitially, EffectStep, PTL DEF Spec
===============================================================================
