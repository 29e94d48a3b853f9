-------------------------- MODULE RouteTable_proofs --------------------------
(***************************************************************************)
(* Proofs about RouteTable, for every set of keys, columns and values and  *)
(* for requests of any length.                                             *)
(***************************************************************************)
EXTENDS RouteTable, TLAPS

-----------------------------------------------------------------------------
(* What ROLLBACK_BUFFER may hold.                                          *)

IsOld(b) == b # Nothing /\ b # NewRow

LEMMA BufferKinds ==
  /\ Nothing \in Buffer /\ NewRow \in Buffer /\ Nothing # NewRow
  /\ \A x \in Value : Old(x) \in Buffer /\ IsOld(Old(x)) /\ Old(x).val = x
  /\ \A b \in Buffer : IsOld(b) => b.val \in Value
<1>1. Nothing \in Buffer /\ NewRow \in Buffer BY DEF Buffer
<1>2. Nothing # NewRow
  <2>1. Nothing.kind = "nothing" /\ NewRow.kind = "row" BY DEF Nothing, NewRow
  <2>2. QED BY <2>1
<1>3. ASSUME NEW x \in Value
      PROVE  Old(x) \in Buffer /\ IsOld(Old(x)) /\ Old(x).val = x
  <2>1. Old(x) \in Buffer BY DEF Buffer
  <2>2. Old(x).kind = "old" /\ Old(x).val = x BY DEF Old
  <2>3. Nothing.kind = "nothing" /\ NewRow.kind = "row" BY DEF Nothing, NewRow
  <2>4. QED BY <2>1, <2>2, <2>3 DEF IsOld
<1>4. ASSUME NEW b \in Buffer, IsOld(b)
      PROVE  b.val \in Value
  <2>1. PICK x \in Value : b = Old(x) BY <1>4 DEF Buffer, IsOld
  <2>2. QED BY <2>1, <1>3
<1>5. QED BY <1>1, <1>2, <1>3, <1>4

-----------------------------------------------------------------------------
(* The inductive invariant.                                                *)

\* Where there is no row the columns have their defaults.
Defaults ==
  \A k \in Key : /\ status[k] = "none" => cell[k] = Default
                 /\ before.status[k] = "none" => before.cell[k] = Default

\* No row status comes after the destruction of its row.
OneDestroy ==
  \A m, n \in DOMAIN request :
    m < n /\ IsDestroy(request[m]) => ~(request[n].key = request[m].key /\ request[n].col = "status")

\* A new row was not there before RESERVE2 came to the variable that made it;
\* an old value is the one from before the request.
Buffers ==
  \A n \in DOMAIN request :
    /\ buffer[n] = NewRow => /\ IsCreate(request[n]) /\ entry[n]
                             /\ before.status[request[n].key] = "none"
                             /\ phase # "reserve1" /\ (phase = "reserve2" => n < i)
    /\ IsOld(buffer[n]) =>
         /\ request[n].col # "status" /\ entry[n]
         /\ phase \in {"undo", "commit"} \/ (phase = "action" /\ n < i)
         /\ ~Ambiguous(request) => buffer[n].val = before.cell[request[n].key][request[n].col]

Made(k) == \E n \in DOMAIN request : buffer[n] = NewRow /\ request[n].key = k

\* Until COMMIT the rows are those from before and the new ones.
Rows ==
  phase \in {"reserve1", "reserve2", "free", "action", "undo"} =>
    \A k \in Key : status[k] = IF Made(k) THEN "notInService" ELSE before.status[k]

Single ==
  \A m, n \in DOMAIN request :
    buffer[m] = NewRow /\ buffer[n] = NewRow /\ request[m].key = request[n].key => m = n

\* A column differs from before only when its old value is still to be put back.
Cells ==
  /\ phase \in {"reserve1", "reserve2", "free"} => cell = before.cell
  /\ phase \in {"action", "undo"} /\ ~Ambiguous(request) =>
       \A k \in Key, c \in Column :
         \/ cell[k][c] = before.cell[k][c]
         \/ \E n \in DOMAIN request :
              /\ IsOld(buffer[n]) /\ request[n].key = k /\ request[n].col = c
              /\ phase = "undo" => n >= i

\* FREE and UNDO have removed the new rows of the variables behind them.
Cleared ==
  phase \in {"free", "undo"} => \A n \in DOMAIN request : n < i => buffer[n] # NewRow

\* Every variable has a row by the time RESERVE2 ends without an error.
Found ==
  /\ phase = "reserve2" /\ ~error => \A n \in DOMAIN request : n < i => entry[n]
  /\ phase \in {"action", "commit"} => \A n \in DOMAIN request : entry[n]
  /\ phase \in {"reserve1", "reserve2", "action"} =>
       \A n \in DOMAIN request : entry[n] => status[request[n].key] # "none"

\* RESERVE2 lets a variable of a row that was not there pass only behind the
\* variable that made the row.
Passed(n) == phase \in {"action", "undo", "commit"} \/ (phase = "reserve2" /\ ~error /\ n < i)

Shared ==
  \A n \in DOMAIN request :
    /\ Passed(n) /\ ~IsCreate(request[n]) /\ before.status[request[n].key] = "none"
    => OfNewRow(n)

\* In COMMIT a row is missing only where a variable already passed destroyed it.
Freed ==
  phase = "commit" =>
    \A n \in DOMAIN request :
      status[request[n].key] = "none" =>
        \E m \in DOMAIN request :
          m < i /\ IsDestroy(request[m]) /\ request[m].key = request[n].key

IInv ==
  TypeOK /\ Defaults /\ OneDestroy /\ Buffers /\ Rows /\ Single /\ Cells /\ Cleared /\ Found /\ Shared
  /\ Freed

-----------------------------------------------------------------------------
LEMMA IInvInit == Init => IInv
<1> SUFFICES ASSUME Init PROVE IInv OBVIOUS
<1> USE RouteTableAssumption DEF Init
<1>3. Len(request) = 0 /\ DOMAIN request = {} OBVIOUS
<1>1. TypeOK
  <2>1. request \in Seq(Variable) OBVIOUS
  <2>2. i \in 1 .. Len(request) + 1 BY <1>3
  <2>3. entry \in [DOMAIN request -> BOOLEAN] /\ buffer \in [DOMAIN request -> Buffer] BY <1>3
  <2>4. status \in [Key -> {"none", "active", "notInService"}] /\ cell \in [Key -> [Column -> Value]] OBVIOUS
  <2>5. QED BY <2>1, <2>2, <2>3, <2>4 DEF TypeOK, Phase
<1>2. Defaults BY DEF Defaults
<1>4. OneDestroy /\ Buffers /\ Single /\ Shared BY <1>3 DEF OneDestroy, Buffers, Single, Shared
<1>5. Rows /\ Cells /\ Cleared /\ Found /\ Freed BY DEF Rows, Cells, Cleared, Found, Freed
<1>6. QED BY <1>1, <1>2, <1>4, <1>5 DEF IInv

\* The agent takes the next phase, or the mapper returns early: nothing but
\* the phase and the position of the loop changes.
LEMMA GotoStep ==
  ASSUME IInv, NEW p, Goto(p),
         UNCHANGED <<status, cell, request, entry, buffer, before>>,
         \/ phase = "reserve1" /\ p \in {"reserve2", "free"}
         \/ phase = "reserve2" /\ p = "free"
         \/ phase = "reserve2" /\ p = "action" /\ i > Len(request) /\ ~error
         \/ phase = "action" /\ p = "undo"
         \/ phase = "action" /\ p = "commit" /\ i > Len(request)
  PROVE  IInv'
<1> USE DEF IInv, Goto
<1>0. DOMAIN request = 1 .. Len(request) /\ Len(request) \in Nat /\ i \in Nat BY DEF TypeOK
<1>1. TypeOK'
  <2>1. p \in Phase BY DEF Phase
  <2>2. 1 \in 1 .. Len(request) + 1 BY <1>0
  <2>3. QED BY <2>1, <2>2 DEF TypeOK
<1>2. Defaults' BY DEF Defaults
<1>21. OneDestroy' BY DEF OneDestroy, IsDestroy
<1>22. Single' BY DEF Single
<1>3. Buffers'
  <2>1. ASSUME NEW n \in DOMAIN request, IsOld(buffer[n])
        PROVE  p \in {"undo", "commit"}
    BY <2>1 DEF Buffers
  <2>2. Ambiguous(request)' = Ambiguous(request) BY DEF Ambiguous
  <2>3. phase' = p /\ \A n \in DOMAIN request :
          buffer'[n] = buffer[n] /\ request'[n] = request[n] /\ entry'[n] = entry[n]
    OBVIOUS
  <2>4. \A n \in DOMAIN request : IsCreate(request'[n]) = IsCreate(request[n]) BY DEF IsCreate
  <2>5. \A n \in DOMAIN request : IsOld(buffer'[n]) = IsOld(buffer[n]) BY DEF IsOld
  <2>6. QED BY <2>1, <2>2, <2>3, <2>4, <2>5 DEF Buffers
<1>4. Rows' BY DEF Rows, Made
<1>5. Cells'
  <2>1. ASSUME p \in {"action", "undo"}, ~Ambiguous(request), NEW k \in Key, NEW c \in Column
        PROVE  \/ cell[k][c] = before.cell[k][c]
               \/ \E n \in DOMAIN request :
                    /\ IsOld(buffer[n]) /\ request[n].key = k /\ request[n].col = c
                    /\ p = "undo" => n >= 1
    BY <1>0, <2>1 DEF Cells
  <2>2. p \in {"reserve1", "reserve2", "free"} => cell = before.cell BY DEF Cells
  <2>3. QED BY <2>1, <2>2 DEF Cells, Ambiguous
<1>6. Cleared' BY <1>0 DEF Cleared
<1>7. Found'
  <2>1. p = "action" => \A n \in DOMAIN request : entry[n] BY <1>0 DEF Found
  <2>2. QED BY <1>0, <2>1 DEF Found
<1>8. Freed' BY DEF Freed, Found
<1>10. Shared'
  <2>1. ASSUME NEW n \in DOMAIN request, Passed(n)' PROVE Passed(n)
    BY <1>0, <2>1 DEF Passed
  <2>2. \A n \in DOMAIN request : OfNewRow(n)' = OfNewRow(n) /\ IsCreate(request'[n]) = IsCreate(request[n])
    BY DEF OfNewRow, SameRow, IsCreate
  <2>3. QED BY <2>1, <2>2 DEF Shared, IsCreate
<1>9. QED BY <1>1, <1>2, <1>21, <1>22, <1>3, <1>4, <1>5, <1>6, <1>7, <1>8, <1>10

-----------------------------------------------------------------------------
(* The agent's steps.                                                      *)

LEMMA RequestsAreSequences ==
  ASSUME NEW req \in Requests
  PROVE  /\ req \in Seq(Variable)
         /\ DOMAIN req = 1 .. Len(req) /\ Len(req) \in Nat
         /\ \A m, n \in DOMAIN req :
              m < n /\ IsDestroy(req[m]) => ~(req[n].key = req[m].key /\ req[n].col = "status")
<1>1. PICK n \in 1 .. MaxVariables : req \in [1 .. n -> Variable] BY DEF Requests
<1>2. n \in Nat BY RouteTableAssumption
<1>3. req \in Seq(Variable) /\ DOMAIN req = 1 .. Len(req) /\ Len(req) \in Nat BY <1>1, <1>2
<1>4. \A m, k \in DOMAIN req :
        m < k /\ IsDestroy(req[m]) => ~(req[k].key = req[m].key /\ req[k].col = "status")
  BY DEF Requests
<1>5. QED BY <1>3, <1>4

LEMMA BeginStep == IInv /\ Begin => IInv'
<1> SUFFICES ASSUME IInv, Begin PROVE IInv' OBVIOUS
<1> USE DEF IInv
<1>1. /\ request' \in Requests /\ phase' = "reserve1" /\ i' = 1 /\ error' = FALSE
      /\ status' = status /\ cell' = cell /\ before' = [status |-> status, cell |-> cell]
      /\ entry' = [n \in DOMAIN request' |-> status[request'[n].key] # "none"]
      /\ buffer' = [n \in DOMAIN request' |-> Nothing]
  BY DEF Begin, Goto, table
<1>2. /\ request' \in Seq(Variable)
      /\ DOMAIN request' = 1 .. Len(request') /\ Len(request') \in Nat
  BY <1>1, RequestsAreSequences
<1>3. \A n \in DOMAIN request' : buffer'[n] # NewRow /\ ~IsOld(buffer'[n])
  BY <1>1, BufferKinds DEF IsOld
<1>4. TypeOK'
  <2>1. 1 \in 1 .. Len(request') + 1 BY <1>2
  <2>2. entry' \in [DOMAIN request' -> BOOLEAN] BY <1>1
  <2>3. buffer' \in [DOMAIN request' -> Buffer] BY <1>1, BufferKinds
  <2>4. QED BY <1>1, <1>2, <2>1, <2>2, <2>3 DEF TypeOK, Phase
<1>5. Defaults' BY <1>1 DEF Defaults
<1>6. OneDestroy'
  <2>1. \A m, n \in DOMAIN request' :
          m < n /\ IsDestroy(request'[m])
            => ~(request'[n].key = request'[m].key /\ request'[n].col = "status")
    BY <1>1, RequestsAreSequences
  <2>2. QED BY <2>1 DEF OneDestroy, IsDestroy
<1>7. Buffers' BY <1>3 DEF Buffers, IsOld
<1>8. Rows' BY <1>1, <1>3 DEF Rows, Made
<1>9. Single' BY <1>3 DEF Single
<1>10. Cells' BY <1>1 DEF Cells
<1>11. Cleared' BY <1>1 DEF Cleared
<1>12. Found' BY <1>1 DEF Found
<1>13. Freed' /\ Shared' BY <1>1 DEF Freed, Shared, Passed
<1>14. QED BY <1>4, <1>5, <1>6, <1>7, <1>8, <1>9, <1>10, <1>11, <1>12, <1>13

LEMMA ReturnStep == IInv /\ Return => IInv'
<1> SUFFICES ASSUME IInv, Return PROVE IInv' OBVIOUS
<1>1. PICK p \in Following[phase] : (error => p = "free") /\ Goto(p) BY DEF Return
<1>2. phase \in {"reserve1", "reserve2", "action"} /\ i > Len(request)
  BY DEF Return, Following
<1>3. UNCHANGED <<status, cell, request, entry, buffer, before>> BY DEF Return
<1>4. \/ phase = "reserve1" /\ p \in {"reserve2", "free"}
      \/ phase = "reserve2" /\ p = "free"
      \/ phase = "reserve2" /\ p = "action" /\ i > Len(request) /\ ~error
      \/ phase = "action" /\ p = "undo"
      \/ phase = "action" /\ p = "commit" /\ i > Len(request)
  BY <1>1, <1>2 DEF Following
<1>5. QED BY <1>1, <1>3, <1>4, GotoStep

LEMMA FinishStep == IInv /\ Finish => IInv'
<1> SUFFICES ASSUME IInv, Finish PROVE IInv' OBVIOUS
<1> USE DEF IInv
<1>1. /\ request' = <<>> /\ entry' = <<>> /\ buffer' = <<>>
      /\ phase' = "idle" /\ i' = 1 /\ error' = FALSE
      /\ status' = status /\ cell' = cell /\ before' = [status |-> status, cell |-> cell]
  BY DEF Finish, Goto, table
<1>2. Len(request') = 0 /\ DOMAIN request' = {} BY <1>1
<1>3. TypeOK'
  <2>1. request' \in Seq(Variable) /\ i' \in 1 .. Len(request') + 1 BY <1>1, <1>2
  <2>2. entry' \in [DOMAIN request' -> BOOLEAN] /\ buffer' \in [DOMAIN request' -> Buffer]
    BY <1>1, <1>2
  <2>3. QED BY <1>1, <2>1, <2>2 DEF TypeOK, Phase
<1>4. Defaults' BY <1>1 DEF Defaults
<1>5. OneDestroy' /\ Buffers' /\ Single' /\ Shared' BY <1>2 DEF OneDestroy, Buffers, Single, Shared
<1>6. Rows' /\ Cells' /\ Cleared' /\ Found' /\ Freed'
  BY <1>1 DEF Rows, Cells, Cleared, Found, Freed
<1>7. QED BY <1>3, <1>4, <1>5, <1>6

-----------------------------------------------------------------------------
(* The mapper's steps.                                                     *)

LEMMA LoopFacts ==
  ASSUME TypeOK, i <= Len(request)
  PROVE  /\ DOMAIN request = 1 .. Len(request) /\ Len(request) \in Nat
         /\ i \in Nat /\ i \in DOMAIN request /\ i + 1 \in 1 .. Len(request) + 1
         /\ \A n \in DOMAIN request : request[n] \in Variable /\ request[n].key \in Key
BY DEF TypeOK, Variable

\* Steps that let no variable pass leave Shared alone.
LEMMA SharedStays ==
  ASSUME Shared, UNCHANGED <<request, before>>, \A n \in DOMAIN request : Passed(n)' => Passed(n)
  PROVE  Shared'
<1>1. \A n \in DOMAIN request : OfNewRow(n)' = OfNewRow(n) /\ IsCreate(request'[n]) = IsCreate(request[n])
  BY DEF OfNewRow, SameRow, IsCreate
<1>2. QED BY <1>1 DEF Shared, IsCreate

\* A turn of the loop that changes nothing but error, in RESERVE1 and RESERVE2.
LEMMA CheckStep ==
  ASSUME IInv, phase \in {"reserve1", "reserve2"}, i <= Len(request), Turn,
         UNCHANGED <<status, cell, buffer>>, error' \in BOOLEAN,
         phase = "reserve2" /\ ~error' => ~error /\ entry[i]
  PROVE  IInv'
<1> USE DEF IInv
<1>1. /\ i' = i + 1 /\ request' = request /\ phase' = phase /\ entry' = entry
      /\ before' = before /\ status' = status /\ cell' = cell /\ buffer' = buffer
  BY DEF Turn
<1>2. /\ DOMAIN request = 1 .. Len(request) /\ Len(request) \in Nat
      /\ i \in Nat /\ i \in DOMAIN request /\ i + 1 \in 1 .. Len(request) + 1
  BY LoopFacts
<1>3. \A n \in DOMAIN request : ~IsOld(buffer[n]) BY DEF Buffers
<1>4. TypeOK' BY <1>1, <1>2 DEF TypeOK
<1>5. Defaults' BY <1>1 DEF Defaults
<1>6. OneDestroy' BY <1>1 DEF OneDestroy, IsDestroy
<1>7. Buffers'
  <2>1. \A n \in DOMAIN request : ~IsOld(buffer'[n]) BY <1>1, <1>3 DEF IsOld
  <2>2. \A n \in DOMAIN request : IsCreate(request'[n]) = IsCreate(request[n])
    BY <1>1 DEF IsCreate
  <2>3. QED BY <1>1, <1>2, <2>1, <2>2 DEF Buffers, IsOld
<1>8. Rows' BY <1>1 DEF Rows, Made
<1>9. Single' BY <1>1 DEF Single
<1>10. Cells' BY <1>1 DEF Cells
<1>11. Cleared' BY <1>1 DEF Cleared
<1>12. Found'
  <2>1. phase = "reserve2" /\ ~error' => \A n \in DOMAIN request : n < i + 1 => entry[n]
    BY <1>2 DEF Found
  <2>2. \A n \in DOMAIN request : entry[n] => status[request[n].key] # "none" BY DEF Found
  <2>3. QED BY <1>1, <2>1, <2>2 DEF Found
<1>13. Freed' BY <1>1 DEF Freed
<1>15. Shared'
  <2>1. ASSUME NEW n \in DOMAIN request, Passed(n)', ~IsCreate(request[n]),
               before.status[request[n].key] = "none"
        PROVE  OfNewRow(n)
    <3>1. phase = "reserve2" /\ ~error' /\ n < i + 1 BY <1>1, <2>1 DEF Passed
    <3>2. CASE n < i BY <2>1, <3>1, <3>2 DEF Shared, Passed
    <3>3. CASE n = i
      <4>1. status[request[i].key] # "none" BY <1>2, <3>1 DEF Found
      <4>2. Made(request[i].key) BY <1>2, <2>1, <3>1, <3>3, <4>1, LoopFacts DEF Rows
      <4>3. PICK m \in DOMAIN request : buffer[m] = NewRow /\ request[m].key = request[i].key
        BY <4>2 DEF Made
      <4>4. m < i /\ IsCreate(request[m]) BY <3>1, <4>3 DEF Buffers
      <4>5. QED BY <3>3, <4>3, <4>4 DEF OfNewRow, SameRow
    <3>4. QED BY <1>2, <3>1, <3>2, <3>3
  <2>2. \A n \in DOMAIN request : OfNewRow(n)' = OfNewRow(n) BY <1>1 DEF OfNewRow, SameRow, IsCreate
  <2>3. QED BY <1>1, <2>1, <2>2 DEF Shared, IsCreate
<1>14. QED BY <1>4, <1>5, <1>6, <1>7, <1>8, <1>9, <1>10, <1>11, <1>12, <1>13, <1>15

LEMMA Reserve1Step == IInv /\ Reserve1 => IInv'
<1> SUFFICES ASSUME IInv, Reserve1 PROVE IInv' OBVIOUS
<1>1. phase = "reserve1" /\ i <= Len(request) BY DEF Reserve1, Loop
<1>2. CASE Turn /\ UNCHANGED <<status, cell, error, buffer>>
  <2>1. error' \in BOOLEAN BY <1>2 DEF IInv, TypeOK
  <2>2. QED BY <1>1, <1>2, <2>1, CheckStep
<1>3. CASE Refuse("free") BY <1>1, <1>3, GotoStep DEF Refuse
<1>4. QED BY <1>2, <1>3 DEF Reserve1

LEMMA Reserve2Step == IInv /\ Reserve2 => IInv'
<1> SUFFICES ASSUME IInv, Reserve2 PROVE IInv' OBVIOUS
<1>1. phase = "reserve2" /\ i <= Len(request) /\ Turn /\ UNCHANGED <<status, cell, buffer>>
  BY DEF Reserve2, Loop
<1>2. error' = (error \/ ~entry[i]) BY DEF Reserve2
<1>3. entry[i] \in BOOLEAN /\ error \in BOOLEAN BY <1>1, LoopFacts DEF IInv, TypeOK
<1>4. error' \in BOOLEAN /\ (~error' => ~error /\ entry[i]) BY <1>2, <1>3
<1>5. QED BY <1>1, <1>4, CheckStep

LEMMA Reserve2CreateStep == IInv /\ Reserve2Create => IInv'
<1> SUFFICES ASSUME IInv, Reserve2Create PROVE IInv' OBVIOUS
<1> DEFINE k == request[i].key
<1>1. phase = "reserve2" /\ i <= Len(request) /\ IsCreate(request[i])
  BY DEF Reserve2Create, Loop
<1>2. CASE Refuse("free") BY <1>1, <1>2, GotoStep DEF Refuse
<1>3. CASE /\ CreateEntry(k)
           /\ entry' = [n \in DOMAIN request |-> entry[n] \/ SameRow(n, i)]
           /\ buffer' = [buffer EXCEPT ![i] = NewRow]
           /\ i' = i + 1
           /\ UNCHANGED <<request, phase, error, before>>
  <2> USE DEF IInv
  <2>1. /\ DOMAIN request = 1 .. Len(request) /\ Len(request) \in Nat
        /\ i \in Nat /\ i \in DOMAIN request /\ i + 1 \in 1 .. Len(request) + 1
        /\ k \in Key /\ \A n \in DOMAIN request : request[n].key \in Key
    BY <1>1, LoopFacts
  <2>2. status[k] = "none" /\ status' = [status EXCEPT ![k] = "notInService"]
    BY <1>3 DEF CreateEntry
  <2>3. cell' = cell
    <3>1. cell[k] = Default BY <2>1, <2>2 DEF Defaults
    <3>2. QED BY <1>3, <3>1, <2>1 DEF CreateEntry, TypeOK
  <2>4. ~Made(k) /\ before.status[k] = "none" BY <1>1, <2>1, <2>2 DEF Rows
  <2>5. \A n \in DOMAIN request : ~IsOld(buffer[n]) BY <1>1 DEF Buffers
  <2>6. /\ \A n \in DOMAIN request : n # i => buffer'[n] = buffer[n]
        /\ \A n \in DOMAIN request : entry'[n] <=> entry[n] \/ request[n].key = k
        /\ buffer'[i] = NewRow /\ entry'[i]
    BY <1>3, <2>1 DEF TypeOK, SameRow
  <2>7. /\ \A x \in Key : x # k => status'[x] = status[x]
        /\ status'[k] = "notInService"
    BY <2>1, <2>2 DEF TypeOK
  <2>8. TypeOK'
    <3>1. entry' \in [DOMAIN request -> BOOLEAN] /\ buffer' \in [DOMAIN request -> Buffer]
      BY <1>3, BufferKinds DEF TypeOK
    <3>2. status' \in [Key -> {"none", "active", "notInService"}] BY <2>2 DEF TypeOK
    <3>3. QED BY <1>3, <2>1, <2>3, <3>1, <3>2 DEF TypeOK
  <2>9. Defaults' BY <1>3, <2>3, <2>7 DEF Defaults
  <2>10. OneDestroy' BY <1>3 DEF OneDestroy, IsDestroy
  <2>11. Buffers'
    <3>1. \A n \in DOMAIN request : ~IsOld(buffer'[n]) BY <2>5, <2>6 DEF IsOld
    <3>2. request'[i].col = "status" /\ IsCreate(request'[i]) BY <1>1, <1>3 DEF IsCreate
    <3>3. ASSUME NEW n \in DOMAIN request, n # i
          PROVE  buffer'[n] = NewRow => /\ IsCreate(request[n]) /\ entry'[n]
                                        /\ before.status[request[n].key] = "none"
                                        /\ n < i + 1
      BY <1>1, <2>1, <2>6, <3>3 DEF Buffers
    <3>4. QED BY <1>1, <1>3, <2>1, <2>4, <2>6, <3>1, <3>2, <3>3 DEF Buffers, IsOld, IsCreate
  <2>12. Rows'
    <3> DEFINE NowMade(x) == \E n \in DOMAIN request : buffer'[n] = NewRow /\ request[n].key = x
    <3>1. NowMade(k) BY <2>1, <2>6
    <3>2. \A x \in Key : x # k => (NowMade(x) <=> Made(x)) BY <2>1, <2>6 DEF Made
    <3>3. ASSUME NEW x \in Key
          PROVE  status'[x] = IF NowMade(x) THEN "notInService" ELSE before.status[x]
      BY <1>1, <2>7, <3>1, <3>2 DEF Rows
    <3>4. QED BY <1>3, <3>3 DEF Rows, Made
  <2>13. Single' BY <1>3, <2>1, <2>4, <2>6 DEF Single, Made
  <2>14. Cells' BY <1>1, <1>3, <2>3 DEF Cells
  <2>15. Cleared' BY <1>1, <1>3 DEF Cleared
  <2>16. Found'
    <3>1. ~error => \A n \in DOMAIN request : n < i + 1 => entry'[n] BY <1>1, <2>1, <2>6 DEF Found
    <3>2. \A n \in DOMAIN request : entry'[n] => status'[request[n].key] # "none"
      BY <1>1, <2>1, <2>6, <2>7 DEF Found
    <3>3. QED BY <1>1, <1>3, <3>1, <3>2 DEF Found
  <2>17. Freed' BY <1>1, <1>3 DEF Freed
  <2>19. Shared'
    <3>1. ASSUME NEW n \in DOMAIN request, Passed(n)', ~IsCreate(request[n]) PROVE Passed(n)
      <4>1. ~error /\ n < i + 1 /\ n # i BY <1>1, <1>3, <3>1 DEF Passed
      <4>2. QED BY <1>1, <2>1, <4>1 DEF Passed
    <3>2. \A n \in DOMAIN request : OfNewRow(n)' = OfNewRow(n) BY <1>3 DEF OfNewRow, SameRow, IsCreate
    <3>3. QED BY <1>3, <3>1, <3>2 DEF Shared, IsCreate
  <2>18. QED BY <2>8, <2>9, <2>10, <2>11, <2>12, <2>13, <2>14, <2>15, <2>16, <2>17, <2>19
<1>4. QED BY <1>2, <1>3 DEF Reserve2Create

\* FREE and UNDO go past a variable that holds neither a new row nor an old
\* value, and UNDO past an old value whose row is gone.
LEMMA PassStep ==
  ASSUME IInv, phase \in {"free", "undo"}, i <= Len(request), buffer[i] # NewRow,
         ~IsOld(buffer[i]) \/ status[request[i].key] = "none",
         Turn, UNCHANGED <<status, cell, buffer, error>>
  PROVE  IInv'
<1> USE DEF IInv
<1>1. /\ i' = i + 1 /\ request' = request /\ phase' = phase /\ entry' = entry
      /\ before' = before /\ status' = status /\ cell' = cell /\ buffer' = buffer /\ error' = error
  BY DEF Turn
<1>2. /\ DOMAIN request = 1 .. Len(request) /\ Len(request) \in Nat
      /\ i \in Nat /\ i \in DOMAIN request /\ i + 1 \in 1 .. Len(request) + 1
  BY LoopFacts
<1>3. TypeOK' BY <1>1, <1>2 DEF TypeOK
<1>4. Defaults' BY <1>1 DEF Defaults
<1>5. OneDestroy' BY <1>1 DEF OneDestroy, IsDestroy
<1>6. Buffers'
  <2>1. Ambiguous(request)' = Ambiguous(request) BY <1>1 DEF Ambiguous
  <2>2. \A n \in DOMAIN request : IsCreate(request'[n]) = IsCreate(request[n])
    BY <1>1 DEF IsCreate
  <2>3. \A n \in DOMAIN request : IsOld(buffer'[n]) = IsOld(buffer[n]) BY <1>1 DEF IsOld
  <2>4. QED BY <1>1, <2>1, <2>2, <2>3 DEF Buffers
<1>7. Rows' BY <1>1 DEF Rows, Made
<1>8. Single' BY <1>1 DEF Single
<1>9. Cells'
  <2>1. ASSUME phase = "undo", ~Ambiguous(request), NEW k \in Key, NEW c \in Column
        PROVE  \/ cell[k][c] = before.cell[k][c]
               \/ \E n \in DOMAIN request :
                    IsOld(buffer[n]) /\ request[n].key = k /\ request[n].col = c /\ n >= i + 1
    <3>1. CASE status[k] = "none"
      <4>1. before.status[k] = "none" BY <2>1, <3>1 DEF Rows
      <4>2. QED BY <3>1, <4>1 DEF Defaults
    <3>2. CASE status[k] # "none" BY <1>2, <2>1, <3>2 DEF Cells
    <3>3. QED BY <3>1, <3>2
  <2>2. phase = "free" => cell = before.cell BY DEF Cells
  <2>3. Ambiguous(request)' = Ambiguous(request) BY <1>1 DEF Ambiguous
  <2>4. \A n \in DOMAIN request : IsOld(buffer'[n]) = IsOld(buffer[n]) BY <1>1 DEF IsOld
  <2>5. QED BY <1>1, <2>1, <2>2, <2>3, <2>4 DEF Cells
<1>10. Cleared' BY <1>1, <1>2 DEF Cleared
<1>11. Found' BY <1>1 DEF Found
<1>12. Freed' BY <1>1 DEF Freed
<1>14. Shared' BY <1>1, SharedStays DEF Passed
<1>13. QED BY <1>3, <1>4, <1>5, <1>6, <1>7, <1>8, <1>9, <1>10, <1>11, <1>12, <1>14

\* A row that this request created is removed again.
LEMMA DiscardStep ==
  ASSUME IInv, phase \in {"free", "undo"}, i <= Len(request), IsNew(i), Discard, Turn, UNCHANGED error
  PROVE  IInv'
<1> USE DEF IInv
<1> DEFINE k == request[i].key
<1>1. /\ i' = i + 1 /\ request' = request /\ phase' = phase /\ entry' = entry /\ error' = error
      /\ before' = before /\ buffer' = [buffer EXCEPT ![i] = Nothing]
      /\ status' = [status EXCEPT ![k] = "none"] /\ cell' = [cell EXCEPT ![k] = Default]
  BY DEF Turn, Discard, RemoveEntry
<1>2. /\ DOMAIN request = 1 .. Len(request) /\ Len(request) \in Nat
      /\ i \in Nat /\ i \in DOMAIN request /\ i + 1 \in 1 .. Len(request) + 1
      /\ k \in Key /\ \A n \in DOMAIN request : request[n].key \in Key
  BY LoopFacts
<1>3. buffer[i] = NewRow
  <2>1. ~IsOld(buffer[i]) BY <1>2 DEF Buffers, IsNew, IsCreate
  <2>2. QED BY <2>1 DEF IsOld, IsNew
<1>4. before.status[k] = "none" /\ before.cell[k] = Default
  BY <1>2, <1>3 DEF Buffers, Defaults
<1>5. /\ \A n \in DOMAIN request : n # i => buffer'[n] = buffer[n]
      /\ buffer'[i] = Nothing /\ buffer'[i] # NewRow /\ ~IsOld(buffer'[i])
  BY <1>1, <1>2, BufferKinds DEF TypeOK, IsOld
<1>6. /\ \A x \in Key : x # k => status'[x] = status[x] /\ cell'[x] = cell[x]
      /\ status'[k] = "none" /\ cell'[k] = Default
  BY <1>1, <1>2 DEF TypeOK
<1>7. TypeOK'
  <2>1. buffer' \in [DOMAIN request -> Buffer] BY <1>1, BufferKinds DEF TypeOK
  <2>2. status' \in [Key -> {"none", "active", "notInService"}] BY <1>1 DEF TypeOK
  <2>3. cell' \in [Key -> [Column -> Value]] BY <1>1, RouteTableAssumption DEF TypeOK
  <2>4. QED BY <1>1, <1>2, <2>1, <2>2, <2>3 DEF TypeOK
<1>8. Defaults' BY <1>1, <1>6 DEF Defaults
<1>9. OneDestroy' BY <1>1 DEF OneDestroy, IsDestroy
<1>10. \A n \in DOMAIN request : n # i => (IsOld(buffer'[n]) <=> IsOld(buffer[n]))
  BY <1>5 DEF IsOld
<1>11. Ambiguous(request)' = Ambiguous(request) BY <1>1 DEF Ambiguous
<1>12. Buffers'
  <2>1. \A n \in DOMAIN request : IsCreate(request'[n]) = IsCreate(request[n])
    BY <1>1 DEF IsCreate
  <2>2. ASSUME NEW n \in DOMAIN request, IsOld(buffer'[n])
        PROVE  /\ request[n].col # "status" /\ entry[n]
               /\ phase = "undo"
               /\ ~Ambiguous(request) => buffer'[n].val = before.cell[request[n].key][request[n].col]
    BY <1>5, <1>10, <2>2 DEF Buffers
  <2>3. ASSUME NEW n \in DOMAIN request
        PROVE  buffer'[n] = NewRow => /\ IsCreate(request[n]) /\ entry[n]
                                      /\ before.status[request[n].key] = "none"
    BY <1>5 DEF Buffers
  <2>4. \A n \in DOMAIN request : IsOld(buffer[n])' = IsOld(buffer'[n]) BY <1>1 DEF IsOld
  <2>5. QED BY <1>1, <1>11, <2>1, <2>2, <2>3, <2>4 DEF Buffers
<1>13. Rows'
  <2> DEFINE NowMade(x) == \E n \in DOMAIN request : buffer'[n] = NewRow /\ request[n].key = x
  <2>1. ~NowMade(k) BY <1>2, <1>3, <1>5 DEF Single
  <2>2. \A x \in Key : x # k => (NowMade(x) <=> Made(x)) BY <1>2, <1>5 DEF Made
  <2>3. ASSUME NEW x \in Key
        PROVE  status'[x] = IF NowMade(x) THEN "notInService" ELSE before.status[x]
    BY <1>4, <1>6, <2>1, <2>2 DEF Rows
  <2>4. QED BY <1>1, <2>3 DEF Rows, Made
<1>14. Single' BY <1>1, <1>5 DEF Single
<1>15. Cells'
  <2>1. phase = "free" => cell' = cell
    <3>1. phase = "free" => cell[k] = Default BY <1>4 DEF Cells
    <3>2. QED BY <1>1, <1>2, <3>1 DEF TypeOK
  <2>2. ASSUME phase = "undo", ~Ambiguous(request), NEW x \in Key, NEW c \in Column
        PROVE  \/ cell'[x][c] = before.cell[x][c]
               \/ \E n \in DOMAIN request :
                    IsOld(buffer'[n]) /\ request[n].key = x /\ request[n].col = c /\ n >= i + 1
    <3>1. CASE x = k BY <3>1, <1>4, <1>6
    <3>2. CASE x # k
      <4>1. cell'[x][c] = cell[x][c] BY <3>2, <1>6
      <4>2. CASE cell[x][c] = before.cell[x][c] BY <4>1, <4>2
      <4>3. CASE cell[x][c] # before.cell[x][c]
        <5>1. PICK n \in DOMAIN request :
                IsOld(buffer[n]) /\ request[n].key = x /\ request[n].col = c /\ n >= i
          BY <2>2, <4>3 DEF Cells
        <5>2. n # i BY <5>1, <3>2
        <5>3. n >= i + 1 BY <5>1, <5>2, <1>2
        <5>4. QED BY <5>1, <5>2, <5>3, <1>10
      <4>4. QED BY <4>2, <4>3
    <3>3. QED BY <3>1, <3>2
  <2>3. phase = "free" => cell' = before.cell BY <2>1 DEF Cells
  <2>4. \A n \in DOMAIN request : IsOld(buffer[n])' = IsOld(buffer'[n]) BY <1>1 DEF IsOld
  <2>5. QED BY <1>1, <1>11, <2>2, <2>3, <2>4 DEF Cells
<1>16. Cleared' BY <1>1, <1>2, <1>5 DEF Cleared
<1>17. Found' BY <1>1 DEF Found
<1>18. Freed' BY <1>1 DEF Freed
<1>20. Shared' BY <1>1, SharedStays DEF Passed
<1>19. QED BY <1>7, <1>8, <1>9, <1>12, <1>13, <1>14, <1>15, <1>16, <1>17, <1>18, <1>20

LEMMA FreeStep == IInv /\ Free => IInv'
<1> SUFFICES ASSUME IInv, Free PROVE IInv' OBVIOUS
<1>1. phase = "free" /\ i <= Len(request) /\ Turn /\ UNCHANGED error BY DEF Free, Loop
<1>2. CASE IsNew(i) /\ Discard BY <1>1, <1>2, DiscardStep
<1>3. CASE ~IsNew(i) /\ UNCHANGED <<status, cell, buffer>>
  <2>1. i \in DOMAIN request BY <1>1, LoopFacts DEF IInv
  <2>2. buffer[i] # NewRow BY <1>3, <2>1, BufferKinds DEF IInv, Buffers, IsNew
  <2>3. ~IsOld(buffer[i]) BY <1>1, <2>1 DEF IInv, Buffers
  <2>4. QED BY <1>1, <1>3, <2>2, <2>3, PassStep
<1>4. QED BY <1>2, <1>3 DEF Free

LEMMA ActionStep == IInv /\ Action => IInv'
<1> SUFFICES ASSUME IInv, Action PROVE IInv' OBVIOUS
<1> USE DEF IInv
<1> DEFINE k == request[i].key
           c == request[i].col
<1>1. phase = "action" /\ i <= Len(request) BY DEF Action, Loop
<1>2. /\ DOMAIN request = 1 .. Len(request) /\ Len(request) \in Nat
      /\ i \in Nat /\ i \in DOMAIN request /\ i + 1 \in 1 .. Len(request) + 1
      /\ k \in Key /\ \A n \in DOMAIN request : request[n] \in Variable /\ request[n].key \in Key
  BY <1>1, LoopFacts
<1>3. CASE Refuse("undo") BY <1>1, <1>3, GotoStep DEF Refuse
<1>4. CASE Turn /\ UNCHANGED <<status, error>> /\ (\/ UNCHANGED <<cell, buffer>> /\ c = "status"
                                                 \/ /\ c # "status"
                                                    /\ buffer' = [buffer EXCEPT ![i] = Old(cell[k][c])]
                                                    /\ cell' = [cell EXCEPT ![k][c] = request[i].val])
  <2>1. /\ i' = i + 1 /\ request' = request /\ phase' = "action" /\ entry' = entry
        /\ before' = before /\ status' = status /\ error' = error
    BY <1>1, <1>4 DEF Turn
  <2>2. entry[i] /\ status[k] # "none" BY <1>1, <1>2 DEF Found
  <2>3. c # "status" => /\ c \in Column /\ request[i].val \in Value /\ cell[k][c] \in Value
                        /\ buffer[i] # NewRow
    <3>1. c # "status" => c \in Column /\ request[i].val \in Value BY <1>2 DEF Variable
    <3>2. c # "status" => cell[k][c] \in Value BY <1>2, <3>1 DEF TypeOK
    <3>3. c # "status" => buffer[i] # NewRow BY <1>2 DEF Buffers, IsCreate
    <3>4. QED BY <3>1, <3>2, <3>3
  <2>4. /\ \A n \in DOMAIN request : n # i => buffer'[n] = buffer[n]
        /\ c = "status" => buffer'[i] = buffer[i]
        /\ c # "status" => buffer'[i] = Old(cell[k][c])
    BY <1>2, <1>4 DEF TypeOK
  <2>5. c # "status" => IsOld(buffer'[i]) /\ buffer'[i] # NewRow /\ buffer'[i].val = cell[k][c]
    BY <2>3, <2>4, BufferKinds DEF IsOld
  <2>6. /\ \A x \in Key, d \in Column : ~(x = k /\ d = c) => cell'[x][d] = cell[x][d]
        /\ \A x \in Key : x # k => cell'[x] = cell[x]
    BY <1>2, <1>4 DEF TypeOK
  <2>7. \A n \in DOMAIN request : buffer'[n] = NewRow <=> buffer[n] = NewRow
    BY <2>3, <2>4, <2>5
  <2>8. Ambiguous(request)' = Ambiguous(request) BY <2>1 DEF Ambiguous
  <2>9. TypeOK'
    <3>1. buffer' \in [DOMAIN request -> Buffer] BY <1>4, <2>3, BufferKinds DEF TypeOK
    <3>2. cell' \in [Key -> [Column -> Value]]
      <4>1. c # "status" => [cell[k] EXCEPT ![c] = request[i].val] \in [Column -> Value]
        BY <1>2, <2>3 DEF TypeOK
      <4>2. c # "status" => cell' = [cell EXCEPT ![k] = [cell[k] EXCEPT ![c] = request[i].val]]
        BY <1>4
      <4>3. QED BY <1>4, <4>1, <4>2 DEF TypeOK
    <3>3. QED BY <2>1, <1>2, <3>1, <3>2 DEF TypeOK, Phase
  <2>10. Defaults' BY <2>1, <2>2, <2>6 DEF Defaults
  <2>11. OneDestroy' BY <2>1 DEF OneDestroy, IsDestroy
  <2>12. Buffers'
    <3>1. \A n \in DOMAIN request : IsCreate(request'[n]) = IsCreate(request[n])
      BY <2>1 DEF IsCreate
    <3>2. ASSUME NEW n \in DOMAIN request, IsOld(buffer'[n])
          PROVE  /\ request[n].col # "status" /\ entry[n] /\ n < i + 1
                 /\ ~Ambiguous(request) =>
                      buffer'[n].val = before.cell[request[n].key][request[n].col]
      <4>1. CASE n = i /\ c # "status"
        <5>1. ASSUME ~Ambiguous(request), cell[k][c] # before.cell[k][c] PROVE FALSE
          <6>1. PICK m \in DOMAIN request :
                  IsOld(buffer[m]) /\ request[m].key = k /\ request[m].col = c
            BY <1>1, <1>2, <2>3, <4>1, <5>1 DEF Cells
          <6>2. m < i BY <1>1, <6>1 DEF Buffers
          <6>3. QED BY <1>2, <5>1, <6>1, <6>2 DEF Ambiguous
        <5>2. QED BY <1>2, <2>2, <2>5, <4>1, <5>1
      <4>2. CASE n # i \/ c = "status"
        <5>1. buffer'[n] = buffer[n] BY <2>4, <4>2
        <5>2. IsOld(buffer[n]) BY <3>2, <5>1 DEF IsOld
        <5>3. n < i /\ n \in Nat BY <1>1, <1>2, <5>2 DEF Buffers
        <5>4. QED BY <1>2, <5>1, <5>2, <5>3 DEF Buffers
      <4>3. QED BY <4>1, <4>2
    <3>3. ASSUME NEW n \in DOMAIN request
          PROVE  buffer'[n] = NewRow => /\ IsCreate(request[n]) /\ entry[n]
                                        /\ before.status[request[n].key] = "none"
      BY <2>7 DEF Buffers
    <3>4. \A n \in DOMAIN request : IsOld(buffer[n])' = IsOld(buffer'[n]) BY <2>1 DEF IsOld
    <3>5. QED BY <2>1, <2>8, <3>1, <3>2, <3>3, <3>4 DEF Buffers
  <2>13. Rows'
    <3>1. \A x : Made(x)' <=> Made(x) BY <2>1, <2>7 DEF Made
    <3>2. \A x \in Key : status[x] = IF Made(x) THEN "notInService" ELSE before.status[x]
      BY <1>1 DEF Rows
    <3>3. QED BY <2>1, <2>7, <3>2 DEF Rows, Made
  <2>14. Single' BY <2>1, <2>7 DEF Single
  <2>15. Cells'
    <3>1. ASSUME ~Ambiguous(request), NEW x \in Key, NEW d \in Column
          PROVE  \/ cell'[x][d] = before.cell[x][d]
                 \/ \E n \in DOMAIN request :
                      IsOld(buffer'[n]) /\ request[n].key = x /\ request[n].col = d
      <4>1. CASE x = k /\ d = c
        <5>1. c # "status" BY <4>1, RouteTableAssumption
        <5>2. QED BY <1>2, <2>5, <4>1, <5>1
      <4>2. CASE ~(x = k /\ d = c)
        <5>1. CASE cell[x][d] = before.cell[x][d] BY <2>6, <4>2, <5>1
        <5>2. CASE cell[x][d] # before.cell[x][d]
          <6>1. PICK n \in DOMAIN request :
                  IsOld(buffer[n]) /\ request[n].key = x /\ request[n].col = d
            BY <1>1, <3>1, <5>2 DEF Cells
          <6>2. buffer'[n] = buffer[n] BY <2>4, <4>2, <6>1
          <6>3. QED BY <6>1, <6>2 DEF IsOld
        <5>3. QED BY <5>1, <5>2
      <4>3. QED BY <4>1, <4>2
    <3>2. \A n \in DOMAIN request : IsOld(buffer[n])' = IsOld(buffer'[n]) BY <2>1 DEF IsOld
    <3>3. QED BY <2>1, <2>8, <3>1, <3>2 DEF Cells
  <2>16. Cleared' BY <2>1 DEF Cleared
  <2>17. Found' BY <1>1, <2>1 DEF Found
  <2>18. Freed' BY <2>1 DEF Freed
  <2>20. Shared' BY <1>1, <2>1, SharedStays DEF Passed
  <2>19. QED BY <2>9, <2>10, <2>11, <2>12, <2>13, <2>14, <2>15, <2>16, <2>17, <2>18, <2>20
<1>5. QED BY <1>3, <1>4 DEF Action

\* UNDO puts the old value of a column back.
LEMMA RestoreStep ==
  ASSUME IInv, phase = "undo", i <= Len(request), request[i].col # "status", buffer[i] # Nothing,
         HasRow(i), cell' = [cell EXCEPT ![request[i].key][request[i].col] = buffer[i].val],
         Turn, UNCHANGED <<status, buffer, error>>
  PROVE  IInv'
<1> USE DEF IInv
<1> DEFINE k == request[i].key
           c == request[i].col
<1>1. /\ i' = i + 1 /\ request' = request /\ phase' = "undo" /\ entry' = entry
      /\ before' = before /\ status' = status /\ buffer' = buffer /\ error' = error
  BY DEF Turn
<1>2. /\ DOMAIN request = 1 .. Len(request) /\ Len(request) \in Nat
      /\ i \in Nat /\ i \in DOMAIN request /\ i + 1 \in 1 .. Len(request) + 1
      /\ k \in Key /\ \A n \in DOMAIN request : request[n] \in Variable /\ request[n].key \in Key
  BY LoopFacts
<1>3. buffer[i] # NewRow /\ IsOld(buffer[i])
  <2>1. buffer[i] # NewRow BY <1>2 DEF Buffers, IsCreate
  <2>2. QED BY <2>1 DEF IsOld
<1>4. c \in Column /\ buffer[i].val \in Value
  <2>1. c \in Column BY <1>2 DEF Variable
  <2>2. buffer[i] \in Buffer BY <1>2 DEF TypeOK
  <2>3. QED BY <2>1, <2>2, <1>3, BufferKinds
<1>5. status[k] # "none" BY DEF HasRow
<1>6. ~Ambiguous(request) => buffer[i].val = before.cell[k][c] BY <1>2, <1>3 DEF Buffers
<1>7. /\ \A x \in Key, d \in Column : ~(x = k /\ d = c) => cell'[x][d] = cell[x][d]
      /\ \A x \in Key : x # k => cell'[x] = cell[x]
      /\ cell'[k][c] = buffer[i].val
  BY <1>2, <1>4 DEF TypeOK
<1>8. TypeOK'
  <2>1. [cell[k] EXCEPT ![c] = buffer[i].val] \in [Column -> Value] BY <1>2, <1>4 DEF TypeOK
  <2>2. cell' = [cell EXCEPT ![k] = [cell[k] EXCEPT ![c] = buffer[i].val]] OBVIOUS
  <2>3. cell' \in [Key -> [Column -> Value]] BY <2>1, <2>2 DEF TypeOK
  <2>4. QED BY <1>1, <1>2, <2>3 DEF TypeOK
<1>9. Defaults' BY <1>1, <1>5, <1>7 DEF Defaults
<1>10. OneDestroy' BY <1>1 DEF OneDestroy, IsDestroy
<1>11. Ambiguous(request)' = Ambiguous(request) BY <1>1 DEF Ambiguous
<1>12. \A n \in DOMAIN request : IsOld(buffer[n])' = IsOld(buffer[n]) BY <1>1 DEF IsOld
<1>13. Buffers'
  <2>1. \A n \in DOMAIN request : IsCreate(request'[n]) = IsCreate(request[n])
    BY <1>1 DEF IsCreate
  <2>2. QED BY <1>1, <1>11, <1>12, <2>1 DEF Buffers
<1>14. Rows' BY <1>1 DEF Rows, Made
<1>15. Single' BY <1>1 DEF Single
<1>16. Cells'
  <2>1. ASSUME ~Ambiguous(request), NEW x \in Key, NEW d \in Column
        PROVE  \/ cell'[x][d] = before.cell[x][d]
               \/ \E n \in DOMAIN request :
                    IsOld(buffer[n]) /\ request[n].key = x /\ request[n].col = d /\ n >= i + 1
    <3>1. CASE x = k /\ d = c BY <2>1, <3>1, <1>6, <1>7
    <3>2. CASE ~(x = k /\ d = c)
      <4>1. CASE cell[x][d] = before.cell[x][d] BY <1>7, <3>2, <4>1
      <4>2. CASE cell[x][d] # before.cell[x][d]
        <5>1. PICK n \in DOMAIN request :
                IsOld(buffer[n]) /\ request[n].key = x /\ request[n].col = d /\ n >= i
          BY <2>1, <4>2 DEF Cells
        <5>2. n # i BY <3>2, <5>1
        <5>3. n >= i + 1 BY <1>2, <5>1, <5>2
        <5>4. QED BY <5>1, <5>3
      <4>3. QED BY <4>1, <4>2
    <3>3. QED BY <3>1, <3>2
  <2>2. QED BY <1>1, <1>11, <1>12, <2>1 DEF Cells
<1>17. Cleared' BY <1>1, <1>2, <1>3 DEF Cleared
<1>18. Found' BY <1>1 DEF Found
<1>19. Freed' BY <1>1 DEF Freed
<1>21. Shared' BY <1>1, SharedStays DEF Passed
<1>20. QED BY <1>8, <1>9, <1>10, <1>13, <1>14, <1>15, <1>16, <1>17, <1>18, <1>19, <1>21

LEMMA UndoStep == IInv /\ Undo => IInv'
<1> SUFFICES ASSUME IInv, Undo PROVE IInv' OBVIOUS
<1>1. phase = "undo" /\ i <= Len(request) /\ Turn /\ UNCHANGED error BY DEF Undo, Loop
<1>2. CASE /\ HasOld(i) /\ HasRow(i)
           /\ cell' = [cell EXCEPT ![request[i].key][request[i].col] = buffer[i].val]
           /\ UNCHANGED <<status, buffer>>
  BY <1>1, <1>2, RestoreStep DEF HasOld
<1>6. CASE HasOld(i) /\ ~HasRow(i) /\ UNCHANGED <<status, cell, buffer>>
  <2>1. i \in DOMAIN request BY <1>1, LoopFacts DEF IInv
  <2>2. buffer[i] # NewRow BY <1>6, <2>1 DEF IInv, Buffers, HasOld, IsCreate
  <2>3. QED BY <1>1, <1>6, <2>2, PassStep DEF HasRow
<1>3. CASE IsNew(i) /\ Discard BY <1>1, <1>3, DiscardStep
<1>4. CASE buffer[i] = Nothing /\ UNCHANGED <<status, cell, buffer>>
  <2>1. buffer[i] # NewRow /\ ~IsOld(buffer[i]) BY <1>4, BufferKinds DEF IsOld
  <2>2. QED BY <1>1, <1>4, <2>1, PassStep
<1>5. QED BY <1>2, <1>6, <1>3, <1>4 DEF Undo

LEMMA CommitStep == IInv /\ Commit => IInv'
<1> SUFFICES ASSUME IInv, Commit PROVE IInv' OBVIOUS
<1> USE DEF IInv
<1> DEFINE k == request[i].key
<1>1. /\ i' = i + 1 /\ request' = request /\ phase' = "commit" /\ phase = "commit"
      /\ entry' = entry /\ before' = before /\ error' = error /\ i <= Len(request)
  BY DEF Commit, Loop, Turn
<1>2. /\ DOMAIN request = 1 .. Len(request) /\ Len(request) \in Nat
      /\ i \in Nat /\ i \in DOMAIN request /\ i + 1 \in 1 .. Len(request) + 1
      /\ k \in Key /\ \A n \in DOMAIN request : request[n] \in Variable /\ request[n].key \in Key
  BY <1>1, LoopFacts
<1>3. \/ UNCHANGED <<status, cell, buffer>>
      \/ /\ request[i].col = "status" /\ request[i].val # "destroy"
         /\ status' = [status EXCEPT ![k] = Committed[request[i].val]]
         /\ buffer' = [buffer EXCEPT ![i] = Nothing]
         /\ cell' = cell
      \/ /\ IsDestroy(request[i])
         /\ status' = [status EXCEPT ![k] = "none"]
         /\ cell' = [cell EXCEPT ![k] = Default]
         /\ buffer' = buffer
  BY DEF Commit, RemoveEntry
<1>4. ASSUME request[i].col = "status", request[i].val # "destroy"
      PROVE  Committed[request[i].val] \in {"active", "notInService"}
  <2>1. request[i].val \in RowStatus BY <1>2, <1>4, RouteTableAssumption DEF Variable
  <2>2. QED BY <1>4, <2>1 DEF RowStatus, Create, Committed
<1>5. TypeOK'
  <2>1. buffer' \in [DOMAIN request -> Buffer] BY <1>3, BufferKinds DEF TypeOK
  <2>2. status' \in [Key -> {"none", "active", "notInService"}] BY <1>3, <1>4 DEF TypeOK
  <2>3. cell' \in [Key -> [Column -> Value]] BY <1>3, RouteTableAssumption DEF TypeOK
  <2>4. QED BY <1>1, <1>2, <2>1, <2>2, <2>3 DEF TypeOK
<1>6. \A n \in DOMAIN request : buffer'[n] = buffer[n] \/ buffer'[n] = Nothing
  BY <1>2, <1>3 DEF TypeOK
<1>7. Defaults' BY <1>1, <1>2, <1>3, <1>4 DEF Defaults, TypeOK
<1>8. OneDestroy' BY <1>1 DEF OneDestroy, IsDestroy
<1>9. Buffers'
  <2>1. \A n \in DOMAIN request : IsCreate(request'[n]) = IsCreate(request[n])
    BY <1>1 DEF IsCreate
  <2>2. Ambiguous(request)' = Ambiguous(request) BY <1>1 DEF Ambiguous
  <2>3. \A n \in DOMAIN request :
          /\ IsOld(buffer[n])' => IsOld(buffer[n]) /\ buffer'[n] = buffer[n]
          /\ buffer'[n] = NewRow => buffer[n] = NewRow
    BY <1>1, <1>6, BufferKinds DEF IsOld
  <2>4. QED BY <1>1, <2>1, <2>2, <2>3 DEF Buffers
<1>10. Rows' BY <1>1 DEF Rows
<1>11. Single' BY <1>1, <1>6, BufferKinds DEF Single
<1>12. Cells' BY <1>1 DEF Cells
<1>13. Cleared' BY <1>1 DEF Cleared
<1>14. Found' BY <1>1 DEF Found
<1>15. Freed'
  <2>1. ASSUME NEW n \in DOMAIN request, status'[request[n].key] = "none"
        PROVE  \E m \in DOMAIN request :
                 m < i + 1 /\ IsDestroy(request[m]) /\ request[m].key = request[n].key
    <3>1. CASE IsDestroy(request[i]) /\ request[n].key = k BY <1>2, <3>1
    <3>2. CASE ~(IsDestroy(request[i]) /\ request[n].key = k)
      <4>1. status[request[n].key] = "none" BY <1>2, <1>3, <1>4, <2>1, <3>2 DEF TypeOK
      <4>2. PICK m \in DOMAIN request :
              m < i /\ IsDestroy(request[m]) /\ request[m].key = request[n].key
        BY <1>1, <4>1 DEF Freed
      <4>3. QED BY <1>2, <4>2
    <3>3. QED BY <3>1, <3>2
  <2>2. QED BY <1>1, <2>1 DEF Freed, IsDestroy
<1>17. Shared' BY <1>1, SharedStays DEF Passed
<1>16. QED BY <1>5, <1>7, <1>8, <1>9, <1>10, <1>11, <1>12, <1>13, <1>14, <1>15, <1>17

LEMMA StutterStep == IInv /\ UNCHANGED vars => IInv'
<1> SUFFICES ASSUME IInv, UNCHANGED vars PROVE IInv' OBVIOUS
<1> USE DEF IInv, vars
<1>1. TypeOK' BY DEF TypeOK
<1>2. Defaults' /\ OneDestroy' BY DEF Defaults, OneDestroy, IsDestroy
<1>3. Buffers' BY DEF Buffers, IsOld, IsCreate, Ambiguous
<1>4. Rows' /\ Single' BY DEF Rows, Made, Single
<1>5. Cells' BY DEF Cells, IsOld, Ambiguous
<1>6. Cleared' /\ Found' /\ Freed' BY DEF Cleared, Found, Freed, IsDestroy
<1>8. Shared' BY SharedStays DEF Passed
<1>7. QED BY <1>1, <1>2, <1>3, <1>4, <1>5, <1>6, <1>8

LEMMA IInvStep == IInv /\ [Next]_vars => IInv'
<1> SUFFICES ASSUME IInv, [Next]_vars PROVE IInv' OBVIOUS
<1>1. CASE Begin BY <1>1, BeginStep
<1>2. CASE Return BY <1>2, ReturnStep
<1>3. CASE Finish BY <1>3, FinishStep
<1>4. CASE Reserve1 BY <1>4, Reserve1Step
<1>5. CASE Reserve2Create BY <1>5, Reserve2CreateStep
<1>6. CASE Reserve2 BY <1>6, Reserve2Step
<1>7. CASE Free BY <1>7, FreeStep
<1>8. CASE Action BY <1>8, ActionStep
<1>9. CASE Undo BY <1>9, UndoStep
<1>10. CASE Commit BY <1>10, CommitStep
<1>11. CASE UNCHANGED vars BY <1>11, StutterStep
<1>12. QED BY <1>1, <1>2, <1>3, <1>4, <1>5, <1>6, <1>7, <1>8, <1>9, <1>10, <1>11 DEF Next

LEMMA Invariance == Spec => []IInv
BY IInvInit, IInvStep, PTL DEF Spec

-----------------------------------------------------------------------------
(* The theorems.                                                           *)

\* The rows, the requests and the buffers are what the code takes them for:
\* in COMMIT no value is written that is not a status of a row.
THEOREM TypeCorrect == Spec => []TypeOK
<1>1. IInv => TypeOK BY DEF IInv
<1>2. QED BY <1>1, Invariance, PTL

\* Rows and Cells say what still differs, and the loop has undone all of it
\* when it ends.
LEMMA TraceLess == IInv => RolledBack
<1> SUFFICES ASSUME IInv, phase \in {"free", "undo"}, i > Len(request), ~Ambiguous(request)
             PROVE  before = [status |-> status, cell |-> cell]
  BY DEF RolledBack
<1> USE DEF IInv
<1>1. /\ DOMAIN request = 1 .. Len(request) /\ Len(request) \in Nat /\ i \in Nat
      /\ \A n \in DOMAIN request : n < i
  BY DEF TypeOK
<1>2. \A k \in Key : status[k] = before.status[k]
  <2>1. \A n \in DOMAIN request : buffer[n] # NewRow BY <1>1 DEF Cleared
  <2>2. QED BY <2>1 DEF Rows, Made
<1>3. \A k \in Key, c \in Column : cell[k][c] = before.cell[k][c] BY <1>1 DEF Cells
<1>4. status = before.status BY <1>2 DEF TypeOK
<1>5. cell = before.cell
  <2>1. cell \in [Key -> [Column -> Value]] /\ before.cell \in [Key -> [Column -> Value]]
    BY DEF TypeOK
  <2>2. ASSUME NEW k \in Key PROVE cell[k] = before.cell[k]
    <3>1. cell[k] \in [Column -> Value] /\ before.cell[k] \in [Column -> Value] BY <2>1
    <3>2. QED BY <1>3, <3>1
  <2>3. QED BY <2>1, <2>2
<1>6. QED BY <1>4, <1>5 DEF TypeOK

\* A request that fails at any variable of any phase leaves the table as it
\* found it, however long the request.
THEOREM Rollback == Spec => []RolledBack
BY TraceLess, Invariance, PTL

\* The mapper never goes through the pointer of a variable that has no row; a
\* row that another variable of the request has freed is written to in one
\* case only, by the columns of a new row behind the turn that removed it.
THEOREM RowsAreThere == Spec => []NoDangling
<1>1. IInv => NoDangling
  <2> SUFFICES ASSUME IInv, i <= Len(request), Touches(i)
               PROVE  /\ entry[i]
                      /\ \/ status[request[i].key] # "none"
                         \/ phase = "undo" /\ request[i].col # "status" /\ OfNewRow(i)
    BY DEF NoDangling, HasRow
  <2> USE DEF IInv
  <2>1. i \in DOMAIN request /\ i \in Nat /\ request[i].key \in Key /\ DOMAIN request \subseteq Nat
    BY LoopFacts
  <2>2. buffer[i] # Nothing => buffer[i] = NewRow \/ IsOld(buffer[i]) BY DEF IsOld
  <2>3. CASE phase = "action" BY <2>1, <2>3 DEF Found
  <2>4. CASE phase = "commit"
    <3>1. entry[i] /\ request[i].col = "status" BY <2>1, <2>4 DEF Found, Touches
    <3>2. ASSUME status[request[i].key] = "none" PROVE FALSE
      <4>1. PICK m \in DOMAIN request :
              m < i /\ IsDestroy(request[m]) /\ request[m].key = request[i].key
        BY <2>1, <2>4, <3>2 DEF Freed
      <4>2. QED BY <2>1, <3>1, <4>1 DEF OneDestroy
    <3>3. QED BY <3>1, <3>2
  <2>5. CASE phase \in {"free", "undo"}
    <3>1. buffer[i] # Nothing BY <2>5 DEF Touches, IsNew
    <3>2. CASE buffer[i] = NewRow
      <4>1. entry[i] BY <2>1, <3>2 DEF Buffers
      <4>2. status[request[i].key] = "notInService" BY <2>1, <2>5, <3>2 DEF Rows, Made
      <4>3. QED BY <4>1, <4>2
    <3>3. CASE IsOld(buffer[i])
      <4>1. entry[i] /\ request[i].col # "status" /\ phase = "undo" BY <2>1, <2>5, <3>3 DEF Buffers
      <4>2. CASE before.status[request[i].key] # "none"
        <5>1. status[request[i].key] # "none" BY <2>1, <2>5, <4>2 DEF Rows
        <5>2. QED BY <4>1, <5>1
      <4>3. CASE before.status[request[i].key] = "none"
        <5>1. ~IsCreate(request[i]) BY <4>1 DEF IsCreate
        <5>2. OfNewRow(i) BY <2>1, <4>1, <4>3, <5>1 DEF Shared, Passed
        <5>3. QED BY <4>1, <5>2
      <4>4. QED BY <4>2, <4>3
    <3>4. QED BY <2>2, <3>1, <3>2, <3>3
  <2>6. QED BY <2>3, <2>4, <2>5 DEF Touches
<1>2. QED BY <1>1, Invariance, PTL

-----------------------------------------------------------------------------
(***************************************************************************)
(* RouteTable implements AtomicSet, for every set of keys, columns and     *)
(* values and for requests of any length.  RouteTable_proofs shows that a  *)
(* refused request leaves no trace; what is added here is what the phases  *)
(* hand on to a request that is carried out: RESERVE2 lets through only    *)
(* what is possible, and ACTION and COMMIT leave behind them, variable by  *)
(* variable, what was asked for.                                           *)
(***************************************************************************)

\* RESERVE2 has made rows only where there were none.
MadeNew ==
  \A n \in DOMAIN request :
    IsCreate(request[n]) /\ (phase \in {"action", "commit"} \/ (phase = "reserve2" /\ n < i))
      => before.status[request[n].key] = "none"

\* COMMIT has come to a row status of the row.
Settled(k) == \E n \in DOMAIN request : n < i /\ request[n].key = k /\ request[n].col = "status"

\* In COMMIT a row has the status that was asked for, or waits for it.
Statuses ==
  phase = "commit" /\ ~Ambiguous(request) =>
    /\ \A n \in DOMAIN request :
         n < i /\ request[n].col = "status" => status[request[n].key] = AS!Final[request[n].val]
    /\ \A k \in Key :
         ~Settled(k) => status[k] = IF Made(k) THEN "notInService" ELSE before.status[k]

\* The columns behind ACTION have the values that were asked for, and those
\* that nobody named the values from before.
Values ==
  phase \in {"action", "commit"} /\ ~Ambiguous(request) =>
    /\ \A n \in DOMAIN request :
         /\ request[n].col # "status" /\ status[request[n].key] # "none"
         /\ phase = "action" => n < i
         => cell[request[n].key][request[n].col] = request[n].val
    /\ \A k \in Key, c \in Column :
         ~AS!Names(request, k, c) /\ status[k] # "none" => cell[k][c] = before.cell[k][c]

Carried == MadeNew /\ Statuses /\ Values

-----------------------------------------------------------------------------
(* The steps.                                                              *)

LEMMA CarriedInit == Init => Carried
<1> SUFFICES ASSUME Init PROVE Carried OBVIOUS
<1>1. DOMAIN request = {} /\ phase = "idle" BY DEF Init
<1>2. QED BY <1>1 DEF Carried, MadeNew, Statuses, Values

\* A step before RESERVE2, in FREE, in UNDO or at the end.
LEMMA AsideStep ==
  ASSUME phase' \notin {"reserve2", "action", "commit"}
  PROVE  Carried'
BY DEF Carried, MadeNew, Statuses, Values

\* The phases follow each other.
LEMMA PhaseStep ==
  ASSUME IInv, Carried, NEW p, Goto(p),
         UNCHANGED <<status, cell, request, entry, buffer, before>>,
         \/ p \in {"free", "undo"}
         \/ phase = "reserve1" /\ p = "reserve2"
         \/ phase = "reserve2" /\ p = "action" /\ i > Len(request)
         \/ phase = "action" /\ p = "commit" /\ i > Len(request)
  PROVE  Carried'
<1> USE DEF Goto
<1>1. DOMAIN request = 1 .. Len(request) /\ Len(request) \in Nat /\ i \in Nat BY DEF IInv, TypeOK
<1>2. Ambiguous(request)' = Ambiguous(request) BY DEF Ambiguous
<1>4. MadeNew' BY <1>1 DEF Carried, MadeNew, IsCreate
<1>5. Statuses'
  <2> SUFFICES ASSUME p = "commit" PROVE Statuses' BY DEF Statuses
  <2>1. \A n \in DOMAIN request : ~(n < 1) BY <1>1
  <2>2. \A k \in Key : status[k] = IF Made(k) THEN "notInService" ELSE before.status[k]
    BY DEF IInv, Rows
  <2>3. QED BY <2>1, <2>2 DEF Statuses, Made
<1>6. Values'
  <2>1. CASE p = "action"
    <3>1. \A n \in DOMAIN request : ~(n < 1) BY <1>1
    <3>2. cell = before.cell BY <2>1 DEF IInv, Cells
    <3>3. QED BY <2>1, <3>1, <3>2 DEF Values
  <2>2. CASE p = "commit"
    <3>1. \A n \in DOMAIN request : n < i BY <1>1, <2>2
    <3>2. QED BY <1>2, <2>2, <3>1 DEF Carried, Values, AS!Names
  <2>3. QED BY <2>1, <2>2 DEF Values
<1>7. QED BY <1>4, <1>5, <1>6 DEF Carried

LEMMA BeginCarried == Begin => Carried'
<1> SUFFICES ASSUME Begin PROVE Carried' OBVIOUS
<1>1. phase' = "reserve1" BY DEF Begin, Goto
<1>2. QED BY <1>1, AsideStep

LEMMA AgentCarried == IInv /\ Carried /\ (Return \/ Finish) => Carried'
<1> SUFFICES ASSUME IInv, Carried, Return \/ Finish PROVE Carried' OBVIOUS
<1>1. CASE Return
  <2>1. PICK p \in Following[phase] : (error => p = "free") /\ Goto(p) BY <1>1 DEF Return
  <2>2. /\ phase \in {"reserve1", "reserve2", "action"} /\ i > Len(request)
        /\ UNCHANGED <<status, cell, request, entry, buffer, before>>
    BY <1>1 DEF Return, Following
  <2>3. \/ p \in {"free", "undo"}
        \/ phase = "reserve1" /\ p = "reserve2"
        \/ phase = "reserve2" /\ p = "action"
        \/ phase = "action" /\ p = "commit"
    BY <2>1, <2>2 DEF Following
  <2>4. QED BY <2>1, <2>2, <2>3, PhaseStep
<1>2. CASE Finish
  <2>1. DOMAIN request' = {} /\ phase' = "idle" BY <1>2 DEF Finish, Goto
  <2>2. QED BY <2>1 DEF Carried, MadeNew, Statuses, Values
<1>3. QED BY <1>1, <1>2

LEMMA ReserveCarried ==
  IInv /\ Carried /\ (Reserve1 \/ Reserve2 \/ Reserve2Create) => Carried'
<1> SUFFICES ASSUME IInv, Carried, Reserve1 \/ Reserve2 \/ Reserve2Create PROVE Carried' OBVIOUS
<1>1. CASE Refuse("free") BY <1>1, PhaseStep DEF Refuse
<1>2. CASE Reserve1 /\ ~Refuse("free")
  <2>1. phase' = "reserve1" BY <1>2 DEF Reserve1, Loop, Turn
  <2>2. QED BY <2>1, AsideStep
<1>3. CASE (Reserve2 \/ Reserve2Create) /\ ~Refuse("free")
  <2>1. /\ phase = "reserve2" /\ phase' = "reserve2" /\ i <= Len(request) /\ i' = i + 1
        /\ UNCHANGED <<request, before>>
    BY <1>3 DEF Reserve2, Reserve2Create, Loop, Turn, IInv, TypeOK
  <2>2. i \in Nat /\ i \in DOMAIN request /\ request[i].key \in Key /\ DOMAIN request \subseteq Nat
    BY <2>1, LoopFacts DEF IInv
  <2>3. IsCreate(request[i]) => before.status[request[i].key] = "none"
    <3>1. IsCreate(request[i]) => status[request[i].key] = "none"
      BY <1>3 DEF Reserve2, Reserve2Create, CreateEntry
    <3>2. QED BY <2>1, <2>2, <3>1 DEF IInv, Rows
  <2>5. MadeNew' BY <2>1, <2>2, <2>3 DEF Carried, MadeNew, IsCreate
  <2>6. Statuses' /\ Values' BY <2>1 DEF Statuses, Values
  <2>7. QED BY <2>5, <2>6 DEF Carried
<1>4. QED BY <1>1, <1>2, <1>3

LEMMA BackCarried == Carried /\ (Free \/ Undo) => Carried'
<1> SUFFICES ASSUME Carried, Free \/ Undo PROVE Carried' OBVIOUS
<1>1. phase' \in {"free", "undo"} BY DEF Free, Undo, Loop, Turn
<1>2. QED BY <1>1, AsideStep

LEMMA ActionCarried == IInv /\ Carried /\ Action => Carried'
<1> SUFFICES ASSUME IInv, Carried, Action PROVE Carried' OBVIOUS
<1>1. CASE Refuse("undo") BY <1>1, PhaseStep DEF Refuse
<1>2. CASE ~Refuse("undo")
  <2> DEFINE k == request[i].key
             c == request[i].col
  <2>1. /\ phase = "action" /\ phase' = "action" /\ i <= Len(request) /\ i' = i + 1
        /\ UNCHANGED <<request, before, entry, status>>
        /\ \/ c = "status" /\ cell' = cell
           \/ c # "status" /\ cell' = [cell EXCEPT ![k][c] = request[i].val]
    BY <1>2 DEF Action, Loop, Turn
  <2>2. /\ i \in Nat /\ i \in DOMAIN request /\ k \in Key /\ DOMAIN request \subseteq Nat
        /\ \A n \in DOMAIN request : request[n] \in Variable /\ request[n].key \in Key
    BY <2>1, LoopFacts DEF IInv
  <2>3. \A n \in DOMAIN request : request[n].col # "status" => request[n].col \in Column
    BY <2>2 DEF Variable
  <2>4. /\ \A x \in Key, d \in Column : ~(x = k /\ d = c) => cell'[x][d] = cell[x][d]
        /\ c # "status" => cell'[k][c] = request[i].val
    BY <2>1, <2>2, <2>3 DEF IInv, TypeOK
  <2>5. MadeNew' BY <2>1 DEF Carried, MadeNew, IsCreate
  <2>6. Statuses' BY <2>1 DEF Statuses
  <2>7. Values'
    <3> SUFFICES ASSUME ~Ambiguous(request) PROVE Values'
      BY <2>1 DEF Values, Ambiguous
    <3>1. ASSUME NEW n \in DOMAIN request, request[n].col # "status",
                 status[request[n].key] # "none", n < i + 1
          PROVE  cell'[request[n].key][request[n].col] = request[n].val
      <4>1. CASE n = i BY <2>4, <3>1, <4>1
      <4>2. CASE n # i
        <5>1. ~(request[n].key = k /\ request[n].col = c) BY <2>2, <4>2 DEF Ambiguous
        <5>2. n < i BY <2>2, <3>1, <4>2
        <5>3. cell[request[n].key][request[n].col] = request[n].val
          BY <2>1, <3>1, <5>2 DEF Carried, Values
        <5>4. QED BY <2>2, <2>3, <2>4, <3>1, <5>1, <5>3
      <4>3. QED BY <4>1, <4>2
    <3>2. ASSUME NEW x \in Key, NEW d \in Column, ~AS!Names(request, x, d), status[x] # "none"
          PROVE  cell'[x][d] = before.cell[x][d]
      <4>1. ~(x = k /\ d = c) BY <2>2, <3>2 DEF AS!Names
      <4>2. cell[x][d] = before.cell[x][d] BY <2>1, <3>2 DEF Carried, Values
      <4>3. QED BY <2>4, <4>1, <4>2
    <3>3. QED BY <2>1, <3>1, <3>2 DEF Values, AS!Names
  <2>8. QED BY <2>5, <2>6, <2>7 DEF Carried
<1>3. QED BY <1>1, <1>2

LEMMA CommitCarried == IInv /\ Carried /\ Commit => Carried'
<1> SUFFICES ASSUME IInv, Carried, Commit PROVE Carried' OBVIOUS
<1> DEFINE k == request[i].key
<1> DEFINE s == request[i].val
<1>1. /\ phase = "commit" /\ phase' = "commit" /\ i <= Len(request) /\ i' = i + 1
      /\ UNCHANGED <<request, before, entry>>
  BY DEF Commit, Loop, Turn
<1>2. /\ i \in Nat /\ i \in DOMAIN request /\ k \in Key /\ DOMAIN request \subseteq Nat
      /\ \A n \in DOMAIN request : request[n] \in Variable /\ request[n].key \in Key
  BY <1>1, LoopFacts DEF IInv
<1>3. \/ request[i].col # "status" /\ UNCHANGED <<status, cell, buffer>>
      \/ /\ request[i].col = "status" /\ s # "destroy"
         /\ status' = [status EXCEPT ![k] = Committed[s]]
         /\ buffer' = [buffer EXCEPT ![i] = Nothing] /\ cell' = cell
      \/ /\ request[i].col = "status" /\ s = "destroy"
         /\ status' = [status EXCEPT ![k] = "none"]
         /\ cell' = [cell EXCEPT ![k] = Default] /\ buffer' = buffer
  BY DEF Commit, RemoveEntry, IsDestroy
<1>4. ASSUME request[i].col = "status"
      PROVE  /\ s # "destroy" => AS!Final[s] = Committed[s]
             /\ s = "destroy" => AS!Final[s] = "none"
  <2>1. s \in RowStatus BY <1>2, <1>4, RouteTableAssumption DEF Variable
  <2>2. QED BY <2>1 DEF RowStatus, Create, Committed, AS!Final
<1>5. /\ \A x \in Key : ~(x = k /\ request[i].col = "status") => status'[x] = status[x] /\ cell'[x] = cell[x]
      /\ request[i].col = "status" => status'[k] = AS!Final[s]
      /\ status'[k] # "none" => cell'[k] = cell[k]
  BY <1>2, <1>3, <1>4 DEF IInv, TypeOK
<1>6. request[i].col = "status" => status[k] # "none"
  <2> SUFFICES ASSUME request[i].col = "status", status[k] = "none" PROVE FALSE OBVIOUS
  <2>1. PICK m \in DOMAIN request : m < i /\ IsDestroy(request[m]) /\ request[m].key = k
    BY <1>1, <1>2 DEF IInv, Freed
  <2>2. QED BY <1>2, <2>1 DEF IInv, OneDestroy
<1>7. \A n \in DOMAIN request : n # i => buffer'[n] = buffer[n]
  BY <1>2, <1>3 DEF IInv, TypeOK
<1>8. MadeNew' BY <1>1 DEF Carried, MadeNew, IsCreate
<1>9. Statuses'
  <2> SUFFICES ASSUME ~Ambiguous(request) PROVE Statuses'
    BY <1>1 DEF Statuses, Ambiguous
  <2>1. ASSUME NEW n \in DOMAIN request, n < i + 1, request[n].col = "status"
        PROVE  status'[request[n].key] = AS!Final[request[n].val]
    <3>1. CASE n = i BY <1>5, <2>1, <3>1
    <3>2. CASE n # i
      <4>1. n < i BY <1>2, <2>1, <3>2
      <4>2. ~(request[n].key = k /\ request[i].col = "status") BY <1>2, <2>1, <3>2 DEF Ambiguous
      <4>3. status[request[n].key] = AS!Final[request[n].val]
        BY <1>1, <2>1, <4>1 DEF Carried, Statuses
      <4>4. QED BY <1>2, <1>5, <4>2, <4>3
    <3>3. QED BY <3>1, <3>2
  <2>2. ASSUME NEW x \in Key, ~Settled(x)'
        PROVE  status'[x] = IF Made(x)' THEN "notInService" ELSE before.status[x]
    <3>1. ~(x = k /\ request[i].col = "status") BY <1>1, <1>2, <2>2 DEF Settled
    <3>2. ~Settled(x) BY <1>1, <1>2, <2>2 DEF Settled
    <3>3. status[x] = IF Made(x) THEN "notInService" ELSE before.status[x]
      BY <1>1, <3>2 DEF Carried, Statuses
    <3>4. \A n \in DOMAIN request : request[n].key = x => buffer'[n] = buffer[n]
      BY <1>3, <1>7, <3>1
    <3>5. Made(x)' <=> Made(x) BY <1>1, <3>4 DEF Made
    <3>6. QED BY <1>5, <3>1, <3>3, <3>5
  <2>3. QED BY <1>1, <2>1, <2>2 DEF Statuses
<1>10. Values'
  <2> SUFFICES ASSUME ~Ambiguous(request) PROVE Values'
    BY <1>1 DEF Values, Ambiguous
  <2>1. ASSUME NEW x \in Key, status'[x] # "none"
        PROVE  status[x] # "none" /\ cell'[x] = cell[x]
    BY <1>5, <1>6, <2>1
  <2>2. ASSUME NEW n \in DOMAIN request, request[n].col # "status", status'[request[n].key] # "none"
        PROVE  cell'[request[n].key][request[n].col] = request[n].val
    BY <1>1, <1>2, <2>1, <2>2 DEF Carried, Values
  <2>3. ASSUME NEW x \in Key, NEW d \in Column, ~AS!Names(request, x, d), status'[x] # "none"
        PROVE  cell'[x][d] = before.cell[x][d]
    BY <1>1, <2>1, <2>3 DEF Carried, Values
  <2>4. QED BY <1>1, <2>2, <2>3 DEF Values, AS!Names
<1>11. QED BY <1>8, <1>9, <1>10 DEF Carried

LEMMA CarriedStep == IInv /\ Carried /\ [Next]_vars => Carried'
<1> SUFFICES ASSUME IInv, Carried, [Next]_vars PROVE Carried' OBVIOUS
<1>1. CASE UNCHANGED vars
  <2>1. MadeNew' BY <1>1 DEF vars, Carried, MadeNew, IsCreate
  <2>2. Statuses' BY <1>1 DEF vars, Carried, Statuses, Settled, Made, Ambiguous
  <2>3. Values' BY <1>1 DEF vars, Carried, Values, Ambiguous, AS!Names
  <2>4. QED BY <2>1, <2>2, <2>3 DEF Carried
<1>2. CASE Next
  BY <1>2, BeginCarried, AgentCarried, ReserveCarried, BackCarried, ActionCarried, CommitCarried DEF Next
<1>3. QED BY <1>1, <1>2

-----------------------------------------------------------------------------
(* The refinement.                                                         *)

\* The end of COMMIT: the request was possible, and all of it is done.
LEMMA WholeDone ==
  ASSUME IInv, Carried, phase = "commit", i > Len(request), ~Ambiguous(request)
  PROVE  /\ \A n \in DOMAIN request :
              /\ IsCreate(request[n]) => before.status[request[n].key] = "none"
              /\ before.status[request[n].key] = "none" =>
                   \E m \in 1 .. n : IsCreate(request[m]) /\ request[m].key = request[n].key
         /\ \A k \in Key :
              IF AS!Names(request, k, "status")
              THEN \E s \in DOMAIN AS!Final :
                     AS!Says(request, k, "status", s) /\ status[k] = AS!Final[s]
              ELSE status[k] = before.status[k]
         /\ \A k \in Key : \A c \in Column :
              IF status[k] = "none" THEN cell[k][c] = Default[c]
              ELSE IF AS!Names(request, k, c) THEN AS!Says(request, k, c, cell[k][c])
              ELSE cell[k][c] = before.cell[k][c]
<1>1. /\ DOMAIN request = 1 .. Len(request) /\ Len(request) \in Nat /\ i \in Nat
      /\ \A n \in DOMAIN request : n < i /\ request[n] \in Variable /\ request[n].key \in Key
  BY DEF IInv, TypeOK, Variable
<1>2. ASSUME NEW n \in DOMAIN request
      PROVE  /\ IsCreate(request[n]) => before.status[request[n].key] = "none"
             /\ before.status[request[n].key] = "none" =>
                  \E m \in 1 .. n : IsCreate(request[m]) /\ request[m].key = request[n].key
  <2>1. IsCreate(request[n]) => before.status[request[n].key] = "none" BY DEF Carried, MadeNew
  <2>2. CASE IsCreate(request[n]) BY <1>1, <2>1, <2>2
  <2>3. CASE ~IsCreate(request[n]) /\ before.status[request[n].key] = "none"
    <3>1. PICK m \in DOMAIN request :
            m < n /\ IsCreate(request[m]) /\ request[m].key = request[n].key
      BY <2>3 DEF IInv, Shared, Passed, OfNewRow, SameRow
    <3>2. m \in 1 .. n BY <1>1, <3>1
    <3>3. QED BY <2>3, <3>1, <3>2
  <2>4. QED BY <2>1, <2>2, <2>3
<1>3. ASSUME NEW k \in Key, AS!Names(request, k, "status")
      PROVE  \E s \in DOMAIN AS!Final : AS!Says(request, k, "status", s) /\ status[k] = AS!Final[s]
  <2>1. PICK n \in DOMAIN request : request[n].key = k /\ request[n].col = "status"
    BY <1>3 DEF AS!Names
  <2>2. status[k] = AS!Final[request[n].val] BY <1>1, <2>1 DEF Carried, Statuses
  <2>3. request[n].val \in RowStatus BY <1>1, <2>1, RouteTableAssumption DEF Variable
  <2>4. request[n].val \in DOMAIN AS!Final BY <2>3 DEF RowStatus, Create, AS!Final
  <2>5. QED BY <2>1, <2>2, <2>4 DEF AS!Says
<1>4. ASSUME NEW k \in Key, ~AS!Names(request, k, "status")
      PROVE  status[k] = before.status[k]
  <2>1. ~Settled(k) BY <1>4 DEF Settled, AS!Names
  <2>2. ~Made(k) BY <1>4 DEF Made, AS!Names, IInv, Buffers, IsCreate
  <2>3. QED BY <2>1, <2>2 DEF Carried, Statuses
<1>5. ASSUME NEW k \in Key, NEW c \in Column
      PROVE  IF status[k] = "none" THEN cell[k][c] = Default[c]
             ELSE IF AS!Names(request, k, c) THEN AS!Says(request, k, c, cell[k][c])
             ELSE cell[k][c] = before.cell[k][c]
  <2>1. CASE status[k] = "none" BY <2>1 DEF IInv, Defaults
  <2>2. CASE status[k] # "none" /\ AS!Names(request, k, c)
    <3>1. PICK n \in DOMAIN request : request[n].key = k /\ request[n].col = c
      BY <2>2 DEF AS!Names
    <3>2. c # "status" BY RouteTableAssumption
    <3>3. cell[k][c] = request[n].val BY <2>2, <3>1, <3>2 DEF Carried, Values
    <3>4. QED BY <2>2, <3>1, <3>3 DEF AS!Says
  <2>3. CASE status[k] # "none" /\ ~AS!Names(request, k, c)
    BY <2>3 DEF Carried, Values
  <2>4. QED BY <2>1, <2>2, <2>3
<1>6. QED BY <1>2, <1>3, <1>4, <1>5

\* Every step is one of the manager's view or does not show.
LEMMA StepShows ==
  IInv /\ IInv' /\ Carried /\ [Next]_vars => [AS!Next]_(AS!vars)
<1> SUFFICES ASSUME IInv, IInv', Carried, [Next]_vars PROVE [AS!Next]_(AS!vars) OBVIOUS
<1>1. CASE UNCHANGED vars BY <1>1 DEF vars, AS!vars
<1>2. CASE Begin
  <2>1. AS!Ask BY <1>2 DEF Begin, Goto, table, AS!Ask, AS!table
  <2>2. QED BY <2>1 DEF AS!Next
<1>3. ASSUME UNCHANGED <<request, before>>, phase # "idle", phase' # "idle",
             phase \in {"free", "undo"} => phase' \in {"free", "undo"}
      PROVE  [AS!Next]_(AS!vars)
  <2>1. CASE phase \notin {"free", "undo"} /\ phase' \in {"free", "undo"}
    <3>1. AS!Refuse BY <1>3, <2>1 DEF AS!Refuse
    <3>2. QED BY <3>1 DEF AS!Next
  <2>2. CASE phase \in {"free", "undo"} <=> phase' \in {"free", "undo"}
    BY <1>3, <2>2 DEF AS!vars
  <2>3. QED BY <1>3, <2>1, <2>2
<1>4. CASE Return
  <2>1. /\ UNCHANGED <<request, before>> /\ phase \in {"reserve1", "reserve2", "action"}
        /\ phase' \in {"reserve2", "free", "action", "commit", "undo"}
    BY <1>4 DEF Return, Following, Goto
  <2>2. QED BY <1>3, <2>1
<1>5. CASE Finish
  <2>1. /\ phase \in {"free", "undo", "commit"} /\ i > Len(request) /\ phase' = "idle"
        /\ request' = <<>> /\ UNCHANGED table
    BY <1>5 DEF Finish, Goto
  <2>2. AS!Answered
    <3>1. status' \in [Key -> {"none", "active", "notInService"}] /\ cell' \in [Key -> [Column -> Value]]
      BY DEF IInv, TypeOK
    <3>2. QED BY <2>1, <3>1 DEF AS!Answered
  <2>3. AS!Ambiguous(request) <=> Ambiguous(request) BY DEF AS!Ambiguous, Ambiguous
  <2>4. CASE phase = "commit"
    <3>1. ASSUME ~Ambiguous(request) PROVE AS!Possible(request) /\ AS!WholeEffect(request)
      <4>1. AS!Possible(request)
        BY <2>1, <2>4, <3>1, WholeDone DEF AS!Possible, AS!IsCreate, AS!Create, IsCreate, Create
      <4>2. AS!WholeEffect(request)
        BY <2>1, <2>4, <3>1, WholeDone DEF AS!WholeEffect, table
      <4>3. QED BY <4>1, <4>2
    <3>2. AS!CarriedOut BY <2>2, <2>3, <2>4, <3>1 DEF AS!CarriedOut
    <3>3. QED BY <3>2 DEF AS!Next
  <2>5. CASE phase \in {"free", "undo"}
    <3>1. ASSUME ~Ambiguous(request) PROVE before = [status |-> status, cell |-> cell]
      BY <2>1, <2>5, <3>1, TraceLess DEF RolledBack
    <3>2. ASSUME ~Ambiguous(request) PROVE UNCHANGED AS!table
      <4>1. before.status = status /\ before.cell = cell BY <3>1, <3>2
      <4>2. QED BY <2>1, <2>5, <4>1 DEF AS!table, table
    <3>3. AS!Refused BY <2>2, <2>3, <2>5, <3>2 DEF AS!Refused
    <3>4. QED BY <3>3 DEF AS!Next
  <2>6. QED BY <2>1, <2>4, <2>5
<1>6. CASE Reserve1 \/ Reserve2 \/ Reserve2Create
  <2>1. UNCHANGED <<request, before>> /\ phase \in {"reserve1", "reserve2"} /\ phase' # "idle"
    BY <1>6 DEF Reserve1, Reserve2, Reserve2Create, Refuse, Goto, Turn, Loop
  <2>2. QED BY <1>3, <2>1
<1>7. CASE Free \/ Action \/ Undo \/ Commit
  <2>1. /\ UNCHANGED <<request, before>> /\ phase \in {"free", "action", "undo", "commit"}
        /\ phase' = phase \/ (phase = "action" /\ phase' = "undo")
    BY <1>7 DEF Free, Action, Undo, Commit, Refuse, Goto, Turn, Loop
  <2>2. QED BY <1>3, <2>1
<1>8. QED BY <1>1, <1>2, <1>4, <1>5, <1>6, <1>7 DEF Next

\* To a manager that looks between requests, the table takes each request as a
\* whole or not at all, however the five phases of the mapper run over its
\* variables and wherever they fail.
THEOREM Implements == Spec => AllOrNothing
<1>1. Init => AS!Init BY DEF Init, AS!Init
<1>2. Spec => []Carried
  BY CarriedInit, CarriedStep, Invariance, PTL DEF Spec
<1>3. QED BY <1>1, <1>2, StepShows, Invariance, PTL DEF Spec, AllOrNothing, AS!Spec
=============================================================================
