------------------------------ MODULE AtomicSet ------------------------------
(***************************************************************************)
(* What a conceptual table promises to a network manager: a SET request    *)
(* changes it by everything the request says or, refused, leaves it as it  *)
(* was; nothing of a request shows before its answer.                      *)
(*                                                                         *)
(* A request is a sequence of variables to set.  One that names a variable *)
(* twice is ambiguous and may leave the table in any state.                *)
(***************************************************************************)
EXTENDS Naturals, Sequences

CONSTANTS
  Key,     \* the indices that rows may have
  Column,  \* the writable columns beside the row status
  Value,   \* the values of these columns
  Default, \* the value each column has in a new row
  Requests \* the SET requests a manager may send

VARIABLES
  status, \* the row status, "none" where there is no row
  cell,   \* the columns of the rows, their defaults where there is no row
  asked,  \* the request to be answered
  answer  \* "none" when there is no request, then "pending" or "refused"

table == <<status, cell>>
vars == <<status, cell, asked, answer>>

Create  == {"createAndGo", "createAndWait"}
Final   == [createAndGo |-> "active", active |-> "active", createAndWait |-> "notInService",
            notInService |-> "notInService", destroy |-> "none"]

Init ==
  /\ status = [k \in Key |-> "none"]
  /\ cell = [k \in Key |-> Default]
  /\ asked = <<>>
  /\ answer = "none"

Says(req, k, c, v) == \E n \in DOMAIN req : req[n].key = k /\ req[n].col = c /\ req[n].val = v
Names(req, k, c) == \E n \in DOMAIN req : req[n].key = k /\ req[n].col = c

Ambiguous(req) ==
  \E m, n \in DOMAIN req : m # n /\ req[m].key = req[n].key /\ req[m].col = req[n].col

IsCreate(v) == v.col = "status" /\ v.val \in Create

\* Rows are created where there is none, and what else is said of a row that is
\* not there comes after its creation.
Possible(req) ==
  \A n \in DOMAIN req :
    /\ IsCreate(req[n]) => status[req[n].key] = "none"
    /\ status[req[n].key] = "none" =>
         \E m \in 1 .. n : IsCreate(req[m]) /\ req[m].key = req[n].key

WholeEffect(req) ==
  /\ \A k \in Key :
       IF Names(req, k, "status")
       THEN \E s \in DOMAIN Final : Says(req, k, "status", s) /\ status'[k] = Final[s]
       ELSE status'[k] = status[k]
  /\ \A k \in Key : \A c \in Column :
       IF status'[k] = "none" THEN cell'[k][c] = Default[c]
       ELSE IF Names(req, k, c) THEN Says(req, k, c, cell'[k][c])
       ELSE cell'[k][c] = cell[k][c]

Ask ==
  /\ answer = "none"
  /\ asked' \in Requests
  /\ answer' = "pending"
  /\ UNCHANGED table

Refuse ==
  /\ answer = "pending"
  /\ answer' = "refused"
  /\ UNCHANGED <<status, cell, asked>>

Answered ==
  /\ asked' = <<>>
  /\ answer' = "none"
  /\ status' \in [Key -> {"none", "active", "notInService"}]
  /\ cell' \in [Key -> [Column -> Value]]

CarriedOut ==
  /\ answer = "pending"
  /\ Ambiguous(asked) \/ (Possible(asked) /\ WholeEffect(asked))
  /\ Answered

Refused ==
  /\ answer = "refused"
  /\ Ambiguous(asked) \/ UNCHANGED table
  /\ Answered

Next == Ask \/ Refuse \/ CarriedOut \/ Refused

Spec == Init /\ [][Next]_vars
=============================================================================
