------------------------------- MODULE MCIfTable -------------------------------
(***************************************************************************)
(* The callers: an aggregator (lag/lagMIB.c:425 and 455), a virtual        *)
(* instance port (bridge/ieee8021PbbMib.c:514 and 587), an I-LAN           *)
(* (ethernet/ieee8021BridgeMib.c:6378 and 6442) and a physical port        *)
(* (2241 and 2260).                                                        *)
(***************************************************************************)
EXTENDS IfTable

CONSTANTS aggregator, vip, ilan, port

Caller(given, type, admin, create, reference, activate, undo, destroy) ==
  [given |-> given, type |-> type, admin |-> admin, create |-> create,
   reference |-> reference, activate |-> activate, undo |-> undo, destroy |-> destroy]

AllCall ==
  aggregator :> Caller(TRUE, 1, 0, TRUE, TRUE, TRUE, TRUE, TRUE) @@
  vip  :> Caller(FALSE, 2, Up, TRUE, FALSE, FALSE, FALSE, TRUE) @@
  ilan :> Caller(FALSE, 1, Up, TRUE, TRUE, FALSE, FALSE, TRUE) @@
  port :> Caller(TRUE, 0, 0, FALSE, TRUE, FALSE, TRUE, FALSE)

MCCall == [c \in Client |-> AllCall[c]]
===============================================================================
