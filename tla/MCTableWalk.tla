------------------------------ MODULE MCTableWalk ------------------------------
(***************************************************************************)
(* TableWalk on one table for each kind of index in the catalogues.        *)
(***************************************************************************)
EXTENDS TableWalk, ProviderBridgeTables, CfmTables, SystemTables, BridgeTables,
        VlanTables, EthernetServiceTables, IfTables, InetTables, IsisTables,
        LagStpTables, MplsTables, TeTables, SnmpTables

AllTables ==
  ieee8021PbMib_tables @@ ieee8021PbbMib_tables @@ ieee8021PbbTeMib_tables @@
  ieee8021CfmMib_tables @@ ieee8021CfmV2Mib_tables @@ entityMIB_tables @@
  systemMIB_tables @@ ieee8021BridgeMib_tables @@ neIeee8021BridgeMIB_tables @@
  ieee8021QBridgeMib_tables @@ mefEnniOvcMib_tables @@ mefUniEvcMib_tables @@
  ifMIB_tables @@ neXcMIB_tables @@ clnsMIB_tables @@ icmpMIB_tables @@
  ipForward_tables @@ ipMIB_tables @@ neInetMIB_tables @@ tcpMIB_tables @@
  udpMIB_tables @@ isisMIB_tables @@ ieee8021SpbMib_tables @@ lagMIB_tables @@
  ieee8021MstpMib_tables @@ ieee8021SpanningTreeMib_tables @@
  neIeee8021StpMIB_tables @@ mplsLsrStdMIB_tables @@ mplsLsrExtStdMIB_tables @@
  mplsTeStdMIB_tables @@ mplsTeExtStdMIB_tables @@ neMplsLsrMIB_tables @@
  neMplsTeMIB_tables @@ neTedMIB_tables @@ teLinkStdMIB_tables @@ snmpMIB_tables

\* A table for each sequence of key parts, and for each way of finding rows.
OnePerKind(tables) ==
  LET kind == [n \in DOMAIN tables |->
                 LET x == tables[n].index IN
                 <<[j \in DOMAIN x.keys |-> <<IF IsNumber(x.keys[j]) THEN "number" ELSE x.keys[j].type, x.keys[j].bits>>],
                   x.walks = x.finds>>]
      chosen == {CHOOSE n \in DOMAIN tables : kind[n] = k : k \in {kind[n] : n \in DOMAIN tables}}
  IN  [n \in chosen |-> tables[n]]

\* One value, which is computed once.
Chosen == [kinds |-> OnePerKind(AllTables)]
WalkedTables == Chosen.kinds
=============================================================================
