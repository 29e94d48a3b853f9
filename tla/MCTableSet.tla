------------------------------ MODULE MCTableSet ------------------------------
(***************************************************************************)
(* TableSet on the tables of all catalogues, by the way their rows come.   *)
(***************************************************************************)
EXTENDS TableSet, ProviderBridgeTables, CfmTables, SystemTables, BridgeTables,
        VlanTables, EthernetServiceTables, IfTables, InetTables, IsisTables,
        LagStpTables, MplsTables, TeTables, SnmpTables

AllTables ==
  ieee8021PbMib_tables @@ ieee8021PbbMib_tables @@ ieee8021PbbTeMib_tables @@
  ieee8021CfmMib_tables @@ ieee8021CfmV2Mib_tables @@ entityMIB_tables @@
  systemMIB_tables @@ ieee8021BridgeMib_tables @@ neIeee8021BridgeMIB_tables @@
  ieee8021QBridgeMib_tables @@ mefEnniOvcMib_tables @@ mefUniEvcMib_tables @@
  ifMIB_tables @@ neXcMIB_tables @@ clnsMIB_tables @@ icmpMIB_tables @@
  ipForward_tables @@ ipMIB_tables @@ neInetMIB_tables @@ tcpMIB_tables @@
  udpMIB_tables @@ isisMIB_tables @@ ieee8021SpbMib_tables @@ lagMIB_tables @@
  ieee8021MstpMib_tables @@ ieee8021SpanningTreeMib_tables @@
  neIeee8021StpMIB_tables @@ mplsLsrStdMIB_tables @@ mplsLsrExtStdMIB_tables @@
  mplsTeStdMIB_tables @@ mplsTeExtStdMIB_tables @@ neMplsLsrMIB_tables @@
  neMplsTeMIB_tables @@ neTedMIB_tables @@ teLinkStdMIB_tables @@ snmpMIB_tables

\* One value, which is computed once: the tables that answer to SET, by the way
\* their rows come.
Settable ==
  LET all == AllTables
      by(R) == [n \in {m \in DOMAIN all : all[m].check.rows \in R} |-> all[n]]
  IN  [tables |-> by({"fixed", "commit", "handler", "column"}), scalars |-> by({"scalars"})]

SetTables    == Settable.tables
ScalarTables == Settable.scalars
=============================================================================
