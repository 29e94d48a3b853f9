------------------------------- MODULE IfTables -------------------------------
(***************************************************************************)
(* The tables of interfaces, their stack and cross-connects (if/).         *)
(***************************************************************************)
EXTENDS Tables

-----------------------------------------------------------------------------
(* if/ifMIB.c                                                              *)

(* interfaces *)
interfaces_Read ==
  Value("INTEGER", {"i32Number"})

(* ifMIBObjects *)
ifMIBObjects_Read ==
  Elapsed("TIMETICKS", {"u32TableLastChange", "u32StackLastChange"})

(* ifTable *)
ifTable_Index ==
  Rows(<<Signed(32, "u32Index")>>)
ifTable_Read ==
  Value("INTEGER", {"u32Index", "i32Type", "i32Mtu", "i32AdminStatus",
                    "i32OperStatus"}) @@
  Counted("OCTET_STR", {"au8Descr"}) @@
  Value("GAUGE", {"u32Speed"}) @@
  Entire("OCTET_STR", {"au8PhysAddress"}) @@
  Elapsed("TIMETICKS", {"u32LastChange"}) @@
  Value("COUNTER", {"u32InOctets", "u32InUcastPkts", "u32InDiscards",
                    "u32InErrors", "u32InUnknownProtos", "u32OutOctets",
                    "u32OutUcastPkts", "u32OutDiscards", "u32OutErrors"})
ifTable_Check ==
  FixedRows(
    OfFirst("INTEGER", {"i32AdminStatus"}))
ifTable_Write ==
  Handled(32, {"i32AdminStatus"})

(* ifXTable *)
ifXTable_Index ==
  RowsOf("ifTable", <<Signed(32, "u32Index")>>)
ifXTable_Read ==
  Counted("OCTET_STR", {"au8Name", "au8Alias"}) @@
  Value("COUNTER", {"u32InMulticastPkts", "u32InBroadcastPkts",
                    "u32OutMulticastPkts", "u32OutBroadcastPkts"}) @@
  Value("COUNTER64", {"u64HCInOctets", "u64HCInUcastPkts",
                      "u64HCInMulticastPkts", "u64HCInBroadcastPkts",
                      "u64HCOutOctets", "u64HCOutUcastPkts",
                      "u64HCOutMulticastPkts", "u64HCOutBroadcastPkts"}) @@
  Value("INTEGER", {"i32LinkUpDownTrapEnable", "u8PromiscuousMode",
                    "u8ConnectorPresent"}) @@
  Value("GAUGE", {"u32HighSpeed"}) @@
  Value("TIMETICKS", {"u32CounterDiscontinuityTime"})
ifXTable_Check ==
  FixedRows(
    OfFirst("INTEGER", {"i32LinkUpDownTrapEnable", "u8PromiscuousMode"}) @@
    Sized("OCTET_STR", {"au8Alias"}))
ifXTable_Write ==
  Word(32, {"i32LinkUpDownTrapEnable"}) @@
  Word(8, {"u8PromiscuousMode"}) @@
  Saved("counted", {"au8Alias"})

(* ifStackTable *)
ifStackTable_Index ==
  Rows(<<Signed(32, "u32HigherLayer"), Signed(32, "u32LowerLayer")>>)
ifStackTable_Read ==
  Value("INTEGER", {"u8Status"})
ifStackTable_Check ==
  [HandlerRows("u8Status",
    NoColumns) EXCEPT
    !.needs = "indices that are not 0"]
ifStackTable_Write ==
  AtAction("u8Status", "removeExt")

(* ifRcvAddressTable *)
ifRcvAddressTable_Index ==
  Rows(<<Signed(32, "u32Index"), Padded("au8Address")>>)
ifRcvAddressTable_Read ==
  Value("INTEGER", {"u8Status", "i32Type"})
ifRcvAddressTable_Check ==
  CommitRows("u8Status",
    OfFirst("INTEGER", {"i32Type"}))
ifRcvAddressTable_Write ==
  Word(32, {"i32Type"}) @@
  AtCommit("u8Status")

(* neIfTable *)
neIfTable_Index ==
  RowsOf("ifTable", <<Signed(32, "u32Index")>>)
neIfTable_Read ==
  Counted("OCTET_STR", {"au8Name", "au8Descr"}) @@
  Value("INTEGER", {"i32Type", "i32Mtu", "u8RowStatus", "u8StorageType"}) @@
  Entire("OCTET_STR", {"au8Speed", "au8PhysAddress", "au8AdminFlags",
                       "au8OperFlags"})
neIfTable_Check ==
  [HandlerRows("u8RowStatus",
    Sized("OCTET_STR", {"au8Name", "au8Descr", "au8Speed", "au8PhysAddress",
                        "au8AdminFlags"}) @@
    OfFirst("INTEGER", {"i32Type", "i32Mtu", "u8StorageType"})) EXCEPT
    !.frozen = {"au8Name", "au8Descr", "i32Type", "i32Mtu", "au8Speed",
                "au8PhysAddress", "au8AdminFlags", "u8StorageType"},
    !.tested = FALSE,
    !.context = "parent"]
neIfTable_Write ==
  Saved("counted", {"au8Name", "au8Descr"}) @@
  Word(32, {"i32Type", "i32Mtu"}) @@
  Saved("buffer", {"au8Speed", "au8PhysAddress"}) @@
  Handled(0, {"au8AdminFlags"}) @@
  Word(8, {"u8StorageType"}) @@
  AtAction("u8RowStatus", "removeExt")

(* neIfEntTable *)
neIfEntTable_Index ==
  Rows(<<Signed(32, "u32Index"), Unsigned(32, "u32PhysicalIndex")>>)
neIfEntTable_Read ==
  Value("UNSIGNED", {"u32ChassisIndex"})

ifMIB_tables ==
  [interfaces |-> ReadOnly(NoIndex, interfaces_Read),
   ifMIBObjects |-> ReadOnly(NoIndex, ifMIBObjects_Read),
   ifTable |->
     Table(ifTable_Index, ifTable_Read,
           ifTable_Check, ifTable_Write),
   ifXTable |->
     Table(ifXTable_Index, ifXTable_Read,
           ifXTable_Check, ifXTable_Write),
   ifStackTable |->
     Table(ifStackTable_Index, ifStackTable_Read,
           ifStackTable_Check, ifStackTable_Write),
   ifRcvAddressTable |->
     Table(ifRcvAddressTable_Index, ifRcvAddressTable_Read,
           ifRcvAddressTable_Check, ifRcvAddressTable_Write),
   neIfTable |->
     Table(neIfTable_Index, neIfTable_Read,
           neIfTable_Check, neIfTable_Write),
   neIfEntTable |-> ReadOnly(neIfEntTable_Index, neIfEntTable_Read)]

-----------------------------------------------------------------------------
(* if/neXcMIB.c                                                            *)

(* neXcTable *)
neXcTable_Index ==
  Rows(<<Octets("au8Index")>>)
neXcTable_Read ==
  Counted("OCTET_STR", {"au8Descr"}) @@
  Value("INTEGER", {"i32Type", "u32IfIndex", "i32AdminStatus", "i32OperStatus",
                    "u8RowStatus", "u8StorageType"})
neXcTable_Check ==
  CommitRows("u8RowStatus",
    Sized("OCTET_STR", {"au8Descr"}) @@
    OfFirst("INTEGER", {"i32Type", "u32IfIndex", "i32AdminStatus",
                        "u8StorageType"}))
neXcTable_Write ==
  Saved("counted", {"au8Descr"}) @@
  Word(32, {"i32Type", "u32IfIndex", "i32AdminStatus"}) @@
  Word(8, {"u8StorageType"}) @@
  AtCommit("u8RowStatus")

(* neXcIfTable *)
neXcIfTable_Index ==
  Rows(
    <<Octets("au8Index"),
      Signed(32, "u32IfIndex"),
      Signed(32, "i32Direction")>>)
neXcIfTable_Read ==
  Entire("OCTET_STR", {"au8Data"}) @@
  Value("INTEGER", {"u8RowStatus", "u8StorageType"})
neXcIfTable_Check ==
  CommitRows("u8RowStatus",
    Sized("OCTET_STR", {"au8Data"}) @@
    OfFirst("INTEGER", {"u8StorageType"}))
neXcIfTable_Write ==
  Saved("buffer", {"au8Data"}) @@
  Word(8, {"u8StorageType"}) @@
  AtCommit("u8RowStatus")

neXcMIB_tables ==
  [neXcTable |->
     Table(neXcTable_Index, neXcTable_Read,
           neXcTable_Check, neXcTable_Write),
   neXcIfTable |->
     Table(neXcIfTable_Index, neXcIfTable_Read,
           neXcIfTable_Check, neXcIfTable_Write)]

=============================================================================
