----------------------------- MODULE SystemTables -----------------------------
(***************************************************************************)
(* The tables of physical and logical entities and of the system (entity/, *)
(* system/).                                                               *)
(***************************************************************************)
EXTENDS Tables

-----------------------------------------------------------------------------
(* entity/entityMIB.c                                                      *)

(* entityGeneral *)
entityGeneral_Read ==
  Value("TIMETICKS", {"u32LastChangeTime"})

(* entPhysicalTable *)
entPhysicalTable_Index ==
  RowsOf("neEntPhysicalTable", <<Unsigned(32, "u32Index")>>)
entPhysicalTable_Read ==
  Counted("OCTET_STR", {"au8Descr", "au8Name", "au8HardwareRev",
                        "au8FirmwareRev", "au8SoftwareRev", "au8SerialNum",
                        "au8MfgName", "au8ModelName", "au8Alias", "au8AssetID",
                        "au8MfgDate", "au8Uris"}) @@
  Counted("OBJECT_ID", {"aoVendorType"}) @@
  Value("UNSIGNED", {"u32ContainedIn"}) @@
  Value("INTEGER", {"i32Class", "i32ParentRelPos", "u8IsFRU"})
entPhysicalTable_Check ==
  FixedRows(
    Sized("OCTET_STR", {"au8SerialNum", "au8Alias", "au8AssetID", "au8Uris"}))
entPhysicalTable_Write ==
  Saved("counted", {"au8SerialNum", "au8Alias", "au8AssetID", "au8Uris"})

(* entLogicalTable *)
entLogicalTable_Index ==
  RowsOf("neEntLogicalTable", <<Unsigned(32, "u32Index")>>)
entLogicalTable_Read ==
  Counted("OCTET_STR", {"au8Descr", "au8Community", "au8TAddress",
                        "au8ContextEngineID", "au8ContextName"}) @@
  Counted("OBJECT_ID", {"aoType", "aoTDomain"})

(* entLPMappingTable *)
entLPMappingTable_Index ==
  RowsOf("neEntLPMappingTable", 
    <<Unsigned(32, "u32LogicalIndex"), Unsigned(32, "u32PhysicalIndex")>>)
entLPMappingTable_Read ==
  Value("UNSIGNED", {"u32PhysicalIndex"})

(* entAliasMappingTable *)
entAliasMappingTable_Index ==
  Rows(
    <<Unsigned(32, "u32PhysicalIndex"),
      Unsigned(32, "u32LogicalIndexOrZero")>>)
entAliasMappingTable_Read ==
  Counted("OBJECT_ID", {"aoIdentifier"})

(* entPhysicalContainsTable *)
entPhysicalContainsTable_Index ==
  Rows(<<Unsigned(32, "u32Index"), Unsigned(32, "u32ChildIndex")>>)
entPhysicalContainsTable_Read ==
  Value("UNSIGNED", {"u32ChildIndex"})

(* neEntPhysicalTable *)
neEntPhysicalTable_Index ==
  Rows(<<Unsigned(32, "u32Index")>>)
neEntPhysicalTable_Read ==
  Value("UNSIGNED", {"u32ContainedIn"}) @@
  Value("INTEGER", {"i32Class", "i32ParentRelPos", "u8RowStatus",
                    "u8StorageType"})
neEntPhysicalTable_Check ==
  HandlerRows("u8RowStatus",
    OfFirst("UNSIGNED", {"u32ContainedIn"}) @@
    OfFirst("INTEGER", {"i32Class", "i32ParentRelPos", "u8StorageType"}))
neEntPhysicalTable_Write ==
  Word(32, {"u32ContainedIn", "i32Class", "i32ParentRelPos"}) @@
  Word(8, {"u8StorageType"}) @@
  AtBoth("u8RowStatus", "removeExt")

(* neEntLogicalTable *)
neEntLogicalTable_Index ==
  Rows(<<Unsigned(32, "u32Index")>>)
neEntLogicalTable_Read ==
  Value("INTEGER", {"u8RowStatus", "u8StorageType"})
neEntLogicalTable_Check ==
  CommitRows("u8RowStatus",
    OfFirst("INTEGER", {"u8StorageType"}))
neEntLogicalTable_Write ==
  Word(8, {"u8StorageType"}) @@
  AtCommit("u8RowStatus")

(* neEntLPMappingTable *)
neEntLPMappingTable_Index ==
  Rows(<<Unsigned(32, "u32LogicalIndex"), Unsigned(32, "u32PhysicalIndex")>>)
neEntLPMappingTable_Read ==
  Value("INTEGER", {"u8RowStatus", "u8StorageType"})
neEntLPMappingTable_Check ==
  CommitRows("u8RowStatus",
    OfFirst("INTEGER", {"u8StorageType"}))
neEntLPMappingTable_Write ==
  Word(8, {"u8StorageType"}) @@
  AtCommit("u8RowStatus")

(* neEntChassisTable *)
neEntChassisTable_Index ==
  Rows(<<Unsigned(32, "u32PhysicalIndex")>>)
neEntChassisTable_Read ==
  Value("UNSIGNED", {"u32NumPorts"}) @@
  Counted("OCTET_STR", {"au8PortTypes"})

(* neEntPortTable *)
neEntPortTable_Index ==
  Rows(<<Unsigned(32, "u32PhysicalIndex")>>)
neEntPortTable_Read ==
  Value("INTEGER", {"u32IfIndex", "i32IfType", "u8RowStatus"}) @@
  Value("UNSIGNED", {"u32ChassisIndex", "u32HIndex"})
neEntPortTable_Check ==
  [HandlerRows("u8RowStatus",
    OfFirst("INTEGER", {"u32IfIndex", "i32IfType"}) @@
    OfFirst("UNSIGNED", {"u32HIndex"})) EXCEPT
    !.frozen = {"u32IfIndex", "i32IfType", "u32HIndex"},
    !.tested = FALSE]
neEntPortTable_Write ==
  Word(32, {"u32IfIndex", "i32IfType", "u32HIndex"}) @@
  AtAction("u8RowStatus", "removeEntry")

(* neEntChassisPortTable *)
neEntChassisPortTable_Index ==
  RowsOf("neEntPortTable_HMap", 
    <<Unsigned(32, "u32ChassisIndex"), Unsigned(32, "u32HIndex")>>)
neEntChassisPortTable_Read ==
  Value("UNSIGNED", {"u32PhysicalIndex"})

entityMIB_tables ==
  [entityGeneral |-> ReadOnly(NoIndex, entityGeneral_Read),
   entPhysicalTable |->
     Table(entPhysicalTable_Index, entPhysicalTable_Read,
           entPhysicalTable_Check, entPhysicalTable_Write),
   entLogicalTable |-> ReadOnly(entLogicalTable_Index, entLogicalTable_Read),
   entLPMappingTable |-> ReadOnly(entLPMappingTable_Index, entLPMappingTable_Read),
   entAliasMappingTable |-> ReadOnly(entAliasMappingTable_Index, entAliasMappingTable_Read),
   entPhysicalContainsTable |-> ReadOnly(entPhysicalContainsTable_Index, entPhysicalContainsTable_Read),
   neEntPhysicalTable |->
     Table(neEntPhysicalTable_Index, neEntPhysicalTable_Read,
           neEntPhysicalTable_Check, neEntPhysicalTable_Write),
   neEntLogicalTable |->
     Table(neEntLogicalTable_Index, neEntLogicalTable_Read,
           neEntLogicalTable_Check, neEntLogicalTable_Write),
   neEntLPMappingTable |->
     Table(neEntLPMappingTable_Index, neEntLPMappingTable_Read,
           neEntLPMappingTable_Check, neEntLPMappingTable_Write),
   neEntChassisTable |-> ReadOnly(neEntChassisTable_Index, neEntChassisTable_Read),
   neEntPortTable |->
     Table(neEntPortTable_Index, neEntPortTable_Read,
           neEntPortTable_Check, neEntPortTable_Write),
   neEntChassisPortTable |-> ReadOnly(neEntChassisPortTable_Index, neEntChassisPortTable_Read)]

-----------------------------------------------------------------------------
(* system/systemMIB.c                                                      *)

(* system *)
system_Read ==
  Counted("OCTET_STR", {"pcDescr", "au8Contact", "au8Name", "au8Location"}) @@
  Counted("OBJECT_ID", {"poObjectID"}) @@
  Elapsed("TIMETICKS", {"u32UpTime", "u32ORLastChange"}) @@
  Value("INTEGER", {"i32Services"})
system_Check ==
  Scalars(
    OfFirst("OCTET_STR", {"au8Contact", "au8Name", "au8Location"}))
system_Write ==
  InPlace(0, {"au8Contact", "au8Name", "au8Location"})

(* sysORTable *)
sysORTable_Index ==
  Rows(<<Signed(32, "i32Index")>>)
sysORTable_Read ==
  Counted("OBJECT_ID", {"poID"}) @@
  Counted("OCTET_STR", {"pcDescr"}) @@
  Value("TIMETICKS", {"u32UpTime"})

systemMIB_tables ==
  [system |-> Table(NoIndex, system_Read, system_Check, system_Write),
   sysORTable |-> ReadOnly(sysORTable_Index, sysORTable_Read)]

=============================================================================
