------------------------- MODULE ProviderBridgeTables -------------------------
(***************************************************************************)
(* The tables of provider bridges, provider backbone bridges and their     *)
(* traffic engineering (bridge/).                                          *)
(***************************************************************************)
EXTENDS Tables

-----------------------------------------------------------------------------
(* bridge/ieee8021PbMib.c                                                  *)

(* ieee8021PbCVidRegistrationTable *)
ieee8021PbCVidRegistrationTable_Index ==
  Rows(
    <<Unsigned(32, "u32BridgeBasePortComponentId"),
      Unsigned(32, "u32BridgeBasePort"),
      Signed(32, "u32CVid")>>)
ieee8021PbCVidRegistrationTable_Read ==
  Value("INTEGER", {"u32SVid", "u8UntaggedPep", "u8UntaggedCep",
                    "u8RowStatus"})
ieee8021PbCVidRegistrationTable_Check ==
  CommitRows("u8RowStatus",
    OfFirst("INTEGER", {"u32SVid", "u8UntaggedPep", "u8UntaggedCep"}))
ieee8021PbCVidRegistrationTable_Write ==
  Word(32, {"u32SVid"}) @@
  Word(8, {"u8UntaggedPep", "u8UntaggedCep"}) @@
  AtCommit("u8RowStatus")

(* ieee8021PbEdgePortTable *)
ieee8021PbEdgePortTable_Index ==
  Rows(
    <<Unsigned(32, "u32BridgeBasePortComponentId"),
      Unsigned(32, "u32BridgeBasePort"),
      Signed(32, "u32SVid")>>)
ieee8021PbEdgePortTable_Read ==
  Value("INTEGER", {"u32PVid", "i32AcceptableFrameTypes",
                    "u8EnableIngressFiltering"}) @@
  Value("UNSIGNED", {"u32DefaultUserPriority"})
ieee8021PbEdgePortTable_Check ==
  FixedRows(
    OfFirst("INTEGER", {"u32PVid", "i32AcceptableFrameTypes",
                        "u8EnableIngressFiltering"}) @@
    OfFirst("UNSIGNED", {"u32DefaultUserPriority"}))
ieee8021PbEdgePortTable_Write ==
  Word(32, {"u32PVid", "u32DefaultUserPriority", "i32AcceptableFrameTypes"}) @@
  Word(8, {"u8EnableIngressFiltering"})

(* ieee8021PbServicePriorityRegenerationTable *)
ieee8021PbServicePriorityRegenerationTable_Index ==
  Rows(
    <<Unsigned(32, "u32BridgeBasePortComponentId"),
      Unsigned(32, "u32BridgeBasePort"),
      Signed(32, "u32SVid"),
      Unsigned(32, "u32ReceivedPriority")>>)
ieee8021PbServicePriorityRegenerationTable_Read ==
  Value("UNSIGNED", {"u32RegeneratedPriority"})
ieee8021PbServicePriorityRegenerationTable_Check ==
  FixedRows(
    OfFirst("UNSIGNED", {"u32RegeneratedPriority"}))
ieee8021PbServicePriorityRegenerationTable_Write ==
  Word(32, {"u32RegeneratedPriority"})

(* ieee8021PbCnpTable *)
ieee8021PbCnpTable_Index ==
  Rows(
    <<Unsigned(32, "u32BridgeBasePortComponentId"),
      Unsigned(32, "u32BridgeBasePort")>>)
ieee8021PbCnpTable_Read ==
  Value("UNSIGNED", {"u32CComponentId"}) @@
  Value("INTEGER", {"u32SVid", "u8RowStatus"})
ieee8021PbCnpTable_Check ==
  CommitRows("u8RowStatus",
    OfFirst("UNSIGNED", {"u32CComponentId"}) @@
    OfFirst("INTEGER", {"u32SVid"}))
ieee8021PbCnpTable_Write ==
  Word(32, {"u32CComponentId", "u32SVid"}) @@
  AtCommit("u8RowStatus")

(* ieee8021PbPnpTable *)
ieee8021PbPnpTable_Index ==
  Rows(
    <<Unsigned(32, "u32BridgeBasePortComponentId"),
      Unsigned(32, "u32BridgeBasePort")>>)
ieee8021PbPnpTable_Read ==
  Value("INTEGER", {"u8RowStatus"})
ieee8021PbPnpTable_Check ==
  CommitRows("u8RowStatus", NoColumns)
ieee8021PbPnpTable_Write ==
  AtCommit("u8RowStatus")

(* ieee8021PbCepTable *)
ieee8021PbCepTable_Index ==
  Rows(
    <<Unsigned(32, "u32BridgeBasePortComponentId"),
      Unsigned(32, "u32BridgeBasePort")>>)
ieee8021PbCepTable_Read ==
  Value("UNSIGNED", {"u32CComponentId", "u32CepPortNumber"}) @@
  Value("INTEGER", {"u8RowStatus"})
ieee8021PbCepTable_Check ==
  CommitRows("u8RowStatus", NoColumns)
ieee8021PbCepTable_Write ==
  AtCommit("u8RowStatus")

(* ieee8021PbRcapTable *)
ieee8021PbRcapTable_Index ==
  Rows(
    <<Unsigned(32, "u32BridgeBasePortComponentId"),
      Unsigned(32, "u32BridgeBasePort")>>)
ieee8021PbRcapTable_Read ==
  Value("UNSIGNED", {"u32SComponentId", "u32RcapPortNumber"}) @@
  Value("INTEGER", {"u8RowStatus"})
ieee8021PbRcapTable_Check ==
  CommitRows("u8RowStatus", NoColumns)
ieee8021PbRcapTable_Write ==
  AtCommit("u8RowStatus")

(* ieee8021PbInternalInterfaceTable *)
ieee8021PbInternalInterfaceTable_Index ==
  Rows(
    <<Unsigned(32, "u32BridgeBasePortComponentId"),
      Unsigned(32, "u32BridgeBasePort"),
      Signed(32, "u32ExternalSVid")>>)
ieee8021PbInternalInterfaceTable_Read ==
  Value("UNSIGNED", {"u32InternalPortNumber"}) @@
  Value("INTEGER", {"i32InternalPortType", "u32InternalSVid", "u8RowStatus"})
ieee8021PbInternalInterfaceTable_Check ==
  CommitRows("u8RowStatus",
    OfFirst("INTEGER", {"i32InternalPortType", "u32InternalSVid"}))
ieee8021PbInternalInterfaceTable_Write ==
  Word(32, {"i32InternalPortType", "u32InternalSVid"}) @@
  AtCommit("u8RowStatus")

ieee8021PbMib_tables ==
  [ieee8021PbCVidRegistrationTable |->
     Table(ieee8021PbCVidRegistrationTable_Index, ieee8021PbCVidRegistrationTable_Read,
           ieee8021PbCVidRegistrationTable_Check, ieee8021PbCVidRegistrationTable_Write),
   ieee8021PbEdgePortTable |->
     Table(ieee8021PbEdgePortTable_Index, ieee8021PbEdgePortTable_Read,
           ieee8021PbEdgePortTable_Check, ieee8021PbEdgePortTable_Write),
   ieee8021PbServicePriorityRegenerationTable |->
     Table(ieee8021PbServicePriorityRegenerationTable_Index, ieee8021PbServicePriorityRegenerationTable_Read,
           ieee8021PbServicePriorityRegenerationTable_Check, ieee8021PbServicePriorityRegenerationTable_Write),
   ieee8021PbCnpTable |->
     Table(ieee8021PbCnpTable_Index, ieee8021PbCnpTable_Read,
           ieee8021PbCnpTable_Check, ieee8021PbCnpTable_Write),
   ieee8021PbPnpTable |->
     Table(ieee8021PbPnpTable_Index, ieee8021PbPnpTable_Read,
           ieee8021PbPnpTable_Check, ieee8021PbPnpTable_Write),
   ieee8021PbCepTable |->
     Table(ieee8021PbCepTable_Index, ieee8021PbCepTable_Read,
           ieee8021PbCepTable_Check, ieee8021PbCepTable_Write),
   ieee8021PbRcapTable |->
     Table(ieee8021PbRcapTable_Index, ieee8021PbRcapTable_Read,
           ieee8021PbRcapTable_Check, ieee8021PbRcapTable_Write),
   ieee8021PbInternalInterfaceTable |->
     Table(ieee8021PbInternalInterfaceTable_Index, ieee8021PbInternalInterfaceTable_Read,
           ieee8021PbInternalInterfaceTable_Check, ieee8021PbInternalInterfaceTable_Write)]

-----------------------------------------------------------------------------
(* bridge/ieee8021PbbMib.c                                                 *)

(* ieee8021PbbBackboneEdgeBridgeObjects *)
ieee8021PbbBackboneEdgeBridgeObjects_Read ==
  Counted("OCTET_STR", {"au8BackboneEdgeBridgeAddress",
                        "au8BackboneEdgeBridgeName"}) @@
  Value("UNSIGNED", {"u32NumberOfIComponents", "u32NumberOfBComponents",
                     "u32NumberOfBebPorts"}) @@
  Value("INTEGER", {"u32NextAvailablePipIfIndex"})
ieee8021PbbBackboneEdgeBridgeObjects_Check ==
  Scalars(
    OfFirst("OCTET_STR", {"au8BackboneEdgeBridgeName"}))
ieee8021PbbBackboneEdgeBridgeObjects_Write ==
  InPlace(0, {"au8BackboneEdgeBridgeName"})

(* ieee8021PbbVipTable *)
ieee8021PbbVipTable_Index ==
  Rows(
    <<Unsigned(32, "u32BridgeBasePortComponentId"),
      Unsigned(32, "u32BridgeBasePort")>>)
ieee8021PbbVipTable_Read ==
  Value("INTEGER", {"u32PipIfIndex", "u8RowStatus", "u8EnableConnectionId"}) @@
  Value("UNSIGNED", {"u32ISid"}) @@
  Counted("OCTET_STR", {"au8DefaultDstBMAC", "au8Type"})
ieee8021PbbVipTable_Check ==
  CommitRows("u8RowStatus",
    OfFirst("UNSIGNED", {"u32ISid"}) @@
    Sized("OCTET_STR", {"au8Type"}) @@
    OfFirst("INTEGER", {"u8EnableConnectionId"}))
ieee8021PbbVipTable_Write ==
  Word(32, {"u32ISid"}) @@
  Saved("counted", {"au8Type"}) @@
  Word(8, {"u8EnableConnectionId"}) @@
  AtCommit("u8RowStatus")

(* ieee8021PbbISidToVipTable *)
ieee8021PbbISidToVipTable_Index ==
  Rows(<<Unsigned(32, "u32ISid")>>)
ieee8021PbbISidToVipTable_Read ==
  Value("UNSIGNED", {"u32ComponentId", "u32Port"})

(* ieee8021PbbPipTable *)
ieee8021PbbPipTable_Index ==
  Rows(<<Signed(32, "u32IfIndex")>>)
ieee8021PbbPipTable_Read ==
  Counted("OCTET_STR", {"au8BMACAddress", "au8Name", "au8VipMap", "au8VipMap1",
                        "au8VipMap2", "au8VipMap3", "au8VipMap4"}) @@
  Value("UNSIGNED", {"u32IComponentId"}) @@
  Value("INTEGER", {"u8RowStatus"})
ieee8021PbbPipTable_Check ==
  CommitRows("u8RowStatus",
    Sized("OCTET_STR", {"au8BMACAddress", "au8Name", "au8VipMap", "au8VipMap1",
                        "au8VipMap2", "au8VipMap3", "au8VipMap4"}))
ieee8021PbbPipTable_Write ==
  Saved("counted", {"au8BMACAddress", "au8Name", "au8VipMap", "au8VipMap1",
                    "au8VipMap2", "au8VipMap3", "au8VipMap4"}) @@
  AtCommit("u8RowStatus")

(* ieee8021PbbPipPriorityTable *)
ieee8021PbbPipPriorityTable_Index ==
  Rows(<<Signed(32, "u32IfIndex")>>)
ieee8021PbbPipPriorityTable_Read ==
  Value("INTEGER", {"i32CodePointSelection", "u8UseDEI",
                    "u8RequireDropEncoding"})
ieee8021PbbPipPriorityTable_Check ==
  FixedRows(
    OfFirst("INTEGER", {"i32CodePointSelection", "u8UseDEI",
                        "u8RequireDropEncoding"}))
ieee8021PbbPipPriorityTable_Write ==
  Word(32, {"i32CodePointSelection"}) @@
  Word(8, {"u8UseDEI", "u8RequireDropEncoding"})

(* ieee8021PbbPipDecodingTable *)
ieee8021PbbPipDecodingTable_Index ==
  Rows(
    <<Signed(32, "u32IfIndex"),
      Signed(32, "i32PriorityCodePointRow"),
      Signed(32, "i32PriorityCodePoint")>>)
ieee8021PbbPipDecodingTable_Read ==
  Value("UNSIGNED", {"u32Priority"}) @@
  Value("INTEGER", {"u8DropEligible"})
ieee8021PbbPipDecodingTable_Check ==
  FixedRows(
    OfFirst("UNSIGNED", {"u32Priority"}) @@
    OfFirst("INTEGER", {"u8DropEligible"}))
ieee8021PbbPipDecodingTable_Write ==
  Word(32, {"u32Priority"}) @@
  Word(8, {"u8DropEligible"})

(* ieee8021PbbPipEncodingTable *)
ieee8021PbbPipEncodingTable_Index ==
  Rows(
    <<Signed(32, "u32IfIndex"),
      Signed(32, "i32PriorityCodePointRow"),
      Signed(32, "i32PriorityCodePoint"),
      Signed(8, "u8DropEligible")>>)
ieee8021PbbPipEncodingTable_Read ==
  Value("UNSIGNED", {"u32Priority"})
ieee8021PbbPipEncodingTable_Check ==
  FixedRows(
    OfFirst("UNSIGNED", {"u32Priority"}))
ieee8021PbbPipEncodingTable_Write ==
  Word(32, {"u32Priority"})

(* ieee8021PbbVipToPipMappingTable *)
ieee8021PbbVipToPipMappingTable_Index ==
  Rows(
    <<Unsigned(32, "u32BridgeBasePortComponentId"),
      Unsigned(32, "u32BridgeBasePort")>>)
ieee8021PbbVipToPipMappingTable_Read ==
  Value("INTEGER", {"u32PipIfIndex", "u8StorageType", "u8RowStatus"})
ieee8021PbbVipToPipMappingTable_Check ==
  CommitRows("u8RowStatus",
    OfFirst("INTEGER", {"u32PipIfIndex", "u8StorageType"}))
ieee8021PbbVipToPipMappingTable_Write ==
  Word(32, {"u32PipIfIndex"}) @@
  Word(8, {"u8StorageType"}) @@
  AtCommit("u8RowStatus")

(* ieee8021PbbCbpServiceMappingTable *)
ieee8021PbbCbpServiceMappingTable_Index ==
  Rows(
    <<Unsigned(32, "u32BridgeBasePortComponentId"),
      Unsigned(32, "u32BridgeBasePort"),
      Unsigned(32, "u32BackboneSid")>>)
ieee8021PbbCbpServiceMappingTable_Read ==
  Value("INTEGER", {"u32BVid", "u8RowStatus"}) @@
  Counted("OCTET_STR", {"au8DefaultBackboneDest", "au8Type"}) @@
  Value("UNSIGNED", {"u32LocalSid"})
ieee8021PbbCbpServiceMappingTable_Check ==
  CommitRows("u8RowStatus",
    OfFirst("INTEGER", {"u32BVid"}) @@
    Sized("OCTET_STR", {"au8DefaultBackboneDest", "au8Type"}) @@
    OfFirst("UNSIGNED", {"u32LocalSid"}))
ieee8021PbbCbpServiceMappingTable_Write ==
  Word(32, {"u32BVid", "u32LocalSid"}) @@
  Saved("counted", {"au8DefaultBackboneDest", "au8Type"}) @@
  AtCommit("u8RowStatus")

(* ieee8021PbbCbpTable *)
ieee8021PbbCbpTable_Index ==
  Rows(
    <<Unsigned(32, "u32BridgeBasePortComponentId"),
      Unsigned(32, "u32BridgeBasePort")>>)
ieee8021PbbCbpTable_Read ==
  Value("INTEGER", {"u8RowStatus"})
ieee8021PbbCbpTable_Check ==
  CommitRows("u8RowStatus", NoColumns)
ieee8021PbbCbpTable_Write ==
  AtCommit("u8RowStatus")

ieee8021PbbMib_tables ==
  [ieee8021PbbBackboneEdgeBridgeObjects |->
     Table(NoIndex, ieee8021PbbBackboneEdgeBridgeObjects_Read,
           ieee8021PbbBackboneEdgeBridgeObjects_Check, ieee8021PbbBackboneEdgeBridgeObjects_Write),
   ieee8021PbbVipTable |->
     Table(ieee8021PbbVipTable_Index, ieee8021PbbVipTable_Read,
           ieee8021PbbVipTable_Check, ieee8021PbbVipTable_Write),
   ieee8021PbbISidToVipTable |-> ReadOnly(ieee8021PbbISidToVipTable_Index, ieee8021PbbISidToVipTable_Read),
   ieee8021PbbPipTable |->
     Table(ieee8021PbbPipTable_Index, ieee8021PbbPipTable_Read,
           ieee8021PbbPipTable_Check, ieee8021PbbPipTable_Write),
   ieee8021PbbPipPriorityTable |->
     Table(ieee8021PbbPipPriorityTable_Index, ieee8021PbbPipPriorityTable_Read,
           ieee8021PbbPipPriorityTable_Check, ieee8021PbbPipPriorityTable_Write),
   ieee8021PbbPipDecodingTable |->
     Table(ieee8021PbbPipDecodingTable_Index, ieee8021PbbPipDecodingTable_Read,
           ieee8021PbbPipDecodingTable_Check, ieee8021PbbPipDecodingTable_Write),
   ieee8021PbbPipEncodingTable |->
     Table(ieee8021PbbPipEncodingTable_Index, ieee8021PbbPipEncodingTable_Read,
           ieee8021PbbPipEncodingTable_Check, ieee8021PbbPipEncodingTable_Write),
   ieee8021PbbVipToPipMappingTable |->
     Table(ieee8021PbbVipToPipMappingTable_Index, ieee8021PbbVipToPipMappingTable_Read,
           ieee8021PbbVipToPipMappingTable_Check, ieee8021PbbVipToPipMappingTable_Write),
   ieee8021PbbCbpServiceMappingTable |->
     Table(ieee8021PbbCbpServiceMappingTable_Index, ieee8021PbbCbpServiceMappingTable_Read,
           ieee8021PbbCbpServiceMappingTable_Check, ieee8021PbbCbpServiceMappingTable_Write),
   ieee8021PbbCbpTable |->
     Table(ieee8021PbbCbpTable_Index, ieee8021PbbCbpTable_Read,
           ieee8021PbbCbpTable_Check, ieee8021PbbCbpTable_Write)]

-----------------------------------------------------------------------------
(* bridge/ieee8021PbbTeMib.c                                               *)

(* ieee8021PbbTeProtectionGroupListTable *)
ieee8021PbbTeProtectionGroupListTable_Index ==
  Rows(
    <<Unsigned(32, "u32BridgeBaseComponentId"), Unsigned(32, "u32GroupId")>>)
ieee8021PbbTeProtectionGroupListTable_Read ==
  Value("UNSIGNED", {"u32MD", "u32WorkingMA", "u32ProtectionMA"}) @@
  Value("INTEGER", {"u8StorageType", "u8RowStatus"})
ieee8021PbbTeProtectionGroupListTable_Check ==
  CommitRows("u8RowStatus",
    OfFirst("UNSIGNED", {"u32MD", "u32WorkingMA", "u32ProtectionMA"}) @@
    OfFirst("INTEGER", {"u8StorageType"}))
ieee8021PbbTeProtectionGroupListTable_Write ==
  Word(32, {"u32MD", "u32WorkingMA", "u32ProtectionMA"}) @@
  Word(8, {"u8StorageType"}) @@
  AtCommit("u8RowStatus")

(* ieee8021PbbTeMASharedGroupTable *)
ieee8021PbbTeMASharedGroupTable_Index ==
  Rows(
    <<Unsigned(32, "u32BridgeBaseComponentId"),
      Unsigned(32, "u32PbbTeProtectionGroupListGroupId"),
      Unsigned(32, "u32SubIndex")>>)
ieee8021PbbTeMASharedGroupTable_Read ==
  Value("UNSIGNED", {"u32Id"})

(* ieee8021PbbTeTesiTable *)
ieee8021PbbTeTesiTable_Index ==
  Rows(<<Unsigned(32, "u32Id")>>)
ieee8021PbbTeTesiTable_Read ==
  Value("UNSIGNED", {"u32Component", "u32BridgePort"}) @@
  Value("INTEGER", {"u8StorageType", "u8RowStatus"})
ieee8021PbbTeTesiTable_Check ==
  CommitRows("u8RowStatus",
    OfFirst("UNSIGNED", {"u32Component", "u32BridgePort"}) @@
    OfFirst("INTEGER", {"u8StorageType"}))
ieee8021PbbTeTesiTable_Write ==
  Word(32, {"u32Component", "u32BridgePort"}) @@
  Word(8, {"u8StorageType"}) @@
  AtCommit("u8RowStatus")

(* ieee8021PbbTeTeSiEspTable *)
ieee8021PbbTeTeSiEspTable_Index ==
  Rows(<<Unsigned(32, "u32TesiId"), Unsigned(32, "u32EspIndex")>>)
ieee8021PbbTeTeSiEspTable_Read ==
  Counted("OCTET_STR", {"au8Esp"}) @@
  Value("INTEGER", {"u8StorageType", "u8RowStatus"})
ieee8021PbbTeTeSiEspTable_Check ==
  CommitRows("u8RowStatus",
    Sized("OCTET_STR", {"au8Esp"}) @@
    OfFirst("INTEGER", {"u8StorageType"}))
ieee8021PbbTeTeSiEspTable_Write ==
  Saved("counted", {"au8Esp"}) @@
  Word(8, {"u8StorageType"}) @@
  AtCommit("u8RowStatus")

(* ieee8021PbbTeProtectionGroupConfigTable *)
ieee8021PbbTeProtectionGroupConfigTable_Index ==
  Rows(
    <<Unsigned(32, "u32BridgeBaseComponentId"),
      Unsigned(32, "u32PbbTeProtectionGroupListGroupId")>>)
ieee8021PbbTeProtectionGroupConfigTable_Read ==
  Value("INTEGER", {"i32State", "i32CommandStatus", "i32CommandLast",
                    "i32CommandAdmin", "i32ActiveRequests", "u8NotifyEnable",
                    "u8StorageType"}) @@
  Value("UNSIGNED", {"u32WTR", "u32HoldOff"})
ieee8021PbbTeProtectionGroupConfigTable_Check ==
  ColumnRows(
    OfFirst("INTEGER", {"i32CommandAdmin", "u8NotifyEnable", "u8StorageType"}) @@
    OfFirst("UNSIGNED", {"u32WTR", "u32HoldOff"}))
ieee8021PbbTeProtectionGroupConfigTable_Write ==
  Word(32, {"i32CommandAdmin", "u32WTR", "u32HoldOff"}) @@
  Word(8, {"u8NotifyEnable", "u8StorageType"})

(* ieee8021PbbTeProtectionGroupISidTable *)
ieee8021PbbTeProtectionGroupISidTable_Index ==
  Rows(<<Unsigned(32, "u32Index")>>)
ieee8021PbbTeProtectionGroupISidTable_Read ==
  Value("UNSIGNED", {"u32ComponentId", "u32GroupId"}) @@
  Value("INTEGER", {"u8StorageType", "u8RowStatus"})
ieee8021PbbTeProtectionGroupISidTable_Check ==
  CommitRows("u8RowStatus",
    OfFirst("UNSIGNED", {"u32ComponentId", "u32GroupId"}) @@
    OfFirst("INTEGER", {"u8StorageType"}))
ieee8021PbbTeProtectionGroupISidTable_Write ==
  Word(32, {"u32ComponentId", "u32GroupId"}) @@
  Word(8, {"u8StorageType"}) @@
  AtCommit("u8RowStatus")

(* ieee8021PbbTeBridgeStaticForwardAnyUnicastTable *)
ieee8021PbbTeBridgeStaticForwardAnyUnicastTable_Index ==
  Rows(
    <<Unsigned(32, "u32QBridgeVlanCurrentComponentId"),
      Unsigned(32, "u32VlanIndex")>>)
ieee8021PbbTeBridgeStaticForwardAnyUnicastTable_Read ==
  Counted("OCTET_STR", {"au8EgressPorts", "au8ForbiddenPorts"}) @@
  Value("INTEGER", {"u8StorageType", "u8RowStatus"})
ieee8021PbbTeBridgeStaticForwardAnyUnicastTable_Check ==
  CommitRows("u8RowStatus",
    Sized("OCTET_STR", {"au8EgressPorts", "au8ForbiddenPorts"}) @@
    OfFirst("INTEGER", {"u8StorageType"}))
ieee8021PbbTeBridgeStaticForwardAnyUnicastTable_Write ==
  Saved("counted", {"au8EgressPorts", "au8ForbiddenPorts"}) @@
  Word(8, {"u8StorageType"}) @@
  AtCommit("u8RowStatus")

ieee8021PbbTeMib_tables ==
  [ieee8021PbbTeProtectionGroupListTable |->
     Table(ieee8021PbbTeProtectionGroupListTable_Index, ieee8021PbbTeProtectionGroupListTable_Read,
           ieee8021PbbTeProtectionGroupListTable_Check, ieee8021PbbTeProtectionGroupListTable_Write),
   ieee8021PbbTeMASharedGroupTable |-> ReadOnly(ieee8021PbbTeMASharedGroupTable_Index, ieee8021PbbTeMASharedGroupTable_Read),
   ieee8021PbbTeTesiTable |->
     Table(ieee8021PbbTeTesiTable_Index, ieee8021PbbTeTesiTable_Read,
           ieee8021PbbTeTesiTable_Check, ieee8021PbbTeTesiTable_Write),
   ieee8021PbbTeTeSiEspTable |->
     Table(ieee8021PbbTeTeSiEspTable_Index, ieee8021PbbTeTeSiEspTable_Read,
           ieee8021PbbTeTeSiEspTable_Check, ieee8021PbbTeTeSiEspTable_Write),
   ieee8021PbbTeProtectionGroupConfigTable |->
     Table(ieee8021PbbTeProtectionGroupConfigTable_Index, ieee8021PbbTeProtectionGroupConfigTable_Read,
           ieee8021PbbTeProtectionGroupConfigTable_Check, ieee8021PbbTeProtectionGroupConfigTable_Write),
   ieee8021PbbTeProtectionGroupISidTable |->
     Table(ieee8021PbbTeProtectionGroupISidTable_Index, ieee8021PbbTeProtectionGroupISidTable_Read,
           ieee8021PbbTeProtectionGroupISidTable_Check, ieee8021PbbTeProtectionGroupISidTable_Write),
   ieee8021PbbTeBridgeStaticForwardAnyUnicastTable |->
     Table(ieee8021PbbTeBridgeStaticForwardAnyUnicastTable_Index, ieee8021PbbTeBridgeStaticForwardAnyUnicastTable_Read,
           ieee8021PbbTeBridgeStaticForwardAnyUnicastTable_Check, ieee8021PbbTeBridgeStaticForwardAnyUnicastTable_Write)]

=============================================================================
