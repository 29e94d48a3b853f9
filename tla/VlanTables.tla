------------------------------ MODULE VlanTables ------------------------------
(***************************************************************************)
(* The tables of VLANs, filtering databases and learning constraints       *)
(* (ethernet/).                                                            *)
(***************************************************************************)
EXTENDS Tables

-----------------------------------------------------------------------------
(* ethernet/ieee8021QBridgeMib.c                                           *)

(* ieee8021QBridgeVlan *)
ieee8021QBridgeVlan_Read ==
  Value("COUNTER64", {"u64NumDeletes"})

(* ieee8021QBridgeTable *)
ieee8021QBridgeTable_Index ==
  RowsOf("ieee8021BridgeBaseTable", <<Unsigned(32, "u32ComponentId")>>)
ieee8021QBridgeTable_Read ==
  Value("INTEGER", {"i32VlanVersionNumber", "u32MaxVlanId",
                    "u8MvrpEnabledStatus"}) @@
  Value("UNSIGNED", {"u32MaxSupportedVlans"}) @@
  Value("GAUGE", {"u32NumVlans"})
ieee8021QBridgeTable_Check ==
  FixedRows(
    OfFirst("INTEGER", {"u8MvrpEnabledStatus"}))
ieee8021QBridgeTable_Write ==
  Word(8, {"u8MvrpEnabledStatus"})

(* ieee8021QBridgeCVlanPortTable *)
ieee8021QBridgeCVlanPortTable_Index ==
  Rows(<<Unsigned(32, "u32ComponentId"), Unsigned(32, "u32Number")>>)
ieee8021QBridgeCVlanPortTable_Read ==
  Value("INTEGER", {"u8RowStatus"})
ieee8021QBridgeCVlanPortTable_Check ==
  [HandlerRows("u8RowStatus",
    NoColumns) EXCEPT
    !.creates = {"createAndWait"}]
ieee8021QBridgeCVlanPortTable_Write ==
  AtAction("u8RowStatus", "removeEntry")

(* ieee8021QBridgeFdbTable *)
ieee8021QBridgeFdbTable_Index ==
  Rows(<<Unsigned(32, "u32ComponentId"), Unsigned(32, "u32Id")>>)
ieee8021QBridgeFdbTable_Read ==
  Value("GAUGE", {"u32DynamicCount"}) @@
  Value("COUNTER64", {"u64LearnedEntryDiscards"}) @@
  Value("INTEGER", {"i32AgingTime"})
ieee8021QBridgeFdbTable_Check ==
  FixedRows(
    OfFirst("INTEGER", {"i32AgingTime"}))
ieee8021QBridgeFdbTable_Write ==
  Word(32, {"i32AgingTime"})

(* ieee8021QBridgeTpFdbTable *)
ieee8021QBridgeTpFdbTable_Index ==
  Rows(
    <<Unsigned(32, "u32FdbComponentId"),
      Unsigned(32, "u32FdbId"),
      Octets("au8Address")>>)
ieee8021QBridgeTpFdbTable_Read ==
  Value("UNSIGNED", {"u32Port"}) @@
  Value("INTEGER", {"i32Status"})

(* ieee8021QBridgeTpGroupTable *)
ieee8021QBridgeTpGroupTable_Index ==
  Rows(
    <<Unsigned(32, "u32VlanCurrentComponentId"),
      Unsigned(32, "u32VlanIndex"),
      Octets("au8Address")>>)
ieee8021QBridgeTpGroupTable_Read ==
  Counted("OCTET_STR", {"pu8EgressPorts", "pu8Learnt"})

(* ieee8021QBridgeForwardAllTable *)
ieee8021QBridgeForwardAllTable_Index ==
  Rows(
    <<Unsigned(32, "u32VlanCurrentComponentId"),
      Unsigned(32, "u32VlanIndex")>>)
ieee8021QBridgeForwardAllTable_Read ==
  Counted("OCTET_STR", {"pu8Ports", "pu8StaticPorts", "pu8ForbiddenPorts"})
ieee8021QBridgeForwardAllTable_Check ==
  FixedRows(
    Held("OCTET_STR", {"pu8StaticPorts", "pu8ForbiddenPorts"}))
ieee8021QBridgeForwardAllTable_Write ==
  Saved("counted", {"pu8StaticPorts", "pu8ForbiddenPorts"})

(* ieee8021QBridgeForwardUnregisteredTable *)
ieee8021QBridgeForwardUnregisteredTable_Index ==
  Rows(
    <<Unsigned(32, "u32VlanCurrentComponentId"),
      Unsigned(32, "u32VlanIndex")>>)
ieee8021QBridgeForwardUnregisteredTable_Read ==
  Counted("OCTET_STR", {"pu8Ports", "pu8StaticPorts", "pu8ForbiddenPorts"})
ieee8021QBridgeForwardUnregisteredTable_Check ==
  FixedRows(
    Held("OCTET_STR", {"pu8StaticPorts", "pu8ForbiddenPorts"}))
ieee8021QBridgeForwardUnregisteredTable_Write ==
  Saved("counted", {"pu8StaticPorts", "pu8ForbiddenPorts"})

(* ieee8021QBridgeStaticUnicastTable *)
ieee8021QBridgeStaticUnicastTable_Index ==
  Rows(
    <<Unsigned(32, "u32ComponentId"),
      Unsigned(32, "u32VlanIndex"),
      Octets("au8Address"),
      Unsigned(32, "u32ReceivePort")>>)
ieee8021QBridgeStaticUnicastTable_Read ==
  Counted("OCTET_STR", {"pu8StaticEgressPorts", "pu8ForbiddenEgressPorts"}) @@
  Value("INTEGER", {"u8StorageType", "u8RowStatus"})
ieee8021QBridgeStaticUnicastTable_Check ==
  [CommitRows("u8RowStatus",
    Held("OCTET_STR", {"pu8StaticEgressPorts", "pu8ForbiddenEgressPorts"}) @@
    OfFirst("INTEGER", {"u8StorageType"})) EXCEPT
    !.needs = "ieee8021BridgeBaseTable"]
ieee8021QBridgeStaticUnicastTable_Write ==
  Saved("counted", {"pu8StaticEgressPorts", "pu8ForbiddenEgressPorts"}) @@
  Word(8, {"u8StorageType"}) @@
  AtCommit("u8RowStatus")

(* ieee8021QBridgeStaticMulticastTable *)
ieee8021QBridgeStaticMulticastTable_Index ==
  Rows(
    <<Unsigned(32, "u32VlanCurrentComponentId"),
      Unsigned(32, "u32VlanIndex"),
      Octets("au8Address"),
      Unsigned(32, "u32ReceivePort")>>)
ieee8021QBridgeStaticMulticastTable_Read ==
  Counted("OCTET_STR", {"pu8StaticEgressPorts", "pu8ForbiddenEgressPorts"}) @@
  Value("INTEGER", {"u8StorageType", "u8RowStatus"})
ieee8021QBridgeStaticMulticastTable_Check ==
  [CommitRows("u8RowStatus",
    Held("OCTET_STR", {"pu8StaticEgressPorts", "pu8ForbiddenEgressPorts"}) @@
    OfFirst("INTEGER", {"u8StorageType"})) EXCEPT
    !.needs = "ieee8021BridgeBaseTable"]
ieee8021QBridgeStaticMulticastTable_Write ==
  Saved("counted", {"pu8StaticEgressPorts", "pu8ForbiddenEgressPorts"}) @@
  Word(8, {"u8StorageType"}) @@
  AtCommit("u8RowStatus")

(* ieee8021QBridgeVlanCurrentTable *)
ieee8021QBridgeVlanCurrentTable_Index ==
  Rows(
    <<Ticks(32, "u32TimeMark"),
      Unsigned(32, "u32ComponentId"),
      Unsigned(32, "u32Index")>>)
ieee8021QBridgeVlanCurrentTable_Read ==
  Value("UNSIGNED", {"u32FdbId"}) @@
  Counted("OCTET_STR", {"pu8EgressPorts", "pu8UntaggedPorts"}) @@
  Value("INTEGER", {"i32Status"}) @@
  Value("TIMETICKS", {"u32CreationTime"})

(* ieee8021QBridgeVlanStaticTable *)
ieee8021QBridgeVlanStaticTable_Index ==
  Rows(<<Unsigned(32, "u32ComponentId"), Unsigned(32, "u32VlanIndex")>>)
ieee8021QBridgeVlanStaticTable_Read ==
  Counted("OCTET_STR", {"au8Name", "au8EgressPorts", "au8ForbiddenEgressPorts",
                        "au8UntaggedPorts"}) @@
  Value("INTEGER", {"u8RowStatus"})
ieee8021QBridgeVlanStaticTable_Check ==
  CommitRows("u8RowStatus",
    Sized("OCTET_STR", {"au8Name", "au8EgressPorts", "au8ForbiddenEgressPorts",
                        "au8UntaggedPorts"}))
ieee8021QBridgeVlanStaticTable_Write ==
  Saved("counted", {"au8Name", "au8EgressPorts", "au8ForbiddenEgressPorts",
                    "au8UntaggedPorts"}) @@
  AtCommit("u8RowStatus")

(* ieee8021QBridgeNextFreeLocalVlanTable *)
ieee8021QBridgeNextFreeLocalVlanTable_Index ==
  RowsOf("ieee8021BridgeBaseTable", <<Unsigned(32, "u32ComponentId")>>)
ieee8021QBridgeNextFreeLocalVlanTable_Read ==
  Value("UNSIGNED", {"u32Index"})

(* ieee8021QBridgePortTable *)
ieee8021QBridgePortTable_Index ==
  Rows(
    <<Unsigned(32, "u32BridgeBasePortComponentId"),
      Unsigned(32, "u32BridgeBasePort")>>)
ieee8021QBridgePortTable_Read ==
  Value("UNSIGNED", {"u32PVid"}) @@
  Value("INTEGER", {"i32AcceptableFrameTypes", "u8IngressFiltering",
                    "u8MvrpEnabledStatus", "u8RestrictedVlanRegistration"}) @@
  Value("COUNTER64", {"u64MvrpFailedRegistrations"}) @@
  Counted("OCTET_STR", {"au8MvrpLastPduOrigin"})
ieee8021QBridgePortTable_Check ==
  FixedRows(
    OfFirst("UNSIGNED", {"u32PVid"}) @@
    OfFirst("INTEGER", {"i32AcceptableFrameTypes", "u8IngressFiltering",
                        "u8MvrpEnabledStatus", "u8RestrictedVlanRegistration"}))
ieee8021QBridgePortTable_Write ==
  Word(32, {"u32PVid", "i32AcceptableFrameTypes"}) @@
  Word(8, {"u8IngressFiltering", "u8MvrpEnabledStatus",
           "u8RestrictedVlanRegistration"})

(* ieee8021QBridgePortVlanStatisticsTable *)
ieee8021QBridgePortVlanStatisticsTable_Index ==
  Rows(
    <<Unsigned(32, "u32BridgeBasePortComponentId"),
      Unsigned(32, "u32BridgeBasePort"),
      Unsigned(32, "u32VlanIndex")>>)
ieee8021QBridgePortVlanStatisticsTable_Read ==
  Value("COUNTER64", {"u64InFrames", "u64OutFrames", "u64InDiscards"})

(* ieee8021QBridgeLearningConstraintsTable *)
ieee8021QBridgeLearningConstraintsTable_Index ==
  Rows(
    <<Unsigned(32, "u32ComponentId"),
      Unsigned(32, "u32Vlan"),
      Signed(32, "i32Set")>>)
ieee8021QBridgeLearningConstraintsTable_Read ==
  Value("INTEGER", {"i32Type", "u8Status"})
ieee8021QBridgeLearningConstraintsTable_Check ==
  HandlerRows("u8Status",
    OfFirst("INTEGER", {"i32Type"}))
ieee8021QBridgeLearningConstraintsTable_Write ==
  Handled(32, {"i32Type"}) @@
  AtAction("u8Status", "removeEntry")

(* ieee8021QBridgeLearningConstraintDefaultsTable *)
ieee8021QBridgeLearningConstraintDefaultsTable_Index ==
  RowsOf("ieee8021BridgeBaseTable", <<Unsigned(32, "u32ComponentId")>>)
ieee8021QBridgeLearningConstraintDefaultsTable_Read ==
  Value("INTEGER", {"i32Set", "i32Type"})
ieee8021QBridgeLearningConstraintDefaultsTable_Check ==
  FixedRows(
    OfFirst("INTEGER", {"i32Set", "i32Type"}))
ieee8021QBridgeLearningConstraintDefaultsTable_Write ==
  Word(32, {"i32Set", "i32Type"})

(* ieee8021QBridgeProtocolGroupTable *)
ieee8021QBridgeProtocolGroupTable_Index ==
  Rows(
    <<Unsigned(32, "u32ComponentId"),
      Signed(32, "i32TemplateFrameType"),
      Octets("au8TemplateProtocolValue")>>)
ieee8021QBridgeProtocolGroupTable_Read ==
  Value("INTEGER", {"i32Id", "u8RowStatus"})
ieee8021QBridgeProtocolGroupTable_Check ==
  CommitRows("u8RowStatus",
    OfFirst("INTEGER", {"i32Id"}))
ieee8021QBridgeProtocolGroupTable_Write ==
  Word(32, {"i32Id"}) @@
  AtCommit("u8RowStatus")

(* ieee8021QBridgeProtocolPortTable *)
ieee8021QBridgeProtocolPortTable_Index ==
  Rows(
    <<Unsigned(32, "u32BridgeBasePortComponentId"),
      Unsigned(32, "u32BridgeBasePort"),
      Signed(32, "i32GroupId")>>)
ieee8021QBridgeProtocolPortTable_Read ==
  Value("INTEGER", {"u32GroupVid", "u8RowStatus"})
ieee8021QBridgeProtocolPortTable_Check ==
  CommitRows("u8RowStatus",
    OfFirst("INTEGER", {"u32GroupVid"}))
ieee8021QBridgeProtocolPortTable_Write ==
  Word(32, {"u32GroupVid"}) @@
  AtCommit("u8RowStatus")

(* ieee8021QBridgeIngressVidXTable *)
ieee8021QBridgeIngressVidXTable_Index ==
  Rows(
    <<Unsigned(32, "u32BridgeBasePortComponentId"),
      Unsigned(32, "u32BridgeBasePort"),
      Signed(32, "u32LocalVid")>>)
ieee8021QBridgeIngressVidXTable_Read ==
  Value("INTEGER", {"u32RelayVid", "u8RowStatus"})
ieee8021QBridgeIngressVidXTable_Check ==
  CommitRows("u8RowStatus",
    OfFirst("INTEGER", {"u32RelayVid"}))
ieee8021QBridgeIngressVidXTable_Write ==
  Word(32, {"u32RelayVid"}) @@
  AtCommit("u8RowStatus")

(* ieee8021QBridgeEgressVidXTable *)
ieee8021QBridgeEgressVidXTable_Index ==
  Rows(
    <<Unsigned(32, "u32BridgeBaseComponentId"),
      Unsigned(32, "u32BridgeBasePort"),
      Signed(32, "u32RelayVid")>>)
ieee8021QBridgeEgressVidXTable_Read ==
  Value("INTEGER", {"u32LocalVid", "u8RowStatus"})
ieee8021QBridgeEgressVidXTable_Check ==
  CommitRows("u8RowStatus",
    OfFirst("INTEGER", {"u32LocalVid"}))
ieee8021QBridgeEgressVidXTable_Write ==
  Word(32, {"u32LocalVid"}) @@
  AtCommit("u8RowStatus")

ieee8021QBridgeMib_tables ==
  [ieee8021QBridgeVlan |-> ReadOnly(NoIndex, ieee8021QBridgeVlan_Read),
   ieee8021QBridgeTable |->
     Table(ieee8021QBridgeTable_Index, ieee8021QBridgeTable_Read,
           ieee8021QBridgeTable_Check, ieee8021QBridgeTable_Write),
   ieee8021QBridgeCVlanPortTable |->
     Table(ieee8021QBridgeCVlanPortTable_Index, ieee8021QBridgeCVlanPortTable_Read,
           ieee8021QBridgeCVlanPortTable_Check, ieee8021QBridgeCVlanPortTable_Write),
   ieee8021QBridgeFdbTable |->
     Table(ieee8021QBridgeFdbTable_Index, ieee8021QBridgeFdbTable_Read,
           ieee8021QBridgeFdbTable_Check, ieee8021QBridgeFdbTable_Write),
   ieee8021QBridgeTpFdbTable |-> ReadOnly(ieee8021QBridgeTpFdbTable_Index, ieee8021QBridgeTpFdbTable_Read),
   ieee8021QBridgeTpGroupTable |-> ReadOnly(ieee8021QBridgeTpGroupTable_Index, ieee8021QBridgeTpGroupTable_Read),
   ieee8021QBridgeForwardAllTable |->
     Table(ieee8021QBridgeForwardAllTable_Index, ieee8021QBridgeForwardAllTable_Read,
           ieee8021QBridgeForwardAllTable_Check, ieee8021QBridgeForwardAllTable_Write),
   ieee8021QBridgeForwardUnregisteredTable |->
     Table(ieee8021QBridgeForwardUnregisteredTable_Index, ieee8021QBridgeForwardUnregisteredTable_Read,
           ieee8021QBridgeForwardUnregisteredTable_Check, ieee8021QBridgeForwardUnregisteredTable_Write),
   ieee8021QBridgeStaticUnicastTable |->
     Table(ieee8021QBridgeStaticUnicastTable_Index, ieee8021QBridgeStaticUnicastTable_Read,
           ieee8021QBridgeStaticUnicastTable_Check, ieee8021QBridgeStaticUnicastTable_Write),
   ieee8021QBridgeStaticMulticastTable |->
     Table(ieee8021QBridgeStaticMulticastTable_Index, ieee8021QBridgeStaticMulticastTable_Read,
           ieee8021QBridgeStaticMulticastTable_Check, ieee8021QBridgeStaticMulticastTable_Write),
   ieee8021QBridgeVlanCurrentTable |-> ReadOnly(ieee8021QBridgeVlanCurrentTable_Index, ieee8021QBridgeVlanCurrentTable_Read),
   ieee8021QBridgeVlanStaticTable |->
     Table(ieee8021QBridgeVlanStaticTable_Index, ieee8021QBridgeVlanStaticTable_Read,
           ieee8021QBridgeVlanStaticTable_Check, ieee8021QBridgeVlanStaticTable_Write),
   ieee8021QBridgeNextFreeLocalVlanTable |-> ReadOnly(ieee8021QBridgeNextFreeLocalVlanTable_Index, ieee8021QBridgeNextFreeLocalVlanTable_Read),
   ieee8021QBridgePortTable |->
     Table(ieee8021QBridgePortTable_Index, ieee8021QBridgePortTable_Read,
           ieee8021QBridgePortTable_Check, ieee8021QBridgePortTable_Write),
   ieee8021QBridgePortVlanStatisticsTable |-> ReadOnly(ieee8021QBridgePortVlanStatisticsTable_Index, ieee8021QBridgePortVlanStatisticsTable_Read),
   ieee8021QBridgeLearningConstraintsTable |->
     Table(ieee8021QBridgeLearningConstraintsTable_Index, ieee8021QBridgeLearningConstraintsTable_Read,
           ieee8021QBridgeLearningConstraintsTable_Check, ieee8021QBridgeLearningConstraintsTable_Write),
   ieee8021QBridgeLearningConstraintDefaultsTable |->
     Table(ieee8021QBridgeLearningConstraintDefaultsTable_Index, ieee8021QBridgeLearningConstraintDefaultsTable_Read,
           ieee8021QBridgeLearningConstraintDefaultsTable_Check, ieee8021QBridgeLearningConstraintDefaultsTable_Write),
   ieee8021QBridgeProtocolGroupTable |->
     Table(ieee8021QBridgeProtocolGroupTable_Index, ieee8021QBridgeProtocolGroupTable_Read,
           ieee8021QBridgeProtocolGroupTable_Check, ieee8021QBridgeProtocolGroupTable_Write),
   ieee8021QBridgeProtocolPortTable |->
     Table(ieee8021QBridgeProtocolPortTable_Index, ieee8021QBridgeProtocolPortTable_Read,
           ieee8021QBridgeProtocolPortTable_Check, ieee8021QBridgeProtocolPortTable_Write),
   ieee8021QBridgeIngressVidXTable |->
     Table(ieee8021QBridgeIngressVidXTable_Index, ieee8021QBridgeIngressVidXTable_Read,
           ieee8021QBridgeIngressVidXTable_Check, ieee8021QBridgeIngressVidXTable_Write),
   ieee8021QBridgeEgressVidXTable |->
     Table(ieee8021QBridgeEgressVidXTable_Index, ieee8021QBridgeEgressVidXTable_Read,
           ieee8021QBridgeEgressVidXTable_Check, ieee8021QBridgeEgressVidXTable_Write)]

=============================================================================
