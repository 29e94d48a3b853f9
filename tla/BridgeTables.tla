----------------------------- MODULE BridgeTables -----------------------------
(***************************************************************************)
(* The tables of bridge components and ports (ethernet/).                  *)
(***************************************************************************)
EXTENDS Tables

-----------------------------------------------------------------------------
(* ethernet/ieee8021BridgeMib.c                                            *)

(* ieee8021BridgeBaseTable *)
ieee8021BridgeBaseTable_Index ==
  Rows(<<Unsigned(32, "u32ComponentId")>>)
ieee8021BridgeBaseTable_Read ==
  Counted("OCTET_STR", {"au8BridgeAddress", "au8DeviceCapabilities"}) @@
  Value("INTEGER", {"i32NumPorts", "i32ComponentType",
                    "u8TrafficClassesEnabled", "u8MmrpEnabledStatus",
                    "u8RowStatus"})
ieee8021BridgeBaseTable_Check ==
  [HandlerRows("u8RowStatus",
    Sized("OCTET_STR", {"au8BridgeAddress", "au8DeviceCapabilities"}) @@
    OfFirst("INTEGER", {"i32ComponentType", "u8TrafficClassesEnabled",
                        "u8MmrpEnabledStatus"})) EXCEPT
    !.creates = {"createAndWait"},
    !.frozen = {"au8BridgeAddress", "i32ComponentType",
                "au8DeviceCapabilities"},
    !.tested = FALSE]
ieee8021BridgeBaseTable_Write ==
  Saved("counted", {"au8BridgeAddress", "au8DeviceCapabilities"}) @@
  Word(32, {"i32ComponentType"}) @@
  Handled(8, {"u8TrafficClassesEnabled", "u8MmrpEnabledStatus"}) @@
  AtAction("u8RowStatus", "removeExt")

(* ieee8021BridgeBasePortTable *)
ieee8021BridgeBasePortTable_Index ==
  Rows(<<Unsigned(32, "u32ComponentId"), Unsigned(32, "u32Port")>>)
ieee8021BridgeBasePortTable_Read ==
  Value("INTEGER", {"u32IfIndex", "i32Type", "u8External",
                    "i32AdminPointToPoint", "u8OperPointToPoint"}) @@
  Value("COUNTER64", {"u64DelayExceededDiscards", "u64MtuExceededDiscards"}) @@
  Counted("OCTET_STR", {"au8Capabilities", "au8TypeCapabilities", "au8Name"})
ieee8021BridgeBasePortTable_Check ==
  [FixedRows(
    OfFirst("INTEGER", {"u32IfIndex", "i32AdminPointToPoint"})) EXCEPT
    !.frozen = {"u32IfIndex", "i32AdminPointToPoint"}]
ieee8021BridgeBasePortTable_Write ==
  Word(32, {"u32IfIndex", "i32AdminPointToPoint"})

(* ieee8021BridgeBaseIfToPortTable *)
ieee8021BridgeBaseIfToPortTable_Index ==
  RowsOf("ieee8021BridgePhyPortTable_If", <<Signed(32, "u32IfIndex")>>)
ieee8021BridgeBaseIfToPortTable_Read ==
  Value("UNSIGNED", {"u32ComponentId", "u32Port"})

(* ieee8021BridgePhyPortTable *)
ieee8021BridgePhyPortTable_Index ==
  Rows(<<Unsigned(32, "u32Port")>>)
ieee8021BridgePhyPortTable_Read ==
  Value("INTEGER", {"u32IfIndex"}) @@
  Counted("OCTET_STR", {"au8MacAddress"}) @@
  Value("UNSIGNED", {"u32ComponentId", "u32Port"})

(* ieee8021BridgeTpPortTable *)
ieee8021BridgeTpPortTable_Index ==
  Rows(<<Unsigned(32, "u32ComponentId"), Unsigned(32, "u32Port")>>)
ieee8021BridgeTpPortTable_Read ==
  Value("INTEGER", {"i32MaxInfo"}) @@
  Value("COUNTER64", {"u64InFrames", "u64OutFrames", "u64InDiscards"})

(* ieee8021BridgePortPriorityTable *)
ieee8021BridgePortPriorityTable_Index ==
  RowsOf("ieee8021BridgeBasePortTable", 
    <<Unsigned(32, "u32ComponentId"), Unsigned(32, "u32Port")>>)
ieee8021BridgePortPriorityTable_Read ==
  Value("UNSIGNED", {"u32DefaultUserPriority"}) @@
  Value("INTEGER", {"i32NumTrafficClasses", "i32CodePointSelection",
                    "u8UseDEI", "u8RequireDropEncoding",
                    "u8ServiceAccessPrioritySelection"})
ieee8021BridgePortPriorityTable_Check ==
  FixedRows(
    OfFirst("UNSIGNED", {"u32DefaultUserPriority"}) @@
    OfFirst("INTEGER", {"i32NumTrafficClasses", "i32CodePointSelection",
                        "u8UseDEI", "u8RequireDropEncoding",
                        "u8ServiceAccessPrioritySelection"}))
ieee8021BridgePortPriorityTable_Write ==
  Word(32, {"u32DefaultUserPriority", "i32NumTrafficClasses",
            "i32CodePointSelection"}) @@
  Word(8, {"u8UseDEI", "u8RequireDropEncoding",
           "u8ServiceAccessPrioritySelection"})

(* ieee8021BridgeUserPriorityRegenTable *)
ieee8021BridgeUserPriorityRegenTable_Index ==
  Rows(
    <<Unsigned(32, "u32BasePortComponentId"),
      Unsigned(32, "u32BasePort"),
      Within("UNSIGNED", "u32UserPriority")>>)
ieee8021BridgeUserPriorityRegenTable_Read ==
  Value("UNSIGNED", {"au8RegenUserPriority[idx3]"})
ieee8021BridgeUserPriorityRegenTable_Check ==
  FixedRows(
    OfFirst("UNSIGNED", {"au8RegenUserPriority[idx3]"}))
ieee8021BridgeUserPriorityRegenTable_Write ==
  Word(8, {"au8RegenUserPriority[idx3]"})

(* ieee8021BridgeTrafficClassTable *)
ieee8021BridgeTrafficClassTable_Index ==
  Rows(
    <<Unsigned(32, "u32BasePortComponentId"),
      Unsigned(32, "u32BasePort"),
      Within("UNSIGNED", "u32Priority")>>)
ieee8021BridgeTrafficClassTable_Read ==
  Value("INTEGER", {"au8Class[idx3]"})
ieee8021BridgeTrafficClassTable_Check ==
  FixedRows(
    OfFirst("INTEGER", {"au8Class[idx3]"}))
ieee8021BridgeTrafficClassTable_Write ==
  Word(8, {"au8Class[idx3]"})

(* ieee8021BridgePortOutboundAccessPriorityTable *)
ieee8021BridgePortOutboundAccessPriorityTable_Index ==
  Rows(
    <<Unsigned(32, "u32BasePortComponentId"),
      Unsigned(32, "u32BasePort"),
      Within("UNSIGNED", "u32RegenUserPriority")>>)
ieee8021BridgePortOutboundAccessPriorityTable_Read ==
  Value("UNSIGNED", {"au8Priority[idx3]"})

(* ieee8021BridgePortDecodingTable *)
ieee8021BridgePortDecodingTable_Index ==
  Rows(
    <<Unsigned(32, "u32ComponentId"),
      Unsigned(32, "u32PortNum"),
      Signed(32, "i32PriorityCodePointRow"),
      Within("INTEGER", "i32PriorityCodePoint")>>)
ieee8021BridgePortDecodingTable_Read ==
  Value("UNSIGNED", {"au8Priority[idx4]"}) @@
  Value("INTEGER", {"au8DropEligible[idx4]"})
ieee8021BridgePortDecodingTable_Check ==
  FixedRows(
    OfFirst("UNSIGNED", {"au8Priority[idx4]"}) @@
    OfFirst("INTEGER", {"au8DropEligible[idx4]"}))
ieee8021BridgePortDecodingTable_Write ==
  Word(8, {"au8Priority[idx4]", "au8DropEligible[idx4]"})

(* ieee8021BridgePortEncodingTable *)
ieee8021BridgePortEncodingTable_Index ==
  Rows(
    <<Unsigned(32, "u32ComponentId"),
      Unsigned(32, "u32PortNum"),
      Signed(32, "i32PriorityCodePointRow"),
      Within("INTEGER", "i32PriorityCodePoint"),
      Within("INTEGER", "u8DropEligible")>>)
ieee8021BridgePortEncodingTable_Read ==
  Value("UNSIGNED", {"au8Priority[idx4][idx5]"})
ieee8021BridgePortEncodingTable_Check ==
  FixedRows(
    OfFirst("UNSIGNED", {"au8Priority[idx4][idx5]"}))
ieee8021BridgePortEncodingTable_Write ==
  Word(8, {"au8Priority[idx4][idx5]"})

(* ieee8021BridgeServiceAccessPriorityTable *)
ieee8021BridgeServiceAccessPriorityTable_Index ==
  Rows(
    <<Unsigned(32, "u32ComponentId"),
      Unsigned(32, "u32PortNum"),
      Within("UNSIGNED", "u32Received")>>)
ieee8021BridgeServiceAccessPriorityTable_Read ==
  Value("UNSIGNED", {"au8Value[idx3]"})
ieee8021BridgeServiceAccessPriorityTable_Check ==
  FixedRows(
    OfFirst("UNSIGNED", {"au8Value[idx3]"}))
ieee8021BridgeServiceAccessPriorityTable_Write ==
  Word(8, {"au8Value[idx3]"})

(* ieee8021BridgePortMrpTable *)
ieee8021BridgePortMrpTable_Index ==
  RowsOf("ieee8021BridgeBasePortTable", 
    <<Unsigned(32, "u32ComponentId"), Unsigned(32, "u32Port")>>)
ieee8021BridgePortMrpTable_Read ==
  Value("INTEGER", {"i32JoinTime", "i32LeaveTime", "i32LeaveAllTime"})
ieee8021BridgePortMrpTable_Check ==
  [FixedRows(
    OfFirst("INTEGER", {"i32JoinTime", "i32LeaveTime", "i32LeaveAllTime"})) EXCEPT
    !.frozen = {"i32JoinTime", "i32LeaveTime", "i32LeaveAllTime"}]
ieee8021BridgePortMrpTable_Write ==
  Word(32, {"i32JoinTime", "i32LeaveTime", "i32LeaveAllTime"})

(* ieee8021BridgePortMmrpTable *)
ieee8021BridgePortMmrpTable_Index ==
  RowsOf("ieee8021BridgeBasePortTable", 
    <<Unsigned(32, "u32ComponentId"), Unsigned(32, "u32Port")>>)
ieee8021BridgePortMmrpTable_Read ==
  Value("INTEGER", {"u8EnabledStatus", "u8RestrictedGroupRegistration"}) @@
  Value("COUNTER64", {"u64FailedRegistrations"}) @@
  Counted("OCTET_STR", {"au8LastPduOrigin"})
ieee8021BridgePortMmrpTable_Check ==
  [FixedRows(
    OfFirst("INTEGER", {"u8EnabledStatus", "u8RestrictedGroupRegistration"})) EXCEPT
    !.frozen = {"u8EnabledStatus", "u8RestrictedGroupRegistration"}]
ieee8021BridgePortMmrpTable_Write ==
  Word(8, {"u8EnabledStatus", "u8RestrictedGroupRegistration"})

(* ieee8021BridgeILanIfTable *)
ieee8021BridgeILanIfTable_Index ==
  Rows(<<Signed(32, "u32Index")>>)
ieee8021BridgeILanIfTable_Read ==
  Value("INTEGER", {"u8RowStatus"})
ieee8021BridgeILanIfTable_Check ==
  HandlerRows("u8RowStatus", NoColumns)
ieee8021BridgeILanIfTable_Write ==
  AtAction("u8RowStatus", "removeExt")

(* ieee8021BridgeDot1dPortTable *)
ieee8021BridgeDot1dPortTable_Index ==
  Rows(<<Unsigned(32, "u32BasePortComponentId"), Unsigned(32, "u32BasePort")>>)
ieee8021BridgeDot1dPortTable_Read ==
  Value("INTEGER", {"u8RowStatus"})
ieee8021BridgeDot1dPortTable_Check ==
  [HandlerRows("u8RowStatus",
    NoColumns) EXCEPT
    !.creates = {"createAndWait"}]
ieee8021BridgeDot1dPortTable_Write ==
  AtAction("u8RowStatus", "removeExt")

ieee8021BridgeMib_tables ==
  [ieee8021BridgeBaseTable |->
     Table(ieee8021BridgeBaseTable_Index, ieee8021BridgeBaseTable_Read,
           ieee8021BridgeBaseTable_Check, ieee8021BridgeBaseTable_Write),
   ieee8021BridgeBasePortTable |->
     Table(ieee8021BridgeBasePortTable_Index, ieee8021BridgeBasePortTable_Read,
           ieee8021BridgeBasePortTable_Check, ieee8021BridgeBasePortTable_Write),
   ieee8021BridgeBaseIfToPortTable |-> ReadOnly(ieee8021BridgeBaseIfToPortTable_Index, ieee8021BridgeBaseIfToPortTable_Read),
   ieee8021BridgePhyPortTable |-> ReadOnly(ieee8021BridgePhyPortTable_Index, ieee8021BridgePhyPortTable_Read),
   ieee8021BridgeTpPortTable |-> ReadOnly(ieee8021BridgeTpPortTable_Index, ieee8021BridgeTpPortTable_Read),
   ieee8021BridgePortPriorityTable |->
     Table(ieee8021BridgePortPriorityTable_Index, ieee8021BridgePortPriorityTable_Read,
           ieee8021BridgePortPriorityTable_Check, ieee8021BridgePortPriorityTable_Write),
   ieee8021BridgeUserPriorityRegenTable |->
     Table(ieee8021BridgeUserPriorityRegenTable_Index, ieee8021BridgeUserPriorityRegenTable_Read,
           ieee8021BridgeUserPriorityRegenTable_Check, ieee8021BridgeUserPriorityRegenTable_Write),
   ieee8021BridgeTrafficClassTable |->
     Table(ieee8021BridgeTrafficClassTable_Index, ieee8021BridgeTrafficClassTable_Read,
           ieee8021BridgeTrafficClassTable_Check, ieee8021BridgeTrafficClassTable_Write),
   ieee8021BridgePortOutboundAccessPriorityTable |-> ReadOnly(ieee8021BridgePortOutboundAccessPriorityTable_Index, ieee8021BridgePortOutboundAccessPriorityTable_Read),
   ieee8021BridgePortDecodingTable |->
     Table(ieee8021BridgePortDecodingTable_Index, ieee8021BridgePortDecodingTable_Read,
           ieee8021BridgePortDecodingTable_Check, ieee8021BridgePortDecodingTable_Write),
   ieee8021BridgePortEncodingTable |->
     Table(ieee8021BridgePortEncodingTable_Index, ieee8021BridgePortEncodingTable_Read,
           ieee8021BridgePortEncodingTable_Check, ieee8021BridgePortEncodingTable_Write),
   ieee8021BridgeServiceAccessPriorityTable |->
     Table(ieee8021BridgeServiceAccessPriorityTable_Index, ieee8021BridgeServiceAccessPriorityTable_Read,
           ieee8021BridgeServiceAccessPriorityTable_Check, ieee8021BridgeServiceAccessPriorityTable_Write),
   ieee8021BridgePortMrpTable |->
     Table(ieee8021BridgePortMrpTable_Index, ieee8021BridgePortMrpTable_Read,
           ieee8021BridgePortMrpTable_Check, ieee8021BridgePortMrpTable_Write),
   ieee8021BridgePortMmrpTable |->
     Table(ieee8021BridgePortMmrpTable_Index, ieee8021BridgePortMmrpTable_Read,
           ieee8021BridgePortMmrpTable_Check, ieee8021BridgePortMmrpTable_Write),
   ieee8021BridgeILanIfTable |->
     Table(ieee8021BridgeILanIfTable_Index, ieee8021BridgeILanIfTable_Read,
           ieee8021BridgeILanIfTable_Check, ieee8021BridgeILanIfTable_Write),
   ieee8021BridgeDot1dPortTable |->
     Table(ieee8021BridgeDot1dPortTable_Index, ieee8021BridgeDot1dPortTable_Read,
           ieee8021BridgeDot1dPortTable_Check, ieee8021BridgeDot1dPortTable_Write)]

-----------------------------------------------------------------------------
(* ethernet/neIeee8021BridgeMIB.c                                          *)

(* neIeee8021BridgeBaseTable *)
neIeee8021BridgeBaseTable_Index ==
  RowsOf("ieee8021BridgeBaseTable", <<Unsigned(32, "u32ComponentId")>>)
neIeee8021BridgeBaseTable_Read ==
  Value("UNSIGNED", {"u32ChassisId", "u32NumPortsMax"}) @@
  Counted("OCTET_STR", {"pu8Ports", "au8AdminFlags"}) @@
  Value("INTEGER", {"i32OperState"})
neIeee8021BridgeBaseTable_Check ==
  [FixedRows(
    OfFirst("UNSIGNED", {"u32ChassisId", "u32NumPortsMax"}) @@
    Sized("OCTET_STR", {"au8AdminFlags"})) EXCEPT
    !.frozen = {"u32ChassisId", "u32NumPortsMax", "au8AdminFlags"}]
neIeee8021BridgeBaseTable_Write ==
  Word(32, {"u32ChassisId", "u32NumPortsMax"}) @@
  Saved("counted", {"au8AdminFlags"})

(* neIeee8021BridgeBasePortTable *)
neIeee8021BridgeBasePortTable_Index ==
  RowsOf("ieee8021BridgeBasePortTable", 
    <<Unsigned(32, "u32ComponentId"), Unsigned(32, "u32Port")>>)
neIeee8021BridgeBasePortTable_Read ==
  Counted("OCTET_STR", {"au8AdminFlags"}) @@
  Value("INTEGER", {"i32OperState"})
neIeee8021BridgeBasePortTable_Check ==
  [FixedRows(
    Sized("OCTET_STR", {"au8AdminFlags"})) EXCEPT
    !.frozen = {"au8AdminFlags"}]
neIeee8021BridgeBasePortTable_Write ==
  Saved("counted", {"au8AdminFlags"})

(* neIeee8021QBridgeVlanCurrentTable *)
neIeee8021QBridgeVlanCurrentTable_Index ==
  RowsBetween("ieee8021BridgeBaseTable", "ieee8021QBridgeVlanCurrentTable", 
    <<Ticks(32, "u32TimeMark"),
      Unsigned(32, "u32ComponentId"),
      Unsigned(32, "u32Index")>>)
neIeee8021QBridgeVlanCurrentTable_Read ==
  Counted("OCTET_STR", {"au8AdminFlags", "pu8Learnt"}) @@
  Value("INTEGER", {"i32OperState", "u32IfIndex"})
neIeee8021QBridgeVlanCurrentTable_Check ==
  [FixedRows(
    Sized("OCTET_STR", {"au8AdminFlags"})) EXCEPT
    !.frozen = {"au8AdminFlags"}]
neIeee8021QBridgeVlanCurrentTable_Write ==
  Saved("counted", {"au8AdminFlags"})

neIeee8021BridgeMIB_tables ==
  [neIeee8021BridgeBaseTable |->
     Table(neIeee8021BridgeBaseTable_Index, neIeee8021BridgeBaseTable_Read,
           neIeee8021BridgeBaseTable_Check, neIeee8021BridgeBaseTable_Write),
   neIeee8021BridgeBasePortTable |->
     Table(neIeee8021BridgeBasePortTable_Index, neIeee8021BridgeBasePortTable_Read,
           neIeee8021BridgeBasePortTable_Check, neIeee8021BridgeBasePortTable_Write),
   neIeee8021QBridgeVlanCurrentTable |->
     Table(neIeee8021QBridgeVlanCurrentTable_Index, neIeee8021QBridgeVlanCurrentTable_Read,
           neIeee8021QBridgeVlanCurrentTable_Check, neIeee8021QBridgeVlanCurrentTable_Write)]

=============================================================================
