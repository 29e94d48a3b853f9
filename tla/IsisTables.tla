------------------------------ MODULE IsisTables ------------------------------
(***************************************************************************)
(* The tables of IS-IS and of shortest path bridging (isis/, spb/).        *)
(***************************************************************************)
EXTENDS Tables

-----------------------------------------------------------------------------
(* isis/isisMIB.c                                                          *)

(* isisSysObject *)
isisSysObject_Read ==
  Value("INTEGER", {"i32Version", "i32LevelType", "i32AdminState",
                    "u8L2toL1Leaking", "u8NotificationEnable"}) @@
  Entire("OCTET_STR", {"au8ID", "au8ProtSupported"}) @@
  Value("UNSIGNED", {"u32MaxPathSplits", "u32MaxLSPGenInt",
                     "u32PollESHelloRate", "u32WaitTime", "u32MaxAge",
                     "u32ReceiveLSPBufferSize"})
isisSysObject_Check ==
  Scalars(
    OfFirst("INTEGER", {"i32LevelType", "i32AdminState", "u8L2toL1Leaking",
                        "u8NotificationEnable"}) @@
    OfFirst("OCTET_STR", {"au8ID"}) @@
    OfFirst("UNSIGNED", {"u32MaxPathSplits", "u32MaxLSPGenInt",
                         "u32PollESHelloRate", "u32WaitTime", "u32MaxAge",
                         "u32ReceiveLSPBufferSize"}))
isisSysObject_Write ==
  InPlace(32, {"i32LevelType", "u32MaxPathSplits", "u32MaxLSPGenInt",
               "u32PollESHelloRate", "u32WaitTime", "i32AdminState",
               "u32MaxAge", "u32ReceiveLSPBufferSize"}) @@
  InPlace(0, {"au8ID"}) @@
  InPlace(8, {"u8L2toL1Leaking", "u8NotificationEnable"})

(* isisCirc *)
isisCirc_Read ==
  Value("UNSIGNED", {"u32NextCircIndex"})

(* isisManAreaAddrTable *)
isisManAreaAddrTable_Index ==
  Rows(<<Octets("au8Addr")>>)
isisManAreaAddrTable_Read ==
  Value("INTEGER", {"u8ExistState"})
isisManAreaAddrTable_Check ==
  CommitRows("u8ExistState", NoColumns)
isisManAreaAddrTable_Write ==
  AtCommit("u8ExistState")

(* isisAreaAddrTable *)
isisAreaAddrTable_Index ==
  Rows(<<Octets("au8Addr")>>)
isisAreaAddrTable_Read ==
  Counted("OCTET_STR", {"au8Addr"})

(* isisSummAddrTable *)
isisSummAddrTable_Index ==
  Rows(
    <<Signed(32, "i32AddressType"),
      Octets("au8Address"),
      Unsigned(32, "u32PrefixLen")>>)
isisSummAddrTable_Read ==
  Value("INTEGER", {"u8ExistState"}) @@
  Value("UNSIGNED", {"u32Metric", "u32FullMetric"})
isisSummAddrTable_Check ==
  CommitRows("u8ExistState",
    OfFirst("UNSIGNED", {"u32Metric", "u32FullMetric"}))
isisSummAddrTable_Write ==
  Word(32, {"u32Metric", "u32FullMetric"}) @@
  AtCommit("u8ExistState")

(* isisRedistributeAddrTable *)
isisRedistributeAddrTable_Index ==
  Rows(
    <<Signed(32, "i32Type"),
      Octets("au8Address"),
      Unsigned(32, "u32PrefixLen")>>)
isisRedistributeAddrTable_Read ==
  Value("INTEGER", {"u8ExistState"})
isisRedistributeAddrTable_Check ==
  CommitRows("u8ExistState", NoColumns)
isisRedistributeAddrTable_Write ==
  AtCommit("u8ExistState")

(* isisRouterTable *)
isisRouterTable_Index ==
  Rows(<<Padded("au8SysID"), Signed(32, "i32Level")>>)
isisRouterTable_Read ==
  Counted("OCTET_STR", {"au8HostName"}) @@
  Value("UNSIGNED", {"u32ID"})

(* isisSysLevelTable *)
isisSysLevelTable_Index ==
  Rows(<<Signed(32, "i32Index")>>)
isisSysLevelTable_Read ==
  Value("UNSIGNED", {"u32OrigLSPBuffSize", "u32MinLSPGenInt",
                     "u32SetOverloadUntil"}) @@
  Value("INTEGER", {"i32State", "u8SetOverload", "i32MetricStyle",
                    "i32SPFConsiders", "u8TEEnabled"})
isisSysLevelTable_Check ==
  FixedRows(
    OfFirst("UNSIGNED", {"u32OrigLSPBuffSize", "u32MinLSPGenInt",
                         "u32SetOverloadUntil"}) @@
    OfFirst("INTEGER", {"u8SetOverload", "i32MetricStyle", "i32SPFConsiders",
                        "u8TEEnabled"}))
isisSysLevelTable_Write ==
  Word(32, {"u32OrigLSPBuffSize", "u32MinLSPGenInt", "u32SetOverloadUntil",
            "i32MetricStyle", "i32SPFConsiders"}) @@
  Word(8, {"u8SetOverload", "u8TEEnabled"})

(* isisCircTable *)
isisCircTable_Index ==
  Rows(<<Unsigned(32, "u32Index")>>)
isisCircTable_Read ==
  Value("INTEGER", {"u32IfIndex", "i32AdminState", "u8ExistState", "i32Type",
                    "u8ExtDomain", "i32LevelType", "u8PassiveCircuit",
                    "i32MeshGroupEnabled", "u8SmallHellos", "u83WayEnabled"}) @@
  Value("UNSIGNED", {"u32MeshGroup", "u32ExtendedCircID"}) @@
  Value("TIMETICKS", {"u32LastUpTime"})
isisCircTable_Check ==
  CommitRows("u8ExistState",
    OfFirst("INTEGER", {"u32IfIndex", "i32AdminState", "i32Type",
                        "u8ExtDomain", "i32LevelType", "u8PassiveCircuit",
                        "i32MeshGroupEnabled", "u8SmallHellos",
                        "u83WayEnabled"}) @@
    OfFirst("UNSIGNED", {"u32MeshGroup", "u32ExtendedCircID"}))
isisCircTable_Write ==
  Word(32, {"u32IfIndex", "i32AdminState", "i32Type", "i32LevelType",
            "i32MeshGroupEnabled", "u32MeshGroup", "u32ExtendedCircID"}) @@
  Word(8, {"u8ExtDomain", "u8PassiveCircuit", "u8SmallHellos",
           "u83WayEnabled"}) @@
  AtCommit("u8ExistState")

(* isisCircLevelTable *)
isisCircLevelTable_Index ==
  Rows(<<Unsigned(32, "u32Index"), Signed(32, "i32Index")>>)
isisCircLevelTable_Read ==
  Value("UNSIGNED", {"u32Metric", "u32WideMetric", "u32ISPriority",
                     "u32IDOctet", "u32HelloMultiplier", "u32HelloTimer",
                     "u32DRHelloTimer", "u32LSPThrottle",
                     "u32MinLSPRetransInt", "u32CSNPInterval",
                     "u32PartSNPInterval"}) @@
  Counted("OCTET_STR", {"au8ID", "au8DesIS"})
isisCircLevelTable_Check ==
  FixedRows(
    OfFirst("UNSIGNED", {"u32Metric", "u32WideMetric", "u32ISPriority",
                         "u32HelloMultiplier", "u32HelloTimer",
                         "u32DRHelloTimer", "u32LSPThrottle",
                         "u32MinLSPRetransInt", "u32CSNPInterval",
                         "u32PartSNPInterval"}))
isisCircLevelTable_Write ==
  Word(32, {"u32Metric", "u32WideMetric", "u32ISPriority",
            "u32HelloMultiplier", "u32HelloTimer", "u32DRHelloTimer",
            "u32LSPThrottle", "u32MinLSPRetransInt", "u32CSNPInterval",
            "u32PartSNPInterval"})

(* isisSystemCounterTable *)
isisSystemCounterTable_Index ==
  Rows(<<Signed(32, "i32Level")>>)
isisSystemCounterTable_Read ==
  Value("COUNTER", {"u32CorrLSPs", "u32AuthTypeFails", "u32AuthFails",
                    "u32LSPDbaseOloads", "u32ManAddrDropFromAreas",
                    "u32AttmptToExMaxSeqNums", "u32SeqNumSkips",
                    "u32OwnLSPPurges", "u32IDFieldLenMismatches",
                    "u32PartChanges", "u32SPFRuns", "u32LSPErrors"})

(* isisCircuitCounterTable *)
isisCircuitCounterTable_Index ==
  Rows(<<Unsigned(32, "u32Index"), Signed(32, "i32CircuitType")>>)
isisCircuitCounterTable_Read ==
  Value("COUNTER", {"u32AdjChanges", "u32InitFails", "u32RejAdjs",
                    "u32IDFieldLenMismatches", "u32MaxAreaAddrMismatches",
                    "u32AuthTypeFails", "u32AuthFails", "u32LANDesISChanges"}) @@
  Value("UNSIGNED", {"u32NumAdj"})

(* isisPacketCounterTable *)
isisPacketCounterTable_Index ==
  Rows(
    <<Unsigned(32, "u32CircIndex"),
      Signed(32, "i32PacketCountLevel"),
      Signed(32, "i32PacketCountDirection")>>)
isisPacketCounterTable_Read ==
  Value("COUNTER", {"u32PacketCountIIHello", "u32PacketCountISHello",
                    "u32PacketCountESHello", "u32PacketCountLSP",
                    "u32PacketCountCSNP", "u32PacketCountPSNP",
                    "u32PacketCountUnknown"})

(* isisISAdjTable *)
isisISAdjTable_Index ==
  Rows(<<Unsigned(32, "u32CircIndex"), Unsigned(32, "u32Index")>>)
isisISAdjTable_Read ==
  Value("INTEGER", {"i32State", "i32ISAdj3WayState", "i32NeighSysType",
                    "i32Usage"}) @@
  Counted("OCTET_STR", {"au8NeighSNPAAddress", "au8NeighSysID"}) @@
  Value("UNSIGNED", {"u32NbrExtendedCircID", "u32HoldTimer",
                     "u32NeighPriority"}) @@
  Value("TIMETICKS", {"u32LastUpTime"})

(* isisISAdjAreaAddrTable *)
isisISAdjAreaAddrTable_Index ==
  Rows(
    <<Unsigned(32, "u32CircIndex"),
      Unsigned(32, "u32ISAdjIndex"),
      Unsigned(32, "u32Index")>>)
isisISAdjAreaAddrTable_Read ==
  Counted("OCTET_STR", {"au8ISAdjAreaAddress"})

(* isisISAdjIPAddrTable *)
isisISAdjIPAddrTable_Index ==
  Rows(
    <<Unsigned(32, "u32CircIndex"),
      Unsigned(32, "u32ISAdjIndex"),
      Unsigned(32, "u32Index")>>)
isisISAdjIPAddrTable_Read ==
  Value("INTEGER", {"i32Type"}) @@
  Counted("OCTET_STR", {"au8Address"})

(* isisISAdjProtSuppTable *)
isisISAdjProtSuppTable_Index ==
  Rows(
    <<Unsigned(32, "u32CircIndex"),
      Unsigned(32, "u32ISAdjIndex"),
      Signed(32, "i32Protocol")>>)
isisISAdjProtSuppTable_Read ==
  Value("INTEGER", {"i32Protocol"})

(* isisRATable *)
isisRATable_Index ==
  Rows(<<Unsigned(32, "u32CircIndex"), Unsigned(32, "u32Index")>>)
isisRATable_Read ==
  Value("INTEGER", {"u8ExistState", "i32AdminState", "i32MapType",
                    "i32MetricType", "i32Type"}) @@
  Counted("OCTET_STR", {"au8AddrPrefix", "au8SNPAAddress", "au8SNPAMask",
                        "au8SNPAPrefix"}) @@
  Value("UNSIGNED", {"u32Metric"})
isisRATable_Check ==
  CommitRows("u8ExistState",
    OfFirst("INTEGER", {"i32AdminState", "i32MapType", "i32MetricType",
                        "i32Type"}) @@
    Sized("OCTET_STR", {"au8AddrPrefix", "au8SNPAAddress", "au8SNPAMask",
                        "au8SNPAPrefix"}) @@
    OfFirst("UNSIGNED", {"u32Metric"}))
isisRATable_Write ==
  Word(32, {"i32AdminState", "i32MapType", "u32Metric", "i32MetricType",
            "i32Type"}) @@
  Saved("counted", {"au8AddrPrefix", "au8SNPAAddress", "au8SNPAMask",
                    "au8SNPAPrefix"}) @@
  AtCommit("u8ExistState")

(* isisIPRATable *)
isisIPRATable_Index ==
  Rows(
    <<Signed(32, "i32SysLevelIndex"),
      Signed(32, "i32DestType"),
      Octets("au8Dest"),
      Unsigned(32, "u32DestPrefixLen"),
      Unsigned(32, "u32NextHopIndex")>>)
isisIPRATable_Read ==
  Value("INTEGER", {"i32NextHopType", "i32Type", "u8ExistState",
                    "i32AdminState", "i32MetricType", "i32SourceType"}) @@
  Counted("OCTET_STR", {"au8NextHop", "au8SNPAAddress"}) @@
  Value("UNSIGNED", {"u32Metric", "u32FullMetric"})
isisIPRATable_Check ==
  CommitRows("u8ExistState",
    OfFirst("INTEGER", {"i32NextHopType", "i32Type", "i32AdminState",
                        "i32MetricType"}) @@
    Sized("OCTET_STR", {"au8NextHop", "au8SNPAAddress"}) @@
    OfFirst("UNSIGNED", {"u32Metric", "u32FullMetric"}))
isisIPRATable_Write ==
  Word(32, {"i32NextHopType", "i32Type", "i32AdminState", "u32Metric",
            "i32MetricType", "u32FullMetric"}) @@
  Saved("counted", {"au8NextHop", "au8SNPAAddress"}) @@
  AtCommit("u8ExistState")

(* isisLSPSummaryTable *)
isisLSPSummaryTable_Index ==
  Rows(<<Signed(32, "i32Level"), Octets("au8ID")>>)
isisLSPSummaryTable_Read ==
  Value("UNSIGNED", {"u32Seq", "u32Checksum", "u32LifetimeRemain",
                     "u32PDULength", "u32Attributes"}) @@
  Value("INTEGER", {"i32ZeroLife"})

(* isisLSPTLVTable *)
isisLSPTLVTable_Index ==
  Rows(<<Signed(32, "i32Level"), Octets("au8ID"), Unsigned(32, "u32Index")>>)
isisLSPTLVTable_Read ==
  Value("UNSIGNED", {"u32Seq", "u32Checksum", "u32Type", "u32Len"}) @@
  Counted("OCTET_STR", {"au8Value"})

isisMIB_tables ==
  [isisSysObject |->
     Table(NoIndex, isisSysObject_Read,
           isisSysObject_Check, isisSysObject_Write),
   isisCirc |-> ReadOnly(NoIndex, isisCirc_Read),
   isisManAreaAddrTable |->
     Table(isisManAreaAddrTable_Index, isisManAreaAddrTable_Read,
           isisManAreaAddrTable_Check, isisManAreaAddrTable_Write),
   isisAreaAddrTable |-> ReadOnly(isisAreaAddrTable_Index, isisAreaAddrTable_Read),
   isisSummAddrTable |->
     Table(isisSummAddrTable_Index, isisSummAddrTable_Read,
           isisSummAddrTable_Check, isisSummAddrTable_Write),
   isisRedistributeAddrTable |->
     Table(isisRedistributeAddrTable_Index, isisRedistributeAddrTable_Read,
           isisRedistributeAddrTable_Check, isisRedistributeAddrTable_Write),
   isisRouterTable |-> ReadOnly(isisRouterTable_Index, isisRouterTable_Read),
   isisSysLevelTable |->
     Table(isisSysLevelTable_Index, isisSysLevelTable_Read,
           isisSysLevelTable_Check, isisSysLevelTable_Write),
   isisCircTable |->
     Table(isisCircTable_Index, isisCircTable_Read,
           isisCircTable_Check, isisCircTable_Write),
   isisCircLevelTable |->
     Table(isisCircLevelTable_Index, isisCircLevelTable_Read,
           isisCircLevelTable_Check, isisCircLevelTable_Write),
   isisSystemCounterTable |-> ReadOnly(isisSystemCounterTable_Index, isisSystemCounterTable_Read),
   isisCircuitCounterTable |-> ReadOnly(isisCircuitCounterTable_Index, isisCircuitCounterTable_Read),
   isisPacketCounterTable |-> ReadOnly(isisPacketCounterTable_Index, isisPacketCounterTable_Read),
   isisISAdjTable |-> ReadOnly(isisISAdjTable_Index, isisISAdjTable_Read),
   isisISAdjAreaAddrTable |-> ReadOnly(isisISAdjAreaAddrTable_Index, isisISAdjAreaAddrTable_Read),
   isisISAdjIPAddrTable |-> ReadOnly(isisISAdjIPAddrTable_Index, isisISAdjIPAddrTable_Read),
   isisISAdjProtSuppTable |-> ReadOnly(isisISAdjProtSuppTable_Index, isisISAdjProtSuppTable_Read),
   isisRATable |->
     Table(isisRATable_Index, isisRATable_Read,
           isisRATable_Check, isisRATable_Write),
   isisIPRATable |->
     Table(isisIPRATable_Index, isisIPRATable_Read,
           isisIPRATable_Check, isisIPRATable_Write),
   isisLSPSummaryTable |-> ReadOnly(isisLSPSummaryTable_Index, isisLSPSummaryTable_Read),
   isisLSPTLVTable |-> ReadOnly(isisLSPTLVTable_Index, isisLSPTLVTable_Read)]

-----------------------------------------------------------------------------
(* spb/ieee8021SpbMib.c                                                    *)

(* ieee8021SpbSys *)
ieee8021SpbSys_Read ==
  Counted("OCTET_STR", {"au8AreaAddress", "au8Id", "au8ControlAddr", "au8Name",
                        "au8BridgePriority", "au8SpbmSysSPSourceId"}) @@
  Value("INTEGER", {"i32SpbvSysMode", "i32SpbmSysMode", "i32DigestConvention"})
ieee8021SpbSys_Check ==
  Scalars(
    OfFirst("OCTET_STR", {"au8AreaAddress", "au8Id", "au8ControlAddr",
                          "au8SpbmSysSPSourceId"}) @@
    OfFirst("INTEGER", {"i32SpbvSysMode", "i32SpbmSysMode",
                        "i32DigestConvention"}))
ieee8021SpbSys_Write ==
  InPlace(0, {"au8AreaAddress", "au8Id", "au8ControlAddr",
              "au8SpbmSysSPSourceId"}) @@
  InPlace(32, {"i32SpbvSysMode", "i32SpbmSysMode", "i32DigestConvention"})

(* ieee8021SpbMtidStaticTable *)
ieee8021SpbMtidStaticTable_Index ==
  Rows(<<Unsigned(32, "u32EntryMtid"), Unsigned(32, "u32TopIx")>>)
ieee8021SpbMtidStaticTable_Read ==
  Value("INTEGER", {"i32MTidStaticEntryMtidOverload", "u8EntryRowStatus"})
ieee8021SpbMtidStaticTable_Check ==
  CommitRows("u8EntryRowStatus",
    OfFirst("INTEGER", {"i32MTidStaticEntryMtidOverload"}))
ieee8021SpbMtidStaticTable_Write ==
  Word(32, {"i32MTidStaticEntryMtidOverload"}) @@
  AtCommit("u8EntryRowStatus")

(* ieee8021SpbTopIxDynamicTable *)
ieee8021SpbTopIxDynamicTable_Index ==
  Rows(<<Unsigned(32, "u32EntryTopIx")>>)
ieee8021SpbTopIxDynamicTable_Read ==
  Counted("OCTET_STR", {"au8EntryAgreeDigest", "au8EntryMCID",
                        "au8EntryAuxMCID"})

(* ieee8021SpbEctStaticTable *)
ieee8021SpbEctStaticTable_Index ==
  Rows(<<Unsigned(32, "u32EntryTopIx"), Signed(32, "i32EntryBaseVid")>>)
ieee8021SpbEctStaticTable_Read ==
  Counted("OCTET_STR", {"au8EntryEctAlgorithm"}) @@
  Value("INTEGER", {"i32SpbvEctStaticEntrySpvid", "u8EntryRowStatus"})
ieee8021SpbEctStaticTable_Check ==
  CommitRows("u8EntryRowStatus",
    Sized("OCTET_STR", {"au8EntryEctAlgorithm"}) @@
    OfFirst("INTEGER", {"i32SpbvEctStaticEntrySpvid"}))
ieee8021SpbEctStaticTable_Write ==
  Saved("counted", {"au8EntryEctAlgorithm"}) @@
  Word(32, {"i32SpbvEctStaticEntrySpvid"}) @@
  AtCommit("u8EntryRowStatus")

(* ieee8021SpbEctDynamicTable *)
ieee8021SpbEctDynamicTable_Index ==
  Rows(<<Unsigned(32, "u32EntryTopIx"), Signed(32, "i32EntryBaseVid")>>)
ieee8021SpbEctDynamicTable_Read ==
  Value("INTEGER", {"i32EntryMode", "i32EntryLocalUse", "i32EntryRemoteUse"}) @@
  Value("UNSIGNED", {"u32EntryIngressCheckDiscards"})

(* ieee8021SpbAdjStaticTable *)
ieee8021SpbAdjStaticTable_Index ==
  Rows(<<Unsigned(32, "u32EntryTopIx"), Signed(32, "u32EntryIfIndex")>>)
ieee8021SpbAdjStaticTable_Read ==
  Value("INTEGER", {"i32EntryMetric", "i32EntryIfAdminState",
                    "u8EntryRowStatus"})
ieee8021SpbAdjStaticTable_Check ==
  CommitRows("u8EntryRowStatus",
    OfFirst("INTEGER", {"i32EntryMetric", "i32EntryIfAdminState"}))
ieee8021SpbAdjStaticTable_Write ==
  Word(32, {"i32EntryMetric", "i32EntryIfAdminState"}) @@
  AtCommit("u8EntryRowStatus")

(* ieee8021SpbAdjDynamicTable *)
ieee8021SpbAdjDynamicTable_Index ==
  Rows(
    <<Unsigned(32, "u32EntryTopIx"),
      Signed(32, "u32EntryIfIndex"),
      Octets("au8EntryPeerSysId")>>)
ieee8021SpbAdjDynamicTable_Read ==
  Value("UNSIGNED", {"u32EntryPort", "u32EntryLocalCircuitID",
                     "u32EntryPeerLocalCircuitID", "u32EntryPortIdentifier",
                     "u32EntryPeerPortIdentifier", "u32EntryIsisCircIndex"}) @@
  Value("INTEGER", {"i32EntryIfOperState"}) @@
  Counted("OCTET_STR", {"au8EntryPeerSysName", "au8EntryPeerAgreeDigest",
                        "au8EntryPeerMCID", "au8EntryPeerAuxMCID"})

(* ieee8021SpbTopNodeTable *)
ieee8021SpbTopNodeTable_Index ==
  Rows(<<Unsigned(32, "u32EntryTopIx"), Octets("au8EntrySysId")>>)
ieee8021SpbTopNodeTable_Read ==
  Counted("OCTET_STR", {"au8EntryBridgePriority",
                        "au8SpbmTopNodeEntrySPsourceID", "au8EntrySysName"})

(* ieee8021SpbTopEctTable *)
ieee8021SpbTopEctTable_Index ==
  Rows(
    <<Unsigned(32, "u32EntryTopIx"),
      Octets("au8EntrySysId"),
      Signed(32, "i32EntryBaseVid")>>)
ieee8021SpbTopEctTable_Read ==
  Counted("OCTET_STR", {"au8EntryEctAlgorithm"}) @@
  Value("INTEGER", {"i32EntryMode", "i32SpbvTopEctSysMode",
                    "i32SpbvTopEctEntrySpvid", "i32EntryLocalUse"})

(* ieee8021SpbTopEdgeTable *)
ieee8021SpbTopEdgeTable_Index ==
  Rows(
    <<Unsigned(32, "u32EntryTopIx"),
      Octets("au8EntrySysIdNear"),
      Octets("au8EntrySysIdFar")>>)
ieee8021SpbTopEdgeTable_Read ==
  Value("INTEGER", {"i32EntryMetricNear2Far", "i32EntryMetricFar2Near"})

(* ieee8021SpbmTopSrvTable *)
ieee8021SpbmTopSrvTable_Index ==
  Rows(
    <<Unsigned(32, "u32EntryTopIx"),
      Octets("au8EntrySysId"),
      Unsigned(32, "u32EntryIsid"),
      Signed(32, "i32EntryBaseVid"),
      Octets("au8EntryMac")>>)
ieee8021SpbmTopSrvTable_Read ==
  Counted("OCTET_STR", {"au8EntryIsidFlags"})

(* ieee8021SpbvTopSrvTable *)
ieee8021SpbvTopSrvTable_Index ==
  Rows(
    <<Unsigned(32, "u32EntryTopIx"),
      Octets("au8EntrySysId"),
      Octets("au8EntryMMac")>>)
ieee8021SpbvTopSrvTable_Read ==
  Value("INTEGER", {"i32EntryBaseVid"}) @@
  Counted("OCTET_STR", {"au8EntryMMacFlags"})

ieee8021SpbMib_tables ==
  [ieee8021SpbSys |->
     Table(NoIndex, ieee8021SpbSys_Read,
           ieee8021SpbSys_Check, ieee8021SpbSys_Write),
   ieee8021SpbMtidStaticTable |->
     Table(ieee8021SpbMtidStaticTable_Index, ieee8021SpbMtidStaticTable_Read,
           ieee8021SpbMtidStaticTable_Check, ieee8021SpbMtidStaticTable_Write),
   ieee8021SpbTopIxDynamicTable |-> ReadOnly(ieee8021SpbTopIxDynamicTable_Index, ieee8021SpbTopIxDynamicTable_Read),
   ieee8021SpbEctStaticTable |->
     Table(ieee8021SpbEctStaticTable_Index, ieee8021SpbEctStaticTable_Read,
           ieee8021SpbEctStaticTable_Check, ieee8021SpbEctStaticTable_Write),
   ieee8021SpbEctDynamicTable |-> ReadOnly(ieee8021SpbEctDynamicTable_Index, ieee8021SpbEctDynamicTable_Read),
   ieee8021SpbAdjStaticTable |->
     Table(ieee8021SpbAdjStaticTable_Index, ieee8021SpbAdjStaticTable_Read,
           ieee8021SpbAdjStaticTable_Check, ieee8021SpbAdjStaticTable_Write),
   ieee8021SpbAdjDynamicTable |-> ReadOnly(ieee8021SpbAdjDynamicTable_Index, ieee8021SpbAdjDynamicTable_Read),
   ieee8021SpbTopNodeTable |-> ReadOnly(ieee8021SpbTopNodeTable_Index, ieee8021SpbTopNodeTable_Read),
   ieee8021SpbTopEctTable |-> ReadOnly(ieee8021SpbTopEctTable_Index, ieee8021SpbTopEctTable_Read),
   ieee8021SpbTopEdgeTable |-> ReadOnly(ieee8021SpbTopEdgeTable_Index, ieee8021SpbTopEdgeTable_Read),
   ieee8021SpbmTopSrvTable |-> ReadOnly(ieee8021SpbmTopSrvTable_Index, ieee8021SpbmTopSrvTable_Read),
   ieee8021SpbvTopSrvTable |-> ReadOnly(ieee8021SpbvTopSrvTable_Index, ieee8021SpbvTopSrvTable_Read)]

=============================================================================
