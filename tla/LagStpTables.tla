----------------------------- MODULE LagStpTables -----------------------------
(***************************************************************************)
(* The tables of link aggregation and of the spanning tree (lag/, stp/).   *)
(***************************************************************************)
EXTENDS Tables

-----------------------------------------------------------------------------
(* lag/lagMIB.c                                                            *)

(* lagMIBObjects *)
lagMIBObjects_Read ==
  Elapsed("TIMETICKS", {"u32Dot3adTablesLastChanged"})

(* dot3adAggTable *)
dot3adAggTable_Index ==
  Rows(<<Signed(32, "u32Index")>>)
dot3adAggTable_Read ==
  Entire("OCTET_STR", {"au8MACAddress", "au8ActorSystemID",
                       "au8PartnerSystemID"}) @@
  Value("INTEGER", {"i32ActorSystemPriority", "u8AggregateOrIndividual",
                    "i32ActorAdminKey", "i32ActorOperKey",
                    "i32PartnerSystemPriority", "i32PartnerOperKey",
                    "i32CollectorMaxDelay"})
dot3adAggTable_Check ==
  [FixedRows(
    OfFirst("INTEGER", {"i32ActorSystemPriority", "i32ActorAdminKey",
                        "i32CollectorMaxDelay"})) EXCEPT
    !.frozen = {"i32ActorSystemPriority", "i32ActorAdminKey",
                "i32CollectorMaxDelay"}]
dot3adAggTable_Write ==
  Word(32, {"i32ActorSystemPriority", "i32ActorAdminKey",
            "i32CollectorMaxDelay"})

(* dot3adAggPortListTable *)
dot3adAggPortListTable_Index ==
  RowsOf("dot3adAggTable", <<Signed(32, "u32Index")>>)
dot3adAggPortListTable_Read ==
  Counted("OCTET_STR", {"au8Ports"})

(* dot3adAggPortTable *)
dot3adAggPortTable_Index ==
  Rows(<<Signed(32, "u32Index")>>)
dot3adAggPortTable_Read ==
  Value("INTEGER", {"i32ActorSystemPriority", "i32ActorAdminKey",
                    "i32ActorOperKey", "i32PartnerAdminSystemPriority",
                    "i32PartnerOperSystemPriority", "i32PartnerAdminKey",
                    "i32PartnerOperKey", "u32SelectedAggID",
                    "u32AttachedAggID", "i32ActorPort", "i32ActorPortPriority",
                    "i32PartnerAdminPort", "i32PartnerOperPort",
                    "i32PartnerAdminPortPriority",
                    "i32PartnerOperPortPriority", "u8AggregateOrIndividual"}) @@
  Entire("OCTET_STR", {"au8ActorSystemID", "au8PartnerAdminSystemID",
                       "au8PartnerOperSystemID", "au8ActorAdminState",
                       "au8ActorOperState", "au8PartnerAdminState",
                       "au8PartnerOperState"})
dot3adAggPortTable_Check ==
  [FixedRows(
    OfFirst("INTEGER", {"i32ActorSystemPriority", "i32ActorAdminKey",
                        "i32ActorOperKey", "i32PartnerAdminSystemPriority",
                        "i32PartnerAdminKey", "i32ActorPortPriority",
                        "i32PartnerAdminPort", "i32PartnerAdminPortPriority"}) @@
    Sized("OCTET_STR", {"au8PartnerAdminSystemID", "au8ActorAdminState",
                        "au8PartnerAdminState"})) EXCEPT
    !.frozen = {"i32ActorSystemPriority", "i32ActorAdminKey",
                "i32ActorOperKey", "i32PartnerAdminSystemPriority",
                "au8PartnerAdminSystemID", "i32PartnerAdminKey",
                "i32ActorPortPriority", "i32PartnerAdminPort",
                "i32PartnerAdminPortPriority", "au8ActorAdminState",
                "au8PartnerAdminState"}]
dot3adAggPortTable_Write ==
  Word(32, {"i32ActorSystemPriority", "i32ActorAdminKey", "i32ActorOperKey",
            "i32PartnerAdminSystemPriority", "i32PartnerAdminKey",
            "i32ActorPortPriority", "i32PartnerAdminPort",
            "i32PartnerAdminPortPriority"}) @@
  Saved("buffer", {"au8PartnerAdminSystemID", "au8ActorAdminState",
                   "au8PartnerAdminState"})

(* dot3adAggPortStatsTable *)
dot3adAggPortStatsTable_Index ==
  RowsOf("dot3adAggPortTable", <<Signed(32, "u32Index")>>)
dot3adAggPortStatsTable_Read ==
  Value("COUNTER", {"u32LACPDUsRx", "u32MarkerPDUsRx",
                    "u32MarkerResponsePDUsRx", "u32UnknownRx", "u32IllegalRx",
                    "u32LACPDUsTx", "u32MarkerPDUsTx",
                    "u32MarkerResponsePDUsTx"})

(* dot3adAggPortDebugTable *)
dot3adAggPortDebugTable_Index ==
  RowsOf("dot3adAggPortTable", <<Signed(32, "u32Index")>>)
dot3adAggPortDebugTable_Read ==
  Value("INTEGER", {"i32RxState", "i32MuxState", "i32ActorChurnState",
                    "i32PartnerChurnState"}) @@
  Value("TIMETICKS", {"u32LastRxTime"}) @@
  Counted("OCTET_STR", {"au8MuxReason"}) @@
  Value("COUNTER", {"u32ActorChurnCount", "u32PartnerChurnCount",
                    "u32ActorSyncTransitionCount",
                    "u32PartnerSyncTransitionCount", "u32ActorChangeCount",
                    "u32PartnerChangeCount"})

(* dot3adAggPortXTable *)
dot3adAggPortXTable_Index ==
  RowsOf("dot3adAggPortTable", <<Signed(32, "u32Index")>>)
dot3adAggPortXTable_Read ==
  Entire("OCTET_STR", {"au8ProtocolDA"})
dot3adAggPortXTable_Check ==
  [FixedRows(
    Sized("OCTET_STR", {"au8ProtocolDA"})) EXCEPT
    !.frozen = {"au8ProtocolDA"}]
dot3adAggPortXTable_Write ==
  Saved("buffer", {"au8ProtocolDA"})

(* neAggTable *)
neAggTable_Index ==
  RowsOf("dot3adAggTable", <<Signed(32, "u32Index")>>)
neAggTable_Read ==
  Value("INTEGER", {"i32GroupType", "u8RowStatus", "u8StorageType"}) @@
  Value("UNSIGNED", {"u32GroupIndex"}) @@
  Entire("OCTET_STR", {"au8BandwidthMax"})
neAggTable_Check ==
  [HandlerRows("u8RowStatus",
    OfFirst("INTEGER", {"i32GroupType", "u8StorageType"}) @@
    OfFirst("UNSIGNED", {"u32GroupIndex"}) @@
    Sized("OCTET_STR", {"au8BandwidthMax"})) EXCEPT
    !.frozen = {"i32GroupType", "u32GroupIndex", "au8BandwidthMax",
                "u8StorageType"},
    !.tested = FALSE,
    !.context = "parent"]
neAggTable_Write ==
  Word(32, {"i32GroupType", "u32GroupIndex"}) @@
  Saved("buffer", {"au8BandwidthMax"}) @@
  Word(8, {"u8StorageType"}) @@
  AtAction("u8RowStatus", "removeEntry")

(* neAggPortListTable *)
neAggPortListTable_Index ==
  Rows(
    <<Signed(32, "u32Dot3adAggIndex"), Signed(32, "u32Dot3adAggPortIndex")>>)
neAggPortListTable_Read ==
  Value("INTEGER", {"i32Selection"})

(* neAggPortTable *)
neAggPortTable_Index ==
  RowsOf("dot3adAggPortTable", <<Signed(32, "u32Index")>>)
neAggPortTable_Read ==
  Value("INTEGER", {"i32GroupType", "u8RowStatus", "u8StorageType"}) @@
  Value("UNSIGNED", {"u32GroupIndex"}) @@
  Entire("OCTET_STR", {"au8Flags"})
neAggPortTable_Check ==
  [HandlerRows("u8RowStatus",
    OfFirst("INTEGER", {"i32GroupType", "u8StorageType"}) @@
    OfFirst("UNSIGNED", {"u32GroupIndex"}) @@
    Sized("OCTET_STR", {"au8Flags"})) EXCEPT
    !.frozen = {"i32GroupType", "u32GroupIndex", "au8Flags", "u8StorageType"},
    !.tested = FALSE,
    !.context = "parent"]
neAggPortTable_Write ==
  Word(32, {"i32GroupType", "u32GroupIndex"}) @@
  Saved("buffer", {"au8Flags"}) @@
  Word(8, {"u8StorageType"}) @@
  AtAction("u8RowStatus", "removeEntry")

lagMIB_tables ==
  [lagMIBObjects |-> ReadOnly(NoIndex, lagMIBObjects_Read),
   dot3adAggTable |->
     Table(dot3adAggTable_Index, dot3adAggTable_Read,
           dot3adAggTable_Check, dot3adAggTable_Write),
   dot3adAggPortListTable |-> ReadOnly(dot3adAggPortListTable_Index, dot3adAggPortListTable_Read),
   dot3adAggPortTable |->
     Table(dot3adAggPortTable_Index, dot3adAggPortTable_Read,
           dot3adAggPortTable_Check, dot3adAggPortTable_Write),
   dot3adAggPortStatsTable |-> ReadOnly(dot3adAggPortStatsTable_Index, dot3adAggPortStatsTable_Read),
   dot3adAggPortDebugTable |-> ReadOnly(dot3adAggPortDebugTable_Index, dot3adAggPortDebugTable_Read),
   dot3adAggPortXTable |->
     Table(dot3adAggPortXTable_Index, dot3adAggPortXTable_Read,
           dot3adAggPortXTable_Check, dot3adAggPortXTable_Write),
   neAggTable |->
     Table(neAggTable_Index, neAggTable_Read,
           neAggTable_Check, neAggTable_Write),
   neAggPortListTable |-> ReadOnly(neAggPortListTable_Index, neAggPortListTable_Read),
   neAggPortTable |->
     Table(neAggPortTable_Index, neAggPortTable_Read,
           neAggPortTable_Check, neAggPortTable_Write)]

-----------------------------------------------------------------------------
(* stp/ieee8021MstpMib.c                                                   *)

(* ieee8021MstpCistTable *)
ieee8021MstpCistTable_Index ==
  RowsOf("ieee8021SpanningTreeTable", <<Unsigned(32, "u32ComponentId")>>)
ieee8021MstpCistTable_Read ==
  Counted("OCTET_STR", {"au8BridgeIdentifier", "au8RegionalRootIdentifier"}) @@
  Value("INTEGER", {"u8TopologyChange", "i32MaxHops"}) @@
  Value("UNSIGNED", {"u32PathCost"})
ieee8021MstpCistTable_Check ==
  FixedRows(
    OfFirst("INTEGER", {"i32MaxHops"}))
ieee8021MstpCistTable_Write ==
  Word(32, {"i32MaxHops"})

(* ieee8021MstpTable *)
ieee8021MstpTable_Index ==
  Rows(<<Unsigned(32, "u32ComponentId"), Unsigned(16, "u16Id")>>)
ieee8021MstpTable_Read ==
  Counted("OCTET_STR", {"au8BridgeId", "au8DesignatedRoot", "au8Vids0",
                        "au8Vids1", "au8Vids2", "au8Vids3"}) @@
  Value("TIMETICKS", {"u32TimeSinceTopologyChange"}) @@
  Value("COUNTER64", {"u64TopologyChanges"}) @@
  Value("INTEGER", {"u8TopologyChange", "i32RootPathCost", "i32BridgePriority",
                    "u8RowStatus"}) @@
  Value("UNSIGNED", {"u32RootPort"})
ieee8021MstpTable_Check ==
  CommitRows("u8RowStatus",
    OfFirst("INTEGER", {"i32BridgePriority"}))
ieee8021MstpTable_Write ==
  Word(32, {"i32BridgePriority"}) @@
  AtCommit("u8RowStatus")

(* ieee8021MstpCistPortTable *)
ieee8021MstpCistPortTable_Index ==
  RowsOf("ieee8021SpanningTreePortTable", 
    <<Unsigned(32, "u32ComponentId"), Unsigned(32, "u32Port")>>)
ieee8021MstpCistPortTable_Read ==
  Value("TIMETICKS", {"u32Uptime"}) @@
  Value("INTEGER", {"i32AdminPathCost", "u8TopologyChangeAck", "i32HelloTime",
                    "u8AdminEdgePort", "u8OperEdgePort", "u8MacEnabled",
                    "u8MacOperational", "u8RestrictedRole", "u8RestrictedTcn",
                    "i32Role", "u8Disputed", "u8ProtocolMigration",
                    "u8EnableBPDURx", "u8EnableBPDUTx", "u8IsL2Gp"}) @@
  Counted("OCTET_STR", {"au8DesignatedRoot", "au8CistRegionalRootId",
                        "au8PseudoRootId"}) @@
  Value("UNSIGNED", {"u32CistPathCost"})
ieee8021MstpCistPortTable_Check ==
  [FixedRows(
    OfFirst("INTEGER", {"i32AdminPathCost", "u8AdminEdgePort", "u8MacEnabled",
                        "u8RestrictedRole", "u8RestrictedTcn",
                        "u8ProtocolMigration", "u8EnableBPDURx",
                        "u8EnableBPDUTx", "u8IsL2Gp"}) @@
    Sized("OCTET_STR", {"au8PseudoRootId"})) EXCEPT
    !.frozen = {"i32AdminPathCost", "u8AdminEdgePort", "u8MacEnabled",
                "u8RestrictedRole", "u8RestrictedTcn", "u8ProtocolMigration",
                "u8EnableBPDURx", "u8EnableBPDUTx", "au8PseudoRootId",
                "u8IsL2Gp"}]
ieee8021MstpCistPortTable_Write ==
  Word(32, {"i32AdminPathCost"}) @@
  Word(8, {"u8AdminEdgePort", "u8MacEnabled", "u8RestrictedRole",
           "u8RestrictedTcn", "u8ProtocolMigration", "u8EnableBPDURx",
           "u8EnableBPDUTx", "u8IsL2Gp"}) @@
  Saved("counted", {"au8PseudoRootId"})

(* ieee8021MstpPortTable *)
ieee8021MstpPortTable_Index ==
  Rows(
    <<Unsigned(32, "u32ComponentId"),
      Unsigned(16, "u16MstId"),
      Unsigned(32, "u32Num")>>)
ieee8021MstpPortTable_Read ==
  Value("TIMETICKS", {"u32Uptime"}) @@
  Value("INTEGER", {"i32State", "i32Priority", "i32PathCost",
                    "i32DesignatedCost", "i32Role", "u8Disputed"}) @@
  Counted("OCTET_STR", {"au8DesignatedRoot", "au8DesignatedBridge"}) @@
  Value("UNSIGNED", {"u32DesignatedPort"})
ieee8021MstpPortTable_Check ==
  FixedRows(
    OfFirst("INTEGER", {"i32Priority", "i32PathCost"}))
ieee8021MstpPortTable_Write ==
  Word(32, {"i32Priority", "i32PathCost"})

(* ieee8021MstpConfigIdTable *)
ieee8021MstpConfigIdTable_Index ==
  RowsOf("ieee8021SpanningTreeTable", <<Unsigned(32, "u32ComponentId")>>)
ieee8021MstpConfigIdTable_Read ==
  Value("INTEGER", {"i32FormatSelector"}) @@
  Counted("OCTET_STR", {"au8ConfigurationName", "au8ConfigurationDigest"}) @@
  Value("UNSIGNED", {"u32RevisionLevel"})
ieee8021MstpConfigIdTable_Check ==
  FixedRows(
    OfFirst("INTEGER", {"i32FormatSelector"}) @@
    Sized("OCTET_STR", {"au8ConfigurationName"}) @@
    OfFirst("UNSIGNED", {"u32RevisionLevel"}))
ieee8021MstpConfigIdTable_Write ==
  Word(32, {"i32FormatSelector", "u32RevisionLevel"}) @@
  Saved("counted", {"au8ConfigurationName"})

(* ieee8021MstpCistPortExtensionTable *)
ieee8021MstpCistPortExtensionTable_Index ==
  RowsOf("ieee8021SpanningTreePortTable", 
    <<Unsigned(32, "u32ComponentId"), Unsigned(32, "u32Port")>>)
ieee8021MstpCistPortExtensionTable_Read ==
  Value("INTEGER", {"u8EdgePort", "u8IsolatePort"})
ieee8021MstpCistPortExtensionTable_Check ==
  [FixedRows(
    OfFirst("INTEGER", {"u8EdgePort", "u8IsolatePort"})) EXCEPT
    !.frozen = {"u8EdgePort", "u8IsolatePort"}]
ieee8021MstpCistPortExtensionTable_Write ==
  Word(8, {"u8EdgePort", "u8IsolatePort"})

(* ieee8021MstpFidToMstiV2Table *)
ieee8021MstpFidToMstiV2Table_Index ==
  Rows(<<Unsigned(32, "u32ComponentId"), Unsigned(32, "u32Fid")>>)
ieee8021MstpFidToMstiV2Table_Read ==
  Value("UNSIGNED", {"u16MstId"})
ieee8021MstpFidToMstiV2Table_Check ==
  FixedRows(
    OfFirst("UNSIGNED", {"u16MstId"}))
ieee8021MstpFidToMstiV2Table_Write ==
  Word(16, {"u16MstId"})

(* ieee8021MstpVlanV2Table *)
ieee8021MstpVlanV2Table_Index ==
  Rows(<<Unsigned(32, "u32ComponentId"), Unsigned(32, "u32Id")>>)
ieee8021MstpVlanV2Table_Read ==
  Value("UNSIGNED", {"u16MstId"})

ieee8021MstpMib_tables ==
  [ieee8021MstpCistTable |->
     Table(ieee8021MstpCistTable_Index, ieee8021MstpCistTable_Read,
           ieee8021MstpCistTable_Check, ieee8021MstpCistTable_Write),
   ieee8021MstpTable |->
     Table(ieee8021MstpTable_Index, ieee8021MstpTable_Read,
           ieee8021MstpTable_Check, ieee8021MstpTable_Write),
   ieee8021MstpCistPortTable |->
     Table(ieee8021MstpCistPortTable_Index, ieee8021MstpCistPortTable_Read,
           ieee8021MstpCistPortTable_Check, ieee8021MstpCistPortTable_Write),
   ieee8021MstpPortTable |->
     Table(ieee8021MstpPortTable_Index, ieee8021MstpPortTable_Read,
           ieee8021MstpPortTable_Check, ieee8021MstpPortTable_Write),
   ieee8021MstpConfigIdTable |->
     Table(ieee8021MstpConfigIdTable_Index, ieee8021MstpConfigIdTable_Read,
           ieee8021MstpConfigIdTable_Check, ieee8021MstpConfigIdTable_Write),
   ieee8021MstpCistPortExtensionTable |->
     Table(ieee8021MstpCistPortExtensionTable_Index, ieee8021MstpCistPortExtensionTable_Read,
           ieee8021MstpCistPortExtensionTable_Check, ieee8021MstpCistPortExtensionTable_Write),
   ieee8021MstpFidToMstiV2Table |->
     Table(ieee8021MstpFidToMstiV2Table_Index, ieee8021MstpFidToMstiV2Table_Read,
           ieee8021MstpFidToMstiV2Table_Check, ieee8021MstpFidToMstiV2Table_Write),
   ieee8021MstpVlanV2Table |-> ReadOnly(ieee8021MstpVlanV2Table_Index, ieee8021MstpVlanV2Table_Read)]

-----------------------------------------------------------------------------
(* stp/ieee8021SpanningTreeMib.c                                           *)

(* ieee8021SpanningTreeTable *)
ieee8021SpanningTreeTable_Index ==
  Rows(<<Unsigned(32, "u32ComponentId")>>)
ieee8021SpanningTreeTable_Read ==
  Value("INTEGER", {"i32ProtocolSpecification", "i32Priority", "i32RootCost",
                    "i32MaxAge", "i32HelloTime", "i32HoldTime",
                    "i32ForwardDelay", "i32BridgeMaxAge", "i32BridgeHelloTime",
                    "i32BridgeForwardDelay", "i32Version",
                    "i32RstpTxHoldCount"}) @@
  Value("TIMETICKS", {"u32TimeSinceTopologyChange"}) @@
  Value("COUNTER64", {"u64TopChanges"}) @@
  Counted("OCTET_STR", {"au8DesignatedRoot"}) @@
  Value("UNSIGNED", {"u32RootPort"})
ieee8021SpanningTreeTable_Check ==
  FixedRows(
    OfFirst("INTEGER", {"i32Priority", "i32BridgeMaxAge", "i32BridgeHelloTime",
                        "i32BridgeForwardDelay", "i32Version",
                        "i32RstpTxHoldCount"}))
ieee8021SpanningTreeTable_Write ==
  Word(32, {"i32Priority", "i32BridgeMaxAge", "i32BridgeHelloTime",
            "i32BridgeForwardDelay", "i32Version", "i32RstpTxHoldCount"})

(* ieee8021SpanningTreePortTable *)
ieee8021SpanningTreePortTable_Index ==
  Rows(<<Unsigned(32, "u32ComponentId"), Unsigned(32, "u32Port")>>)
ieee8021SpanningTreePortTable_Read ==
  Value("INTEGER", {"i32Priority", "i32State", "u8Enabled", "i32PathCost",
                    "i32DesignatedCost", "u8RstpProtocolMigration",
                    "u8RstpAdminEdgePort", "u8RstpOperEdgePort",
                    "i32RstpAdminPathCost"}) @@
  Counted("OCTET_STR", {"au8DesignatedRoot", "au8DesignatedBridge",
                        "au8DesignatedPort"}) @@
  Value("COUNTER64", {"u64ForwardTransitions"})
ieee8021SpanningTreePortTable_Check ==
  FixedRows(
    OfFirst("INTEGER", {"i32Priority", "u8Enabled", "i32PathCost",
                        "u8RstpProtocolMigration", "u8RstpAdminEdgePort",
                        "i32RstpAdminPathCost"}))
ieee8021SpanningTreePortTable_Write ==
  Word(32, {"i32Priority", "i32PathCost", "i32RstpAdminPathCost"}) @@
  Word(8, {"u8Enabled", "u8RstpProtocolMigration", "u8RstpAdminEdgePort"})

(* ieee8021SpanningTreePortExtensionTable *)
ieee8021SpanningTreePortExtensionTable_Index ==
  RowsOf("ieee8021SpanningTreePortTable", 
    <<Unsigned(32, "u32ComponentId"), Unsigned(32, "u32Port")>>)
ieee8021SpanningTreePortExtensionTable_Read ==
  Value("INTEGER", {"u8AutoEdgePort", "u8AutoIsolatePort", "u8IsolatePort"})
ieee8021SpanningTreePortExtensionTable_Check ==
  [FixedRows(
    OfFirst("INTEGER", {"u8AutoEdgePort", "u8AutoIsolatePort"})) EXCEPT
    !.frozen = {"u8AutoEdgePort", "u8AutoIsolatePort"}]
ieee8021SpanningTreePortExtensionTable_Write ==
  Word(8, {"u8AutoEdgePort", "u8AutoIsolatePort"})

ieee8021SpanningTreeMib_tables ==
  [ieee8021SpanningTreeTable |->
     Table(ieee8021SpanningTreeTable_Index, ieee8021SpanningTreeTable_Read,
           ieee8021SpanningTreeTable_Check, ieee8021SpanningTreeTable_Write),
   ieee8021SpanningTreePortTable |->
     Table(ieee8021SpanningTreePortTable_Index, ieee8021SpanningTreePortTable_Read,
           ieee8021SpanningTreePortTable_Check, ieee8021SpanningTreePortTable_Write),
   ieee8021SpanningTreePortExtensionTable |->
     Table(ieee8021SpanningTreePortExtensionTable_Index, ieee8021SpanningTreePortExtensionTable_Read,
           ieee8021SpanningTreePortExtensionTable_Check, ieee8021SpanningTreePortExtensionTable_Write)]

-----------------------------------------------------------------------------
(* stp/neIeee8021StpMIB.c                                                  *)

(* neIeee8021MstpCistTable *)
neIeee8021MstpCistTable_Index ==
  Rows(<<Unsigned(32, "u32ComponentId")>>)
neIeee8021MstpCistTable_Read ==
  Counted("OCTET_STR", {"au8AdminFlags"}) @@
  Value("UNSIGNED", {"u32TemplateId"})
neIeee8021MstpCistTable_Check ==
  ColumnRows(
    Sized("OCTET_STR", {"au8AdminFlags"}) @@
    OfFirst("UNSIGNED", {"u32TemplateId"}))
neIeee8021MstpCistTable_Write ==
  Saved("counted", {"au8AdminFlags"}) @@
  Word(32, {"u32TemplateId"})

(* neIeee8021MstpTable *)
neIeee8021MstpTable_Index ==
  Rows(<<Unsigned(32, "u32ComponentId"), Unsigned(16, "u16Id")>>)
neIeee8021MstpTable_Read ==
  Counted("OCTET_STR", {"au8AdminFlags"}) @@
  Value("INTEGER", {"i32MstiType"})
neIeee8021MstpTable_Check ==
  ColumnRows(
    Sized("OCTET_STR", {"au8AdminFlags"}) @@
    OfFirst("INTEGER", {"i32MstiType"}))
neIeee8021MstpTable_Write ==
  Saved("counted", {"au8AdminFlags"}) @@
  Word(32, {"i32MstiType"})

(* neIeee8021MstpCistPortTable *)
neIeee8021MstpCistPortTable_Index ==
  Rows(<<Unsigned(32, "u32ComponentId"), Unsigned(32, "u32Num")>>)
neIeee8021MstpCistPortTable_Read ==
  Value("INTEGER", {"u8RestrictedDomainRole", "u8IsOperStp"})
neIeee8021MstpCistPortTable_Check ==
  FixedRows(
    OfFirst("INTEGER", {"u8RestrictedDomainRole"}))
neIeee8021MstpCistPortTable_Write ==
  Word(8, {"u8RestrictedDomainRole"})

(* neIeee8021MstpPortTable *)
neIeee8021MstpPortTable_Index ==
  Rows(
    <<Unsigned(32, "u32ComponentId"),
      Unsigned(16, "u16MstId"),
      Unsigned(32, "u32Num")>>)
neIeee8021MstpPortTable_Read ==
  Counted("OCTET_STR", {"au8Flags"})

(* neIeee8021MstpFidToMstiV2Table *)
neIeee8021MstpFidToMstiV2Table_Index ==
  Rows(<<Unsigned(32, "u32ComponentId"), Unsigned(32, "u32Fid")>>)
neIeee8021MstpFidToMstiV2Table_Read ==
  Value("UNSIGNED", {"u16SptId"})
neIeee8021MstpFidToMstiV2Table_Check ==
  FixedRows(
    OfFirst("UNSIGNED", {"u16SptId"}))
neIeee8021MstpFidToMstiV2Table_Write ==
  Word(16, {"u16SptId"})

(* neIeee8021MstpVlanV2Table *)
neIeee8021MstpVlanV2Table_Index ==
  Rows(<<Unsigned(32, "u32ComponentId"), Unsigned(32, "u32Id")>>)
neIeee8021MstpVlanV2Table_Read ==
  Value("UNSIGNED", {"u16SptId"})

neIeee8021StpMIB_tables ==
  [neIeee8021MstpCistTable |->
     Table(neIeee8021MstpCistTable_Index, neIeee8021MstpCistTable_Read,
           neIeee8021MstpCistTable_Check, neIeee8021MstpCistTable_Write),
   neIeee8021MstpTable |->
     Table(neIeee8021MstpTable_Index, neIeee8021MstpTable_Read,
           neIeee8021MstpTable_Check, neIeee8021MstpTable_Write),
   neIeee8021MstpCistPortTable |->
     Table(neIeee8021MstpCistPortTable_Index, neIeee8021MstpCistPortTable_Read,
           neIeee8021MstpCistPortTable_Check, neIeee8021MstpCistPortTable_Write),
   neIeee8021MstpPortTable |-> ReadOnly(neIeee8021MstpPortTable_Index, neIeee8021MstpPortTable_Read),
   neIeee8021MstpFidToMstiV2Table |->
     Table(neIeee8021MstpFidToMstiV2Table_Index, neIeee8021MstpFidToMstiV2Table_Read,
           neIeee8021MstpFidToMstiV2Table_Check, neIeee8021MstpFidToMstiV2Table_Write),
   neIeee8021MstpVlanV2Table |-> ReadOnly(neIeee8021MstpVlanV2Table_Index, neIeee8021MstpVlanV2Table_Read)]

=============================================================================
