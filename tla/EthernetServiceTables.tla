------------------------ MODULE EthernetServiceTables -------------------------
(***************************************************************************)
(* The tables of Ethernet services (ethernet/).                            *)
(***************************************************************************)
EXTENDS Tables

-----------------------------------------------------------------------------
(* ethernet/mefEnniOvcMib.c                                                *)

(* mefServiceOvcAttributes *)
mefServiceOvcAttributes_Read ==
  Value("UNSIGNED", {"u32NextIndex"})

(* mefServiceEnniCfgTable *)
mefServiceEnniCfgTable_Index ==
  Rows(<<Signed(32, "u32IfIndex")>>)
mefServiceEnniCfgTable_Read ==
  Counted("OCTET_STR", {"au8Identifier"}) @@
  Value("UNSIGNED", {"u32NumberLinks", "u32MaxNumberOvcEndPts",
                     "u32VuniNextIndex"}) @@
  Value("INTEGER", {"i32Protection"})
mefServiceEnniCfgTable_Check ==
  FixedRows(
    Sized("OCTET_STR", {"au8Identifier"}) @@
    OfFirst("UNSIGNED", {"u32NumberLinks"}) @@
    OfFirst("INTEGER", {"i32Protection"}))
mefServiceEnniCfgTable_Write ==
  Saved("counted", {"au8Identifier"}) @@
  Word(32, {"u32NumberLinks", "i32Protection"})

(* mefServiceVuniCfgTable *)
mefServiceVuniCfgTable_Index ==
  Rows(<<Signed(32, "u32IfIndex"), Unsigned(32, "u32Index")>>)
mefServiceVuniCfgTable_Read ==
  Counted("OCTET_STR", {"au8Identifier", "au8SVlanMap"}) @@
  Value("UNSIGNED", {"u32CeVidUntagged", "u32CePriorityUntagged",
                     "u32MaxNumberOvcEndPoints", "u32IngressBwpGrpIndex",
                     "u32EgressBwpGrpIndex", "u32L2cpGrpIndex"}) @@
  Value("INTEGER", {"u8RowStatus"})
mefServiceVuniCfgTable_Check ==
  CommitRows("u8RowStatus",
    Sized("OCTET_STR", {"au8Identifier", "au8SVlanMap"}) @@
    OfFirst("UNSIGNED", {"u32CeVidUntagged", "u32CePriorityUntagged",
                         "u32IngressBwpGrpIndex", "u32EgressBwpGrpIndex",
                         "u32L2cpGrpIndex"}))
mefServiceVuniCfgTable_Write ==
  Saved("counted", {"au8Identifier", "au8SVlanMap"}) @@
  Word(32, {"u32CeVidUntagged", "u32CePriorityUntagged",
            "u32IngressBwpGrpIndex", "u32EgressBwpGrpIndex",
            "u32L2cpGrpIndex"}) @@
  AtCommit("u8RowStatus")

(* mefServiceOvcCfgTable *)
mefServiceOvcCfgTable_Index ==
  Rows(<<Unsigned(32, "u32Index")>>)
mefServiceOvcCfgTable_Read ==
  Counted("OCTET_STR", {"au8Identifier"}) @@
  Value("INTEGER", {"i32ServiceType", "i32CeVlanIdPreservation",
                    "i32CeVlanCosPreservation", "i32SVlanIdPreservation",
                    "i32SVlanCosPreservation", "i32ColorForwarding",
                    "i32ColorIndicator", "i32UnicastDelivery",
                    "i32MulticastDelivery", "i32BroadcastDelivery",
                    "i32AdminState", "u8RowStatus"}) @@
  Value("UNSIGNED", {"u32MtuSize", "u32L2cpGrpIndex"})
mefServiceOvcCfgTable_Check ==
  CommitRows("u8RowStatus",
    Sized("OCTET_STR", {"au8Identifier"}) @@
    OfFirst("INTEGER", {"i32ServiceType", "i32CeVlanIdPreservation",
                        "i32CeVlanCosPreservation", "i32SVlanIdPreservation",
                        "i32SVlanCosPreservation", "i32ColorForwarding",
                        "i32ColorIndicator", "i32UnicastDelivery",
                        "i32MulticastDelivery", "i32BroadcastDelivery",
                        "i32AdminState"}) @@
    OfFirst("UNSIGNED", {"u32MtuSize", "u32L2cpGrpIndex"}))
mefServiceOvcCfgTable_Write ==
  Saved("counted", {"au8Identifier"}) @@
  Word(32, {"i32ServiceType", "u32MtuSize", "i32CeVlanIdPreservation",
            "i32CeVlanCosPreservation", "i32SVlanIdPreservation",
            "i32SVlanCosPreservation", "i32ColorForwarding",
            "i32ColorIndicator", "i32UnicastDelivery", "i32MulticastDelivery",
            "i32BroadcastDelivery", "u32L2cpGrpIndex", "i32AdminState"}) @@
  AtCommit("u8RowStatus")

(* mefServiceOvcStatusTable *)
mefServiceOvcStatusTable_Index ==
  Rows(<<Unsigned(32, "u32CfgIndex")>>)
mefServiceOvcStatusTable_Read ==
  Value("UNSIGNED", {"u32MaxMtuSize", "u32MaxNumEnniOvcEndPt",
                     "u32MaxNumVuniOvcEndPt"}) @@
  Value("INTEGER", {"i32OperationalState"})

(* mefServiceOvcEndPtPerEnniCfgTable *)
mefServiceOvcEndPtPerEnniCfgTable_Index ==
  Rows(<<Signed(32, "u32IfIndex"), Unsigned(32, "u32CfgIndex")>>)
mefServiceOvcEndPtPerEnniCfgTable_Read ==
  Counted("OCTET_STR", {"au8Identifier", "au8RootSVlanMap", "au8LeafSVlanMap"}) @@
  Value("INTEGER", {"i32Role", "u8RowStatus"}) @@
  Value("UNSIGNED", {"u32IngressBwpGrpIndex", "u32EgressBwpGrpIndex"})
mefServiceOvcEndPtPerEnniCfgTable_Check ==
  CommitRows("u8RowStatus",
    Sized("OCTET_STR", {"au8Identifier", "au8RootSVlanMap", "au8LeafSVlanMap"}) @@
    OfFirst("INTEGER", {"i32Role"}) @@
    OfFirst("UNSIGNED", {"u32IngressBwpGrpIndex", "u32EgressBwpGrpIndex"}))
mefServiceOvcEndPtPerEnniCfgTable_Write ==
  Saved("counted", {"au8Identifier", "au8RootSVlanMap", "au8LeafSVlanMap"}) @@
  Word(32, {"i32Role", "u32IngressBwpGrpIndex", "u32EgressBwpGrpIndex"}) @@
  AtCommit("u8RowStatus")

(* mefServiceOvcEndPtPerUniCfgTable *)
mefServiceOvcEndPtPerUniCfgTable_Index ==
  Rows(<<Signed(32, "u32IfIndex"), Unsigned(32, "u32CfgIndex")>>)
mefServiceOvcEndPtPerUniCfgTable_Read ==
  Counted("OCTET_STR", {"au8Identifier", "au8CeVlanMap"}) @@
  Value("INTEGER", {"i32Role", "u8RowStatus"}) @@
  Value("UNSIGNED", {"u32IngressBwpGrpIndex", "u32EgressBwpGrpIndex"})
mefServiceOvcEndPtPerUniCfgTable_Check ==
  CommitRows("u8RowStatus",
    OfFirst("INTEGER", {"i32Role"}) @@
    Sized("OCTET_STR", {"au8CeVlanMap"}) @@
    OfFirst("UNSIGNED", {"u32IngressBwpGrpIndex", "u32EgressBwpGrpIndex"}))
mefServiceOvcEndPtPerUniCfgTable_Write ==
  Word(32, {"i32Role", "u32IngressBwpGrpIndex", "u32EgressBwpGrpIndex"}) @@
  Saved("counted", {"au8CeVlanMap"}) @@
  AtCommit("u8RowStatus")

(* mefServiceOvcEndPtPerVuniCfgTable *)
mefServiceOvcEndPtPerVuniCfgTable_Index ==
  Rows(
    <<Signed(32, "u32IfIndex"),
      Unsigned(32, "u32VuniCfgIndex"),
      Unsigned(32, "u32OvcCfgIndex")>>)
mefServiceOvcEndPtPerVuniCfgTable_Read ==
  Counted("OCTET_STR", {"au8Identifier", "au8CeVlanMap"}) @@
  Value("INTEGER", {"i32Role", "u8RowStatus"}) @@
  Value("UNSIGNED", {"u32IngressBwpGrpIndex", "u32EgressBwpGrpIndex"})
mefServiceOvcEndPtPerVuniCfgTable_Check ==
  CommitRows("u8RowStatus",
    OfFirst("INTEGER", {"i32Role"}) @@
    Sized("OCTET_STR", {"au8CeVlanMap"}) @@
    OfFirst("UNSIGNED", {"u32IngressBwpGrpIndex", "u32EgressBwpGrpIndex"}))
mefServiceOvcEndPtPerVuniCfgTable_Write ==
  Word(32, {"i32Role", "u32IngressBwpGrpIndex", "u32EgressBwpGrpIndex"}) @@
  Saved("counted", {"au8CeVlanMap"}) @@
  AtCommit("u8RowStatus")

mefEnniOvcMib_tables ==
  [mefServiceOvcAttributes |-> ReadOnly(NoIndex, mefServiceOvcAttributes_Read),
   mefServiceEnniCfgTable |->
     Table(mefServiceEnniCfgTable_Index, mefServiceEnniCfgTable_Read,
           mefServiceEnniCfgTable_Check, mefServiceEnniCfgTable_Write),
   mefServiceVuniCfgTable |->
     Table(mefServiceVuniCfgTable_Index, mefServiceVuniCfgTable_Read,
           mefServiceVuniCfgTable_Check, mefServiceVuniCfgTable_Write),
   mefServiceOvcCfgTable |->
     Table(mefServiceOvcCfgTable_Index, mefServiceOvcCfgTable_Read,
           mefServiceOvcCfgTable_Check, mefServiceOvcCfgTable_Write),
   mefServiceOvcStatusTable |-> ReadOnly(mefServiceOvcStatusTable_Index, mefServiceOvcStatusTable_Read),
   mefServiceOvcEndPtPerEnniCfgTable |->
     Table(mefServiceOvcEndPtPerEnniCfgTable_Index, mefServiceOvcEndPtPerEnniCfgTable_Read,
           mefServiceOvcEndPtPerEnniCfgTable_Check, mefServiceOvcEndPtPerEnniCfgTable_Write),
   mefServiceOvcEndPtPerUniCfgTable |->
     Table(mefServiceOvcEndPtPerUniCfgTable_Index, mefServiceOvcEndPtPerUniCfgTable_Read,
           mefServiceOvcEndPtPerUniCfgTable_Check, mefServiceOvcEndPtPerUniCfgTable_Write),
   mefServiceOvcEndPtPerVuniCfgTable |->
     Table(mefServiceOvcEndPtPerVuniCfgTable_Index, mefServiceOvcEndPtPerVuniCfgTable_Read,
           mefServiceOvcEndPtPerVuniCfgTable_Check, mefServiceOvcEndPtPerVuniCfgTable_Write)]

-----------------------------------------------------------------------------
(* ethernet/mefUniEvcMib.c                                                 *)

(* mefServiceEvcAttributes *)
mefServiceEvcAttributes_Read ==
  Value("UNSIGNED", {"u32NextIndex"})

(* mefServiceBwpAttributes *)
mefServiceBwpAttributes_Read ==
  Value("UNSIGNED", {"u32GrpNextIndex"})

(* mefServiceCosAttributes *)
mefServiceCosAttributes_Read ==
  Value("UNSIGNED", {"u32NextIndex"})

(* mefServiceL2cpAttributes *)
mefServiceL2cpAttributes_Read ==
  Value("UNSIGNED", {"u32GrpNextIndex"})

(* mefServiceNotificationCfg *)
mefServiceNotificationCfg_Read ==
  Entire("OCTET_STR", {"au8AlarmEnable"})
mefServiceNotificationCfg_Check ==
  Scalars(
    OfFirst("OCTET_STR", {"au8AlarmEnable"}))
mefServiceNotificationCfg_Write ==
  InPlace(0, {"au8AlarmEnable"})

(* mefServiceInterfaceCfgTable *)
mefServiceInterfaceCfgTable_Index ==
  Rows(<<Signed(32, "u32IfIndex")>>)
mefServiceInterfaceCfgTable_Read ==
  Entire("OCTET_STR", {"au8Type"}) @@
  Counted("OCTET_STR", {"au8Identifier"}) @@
  Value("INTEGER", {"i32FrameFormat"}) @@
  Value("UNSIGNED", {"u32IngressBwpGrpIndex", "u32EgressBwpGrpIndex",
                     "u32L2cpGrpIndex"})
mefServiceInterfaceCfgTable_Check ==
  FixedRows(
    Sized("OCTET_STR", {"au8Type", "au8Identifier"}) @@
    OfFirst("INTEGER", {"i32FrameFormat"}) @@
    OfFirst("UNSIGNED", {"u32IngressBwpGrpIndex", "u32EgressBwpGrpIndex",
                         "u32L2cpGrpIndex"}))
mefServiceInterfaceCfgTable_Write ==
  Saved("uncounted", {"au8Type"}) @@
  Saved("counted", {"au8Identifier"}) @@
  Word(32, {"i32FrameFormat", "u32IngressBwpGrpIndex", "u32EgressBwpGrpIndex",
            "u32L2cpGrpIndex"})

(* mefServiceInterfaceStatusTable *)
mefServiceInterfaceStatusTable_Index ==
  Rows(<<Signed(32, "u32IfIndex")>>)
mefServiceInterfaceStatusTable_Read ==
  Entire("OCTET_STR", {"au8Type"}) @@
  Value("UNSIGNED", {"u32MaxVc", "u32MaxEndPointPerVc"})

(* mefServiceInterfaceStatisticsTable *)
mefServiceInterfaceStatisticsTable_Index ==
  Rows(<<Signed(32, "u32IfIndex")>>)
mefServiceInterfaceStatisticsTable_Read ==
  Value("COUNTER", {"u32IngressUndersized", "u32IngressOversized",
                    "u32IngressFragments", "u32IngressCrcAlignment",
                    "u32IngressInvalidVid"}) @@
  Value("COUNTER64", {"u64IngressOctets", "u64IngressUnicast",
                      "u64IngressMulticast", "u64IngressBroadcast",
                      "u64EgressOctets", "u64EgressUnicast",
                      "u64EgressMulticast", "u64EgressBroadcast"})

(* mefServiceUniCfgTable *)
mefServiceUniCfgTable_Index ==
  Rows(<<Signed(32, "u32IfIndex")>>)
mefServiceUniCfgTable_Read ==
  Counted("OCTET_STR", {"au8Identifier"}) @@
  Value("INTEGER", {"i32BundlingMultiplex", "u32CeVidUntagged"}) @@
  Value("UNSIGNED", {"u32CePriorityUntagged"})
mefServiceUniCfgTable_Check ==
  ColumnRows(
    Sized("OCTET_STR", {"au8Identifier"}) @@
    OfFirst("INTEGER", {"i32BundlingMultiplex", "u32CeVidUntagged"}) @@
    OfFirst("UNSIGNED", {"u32CePriorityUntagged"}))
mefServiceUniCfgTable_Write ==
  Saved("counted", {"au8Identifier"}) @@
  Word(32, {"i32BundlingMultiplex", "u32CeVidUntagged",
            "u32CePriorityUntagged"})

(* mefServiceEvcPerUniCfgTable *)
mefServiceEvcPerUniCfgTable_Index ==
  Rows(<<Signed(32, "u32IfIndex"), Unsigned(32, "u32CfgIndex")>>)
mefServiceEvcPerUniCfgTable_Read ==
  Value("INTEGER", {"i32ServiceType"}) @@
  Counted("OCTET_STR", {"au8Identifier", "au8CeVlanMap"}) @@
  Value("UNSIGNED", {"u32IngressBwpGrpIndex", "u32EgressBwpGrpIndex"})
mefServiceEvcPerUniCfgTable_Check ==
  FixedRows(
    Sized("OCTET_STR", {"au8CeVlanMap"}) @@
    OfFirst("UNSIGNED", {"u32IngressBwpGrpIndex", "u32EgressBwpGrpIndex"}))
mefServiceEvcPerUniCfgTable_Write ==
  Saved("counted", {"au8CeVlanMap"}) @@
  Word(32, {"u32IngressBwpGrpIndex", "u32EgressBwpGrpIndex"})

(* mefServiceEvcCfgTable *)
mefServiceEvcCfgTable_Index ==
  Rows(<<Unsigned(32, "u32Index")>>)
mefServiceEvcCfgTable_Read ==
  Counted("OCTET_STR", {"au8Identifier"}) @@
  Value("INTEGER", {"i32ServiceType", "i32CeVlanIdPreservation",
                    "i32CeVlanCosPreservation", "i32UnicastDelivery",
                    "i32MulticastDelivery", "i32BroadcastDelivery",
                    "i32AdminState", "u8RowStatus"}) @@
  Value("UNSIGNED", {"u32MtuSize", "u32L2cpGrpIndex"})
mefServiceEvcCfgTable_Check ==
  CommitRows("u8RowStatus",
    Sized("OCTET_STR", {"au8Identifier"}) @@
    OfFirst("INTEGER", {"i32ServiceType", "i32CeVlanIdPreservation",
                        "i32CeVlanCosPreservation", "i32UnicastDelivery",
                        "i32MulticastDelivery", "i32BroadcastDelivery",
                        "i32AdminState"}) @@
    OfFirst("UNSIGNED", {"u32MtuSize", "u32L2cpGrpIndex"}))
mefServiceEvcCfgTable_Write ==
  Saved("counted", {"au8Identifier"}) @@
  Word(32, {"i32ServiceType", "u32MtuSize", "i32CeVlanIdPreservation",
            "i32CeVlanCosPreservation", "i32UnicastDelivery",
            "i32MulticastDelivery", "i32BroadcastDelivery", "u32L2cpGrpIndex",
            "i32AdminState"}) @@
  AtCommit("u8RowStatus")

(* mefServiceEvcUniCfgTable *)
mefServiceEvcUniCfgTable_Index ==
  Rows(<<Unsigned(32, "u32CfgIndex"), Signed(32, "u32IfIndex")>>)
mefServiceEvcUniCfgTable_Read ==
  Value("INTEGER", {"i32Type", "u8RowStatus"})
mefServiceEvcUniCfgTable_Check ==
  CommitRows("u8RowStatus",
    OfFirst("INTEGER", {"i32Type"}))
mefServiceEvcUniCfgTable_Write ==
  Word(32, {"i32Type"}) @@
  AtCommit("u8RowStatus")

(* mefServiceEvcStatusTable *)
mefServiceEvcStatusTable_Index ==
  Rows(<<Unsigned(32, "u32CfgIndex")>>)
mefServiceEvcStatusTable_Read ==
  Value("UNSIGNED", {"u32MaxMtuSize", "u32MaxNumUni"}) @@
  Value("INTEGER", {"i32OperationalState"})

(* mefServiceBwpGrpCfgTable *)
mefServiceBwpGrpCfgTable_Index ==
  Rows(<<Unsigned(32, "u32Index")>>)
mefServiceBwpGrpCfgTable_Read ==
  Value("UNSIGNED", {"u32CfgNextIndex"}) @@
  Value("INTEGER", {"u8RowStatus"})
mefServiceBwpGrpCfgTable_Check ==
  CommitRows("u8RowStatus", NoColumns)
mefServiceBwpGrpCfgTable_Write ==
  AtCommit("u8RowStatus")

(* mefServiceBwpCfgTable *)
mefServiceBwpCfgTable_Index ==
  Rows(<<Unsigned(32, "u32GrpCfgIndex"), Unsigned(32, "u32Index")>>)
mefServiceBwpCfgTable_Read ==
  Counted("OCTET_STR", {"au8Identifier"}) @@
  Value("UNSIGNED", {"u32Cir", "u32Cbs", "u32Eir", "u32Ebs", "u32CosIndex"}) @@
  Value("INTEGER", {"i32Cm", "i32Cf", "i32PerformanceEnable", "u8RowStatus"})
mefServiceBwpCfgTable_Check ==
  CommitRows("u8RowStatus",
    Sized("OCTET_STR", {"au8Identifier"}) @@
    OfFirst("UNSIGNED", {"u32Cir", "u32Cbs", "u32Eir", "u32Ebs",
                         "u32CosIndex"}) @@
    OfFirst("INTEGER", {"i32Cm", "i32Cf", "i32PerformanceEnable"}))
mefServiceBwpCfgTable_Write ==
  Saved("counted", {"au8Identifier"}) @@
  Word(32, {"u32Cir", "u32Cbs", "u32Eir", "u32Ebs", "i32Cm", "i32Cf",
            "u32CosIndex", "i32PerformanceEnable"}) @@
  AtCommit("u8RowStatus")

(* mefServicePerformanceTable *)
mefServicePerformanceTable_Index ==
  Rows(<<Unsigned(32, "u32GrpCfgIndex"), Unsigned(32, "u32CfgIndex")>>)
mefServicePerformanceTable_Read ==
  Value("COUNTER64", {"u64IngressGreenFrameCount",
                      "u64IngressYellowFrameCount", "u64IngressRedFrameCount",
                      "u64IngressGreenOctets", "u64IngressYellowOctets",
                      "u64IngressRedOctets", "u64IngressGreenFrameDiscards",
                      "u64IngressYellowFrameDiscards",
                      "u64IngressGreenOctetsDiscards",
                      "u64IngressYellowOctetsDiscards",
                      "u64EgressGreenFrameCount", "u64EgressYellowFrameCount",
                      "u64EgressGreenOctets", "u64EgressYellowOctets"})

(* mefServiceCosCfgTable *)
mefServiceCosCfgTable_Index ==
  Rows(<<Unsigned(32, "u32Index")>>)
mefServiceCosCfgTable_Read ==
  Counted("OCTET_STR", {"au8Identifier", "au8IdentifierList"}) @@
  Value("INTEGER", {"i32Type", "u8RowStatus"}) @@
  Entire("OCTET_STR", {"au8MacAddress"}) @@
  Value("UNSIGNED", {"u32Protocol", "u32SubType"})
mefServiceCosCfgTable_Check ==
  CommitRows("u8RowStatus",
    Sized("OCTET_STR", {"au8Identifier", "au8IdentifierList", "au8MacAddress"}) @@
    OfFirst("INTEGER", {"i32Type"}) @@
    OfFirst("UNSIGNED", {"u32Protocol", "u32SubType"}))
mefServiceCosCfgTable_Write ==
  Saved("counted", {"au8Identifier", "au8IdentifierList"}) @@
  Word(32, {"i32Type", "u32Protocol", "u32SubType"}) @@
  Saved("uncounted", {"au8MacAddress"}) @@
  AtCommit("u8RowStatus")

(* mefServiceL2cpGrpCfgTable *)
mefServiceL2cpGrpCfgTable_Index ==
  Rows(<<Unsigned(32, "u32Index")>>)
mefServiceL2cpGrpCfgTable_Read ==
  Value("UNSIGNED", {"u32CfgNextIndex"}) @@
  Value("INTEGER", {"u8RowStatus"})
mefServiceL2cpGrpCfgTable_Check ==
  CommitRows("u8RowStatus", NoColumns)
mefServiceL2cpGrpCfgTable_Write ==
  AtCommit("u8RowStatus")

(* mefServiceL2cpCfgTable *)
mefServiceL2cpCfgTable_Index ==
  Rows(<<Unsigned(32, "u32GrpCfgIndex"), Unsigned(32, "u32Index")>>)
mefServiceL2cpCfgTable_Read ==
  Value("INTEGER", {"i32Type", "i32MatchScope", "u8RowStatus"}) @@
  Entire("OCTET_STR", {"au8MacAddress"}) @@
  Value("UNSIGNED", {"u32Protocol", "u32SubType"})
mefServiceL2cpCfgTable_Check ==
  CommitRows("u8RowStatus",
    OfFirst("INTEGER", {"i32Type", "i32MatchScope"}) @@
    Sized("OCTET_STR", {"au8MacAddress"}) @@
    OfFirst("UNSIGNED", {"u32Protocol", "u32SubType"}))
mefServiceL2cpCfgTable_Write ==
  Word(32, {"i32Type", "i32MatchScope", "u32Protocol", "u32SubType"}) @@
  Saved("uncounted", {"au8MacAddress"}) @@
  AtCommit("u8RowStatus")

mefUniEvcMib_tables ==
  [mefServiceEvcAttributes |-> ReadOnly(NoIndex, mefServiceEvcAttributes_Read),
   mefServiceBwpAttributes |-> ReadOnly(NoIndex, mefServiceBwpAttributes_Read),
   mefServiceCosAttributes |-> ReadOnly(NoIndex, mefServiceCosAttributes_Read),
   mefServiceL2cpAttributes |-> ReadOnly(NoIndex, mefServiceL2cpAttributes_Read),
   mefServiceNotificationCfg |->
     Table(NoIndex, mefServiceNotificationCfg_Read,
           mefServiceNotificationCfg_Check, mefServiceNotificationCfg_Write),
   mefServiceInterfaceCfgTable |->
     Table(mefServiceInterfaceCfgTable_Index, mefServiceInterfaceCfgTable_Read,
           mefServiceInterfaceCfgTable_Check, mefServiceInterfaceCfgTable_Write),
   mefServiceInterfaceStatusTable |-> ReadOnly(mefServiceInterfaceStatusTable_Index, mefServiceInterfaceStatusTable_Read),
   mefServiceInterfaceStatisticsTable |-> ReadOnly(mefServiceInterfaceStatisticsTable_Index, mefServiceInterfaceStatisticsTable_Read),
   mefServiceUniCfgTable |->
     Table(mefServiceUniCfgTable_Index, mefServiceUniCfgTable_Read,
           mefServiceUniCfgTable_Check, mefServiceUniCfgTable_Write),
   mefServiceEvcPerUniCfgTable |->
     Table(mefServiceEvcPerUniCfgTable_Index, mefServiceEvcPerUniCfgTable_Read,
           mefServiceEvcPerUniCfgTable_Check, mefServiceEvcPerUniCfgTable_Write),
   mefServiceEvcCfgTable |->
     Table(mefServiceEvcCfgTable_Index, mefServiceEvcCfgTable_Read,
           mefServiceEvcCfgTable_Check, mefServiceEvcCfgTable_Write),
   mefServiceEvcUniCfgTable |->
     Table(mefServiceEvcUniCfgTable_Index, mefServiceEvcUniCfgTable_Read,
           mefServiceEvcUniCfgTable_Check, mefServiceEvcUniCfgTable_Write),
   mefServiceEvcStatusTable |-> ReadOnly(mefServiceEvcStatusTable_Index, mefServiceEvcStatusTable_Read),
   mefServiceBwpGrpCfgTable |->
     Table(mefServiceBwpGrpCfgTable_Index, mefServiceBwpGrpCfgTable_Read,
           mefServiceBwpGrpCfgTable_Check, mefServiceBwpGrpCfgTable_Write),
   mefServiceBwpCfgTable |->
     Table(mefServiceBwpCfgTable_Index, mefServiceBwpCfgTable_Read,
           mefServiceBwpCfgTable_Check, mefServiceBwpCfgTable_Write),
   mefServicePerformanceTable |-> ReadOnly(mefServicePerformanceTable_Index, mefServicePerformanceTable_Read),
   mefServiceCosCfgTable |->
     Table(mefServiceCosCfgTable_Index, mefServiceCosCfgTable_Read,
           mefServiceCosCfgTable_Check, mefServiceCosCfgTable_Write),
   mefServiceL2cpGrpCfgTable |->
     Table(mefServiceL2cpGrpCfgTable_Index, mefServiceL2cpGrpCfgTable_Read,
           mefServiceL2cpGrpCfgTable_Check, mefServiceL2cpGrpCfgTable_Write),
   mefServiceL2cpCfgTable |->
     Table(mefServiceL2cpCfgTable_Index, mefServiceL2cpCfgTable_Read,
           mefServiceL2cpCfgTable_Check, mefServiceL2cpCfgTable_Write)]

=============================================================================
