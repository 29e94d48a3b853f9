------------------------------ MODULE CfmTables -------------------------------
(***************************************************************************)
(* The tables of connectivity fault management (cfm/).                     *)
(***************************************************************************)
EXTENDS Tables

-----------------------------------------------------------------------------
(* cfm/ieee8021CfmMib.c                                                    *)

(* dot1agCfmDefaultMd *)
dot1agCfmDefaultMd_Read ==
  Value("INTEGER", {"i32DefLevel", "i32DefMhfCreation", "i32DefIdPermission"})
dot1agCfmDefaultMd_Check ==
  Scalars(
    OfFirst("INTEGER", {"i32DefLevel", "i32DefMhfCreation",
                        "i32DefIdPermission"}))
dot1agCfmDefaultMd_Write ==
  InPlace(32, {"i32DefLevel", "i32DefMhfCreation", "i32DefIdPermission"})

(* dot1agCfmMd *)
dot1agCfmMd_Read ==
  Value("UNSIGNED", {"u32TableNextIndex"})

(* dot1agCfmMdTable *)
dot1agCfmMdTable_Index ==
  Rows(<<Unsigned(32, "u32Index")>>)
dot1agCfmMdTable_Read ==
  Value("INTEGER", {"i32Format", "i32MdLevel", "i32MhfCreation",
                    "i32MhfIdPermission", "u8RowStatus"}) @@
  Counted("OCTET_STR", {"au8Name"}) @@
  Value("UNSIGNED", {"u32MaNextIndex"})
dot1agCfmMdTable_Check ==
  CommitRows("u8RowStatus",
    OfFirst("INTEGER", {"i32Format", "i32MdLevel", "i32MhfCreation",
                        "i32MhfIdPermission"}) @@
    Sized("OCTET_STR", {"au8Name"}))
dot1agCfmMdTable_Write ==
  Word(32, {"i32Format", "i32MdLevel", "i32MhfCreation", "i32MhfIdPermission"}) @@
  Saved("counted", {"au8Name"}) @@
  AtCommit("u8RowStatus")

(* dot1agCfmMaNetTable *)
dot1agCfmMaNetTable_Index ==
  Rows(<<Unsigned(32, "u32MdIndex"), Unsigned(32, "u32Index")>>)
dot1agCfmMaNetTable_Read ==
  Value("INTEGER", {"i32Format", "i32CcmInterval", "u8RowStatus"}) @@
  Counted("OCTET_STR", {"au8Name"})
dot1agCfmMaNetTable_Check ==
  CommitRows("u8RowStatus",
    OfFirst("INTEGER", {"i32Format", "i32CcmInterval"}) @@
    Sized("OCTET_STR", {"au8Name"}))
dot1agCfmMaNetTable_Write ==
  Word(32, {"i32Format", "i32CcmInterval"}) @@
  Saved("counted", {"au8Name"}) @@
  AtCommit("u8RowStatus")

(* dot1agCfmMaMepListTable *)
dot1agCfmMaMepListTable_Index ==
  Rows(
    <<Unsigned(32, "u32MdIndex"),
      Unsigned(32, "u32MaIndex"),
      Unsigned(32, "u32Identifier")>>)
dot1agCfmMaMepListTable_Read ==
  Value("INTEGER", {"u8RowStatus"})
dot1agCfmMaMepListTable_Check ==
  CommitRows("u8RowStatus", NoColumns)
dot1agCfmMaMepListTable_Write ==
  AtCommit("u8RowStatus")

(* dot1agCfmMepTable *)
dot1agCfmMepTable_Index ==
  Rows(
    <<Unsigned(32, "u32MdIndex"),
      Unsigned(32, "u32MaIndex"),
      Unsigned(32, "u32Identifier")>>)
dot1agCfmMepTable_Read ==
  Value("INTEGER", {"u32IfIndex", "i32Direction", "u8Active", "i32FngState",
                    "u8CciEnabled", "i32LowPrDef", "i32FngAlarmTime",
                    "i32FngResetTime", "i32HighestPrDefect",
                    "u8TransmitLbmStatus", "u8TransmitLbmDestIsMepId",
                    "i32TransmitLbmMessages", "i32TransmitLbmVlanPriority",
                    "u8TransmitLbmVlanDropEnable", "u8TransmitLbmResultOK",
                    "u8TransmitLtmStatus", "u8TransmitLtmTargetIsMepId",
                    "u8TransmitLtmResult", "u8RowStatus",
                    "u8PbbTeCanReportPbbTePresence",
                    "u8PbbTeTrafficMismatchDefect", "u8PbbTeMismatchAlarm",
                    "u8PbbTeLocalMismatchDefect", "u8PbbTeMismatchSinceReset"}) @@
  Value("UNSIGNED", {"u32PrimaryVid", "u32CcmLtmPriority", "u32NextLbmTransId",
                     "u32LtmNextSeqNumber", "u32TransmitLbmDestMepId",
                     "u32TransmitLbmSeqNumber", "u32TransmitLtmTargetMepId",
                     "u32TransmitLtmTtl", "u32TransmitLtmSeqNumber",
                     "u32PbbTransmitLbmLtmReverseVid"}) @@
  Entire("OCTET_STR", {"au8MacAddress", "au8Defects",
                       "au8TransmitLbmDestMacAddress", "au8TransmitLtmFlags",
                       "au8TransmitLtmTargetMacAddress",
                       "au8TransmitLtmEgressIdentifier"}) @@
  Counted("OCTET_STR", {"au8ErrorCcmLastFailure", "au8XconCcmLastFailure",
                        "au8TransmitLbmDataTlv"}) @@
  Value("COUNTER", {"u32CcmSequenceErrors", "u32CciSentCcms", "u32LbrIn",
                    "u32LbrInOutOfOrder", "u32LbrBadMsdu", "u32UnexpLtrIn",
                    "u32LbrOut"})
dot1agCfmMepTable_Check ==
  CommitRows("u8RowStatus",
    OfFirst("INTEGER", {"u32IfIndex", "i32Direction", "u8Active",
                        "u8CciEnabled", "i32LowPrDef", "i32FngAlarmTime",
                        "i32FngResetTime", "u8TransmitLbmStatus",
                        "u8TransmitLbmDestIsMepId", "i32TransmitLbmMessages",
                        "i32TransmitLbmVlanPriority",
                        "u8TransmitLbmVlanDropEnable", "u8TransmitLtmStatus",
                        "u8TransmitLtmTargetIsMepId",
                        "u8PbbTeCanReportPbbTePresence",
                        "u8PbbTeMismatchAlarm"}) @@
    OfFirst("UNSIGNED", {"u32PrimaryVid", "u32CcmLtmPriority",
                         "u32TransmitLbmDestMepId",
                         "u32TransmitLtmTargetMepId", "u32TransmitLtmTtl",
                         "u32PbbTransmitLbmLtmReverseVid"}) @@
    Sized("OCTET_STR", {"au8TransmitLbmDestMacAddress",
                        "au8TransmitLbmDataTlv", "au8TransmitLtmFlags",
                        "au8TransmitLtmTargetMacAddress",
                        "au8TransmitLtmEgressIdentifier"}))
dot1agCfmMepTable_Write ==
  Word(32, {"u32IfIndex", "i32Direction", "u32PrimaryVid", "u32CcmLtmPriority",
            "i32LowPrDef", "i32FngAlarmTime", "i32FngResetTime",
            "u32TransmitLbmDestMepId", "i32TransmitLbmMessages",
            "i32TransmitLbmVlanPriority", "u32TransmitLtmTargetMepId",
            "u32TransmitLtmTtl", "u32PbbTransmitLbmLtmReverseVid"}) @@
  Word(8, {"u8Active", "u8CciEnabled", "u8TransmitLbmStatus",
           "u8TransmitLbmDestIsMepId", "u8TransmitLbmVlanDropEnable",
           "u8TransmitLtmStatus", "u8TransmitLtmTargetIsMepId",
           "u8PbbTeCanReportPbbTePresence", "u8PbbTeMismatchAlarm"}) @@
  Saved("uncounted", {"au8TransmitLbmDestMacAddress", "au8TransmitLtmFlags",
                      "au8TransmitLtmTargetMacAddress",
                      "au8TransmitLtmEgressIdentifier"}) @@
  Saved("counted", {"au8TransmitLbmDataTlv"}) @@
  AtCommit("u8RowStatus")

(* dot1agCfmLtrTable *)
dot1agCfmLtrTable_Index ==
  Rows(
    <<Unsigned(32, "u32MdIndex"),
      Unsigned(32, "u32MaIndex"),
      Unsigned(32, "u32MepIdentifier"),
      Unsigned(32, "u32SeqNumber"),
      Unsigned(32, "u32ReceiveOrder")>>)
dot1agCfmLtrTable_Read ==
  Value("UNSIGNED", {"u32Ttl"}) @@
  Value("INTEGER", {"u8Forwarded", "u8TerminalMep", "i32Relay",
                    "i32ChassisIdSubtype", "i32Ingress",
                    "i32IngressPortIdSubtype", "i32Egress",
                    "i32EgressPortIdSubtype"}) @@
  Entire("OCTET_STR", {"au8LastEgressIdentifier", "au8NextEgressIdentifier",
                       "au8IngressMac", "au8EgressMac"}) @@
  Counted("OCTET_STR", {"au8ChassisId", "au8ManAddress", "au8IngressPortId",
                        "au8EgressPortId", "au8OrganizationSpecificTlv"}) @@
  Counted("OBJECT_ID", {"aoManAddressDomain"})

(* dot1agCfmMepDbTable *)
dot1agCfmMepDbTable_Index ==
  Rows(
    <<Unsigned(32, "u32MdIndex"),
      Unsigned(32, "u32MaIndex"),
      Unsigned(32, "u32MepIdentifier"),
      Unsigned(32, "u32RMepIdentifier")>>)
dot1agCfmMepDbTable_Read ==
  Value("INTEGER", {"i32RMepState", "u8Rdi", "i32PortStatusTlv",
                    "i32InterfaceStatusTlv", "i32ChassisIdSubtype",
                    "u8RMepIsActive"}) @@
  Value("TIMETICKS", {"u32RMepFailedOkTime"}) @@
  Entire("OCTET_STR", {"au8MacAddress"}) @@
  Counted("OCTET_STR", {"au8ChassisId", "au8ManAddress"}) @@
  Counted("OBJECT_ID", {"aoManAddressDomain"})
dot1agCfmMepDbTable_Check ==
  FixedRows(
    OfFirst("INTEGER", {"u8RMepIsActive"}))
dot1agCfmMepDbTable_Write ==
  Word(8, {"u8RMepIsActive"})

ieee8021CfmMib_tables ==
  [dot1agCfmDefaultMd |->
     Table(NoIndex, dot1agCfmDefaultMd_Read,
           dot1agCfmDefaultMd_Check, dot1agCfmDefaultMd_Write),
   dot1agCfmMd |-> ReadOnly(NoIndex, dot1agCfmMd_Read),
   dot1agCfmMdTable |->
     Table(dot1agCfmMdTable_Index, dot1agCfmMdTable_Read,
           dot1agCfmMdTable_Check, dot1agCfmMdTable_Write),
   dot1agCfmMaNetTable |->
     Table(dot1agCfmMaNetTable_Index, dot1agCfmMaNetTable_Read,
           dot1agCfmMaNetTable_Check, dot1agCfmMaNetTable_Write),
   dot1agCfmMaMepListTable |->
     Table(dot1agCfmMaMepListTable_Index, dot1agCfmMaMepListTable_Read,
           dot1agCfmMaMepListTable_Check, dot1agCfmMaMepListTable_Write),
   dot1agCfmMepTable |->
     Table(dot1agCfmMepTable_Index, dot1agCfmMepTable_Read,
           dot1agCfmMepTable_Check, dot1agCfmMepTable_Write),
   dot1agCfmLtrTable |-> ReadOnly(dot1agCfmLtrTable_Index, dot1agCfmLtrTable_Read),
   dot1agCfmMepDbTable |->
     Table(dot1agCfmMepDbTable_Index, dot1agCfmMepDbTable_Read,
           dot1agCfmMepDbTable_Check, dot1agCfmMepDbTable_Write)]

-----------------------------------------------------------------------------
(* cfm/ieee8021CfmV2Mib.c                                                  *)

(* ieee8021CfmStackTable *)
ieee8021CfmStackTable_Index ==
  Rows(
    <<Signed(32, "u32IfIndex"),
      Signed(32, "i32ServiceSelectorType"),
      Unsigned(32, "u32ServiceSelectorOrNone"),
      Signed(32, "i32MdLevel"),
      Signed(32, "i32Direction")>>)
ieee8021CfmStackTable_Read ==
  Value("UNSIGNED", {"u32MdIndex", "u32MaIndex", "u32MepId"}) @@
  Entire("OCTET_STR", {"au8MacAddress"})

(* ieee8021CfmDefaultMdTable *)
ieee8021CfmDefaultMdTable_Index ==
  Rows(
    <<Unsigned(32, "u32ComponentId"),
      Signed(32, "i32PrimarySelectorType"),
      Unsigned(32, "u32PrimarySelector")>>)
ieee8021CfmDefaultMdTable_Read ==
  Value("INTEGER", {"u8Status", "i32Level", "i32MhfCreation",
                    "i32IdPermission"})
ieee8021CfmDefaultMdTable_Check ==
  FixedRows(
    OfFirst("INTEGER", {"i32Level", "i32MhfCreation", "i32IdPermission"}))
ieee8021CfmDefaultMdTable_Write ==
  Word(32, {"i32Level", "i32MhfCreation", "i32IdPermission"})

(* ieee8021CfmVlanTable *)
ieee8021CfmVlanTable_Index ==
  Rows(<<Unsigned(32, "u32ComponentId"), Unsigned(32, "u32Selector")>>)
ieee8021CfmVlanTable_Read ==
  Value("UNSIGNED", {"u32PrimarySelector"}) @@
  Value("INTEGER", {"u8RowStatus"})
ieee8021CfmVlanTable_Check ==
  CommitRows("u8RowStatus",
    OfFirst("UNSIGNED", {"u32PrimarySelector"}))
ieee8021CfmVlanTable_Write ==
  Word(32, {"u32PrimarySelector"}) @@
  AtCommit("u8RowStatus")

(* ieee8021CfmConfigErrorListTable *)
ieee8021CfmConfigErrorListTable_Index ==
  Rows(
    <<Signed(32, "i32SelectorType"),
      Unsigned(32, "u32Selector"),
      Signed(32, "u32IfIndex")>>)
ieee8021CfmConfigErrorListTable_Read ==
  Entire("OCTET_STR", {"au8ErrorType"})

(* ieee8021CfmMaCompTable *)
ieee8021CfmMaCompTable_Index ==
  Rows(
    <<Unsigned(32, "u32ComponentId"),
      Unsigned(32, "u32MdIndex"),
      Unsigned(32, "u32MaIndex")>>)
ieee8021CfmMaCompTable_Read ==
  Value("INTEGER", {"i32PrimarySelectorType", "i32MhfCreation",
                    "i32IdPermission", "u8RowStatus"}) @@
  Value("UNSIGNED", {"u32PrimarySelectorOrNone", "u32NumberOfVids"})
ieee8021CfmMaCompTable_Check ==
  CommitRows("u8RowStatus",
    OfFirst("INTEGER", {"i32PrimarySelectorType", "i32MhfCreation",
                        "i32IdPermission"}) @@
    OfFirst("UNSIGNED", {"u32PrimarySelectorOrNone", "u32NumberOfVids"}))
ieee8021CfmMaCompTable_Write ==
  Word(32, {"i32PrimarySelectorType", "u32PrimarySelectorOrNone",
            "i32MhfCreation", "i32IdPermission", "u32NumberOfVids"}) @@
  AtCommit("u8RowStatus")

ieee8021CfmV2Mib_tables ==
  [ieee8021CfmStackTable |-> ReadOnly(ieee8021CfmStackTable_Index, ieee8021CfmStackTable_Read),
   ieee8021CfmDefaultMdTable |->
     Table(ieee8021CfmDefaultMdTable_Index, ieee8021CfmDefaultMdTable_Read,
           ieee8021CfmDefaultMdTable_Check, ieee8021CfmDefaultMdTable_Write),
   ieee8021CfmVlanTable |->
     Table(ieee8021CfmVlanTable_Index, ieee8021CfmVlanTable_Read,
           ieee8021CfmVlanTable_Check, ieee8021CfmVlanTable_Write),
   ieee8021CfmConfigErrorListTable |-> ReadOnly(ieee8021CfmConfigErrorListTable_Index, ieee8021CfmConfigErrorListTable_Read),
   ieee8021CfmMaCompTable |->
     Table(ieee8021CfmMaCompTable_Index, ieee8021CfmMaCompTable_Read,
           ieee8021CfmMaCompTable_Check, ieee8021CfmMaCompTable_Write)]

=============================================================================
