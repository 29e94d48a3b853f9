------------------------------ MODULE MplsTables ------------------------------
(***************************************************************************)
(* The tables of label switching and tunnels (mpls/).                      *)
(***************************************************************************)
EXTENDS Tables

-----------------------------------------------------------------------------
(* mpls/mplsLsrStdMIB.c                                                    *)

(* mplsLsrObjects *)
mplsLsrObjects_Read ==
  Counted("OCTET_STR", {"au8InSegmentIndexNext", "au8OutSegmentIndexNext",
                        "au8XCIndexNext", "au8LabelStackIndexNext"}) @@
  Value("UNSIGNED", {"u32MaxLabelStackDepth"}) @@
  Value("INTEGER", {"u8XCNotificationsEnable"})
mplsLsrObjects_Check ==
  Scalars(
    OfFirst("INTEGER", {"u8XCNotificationsEnable"}))
mplsLsrObjects_Write ==
  InPlace(8, {"u8XCNotificationsEnable"})

(* mplsInterfaceTable *)
mplsInterfaceTable_Index ==
  Rows(<<Signed(32, "u32Index")>>)
mplsInterfaceTable_Read ==
  Value("UNSIGNED", {"u32LabelMinIn", "u32LabelMaxIn", "u32LabelMinOut",
                     "u32LabelMaxOut", "u32TotalBandwidth",
                     "u32AvailableBandwidth"}) @@
  Entire("OCTET_STR", {"au8LabelParticipationType"})

(* mplsInterfacePerfTable *)
mplsInterfacePerfTable_Index ==
  RowsOf("mplsInterfaceTable", <<Signed(32, "u32Index")>>)
mplsInterfacePerfTable_Read ==
  Value("GAUGE", {"u32InLabelsInUse", "u32OutLabelsInUse"}) @@
  Value("COUNTER", {"u32InLabelLookupFailures", "u32OutFragmentedPkts"})

(* mplsInSegmentTable *)
mplsInSegmentTable_Index ==
  Rows(<<Octets("au8Index")>>)
mplsInSegmentTable_Read ==
  Value("INTEGER", {"u32Interface", "i32NPop", "i32AddrFamily", "i32Owner",
                    "u8RowStatus", "u8StorageType"}) @@
  Entire("OCTET_STR", {"au8XCIndex"})
mplsInSegmentTable_Check ==
  CommitRows("u8RowStatus",
    OfFirst("INTEGER", {"u32Interface", "i32NPop", "i32AddrFamily",
                        "u8StorageType"}))
mplsInSegmentTable_Write ==
  Word(32, {"u32Interface", "i32NPop", "i32AddrFamily"}) @@
  Word(8, {"u8StorageType"}) @@
  AtCommit("u8RowStatus")

(* mplsInSegmentPerfTable *)
mplsInSegmentPerfTable_Index ==
  RowsOf("mplsInSegmentTable", <<Octets("au8Index")>>)
mplsInSegmentPerfTable_Read ==
  Value("COUNTER", {"u32Octets", "u32Packets", "u32Errors", "u32Discards"}) @@
  Value("COUNTER64", {"u64HCOctets"}) @@
  Value("TIMETICKS", {"u32DiscontinuityTime"})

(* mplsOutSegmentTable *)
mplsOutSegmentTable_Index ==
  Rows(<<Octets("au8Index")>>)
mplsOutSegmentTable_Read ==
  Value("INTEGER", {"u32Interface", "u8PushTopLabel", "i32NextHopAddrType",
                    "i32Owner", "u8RowStatus", "u8StorageType"}) @@
  Counted("OCTET_STR", {"au8NextHopAddr"}) @@
  Entire("OCTET_STR", {"au8XCIndex"})
mplsOutSegmentTable_Check ==
  CommitRows("u8RowStatus",
    OfFirst("INTEGER", {"u32Interface", "u8PushTopLabel", "i32NextHopAddrType",
                        "u8StorageType"}) @@
    Sized("OCTET_STR", {"au8NextHopAddr"}))
mplsOutSegmentTable_Write ==
  Word(32, {"u32Interface", "i32NextHopAddrType"}) @@
  Word(8, {"u8PushTopLabel", "u8StorageType"}) @@
  Saved("counted", {"au8NextHopAddr"}) @@
  AtCommit("u8RowStatus")

(* mplsOutSegmentPerfTable *)
mplsOutSegmentPerfTable_Index ==
  RowsOf("mplsOutSegmentTable", <<Octets("au8Index")>>)
mplsOutSegmentPerfTable_Read ==
  Value("COUNTER", {"u32Octets", "u32Packets", "u32Errors", "u32Discards"}) @@
  Value("COUNTER64", {"u64HCOctets"}) @@
  Value("TIMETICKS", {"u32DiscontinuityTime"})

(* mplsXCTable *)
mplsXCTable_Index ==
  Rows(
    <<Octets("au8Index"),
      Octets("au8InSegmentIndex"),
      Octets("au8OutSegmentIndex")>>)
mplsXCTable_Read ==
  Counted("OCTET_STR", {"au8LspId", "au8LabelStackIndex"}) @@
  Value("INTEGER", {"i32Owner", "u8RowStatus", "u8StorageType",
                    "i32AdminStatus", "i32OperStatus"})
mplsXCTable_Check ==
  CommitRows("u8RowStatus",
    Sized("OCTET_STR", {"au8LspId", "au8LabelStackIndex"}) @@
    OfFirst("INTEGER", {"u8StorageType", "i32AdminStatus"}))
mplsXCTable_Write ==
  Saved("counted", {"au8LspId", "au8LabelStackIndex"}) @@
  Word(8, {"u8StorageType"}) @@
  Word(32, {"i32AdminStatus"}) @@
  AtCommit("u8RowStatus")

(* mplsLabelStackTable *)
mplsLabelStackTable_Index ==
  Rows(<<Octets("au8Index"), Unsigned(32, "u32LabelIndex")>>)
mplsLabelStackTable_Read ==
  Value("INTEGER", {"u8RowStatus", "u8StorageType"})
mplsLabelStackTable_Check ==
  CommitRows("u8RowStatus",
    OfFirst("INTEGER", {"u8StorageType"}))
mplsLabelStackTable_Write ==
  Word(8, {"u8StorageType"}) @@
  AtCommit("u8RowStatus")

(* gmplsInterfaceTable *)
gmplsInterfaceTable_Index ==
  RowsOf("mplsInterfaceTable", <<Signed(32, "u32Index")>>)
gmplsInterfaceTable_Read ==
  Entire("OCTET_STR", {"au8SignalingCaps"}) @@
  Value("UNSIGNED", {"u32RsvpHelloPeriod"})
gmplsInterfaceTable_Check ==
  [FixedRows(
    Sized("OCTET_STR", {"au8SignalingCaps"}) @@
    OfFirst("UNSIGNED", {"u32RsvpHelloPeriod"})) EXCEPT
    !.frozen = {"au8SignalingCaps", "u32RsvpHelloPeriod"}]
gmplsInterfaceTable_Write ==
  Saved("buffer", {"au8SignalingCaps"}) @@
  Word(32, {"u32RsvpHelloPeriod"})

(* gmplsInSegmentTable *)
gmplsInSegmentTable_Index ==
  RowsOf("mplsInSegmentTable", <<Octets("au8Index")>>)
gmplsInSegmentTable_Read ==
  Value("INTEGER", {"i32Direction"})
gmplsInSegmentTable_Check ==
  [FixedRows(
    OfFirst("INTEGER", {"i32Direction"})) EXCEPT
    !.frozen = {"i32Direction"}]
gmplsInSegmentTable_Write ==
  Word(32, {"i32Direction"})

(* gmplsOutSegmentTable *)
gmplsOutSegmentTable_Index ==
  RowsOf("mplsOutSegmentTable", <<Octets("au8Index")>>)
gmplsOutSegmentTable_Read ==
  Value("INTEGER", {"i32Direction"}) @@
  Value("UNSIGNED", {"u32TTLDecrement"})
gmplsOutSegmentTable_Check ==
  [FixedRows(
    OfFirst("INTEGER", {"i32Direction"}) @@
    OfFirst("UNSIGNED", {"u32TTLDecrement"})) EXCEPT
    !.frozen = {"i32Direction", "u32TTLDecrement"}]
gmplsOutSegmentTable_Write ==
  Word(32, {"i32Direction", "u32TTLDecrement"})

mplsLsrStdMIB_tables ==
  [mplsLsrObjects |->
     Table(NoIndex, mplsLsrObjects_Read,
           mplsLsrObjects_Check, mplsLsrObjects_Write),
   mplsInterfaceTable |-> ReadOnly(mplsInterfaceTable_Index, mplsInterfaceTable_Read),
   mplsInterfacePerfTable |-> ReadOnly(mplsInterfacePerfTable_Index, mplsInterfacePerfTable_Read),
   mplsInSegmentTable |->
     Table(mplsInSegmentTable_Index, mplsInSegmentTable_Read,
           mplsInSegmentTable_Check, mplsInSegmentTable_Write),
   mplsInSegmentPerfTable |-> ReadOnly(mplsInSegmentPerfTable_Index, mplsInSegmentPerfTable_Read),
   mplsOutSegmentTable |->
     Table(mplsOutSegmentTable_Index, mplsOutSegmentTable_Read,
           mplsOutSegmentTable_Check, mplsOutSegmentTable_Write),
   mplsOutSegmentPerfTable |-> ReadOnly(mplsOutSegmentPerfTable_Index, mplsOutSegmentPerfTable_Read),
   mplsXCTable |->
     Table(mplsXCTable_Index, mplsXCTable_Read,
           mplsXCTable_Check, mplsXCTable_Write),
   mplsLabelStackTable |->
     Table(mplsLabelStackTable_Index, mplsLabelStackTable_Read,
           mplsLabelStackTable_Check, mplsLabelStackTable_Write),
   gmplsInterfaceTable |->
     Table(gmplsInterfaceTable_Index, gmplsInterfaceTable_Read,
           gmplsInterfaceTable_Check, gmplsInterfaceTable_Write),
   gmplsInSegmentTable |->
     Table(gmplsInSegmentTable_Index, gmplsInSegmentTable_Read,
           gmplsInSegmentTable_Check, gmplsInSegmentTable_Write),
   gmplsOutSegmentTable |->
     Table(gmplsOutSegmentTable_Index, gmplsOutSegmentTable_Read,
           gmplsOutSegmentTable_Check, gmplsOutSegmentTable_Write)]

-----------------------------------------------------------------------------
(* mpls/mplsLsrExtStdMIB.c                                                 *)

(* mplsXCExtTable *)
mplsXCExtTable_Index ==
  RowsOf("mplsXCTable", 
    <<Octets("au8Index"),
      Octets("au8InSegmentIndex"),
      Octets("au8OutSegmentIndex")>>)
mplsXCExtTable_Read ==
  Counted("OBJECT_ID", {"aoTunnelPointer", "aoOppositeDirXCPtr"})
mplsXCExtTable_Check ==
  [FixedRows(
    Sized("OBJECT_ID", {"aoOppositeDirXCPtr"})) EXCEPT
    !.frozen = {"aoOppositeDirXCPtr"}]
mplsXCExtTable_Write ==
  Saved("counted", {"aoOppositeDirXCPtr"})

mplsLsrExtStdMIB_tables ==
  [mplsXCExtTable |->
     Table(mplsXCExtTable_Index, mplsXCExtTable_Read,
           mplsXCExtTable_Check, mplsXCExtTable_Write)]

-----------------------------------------------------------------------------
(* mpls/mplsTeStdMIB.c                                                     *)

(* mplsTeScalars *)
mplsTeScalars_Read ==
  Value("UNSIGNED", {"u32Configured", "u32Active", "u32MaxHops",
                     "u32NotificationMaxRate"}) @@
  Entire("OCTET_STR", {"au8TEDistProto"})
mplsTeScalars_Check ==
  Scalars(
    OfFirst("UNSIGNED", {"u32NotificationMaxRate"}))
mplsTeScalars_Write ==
  InPlace(32, {"u32NotificationMaxRate"})

(* mplsTeObjects *)
mplsTeObjects_Read ==
  Value("UNSIGNED", {"u32IndexNext", "u32HopListIndexNext",
                     "u32ResourceIndexNext"}) @@
  Value("INTEGER", {"u8NotificationEnable"})
mplsTeObjects_Check ==
  Scalars(
    OfFirst("INTEGER", {"u8NotificationEnable"}))
mplsTeObjects_Write ==
  InPlace(8, {"u8NotificationEnable"})

(* gmplsTeScalars *)
gmplsTeScalars_Read ==
  Value("GAUGE", {"u32Configured", "u32Active"})

(* mplsTunnelTable *)
mplsTunnelTable_Index ==
  Rows(
    <<Unsigned(32, "u32Index"),
      Unsigned(32, "u32Instance"),
      Unsigned(32, "u32IngressLSRId"),
      Unsigned(32, "u32EgressLSRId")>>)
mplsTunnelTable_Read ==
  Counted("OCTET_STR", {"au8Name", "au8Descr"}) @@
  Value("INTEGER", {"u8IsIf", "u32IfIndex", "i32Owner", "i32Role",
                    "i32SignallingProto", "i32SetupPrio", "i32HoldingPrio",
                    "u8LocalProtectInUse", "i32AdminStatus", "i32OperStatus",
                    "u8RowStatus", "u8StorageType"}) @@
  Entire("OCTET_STR", {"au8SessionAttributes"}) @@
  Value("UNSIGNED", {"u32PrimaryInstance", "u32InstancePriority",
                     "u32HopTableIndex", "u32PathInUse", "u32ARHopTableIndex",
                     "u32CHopTableIndex", "u32IncludeAnyAffinity",
                     "u32IncludeAllAffinity", "u32ExcludeAnyAffinity"}) @@
  Value("TIMETICKS", {"u32TotalUpTime", "u32InstanceUpTime",
                      "u32PrimaryUpTime", "u32LastPathChange",
                      "u32CreationTime"}) @@
  Value("COUNTER", {"u32PathChanges", "u32StateTransitions"})
mplsTunnelTable_Check ==
  CommitRows("u8RowStatus",
    Sized("OCTET_STR", {"au8Name", "au8Descr", "au8SessionAttributes"}) @@
    OfFirst("INTEGER", {"u8IsIf", "i32Role", "i32SignallingProto",
                        "i32SetupPrio", "i32HoldingPrio",
                        "u8LocalProtectInUse", "i32AdminStatus",
                        "u8StorageType"}) @@
    OfFirst("UNSIGNED", {"u32InstancePriority", "u32HopTableIndex",
                         "u32PathInUse", "u32IncludeAnyAffinity",
                         "u32IncludeAllAffinity", "u32ExcludeAnyAffinity"}))
mplsTunnelTable_Write ==
  Saved("counted", {"au8Name", "au8Descr"}) @@
  Word(8, {"u8IsIf", "u8LocalProtectInUse", "u8StorageType"}) @@
  Word(32, {"i32Role", "i32SignallingProto", "i32SetupPrio", "i32HoldingPrio",
            "u32InstancePriority", "u32HopTableIndex", "u32PathInUse",
            "u32IncludeAnyAffinity", "u32IncludeAllAffinity",
            "u32ExcludeAnyAffinity", "i32AdminStatus"}) @@
  Saved("buffer", {"au8SessionAttributes"}) @@
  AtCommit("u8RowStatus")

(* mplsTunnelHopTable *)
mplsTunnelHopTable_Index ==
  Rows(
    <<Unsigned(32, "u32ListIndex"),
      Unsigned(32, "u32PathOptionIndex"),
      Unsigned(32, "u32Index")>>)
mplsTunnelHopTable_Read ==
  Value("INTEGER", {"i32AddrType", "i32Type", "u8Include", "u8RowStatus",
                    "u8StorageType"}) @@
  Counted("OCTET_STR", {"au8Address", "au8PathOptionName"}) @@
  Value("UNSIGNED", {"u32Prefix"}) @@
  Entire("OCTET_STR", {"au8Unnum"})
mplsTunnelHopTable_Check ==
  CommitRows("u8RowStatus",
    OfFirst("INTEGER", {"i32AddrType", "i32Type", "u8Include",
                        "u8StorageType"}) @@
    Sized("OCTET_STR", {"au8Address", "au8Unnum", "au8PathOptionName"}) @@
    OfFirst("UNSIGNED", {"u32Prefix"}))
mplsTunnelHopTable_Write ==
  Word(32, {"i32AddrType", "u32Prefix", "i32Type"}) @@
  Saved("counted", {"au8Address", "au8PathOptionName"}) @@
  Saved("buffer", {"au8Unnum"}) @@
  Word(8, {"u8Include", "u8StorageType"}) @@
  AtCommit("u8RowStatus")

(* mplsTunnelResourceTable *)
mplsTunnelResourceTable_Index ==
  Rows(<<Unsigned(32, "u32Index")>>)
mplsTunnelResourceTable_Read ==
  Value("UNSIGNED", {"u32MaxRate", "u32MeanRate", "u32MaxBurstSize",
                     "u32MeanBurstSize", "u32ExBurstSize", "u32Weight"}) @@
  Value("INTEGER", {"i32Frequency", "u8RowStatus", "u8StorageType"})
mplsTunnelResourceTable_Check ==
  CommitRows("u8RowStatus",
    OfFirst("UNSIGNED", {"u32MaxRate", "u32MeanRate", "u32MaxBurstSize",
                         "u32MeanBurstSize", "u32ExBurstSize", "u32Weight"}) @@
    OfFirst("INTEGER", {"i32Frequency", "u8StorageType"}))
mplsTunnelResourceTable_Write ==
  Word(32, {"u32MaxRate", "u32MeanRate", "u32MaxBurstSize", "u32MeanBurstSize",
            "u32ExBurstSize", "i32Frequency", "u32Weight"}) @@
  Word(8, {"u8StorageType"}) @@
  AtCommit("u8RowStatus")

(* mplsTunnelARHopTable *)
mplsTunnelARHopTable_Index ==
  Rows(<<Unsigned(32, "u32ListIndex"), Unsigned(32, "u32Index")>>)
mplsTunnelARHopTable_Read ==
  Value("INTEGER", {"i32AddrType"}) @@
  Counted("OCTET_STR", {"au8Address"}) @@
  Entire("OCTET_STR", {"au8Unnum"})

(* mplsTunnelCHopTable *)
mplsTunnelCHopTable_Index ==
  Rows(<<Unsigned(32, "u32ListIndex"), Unsigned(32, "u32Index")>>)
mplsTunnelCHopTable_Read ==
  Value("INTEGER", {"i32AddrType", "i32Type"}) @@
  Counted("OCTET_STR", {"au8Address"}) @@
  Value("UNSIGNED", {"u32Prefix"}) @@
  Entire("OCTET_STR", {"au8Unnum"})

(* mplsTunnelPerfTable *)
mplsTunnelPerfTable_Index ==
  RowsOf("mplsTunnelTable", 
    <<Unsigned(32, "u32Index"),
      Unsigned(32, "u32Instance"),
      Unsigned(32, "u32IngressLSRId"),
      Unsigned(32, "u32EgressLSRId")>>)
mplsTunnelPerfTable_Read ==
  Value("COUNTER", {"u32Packets", "u32Errors", "u32Bytes"}) @@
  Value("COUNTER64", {"u64HCPackets", "u64HCBytes"})

(* gmplsTunnelTable *)
gmplsTunnelTable_Index ==
  RowsOf("mplsTunnelTable", 
    <<Unsigned(32, "u32Index"),
      Unsigned(32, "u32Instance"),
      Unsigned(32, "u32IngressLSRId"),
      Unsigned(32, "u32EgressLSRId")>>)
gmplsTunnelTable_Read ==
  Value("INTEGER", {"u8UnnumIf", "i32LSPEncoding", "i32SwitchingType",
                    "i32GPid", "u8Secondary", "i32Direction", "i32PathComp",
                    "i32UpstreamNotifyRecipientType",
                    "i32SendResvNotifyRecipientType",
                    "i32DownstreamNotifyRecipientType",
                    "i32SendPathNotifyRecipientType"}) @@
  Entire("OCTET_STR", {"au8Attributes", "au8LinkProtection",
                       "au8AdminStatusFlags"}) @@
  Counted("OCTET_STR", {"au8UpstreamNotifyRecipient",
                        "au8SendResvNotifyRecipient",
                        "au8DownstreamNotifyRecipient",
                        "au8SendPathNotifyRecipient"})
gmplsTunnelTable_Check ==
  [FixedRows(
    OfFirst("INTEGER", {"u8UnnumIf", "i32LSPEncoding", "i32SwitchingType",
                        "i32GPid", "u8Secondary", "i32Direction",
                        "i32PathComp", "i32UpstreamNotifyRecipientType",
                        "i32SendResvNotifyRecipientType",
                        "i32DownstreamNotifyRecipientType",
                        "i32SendPathNotifyRecipientType"}) @@
    Sized("OCTET_STR", {"au8Attributes", "au8LinkProtection",
                        "au8UpstreamNotifyRecipient",
                        "au8SendResvNotifyRecipient",
                        "au8DownstreamNotifyRecipient",
                        "au8SendPathNotifyRecipient", "au8AdminStatusFlags"})) EXCEPT
    !.frozen = {"u8UnnumIf", "au8Attributes", "i32LSPEncoding",
                "i32SwitchingType", "au8LinkProtection", "i32GPid",
                "u8Secondary", "i32Direction", "i32PathComp",
                "i32UpstreamNotifyRecipientType", "au8UpstreamNotifyRecipient",
                "i32SendResvNotifyRecipientType", "au8SendResvNotifyRecipient",
                "i32DownstreamNotifyRecipientType",
                "au8DownstreamNotifyRecipient",
                "i32SendPathNotifyRecipientType", "au8SendPathNotifyRecipient",
                "au8AdminStatusFlags"}]
gmplsTunnelTable_Write ==
  Word(8, {"u8UnnumIf", "u8Secondary"}) @@
  Saved("buffer", {"au8Attributes", "au8LinkProtection",
                   "au8AdminStatusFlags"}) @@
  Word(32, {"i32LSPEncoding", "i32SwitchingType", "i32GPid", "i32Direction",
            "i32PathComp", "i32UpstreamNotifyRecipientType",
            "i32SendResvNotifyRecipientType",
            "i32DownstreamNotifyRecipientType",
            "i32SendPathNotifyRecipientType"}) @@
  Saved("counted", {"au8UpstreamNotifyRecipient", "au8SendResvNotifyRecipient",
                    "au8DownstreamNotifyRecipient",
                    "au8SendPathNotifyRecipient"})

(* gmplsTunnelHopTable *)
gmplsTunnelHopTable_Index ==
  RowsOf("mplsTunnelHopTable", 
    <<Unsigned(32, "u32ListIndex"),
      Unsigned(32, "u32PathOptionIndex"),
      Unsigned(32, "u32Index")>>)
gmplsTunnelHopTable_Read ==
  Entire("OCTET_STR", {"au8LabelStatuses"})

(* gmplsTunnelARHopTable *)
gmplsTunnelARHopTable_Index ==
  RowsOf("mplsTunnelARHopTable", 
    <<Unsigned(32, "u32ListIndex"), Unsigned(32, "u32Index")>>)
gmplsTunnelARHopTable_Read ==
  Entire("OCTET_STR", {"au8LabelStatuses", "au8Protection"})

(* gmplsTunnelCHopTable *)
gmplsTunnelCHopTable_Index ==
  RowsOf("mplsTunnelCHopTable", 
    <<Unsigned(32, "u32ListIndex"), Unsigned(32, "u32Index")>>)
gmplsTunnelCHopTable_Read ==
  Entire("OCTET_STR", {"au8LabelStatuses"})

(* gmplsTunnelReversePerfTable *)
gmplsTunnelReversePerfTable_Index ==
  RowsOf("mplsTunnelTable", 
    <<Unsigned(32, "u32Index"),
      Unsigned(32, "u32Instance"),
      Unsigned(32, "u32IngressLSRId"),
      Unsigned(32, "u32EgressLSRId")>>)
gmplsTunnelReversePerfTable_Read ==
  Value("COUNTER", {"u32Packets", "u32Errors", "u32Bytes"}) @@
  Value("COUNTER64", {"u64HCPackets", "u64HCBytes"})

(* gmplsTunnelErrorTable *)
gmplsTunnelErrorTable_Index ==
  RowsOf("mplsTunnelTable", 
    <<Unsigned(32, "u32Index"),
      Unsigned(32, "u32Instance"),
      Unsigned(32, "u32IngressLSRId"),
      Unsigned(32, "u32EgressLSRId")>>)
gmplsTunnelErrorTable_Read ==
  Value("INTEGER", {"i32LastErrorType", "i32ReporterType"}) @@
  Value("TIMETICKS", {"u32LastTime"}) @@
  Counted("OCTET_STR", {"au8Reporter", "au8TLVs", "au8HelpString"}) @@
  Value("UNSIGNED", {"u32Code", "u32Subcode"})

mplsTeStdMIB_tables ==
  [mplsTeScalars |->
     Table(NoIndex, mplsTeScalars_Read,
           mplsTeScalars_Check, mplsTeScalars_Write),
   mplsTeObjects |->
     Table(NoIndex, mplsTeObjects_Read,
           mplsTeObjects_Check, mplsTeObjects_Write),
   gmplsTeScalars |-> ReadOnly(NoIndex, gmplsTeScalars_Read),
   mplsTunnelTable |->
     Table(mplsTunnelTable_Index, mplsTunnelTable_Read,
           mplsTunnelTable_Check, mplsTunnelTable_Write),
   mplsTunnelHopTable |->
     Table(mplsTunnelHopTable_Index, mplsTunnelHopTable_Read,
           mplsTunnelHopTable_Check, mplsTunnelHopTable_Write),
   mplsTunnelResourceTable |->
     Table(mplsTunnelResourceTable_Index, mplsTunnelResourceTable_Read,
           mplsTunnelResourceTable_Check, mplsTunnelResourceTable_Write),
   mplsTunnelARHopTable |-> ReadOnly(mplsTunnelARHopTable_Index, mplsTunnelARHopTable_Read),
   mplsTunnelCHopTable |-> ReadOnly(mplsTunnelCHopTable_Index, mplsTunnelCHopTable_Read),
   mplsTunnelPerfTable |-> ReadOnly(mplsTunnelPerfTable_Index, mplsTunnelPerfTable_Read),
   gmplsTunnelTable |->
     Table(gmplsTunnelTable_Index, gmplsTunnelTable_Read,
           gmplsTunnelTable_Check, gmplsTunnelTable_Write),
   gmplsTunnelHopTable |-> ReadOnly(gmplsTunnelHopTable_Index, gmplsTunnelHopTable_Read),
   gmplsTunnelARHopTable |-> ReadOnly(gmplsTunnelARHopTable_Index, gmplsTunnelARHopTable_Read),
   gmplsTunnelCHopTable |-> ReadOnly(gmplsTunnelCHopTable_Index, gmplsTunnelCHopTable_Read),
   gmplsTunnelReversePerfTable |-> ReadOnly(gmplsTunnelReversePerfTable_Index, gmplsTunnelReversePerfTable_Read),
   gmplsTunnelErrorTable |-> ReadOnly(gmplsTunnelErrorTable_Index, gmplsTunnelErrorTable_Read)]

-----------------------------------------------------------------------------
(* mpls/mplsTeExtStdMIB.c                                                  *)

(* mplsTunnelExtTable *)
mplsTunnelExtTable_Index ==
  RowsOf("mplsTunnelTable", 
    <<Unsigned(32, "u32Index"),
      Unsigned(32, "u32Instance"),
      Unsigned(32, "u32IngressLSRId"),
      Unsigned(32, "u32EgressLSRId")>>)
mplsTunnelExtTable_Read ==
  Counted("OBJECT_ID", {"aoOppositeDirPtr"}) @@
  Value("INTEGER", {"u8OppositeDirTnlValid", "u8DestTnlValid",
                    "u8IngressLSRLocalIdValid", "u8EgressLSRLocalIdValid"}) @@
  Value("UNSIGNED", {"u32DestTnlIndex", "u32DestTnlLspIndex"})
mplsTunnelExtTable_Check ==
  [FixedRows(
    Sized("OBJECT_ID", {"aoOppositeDirPtr"}) @@
    OfFirst("INTEGER", {"u8OppositeDirTnlValid", "u8DestTnlValid",
                        "u8IngressLSRLocalIdValid", "u8EgressLSRLocalIdValid"}) @@
    OfFirst("UNSIGNED", {"u32DestTnlIndex", "u32DestTnlLspIndex"})) EXCEPT
    !.frozen = {"aoOppositeDirPtr", "u8OppositeDirTnlValid", "u32DestTnlIndex",
                "u32DestTnlLspIndex", "u8DestTnlValid",
                "u8IngressLSRLocalIdValid", "u8EgressLSRLocalIdValid"}]
mplsTunnelExtTable_Write ==
  Saved("counted", {"aoOppositeDirPtr"}) @@
  Word(8, {"u8OppositeDirTnlValid", "u8DestTnlValid",
           "u8IngressLSRLocalIdValid", "u8EgressLSRLocalIdValid"}) @@
  Word(32, {"u32DestTnlIndex", "u32DestTnlLspIndex"})

mplsTeExtStdMIB_tables ==
  [mplsTunnelExtTable |->
     Table(mplsTunnelExtTable_Index, mplsTunnelExtTable_Read,
           mplsTunnelExtTable_Check, mplsTunnelExtTable_Write)]

-----------------------------------------------------------------------------
(* mpls/neMplsLsrMIB.c                                                     *)

(* neMplsLabelScopeTable *)
neMplsLabelScopeTable_Index ==
  Rows(<<Unsigned(32, "u32Index")>>)
neMplsLabelScopeTable_Read ==
  Value("INTEGER", {"i32Type", "i32LabelType", "u32IfIndex",
                    "i32NeighbourAddrType", "u8RowStatus", "u8StorageType"}) @@
  Counted("OCTET_STR", {"au8NeighbourAddress"})
neMplsLabelScopeTable_Check ==
  CommitRows("u8RowStatus",
    OfFirst("INTEGER", {"i32Type", "i32LabelType", "u32IfIndex",
                        "i32NeighbourAddrType", "u8StorageType"}) @@
    Sized("OCTET_STR", {"au8NeighbourAddress"}))
neMplsLabelScopeTable_Write ==
  Word(32, {"i32Type", "i32LabelType", "u32IfIndex", "i32NeighbourAddrType"}) @@
  Saved("counted", {"au8NeighbourAddress"}) @@
  Word(8, {"u8StorageType"}) @@
  AtCommit("u8RowStatus")

(* neMplsLabelRangeTable *)
neMplsLabelRangeTable_Index ==
  Rows(
    <<Unsigned(32, "u32ScopeIndex"),
      Octets("au8Min"),
      Octets("au8Max"),
      Signed(32, "u32IfIndex")>>)
neMplsLabelRangeTable_Read ==
  Value("INTEGER", {"u8RowStatus", "u8StorageType"})
neMplsLabelRangeTable_Check ==
  CommitRows("u8RowStatus",
    OfFirst("INTEGER", {"u8StorageType"}))
neMplsLabelRangeTable_Write ==
  Word(8, {"u8StorageType"}) @@
  AtCommit("u8RowStatus")

(* neMplsInSegmentTable *)
neMplsInSegmentTable_Index ==
  RowsOf("mplsInSegmentTable", <<Octets("au8Index")>>)
neMplsInSegmentTable_Read ==
  Value("INTEGER", {"i32LabelType"}) @@
  Counted("OCTET_STR", {"au8Label"})
neMplsInSegmentTable_Check ==
  [FixedRows(
    OfFirst("INTEGER", {"i32LabelType"}) @@
    Sized("OCTET_STR", {"au8Label"})) EXCEPT
    !.frozen = {"i32LabelType", "au8Label"}]
neMplsInSegmentTable_Write ==
  Word(32, {"i32LabelType"}) @@
  Saved("counted", {"au8Label"})

(* neMplsOutSegmentTable *)
neMplsOutSegmentTable_Index ==
  RowsOf("mplsOutSegmentTable", <<Octets("au8Index")>>)
neMplsOutSegmentTable_Read ==
  Value("INTEGER", {"i32LabelType"}) @@
  Counted("OCTET_STR", {"au8TopLabel", "au8SwapLabel",
                        "au8NextHopPhysAddress"})
neMplsOutSegmentTable_Check ==
  [FixedRows(
    OfFirst("INTEGER", {"i32LabelType"}) @@
    Sized("OCTET_STR", {"au8TopLabel", "au8SwapLabel",
                        "au8NextHopPhysAddress"})) EXCEPT
    !.frozen = {"i32LabelType", "au8TopLabel", "au8SwapLabel",
                "au8NextHopPhysAddress"}]
neMplsOutSegmentTable_Write ==
  Word(32, {"i32LabelType"}) @@
  Saved("counted", {"au8TopLabel", "au8SwapLabel", "au8NextHopPhysAddress"})

(* neMplsXCTable *)
neMplsXCTable_Index ==
  RowsOf("mplsXCTable", 
    <<Octets("au8Index"),
      Octets("au8InSegmentIndex"),
      Octets("au8OutSegmentIndex")>>)
neMplsXCTable_Read ==
  Counted("OCTET_STR", {"au8Type"})

(* neMplsLabelStackTable *)
neMplsLabelStackTable_Index ==
  RowsOf("mplsLabelStackTable", 
    <<Octets("au8Index"), Unsigned(32, "u32LabelIndex")>>)
neMplsLabelStackTable_Read ==
  Value("INTEGER", {"i32LabelType"}) @@
  Counted("OCTET_STR", {"au8Label"})
neMplsLabelStackTable_Check ==
  [FixedRows(
    OfFirst("INTEGER", {"i32LabelType"}) @@
    Sized("OCTET_STR", {"au8Label"})) EXCEPT
    !.frozen = {"i32LabelType", "au8Label"}]
neMplsLabelStackTable_Write ==
  Word(32, {"i32LabelType"}) @@
  Saved("counted", {"au8Label"})

(* neMplsSegmentMapTable *)
neMplsSegmentMapTable_Index ==
  Rows(
    <<Signed(32, "u32InterfaceIndex"),
      Signed(32, "i32Type"),
      Signed(32, "i32LabelType"),
      Octets("au8Label")>>)
neMplsSegmentMapTable_Read ==
  Counted("OCTET_STR", {"au8Segment"})

neMplsLsrMIB_tables ==
  [neMplsLabelScopeTable |->
     Table(neMplsLabelScopeTable_Index, neMplsLabelScopeTable_Read,
           neMplsLabelScopeTable_Check, neMplsLabelScopeTable_Write),
   neMplsLabelRangeTable |->
     Table(neMplsLabelRangeTable_Index, neMplsLabelRangeTable_Read,
           neMplsLabelRangeTable_Check, neMplsLabelRangeTable_Write),
   neMplsInSegmentTable |->
     Table(neMplsInSegmentTable_Index, neMplsInSegmentTable_Read,
           neMplsInSegmentTable_Check, neMplsInSegmentTable_Write),
   neMplsOutSegmentTable |->
     Table(neMplsOutSegmentTable_Index, neMplsOutSegmentTable_Read,
           neMplsOutSegmentTable_Check, neMplsOutSegmentTable_Write),
   neMplsXCTable |-> ReadOnly(neMplsXCTable_Index, neMplsXCTable_Read),
   neMplsLabelStackTable |->
     Table(neMplsLabelStackTable_Index, neMplsLabelStackTable_Read,
           neMplsLabelStackTable_Check, neMplsLabelStackTable_Write),
   neMplsSegmentMapTable |-> ReadOnly(neMplsSegmentMapTable_Index, neMplsSegmentMapTable_Read)]

-----------------------------------------------------------------------------
(* mpls/neMplsTeMIB.c                                                      *)

(* neMplsTeScalars *)
neMplsTeScalars_Read ==
  Value("INTEGER", {"u8UnderlayEnable", "u8LooseHopExpandEnable",
                    "i32CrankbackMode", "u8HlspHopMergeEnable"}) @@
  Value("UNSIGNED", {"u32SetupRetryPeriod", "u32SoftPreemptionPeriod",
                     "u32ReoptimizationPeriod",
                     "u32RerouteUpstreamHoldPeriod"}) @@
  Counted("OCTET_STR", {"au8FrrProtectionMethod", "au8FrrRevertiveMode"})
neMplsTeScalars_Check ==
  Scalars(
    OfFirst("INTEGER", {"u8UnderlayEnable", "u8LooseHopExpandEnable",
                        "i32CrankbackMode", "u8HlspHopMergeEnable"}) @@
    OfFirst("UNSIGNED", {"u32SetupRetryPeriod", "u32SoftPreemptionPeriod",
                         "u32ReoptimizationPeriod",
                         "u32RerouteUpstreamHoldPeriod"}) @@
    OfFirst("OCTET_STR", {"au8FrrProtectionMethod", "au8FrrRevertiveMode"}))
neMplsTeScalars_Write ==
  InPlace(8, {"u8UnderlayEnable", "u8LooseHopExpandEnable",
              "u8HlspHopMergeEnable"}) @@
  InPlace(32, {"u32SetupRetryPeriod", "u32SoftPreemptionPeriod",
               "u32ReoptimizationPeriod", "i32CrankbackMode",
               "u32RerouteUpstreamHoldPeriod"}) @@
  InPlace(0, {"au8FrrProtectionMethod", "au8FrrRevertiveMode"})

(* neMplsTunnelTable *)
neMplsTunnelTable_Index ==
  RowsOf("mplsTunnelTable", 
    <<Unsigned(32, "u32Index"),
      Unsigned(32, "u32Instance"),
      Unsigned(32, "u32IngressLSRId"),
      Unsigned(32, "u32EgressLSRId")>>)
neMplsTunnelTable_Read ==
  Value("UNSIGNED", {"u32CallId", "u32ResourceIndex",
                     "u32ReverseResourceIndex", "u32ActiveInstance",
                     "u32SharedParentInstance"}) @@
  Counted("OCTET_STR", {"au8Type", "au8XCIndex", "au8PathCompModel",
                        "au8LastAction", "au8ProtectionStatus"}) @@
  Value("INTEGER", {"u32PeerIfIndex", "i32ReoptimizationEnable",
                    "u8ReoptimizationStatus", "i32DiffServType"})
neMplsTunnelTable_Check ==
  [FixedRows(
    OfFirst("UNSIGNED", {"u32CallId", "u32ResourceIndex",
                         "u32ReverseResourceIndex"}) @@
    Sized("OCTET_STR", {"au8PathCompModel"}) @@
    OfFirst("INTEGER", {"u32PeerIfIndex", "i32ReoptimizationEnable",
                        "i32DiffServType"})) EXCEPT
    !.frozen = {"u32CallId", "u32ResourceIndex", "u32ReverseResourceIndex",
                "au8PathCompModel", "u32PeerIfIndex", "i32DiffServType"}]
neMplsTunnelTable_Write ==
  Word(32, {"u32CallId", "u32ResourceIndex", "u32ReverseResourceIndex",
            "u32PeerIfIndex", "i32ReoptimizationEnable", "i32DiffServType"}) @@
  Saved("counted", {"au8PathCompModel"})

(* neMplsTunnelX1Table *)
neMplsTunnelX1Table_Index ==
  Rows(
    <<Unsigned(32, "u32Index"),
      Unsigned(32, "u32Instance"),
      Unsigned(32, "u32IngressLSRId"),
      Unsigned(32, "u32EgressLSRId")>>)
neMplsTunnelX1Table_Read ==
  Value("UNSIGNED", {"u32ResourceUpstreamIndex", "u32CrankbackListIndex",
                     "u32OamMegIndex", "u32OamMeIndex"}) @@
  Value("INTEGER", {"u8RerouteUpstreamEnable", "i32CrankbackEnable",
                    "u8CrankbackStatus", "i32SoftPreemptionEnable",
                    "u8SoftPreemptionStatus", "u8OamEnable"}) @@
  Counted("OCTET_STR", {"au8CrankbackModel"})
neMplsTunnelX1Table_Check ==
  ColumnRows(
    OfFirst("INTEGER", {"u8RerouteUpstreamEnable", "i32CrankbackEnable",
                        "i32SoftPreemptionEnable", "u8OamEnable"}) @@
    Sized("OCTET_STR", {"au8CrankbackModel"}) @@
    OfFirst("UNSIGNED", {"u32CrankbackListIndex", "u32OamMegIndex",
                         "u32OamMeIndex"}))
neMplsTunnelX1Table_Write ==
  Word(8, {"u8RerouteUpstreamEnable", "u8OamEnable"}) @@
  Saved("counted", {"au8CrankbackModel"}) @@
  Word(32, {"i32CrankbackEnable", "u32CrankbackListIndex",
            "i32SoftPreemptionEnable", "u32OamMegIndex", "u32OamMeIndex"})

(* neMplsTunnelHopTable *)
neMplsTunnelHopTable_Index ==
  RowsOf("mplsTunnelHopTable", 
    <<Unsigned(32, "u32ListIndex"),
      Unsigned(32, "u32PathOptionIndex"),
      Unsigned(32, "u32Index")>>)
neMplsTunnelHopTable_Read ==
  Value("UNSIGNED", {"u32NodeId", "u32LinkId"}) @@
  Value("INTEGER", {"i32LabelType"}) @@
  Counted("OCTET_STR", {"au8ForwardLabel", "au8ReverseLabel"})
neMplsTunnelHopTable_Check ==
  [FixedRows(
    OfFirst("UNSIGNED", {"u32NodeId", "u32LinkId"}) @@
    OfFirst("INTEGER", {"i32LabelType"}) @@
    Sized("OCTET_STR", {"au8ForwardLabel", "au8ReverseLabel"})) EXCEPT
    !.frozen = {"u32NodeId", "u32LinkId", "i32LabelType", "au8ForwardLabel",
                "au8ReverseLabel"}]
neMplsTunnelHopTable_Write ==
  Word(32, {"u32NodeId", "u32LinkId", "i32LabelType"}) @@
  Saved("counted", {"au8ForwardLabel", "au8ReverseLabel"})

(* neMplsTunnelARHopTable *)
neMplsTunnelARHopTable_Index ==
  RowsOf("mplsTunnelARHopTable", 
    <<Unsigned(32, "u32ListIndex"), Unsigned(32, "u32Index")>>)
neMplsTunnelARHopTable_Read ==
  Value("UNSIGNED", {"u32NodeId", "u32LinkId"}) @@
  Value("INTEGER", {"i32LabelType"}) @@
  Counted("OCTET_STR", {"au8ForwardLabel", "au8ReverseLabel"})

(* neMplsTunnelCHopTable *)
neMplsTunnelCHopTable_Index ==
  RowsOf("mplsTunnelCHopTable", 
    <<Unsigned(32, "u32ListIndex"), Unsigned(32, "u32Index")>>)
neMplsTunnelCHopTable_Read ==
  Value("UNSIGNED", {"u32NodeId", "u32LinkId"}) @@
  Value("INTEGER", {"i32LabelType"}) @@
  Counted("OCTET_STR", {"au8ForwardLabel", "au8ReverseLabel"})

(* neMplsTunnelPathTable *)
neMplsTunnelPathTable_Index ==
  Rows(
    <<Unsigned(32, "u32Index"),
      Unsigned(32, "u32Instance"),
      Unsigned(32, "u32IngressLSRId"),
      Unsigned(32, "u32EgressLSRId"),
      Unsigned(32, "u32OptionIndex")>>)
neMplsTunnelPathTable_Read ==
  Value("INTEGER", {"i32Type", "u8RowStatus", "u8StorageType"})
neMplsTunnelPathTable_Check ==
  CommitRows("u8RowStatus",
    OfFirst("INTEGER", {"i32Type", "u8StorageType"}))
neMplsTunnelPathTable_Write ==
  Word(32, {"i32Type"}) @@
  Word(8, {"u8StorageType"}) @@
  AtCommit("u8RowStatus")

(* neMplsCallTable *)
neMplsCallTable_Index ==
  Rows(
    <<Unsigned(32, "u32IngressLsrId"),
      Unsigned(32, "u32EgressLsrId"),
      Unsigned(32, "u32Id")>>)
neMplsCallTable_Read ==
  Counted("OCTET_STR", {"au8LongId"}) @@
  Value("INTEGER", {"u8RowStatus", "u8StorageType"})
neMplsCallTable_Check ==
  CommitRows("u8RowStatus",
    Sized("OCTET_STR", {"au8LongId"}) @@
    OfFirst("INTEGER", {"u8StorageType"}))
neMplsCallTable_Write ==
  Saved("counted", {"au8LongId"}) @@
  Word(8, {"u8StorageType"}) @@
  AtCommit("u8RowStatus")

(* neMplsCallLinkTable *)
neMplsCallLinkTable_Index ==
  Rows(
    <<Unsigned(32, "u32IngressLsrId"),
      Unsigned(32, "u32EgressLsrId"),
      Unsigned(32, "u32Id"),
      Unsigned(32, "u32Index")>>)
neMplsCallLinkTable_Read ==
  Value("INTEGER", {"i32Type", "u8RowStatus", "u8StorageType"}) @@
  Counted("OCTET_STR", {"au8Address", "au8ReservableBandwidth"}) @@
  Value("UNSIGNED", {"u32AddressUnnumbered"})
neMplsCallLinkTable_Check ==
  CommitRows("u8RowStatus",
    OfFirst("INTEGER", {"i32Type", "u8StorageType"}) @@
    Sized("OCTET_STR", {"au8Address", "au8ReservableBandwidth"}) @@
    OfFirst("UNSIGNED", {"u32AddressUnnumbered"}))
neMplsCallLinkTable_Write ==
  Word(32, {"i32Type", "u32AddressUnnumbered"}) @@
  Saved("counted", {"au8Address", "au8ReservableBandwidth"}) @@
  Word(8, {"u8StorageType"}) @@
  AtCommit("u8RowStatus")

neMplsTeMIB_tables ==
  [neMplsTeScalars |->
     Table(NoIndex, neMplsTeScalars_Read,
           neMplsTeScalars_Check, neMplsTeScalars_Write),
   neMplsTunnelTable |->
     Table(neMplsTunnelTable_Index, neMplsTunnelTable_Read,
           neMplsTunnelTable_Check, neMplsTunnelTable_Write),
   neMplsTunnelX1Table |->
     Table(neMplsTunnelX1Table_Index, neMplsTunnelX1Table_Read,
           neMplsTunnelX1Table_Check, neMplsTunnelX1Table_Write),
   neMplsTunnelHopTable |->
     Table(neMplsTunnelHopTable_Index, neMplsTunnelHopTable_Read,
           neMplsTunnelHopTable_Check, neMplsTunnelHopTable_Write),
   neMplsTunnelARHopTable |-> ReadOnly(neMplsTunnelARHopTable_Index, neMplsTunnelARHopTable_Read),
   neMplsTunnelCHopTable |-> ReadOnly(neMplsTunnelCHopTable_Index, neMplsTunnelCHopTable_Read),
   neMplsTunnelPathTable |->
     Table(neMplsTunnelPathTable_Index, neMplsTunnelPathTable_Read,
           neMplsTunnelPathTable_Check, neMplsTunnelPathTable_Write),
   neMplsCallTable |->
     Table(neMplsCallTable_Index, neMplsCallTable_Read,
           neMplsCallTable_Check, neMplsCallTable_Write),
   neMplsCallLinkTable |->
     Table(neMplsCallLinkTable_Index, neMplsCallLinkTable_Read,
           neMplsCallLinkTable_Check, neMplsCallLinkTable_Write)]

=============================================================================
