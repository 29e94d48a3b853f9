------------------------------- MODULE TeTables -------------------------------
(***************************************************************************)
(* The tables of the traffic engineering database and its links (ted/).    *)
(***************************************************************************)
EXTENDS Tables

-----------------------------------------------------------------------------
(* ted/neTedMIB.c                                                          *)

(* mplsIdObjects *)
mplsIdObjects_Read ==
  Entire("OCTET_STR", {"au8GlobalId", "au8Cc"}) @@
  Value("UNSIGNED", {"u32NodeId"}) @@
  Counted("OCTET_STR", {"au8Icc"})
mplsIdObjects_Check ==
  Scalars(
    OfFirst("OCTET_STR", {"au8GlobalId", "au8Cc", "au8Icc"}) @@
    OfFirst("UNSIGNED", {"u32NodeId"}))
mplsIdObjects_Write ==
  InPlace(0, {"au8GlobalId", "au8Cc", "au8Icc"}) @@
  InPlace(32, {"u32NodeId"})

(* mplsTeExtObjects *)
mplsTeExtObjects_Read ==
  Value("UNSIGNED", {"u32NodeLocalIdNext"})

(* neTedScalars *)
neTedScalars_Read ==
  Value("UNSIGNED", {"u32NodeLocalId", "u32NodeConfigured", "u32NodeActive",
                     "u32LinkConfigured", "u32LinkActive",
                     "u32AddressConfigured", "u32AddressActive",
                     "u32NeighborConfigured", "u32NeighborActive"})
neTedScalars_Check ==
  Scalars(
    OfFirst("UNSIGNED", {"u32NodeLocalId"}))
neTedScalars_Write ==
  InPlace(32, {"u32NodeLocalId"})

(* mplsTeNodeTable *)
mplsTeNodeTable_Index ==
  Rows(<<Unsigned(32, "u32LocalId")>>)
mplsTeNodeTable_Read ==
  Entire("OCTET_STR", {"au8GlobalId", "au8CcId"}) @@
  Counted("OCTET_STR", {"au8IccId"}) @@
  Value("UNSIGNED", {"u32NodeId"}) @@
  Value("INTEGER", {"u8IccValid", "u8StorageType", "u8RowStatus"})
mplsTeNodeTable_Check ==
  CommitRows("u8RowStatus",
    Sized("OCTET_STR", {"au8GlobalId", "au8CcId", "au8IccId"}) @@
    OfFirst("UNSIGNED", {"u32NodeId"}) @@
    OfFirst("INTEGER", {"u8IccValid", "u8StorageType"}))
mplsTeNodeTable_Write ==
  Saved("buffer", {"au8GlobalId"}) @@
  Saved("strayed", {"au8CcId"}) @@
  Saved("counted", {"au8IccId"}) @@
  Word(32, {"u32NodeId"}) @@
  Word(8, {"u8IccValid", "u8StorageType"}) @@
  AtCommit("u8RowStatus")

(* mplsTeNodeIpMapTable *)
mplsTeNodeIpMapTable_Index ==
  Rows(<<Padded("au8GlobalId"), Unsigned(32, "u32NodeId")>>)
mplsTeNodeIpMapTable_Read ==
  Value("UNSIGNED", {"u32LocalId"})

(* mplsTeNodeIccMapTable *)
mplsTeNodeIccMapTable_Index ==
  Rows(<<Padded("au8CcId"), Octets("au8IccId"), Unsigned(32, "u32NodeId")>>)
mplsTeNodeIccMapTable_Read ==
  Value("UNSIGNED", {"u32LocalId"})

(* neTedNodeTable *)
neTedNodeTable_Index ==
  RowsOf("mplsTeNodeTable", <<Unsigned(32, "u32LocalId")>>)
neTedNodeTable_Read ==
  Value("INTEGER", {"i32Type", "i32AddrType"}) @@
  Counted("OCTET_STR", {"au8Address", "au8AdminFlags", "au8OperFlags"}) @@
  Value("UNSIGNED", {"u32PhysicalIndex", "u32Area"})
neTedNodeTable_Check ==
  ColumnRows(
    OfFirst("INTEGER", {"i32Type", "i32AddrType"}) @@
    Sized("OCTET_STR", {"au8Address", "au8AdminFlags"}) @@
    OfFirst("UNSIGNED", {"u32PhysicalIndex", "u32Area"}))
neTedNodeTable_Write ==
  Word(32, {"i32Type", "i32AddrType", "u32PhysicalIndex", "u32Area"}) @@
  Saved("counted", {"au8Address", "au8AdminFlags"})

(* neTedLinkTable *)
neTedLinkTable_Index ==
  Rows(<<Unsigned(32, "u32NodeIndex"), Unsigned(32, "u32Index")>>)
neTedLinkTable_Read ==
  Value("INTEGER", {"u8DistributeEnable", "u8RowStatus", "u8StorageType"}) @@
  Counted("OCTET_STR", {"au8AdminFlags", "au8SwCapTypes", "au8SwCapEncodings",
                        "au8AdjCapTypes", "au8AdjCapEncodings"}) @@
  Value("UNSIGNED", {"u32IgpInstance", "u32RemoteAsn"})
neTedLinkTable_Check ==
  [CommitRows("u8RowStatus",
    OfFirst("INTEGER", {"u8DistributeEnable", "u8StorageType"}) @@
    Sized("OCTET_STR", {"au8AdminFlags", "au8SwCapTypes", "au8SwCapEncodings",
                        "au8AdjCapTypes", "au8AdjCapEncodings"}) @@
    OfFirst("UNSIGNED", {"u32IgpInstance", "u32RemoteAsn"})) EXCEPT
    !.frozen = {"u8DistributeEnable", "au8AdminFlags", "u32IgpInstance",
                "u32RemoteAsn", "au8SwCapTypes", "au8SwCapEncodings",
                "au8AdjCapTypes", "au8AdjCapEncodings", "u8StorageType"},
    !.tested = FALSE]
neTedLinkTable_Write ==
  Word(8, {"u8DistributeEnable", "u8StorageType"}) @@
  Saved("counted", {"au8AdminFlags", "au8SwCapTypes", "au8SwCapEncodings",
                    "au8AdjCapTypes", "au8AdjCapEncodings"}) @@
  Word(32, {"u32IgpInstance", "u32RemoteAsn"}) @@
  AtCommit("u8RowStatus")

(* neTedAddressTable *)
neTedAddressTable_Index ==
  Rows(
    <<Unsigned(32, "u32NodeIndex"),
      Unsigned(32, "u32LinkIndex"),
      Signed(32, "i32Type"),
      Octets("au8Address"),
      Unsigned(32, "u32Prefix"),
      Unsigned(32, "u32Unnum")>>)
neTedAddressTable_Read ==
  Value("INTEGER", {"u8RowStatus", "u8StorageType"})
neTedAddressTable_Check ==
  CommitRows("u8RowStatus",
    OfFirst("INTEGER", {"u8StorageType"}))
neTedAddressTable_Write ==
  Word(8, {"u8StorageType"}) @@
  AtCommit("u8RowStatus")

(* neTedNeighborTable *)
neTedNeighborTable_Index ==
  Rows(
    <<Unsigned(32, "u32NodeIndex"),
      Unsigned(32, "u32LinkIndex"),
      Unsigned(32, "u32Index")>>)
neTedNeighborTable_Read ==
  Value("UNSIGNED", {"u32Link"}) @@
  Value("INTEGER", {"u8RowStatus", "u8StorageType"})
neTedNeighborTable_Check ==
  CommitRows("u8RowStatus",
    OfFirst("UNSIGNED", {"u32Link"}) @@
    OfFirst("INTEGER", {"u8StorageType"}))
neTedNeighborTable_Write ==
  Word(32, {"u32Link"}) @@
  Word(8, {"u8StorageType"}) @@
  AtCommit("u8RowStatus")

(* neTedLinkResvTable *)
neTedLinkResvTable_Index ==
  Rows(
    <<Unsigned(32, "u32NodeIndex"),
      Unsigned(32, "u32LinkIndex"),
      Octets("au8Index")>>)
neTedLinkResvTable_Read ==
  Value("UNSIGNED", {"u32Priority"}) @@
  Counted("OCTET_STR", {"au8Bandwidth"})

(* neTeLinkAdjCapTable *)
neTeLinkAdjCapTable_Index ==
  Rows(<<Signed(32, "u32IfIndex"), Unsigned(32, "u32Id")>>)
neTeLinkAdjCapTable_Read ==
  Value("INTEGER", {"i32LowerType", "i32LowerEncoding", "i32UpperType",
                    "i32UpperEncoding", "u8RowStatus", "u8StorageType"}) @@
  Entire("OCTET_STR", {"au8MaxLspBandwidthPrio[0]",
                       "au8MaxLspBandwidthPrio[1]",
                       "au8MaxLspBandwidthPrio[2]",
                       "au8MaxLspBandwidthPrio[3]",
                       "au8MaxLspBandwidthPrio[4]",
                       "au8MaxLspBandwidthPrio[5]",
                       "au8MaxLspBandwidthPrio[6]",
                       "au8MaxLspBandwidthPrio[7]"})
neTeLinkAdjCapTable_Check ==
  CommitRows("u8RowStatus",
    OfFirst("INTEGER", {"i32LowerType", "i32LowerEncoding", "i32UpperType",
                        "i32UpperEncoding", "u8StorageType"}) @@
    Sized("OCTET_STR", {"au8MaxLspBandwidthPrio[0]",
                        "au8MaxLspBandwidthPrio[1]",
                        "au8MaxLspBandwidthPrio[2]",
                        "au8MaxLspBandwidthPrio[3]",
                        "au8MaxLspBandwidthPrio[4]",
                        "au8MaxLspBandwidthPrio[5]",
                        "au8MaxLspBandwidthPrio[6]",
                        "au8MaxLspBandwidthPrio[7]"}))
neTeLinkAdjCapTable_Write ==
  Word(32, {"i32LowerType", "i32LowerEncoding", "i32UpperType",
            "i32UpperEncoding"}) @@
  Saved("sized", {"au8MaxLspBandwidthPrio[0]", "au8MaxLspBandwidthPrio[1]",
                  "au8MaxLspBandwidthPrio[2]", "au8MaxLspBandwidthPrio[3]",
                  "au8MaxLspBandwidthPrio[4]", "au8MaxLspBandwidthPrio[5]",
                  "au8MaxLspBandwidthPrio[6]", "au8MaxLspBandwidthPrio[7]"}) @@
  Word(8, {"u8StorageType"}) @@
  AtCommit("u8RowStatus")

(* neTeCompLinkAdjCapTable *)
neTeCompLinkAdjCapTable_Index ==
  Rows(<<Signed(32, "u32IfIndex"), Unsigned(32, "u32Id")>>)
neTeCompLinkAdjCapTable_Read ==
  Value("INTEGER", {"i32LowerType", "i32LowerEncoding", "i32UpperType",
                    "i32UpperEncoding", "u8RowStatus", "u8StorageType"}) @@
  Entire("OCTET_STR", {"au8MaxLspBandwidthPrio[0]",
                       "au8MaxLspBandwidthPrio[1]",
                       "au8MaxLspBandwidthPrio[2]",
                       "au8MaxLspBandwidthPrio[3]",
                       "au8MaxLspBandwidthPrio[4]",
                       "au8MaxLspBandwidthPrio[5]",
                       "au8MaxLspBandwidthPrio[6]",
                       "au8MaxLspBandwidthPrio[7]"})
neTeCompLinkAdjCapTable_Check ==
  CommitRows("u8RowStatus",
    OfFirst("INTEGER", {"i32LowerType", "i32LowerEncoding", "i32UpperType",
                        "i32UpperEncoding", "u8StorageType"}) @@
    Sized("OCTET_STR", {"au8MaxLspBandwidthPrio[0]",
                        "au8MaxLspBandwidthPrio[1]",
                        "au8MaxLspBandwidthPrio[2]",
                        "au8MaxLspBandwidthPrio[3]",
                        "au8MaxLspBandwidthPrio[4]",
                        "au8MaxLspBandwidthPrio[5]",
                        "au8MaxLspBandwidthPrio[6]",
                        "au8MaxLspBandwidthPrio[7]"}))
neTeCompLinkAdjCapTable_Write ==
  Word(32, {"i32LowerType", "i32LowerEncoding", "i32UpperType",
            "i32UpperEncoding"}) @@
  Saved("sized", {"au8MaxLspBandwidthPrio[0]", "au8MaxLspBandwidthPrio[1]",
                  "au8MaxLspBandwidthPrio[2]", "au8MaxLspBandwidthPrio[3]",
                  "au8MaxLspBandwidthPrio[4]", "au8MaxLspBandwidthPrio[5]",
                  "au8MaxLspBandwidthPrio[6]", "au8MaxLspBandwidthPrio[7]"}) @@
  Word(8, {"u8StorageType"}) @@
  AtCommit("u8RowStatus")

(* neTedLinkXCTable *)
neTedLinkXCTable_Index ==
  Rows(
    <<Unsigned(32, "u32NodeIndex"),
      Unsigned(32, "u32InIf"),
      Unsigned(32, "u32OutIf")>>)
neTedLinkXCTable_Read ==
  Entire("OCTET_STR", {"au8Dir"}) @@
  Value("UNSIGNED", {"u32InMax", "u32OutMax"}) @@
  Value("INTEGER", {"u8RowStatus", "u8StorageType"})
neTedLinkXCTable_Check ==
  CommitRows("u8RowStatus",
    Sized("OCTET_STR", {"au8Dir"}) @@
    OfFirst("UNSIGNED", {"u32InMax", "u32OutMax"}) @@
    OfFirst("INTEGER", {"u8StorageType"}))
neTedLinkXCTable_Write ==
  Saved("uncounted", {"au8Dir"}) @@
  Word(32, {"u32InMax", "u32OutMax"}) @@
  Word(8, {"u8StorageType"}) @@
  AtCommit("u8RowStatus")

neTedMIB_tables ==
  [mplsIdObjects |->
     Table(NoIndex, mplsIdObjects_Read,
           mplsIdObjects_Check, mplsIdObjects_Write),
   mplsTeExtObjects |-> ReadOnly(NoIndex, mplsTeExtObjects_Read),
   neTedScalars |->
     Table(NoIndex, neTedScalars_Read,
           neTedScalars_Check, neTedScalars_Write),
   mplsTeNodeTable |->
     Table(mplsTeNodeTable_Index, mplsTeNodeTable_Read,
           mplsTeNodeTable_Check, mplsTeNodeTable_Write),
   mplsTeNodeIpMapTable |-> ReadOnly(mplsTeNodeIpMapTable_Index, mplsTeNodeIpMapTable_Read),
   mplsTeNodeIccMapTable |-> ReadOnly(mplsTeNodeIccMapTable_Index, mplsTeNodeIccMapTable_Read),
   neTedNodeTable |->
     Table(neTedNodeTable_Index, neTedNodeTable_Read,
           neTedNodeTable_Check, neTedNodeTable_Write),
   neTedLinkTable |->
     Table(neTedLinkTable_Index, neTedLinkTable_Read,
           neTedLinkTable_Check, neTedLinkTable_Write),
   neTedAddressTable |->
     Table(neTedAddressTable_Index, neTedAddressTable_Read,
           neTedAddressTable_Check, neTedAddressTable_Write),
   neTedNeighborTable |->
     Table(neTedNeighborTable_Index, neTedNeighborTable_Read,
           neTedNeighborTable_Check, neTedNeighborTable_Write),
   neTedLinkResvTable |-> ReadOnly(neTedLinkResvTable_Index, neTedLinkResvTable_Read),
   neTeLinkAdjCapTable |->
     Table(neTeLinkAdjCapTable_Index, neTeLinkAdjCapTable_Read,
           neTeLinkAdjCapTable_Check, neTeLinkAdjCapTable_Write),
   neTeCompLinkAdjCapTable |->
     Table(neTeCompLinkAdjCapTable_Index, neTeCompLinkAdjCapTable_Read,
           neTeCompLinkAdjCapTable_Check, neTeCompLinkAdjCapTable_Write),
   neTedLinkXCTable |->
     Table(neTedLinkXCTable_Index, neTedLinkXCTable_Read,
           neTedLinkXCTable_Check, neTedLinkXCTable_Write)]

-----------------------------------------------------------------------------
(* ted/teLinkStdMIB.c                                                      *)

(* teLinkTable *)
teLinkTable_Index ==
  Rows(<<Signed(32, "u32IfIndex")>>)
teLinkTable_Read ==
  Value("INTEGER", {"i32AddressType", "i32ProtectionType", "u32LocalId",
                    "u8RowStatus", "u8StorageType"}) @@
  Counted("OCTET_STR", {"au8LocalIpAddr", "au8RemoteIpAddr"}) @@
  Value("UNSIGNED", {"u32Metric", "u32WorkingPriority", "u32ResourceClass",
                     "u32RemoteId"}) @@
  Entire("OCTET_STR", {"au8MaxResBandwidth"})
teLinkTable_Check ==
  CommitRows("u8RowStatus",
    OfFirst("INTEGER", {"i32AddressType", "i32ProtectionType", "u32LocalId",
                        "u8StorageType"}) @@
    Sized("OCTET_STR", {"au8LocalIpAddr", "au8RemoteIpAddr"}) @@
    OfFirst("UNSIGNED", {"u32Metric", "u32WorkingPriority", "u32ResourceClass",
                         "u32RemoteId"}))
teLinkTable_Write ==
  Word(32, {"i32AddressType", "u32Metric", "i32ProtectionType",
            "u32WorkingPriority", "u32ResourceClass", "u32RemoteId",
            "u32LocalId"}) @@
  Saved("counted", {"au8LocalIpAddr", "au8RemoteIpAddr"}) @@
  Word(8, {"u8StorageType"}) @@
  AtCommit("u8RowStatus")

(* teLinkSwCapTable *)
teLinkSwCapTable_Index ==
  Rows(<<Signed(32, "u32IfIndex"), Unsigned(32, "u32Id")>>)
teLinkSwCapTable_Read ==
  Value("INTEGER", {"i32Type", "i32Encoding", "i32Indication", "u8RowStatus",
                    "u8StorageType"}) @@
  Entire("OCTET_STR", {"au8MinLspBandwidth", "au8MaxLspBandwidth[0]",
                       "au8MaxLspBandwidth[1]", "au8MaxLspBandwidth[2]",
                       "au8MaxLspBandwidth[3]", "au8MaxLspBandwidth[4]",
                       "au8MaxLspBandwidth[5]", "au8MaxLspBandwidth[6]",
                       "au8MaxLspBandwidth[7]"}) @@
  Value("UNSIGNED", {"u32InterfaceMtu"})
teLinkSwCapTable_Check ==
  CommitRows("u8RowStatus",
    OfFirst("INTEGER", {"i32Type", "i32Encoding", "i32Indication",
                        "u8StorageType"}) @@
    Sized("OCTET_STR", {"au8MinLspBandwidth", "au8MaxLspBandwidth[0]",
                        "au8MaxLspBandwidth[1]", "au8MaxLspBandwidth[2]",
                        "au8MaxLspBandwidth[3]", "au8MaxLspBandwidth[4]",
                        "au8MaxLspBandwidth[5]", "au8MaxLspBandwidth[6]",
                        "au8MaxLspBandwidth[7]"}) @@
    OfFirst("UNSIGNED", {"u32InterfaceMtu"}))
teLinkSwCapTable_Write ==
  Word(32, {"i32Type", "i32Encoding", "u32InterfaceMtu", "i32Indication"}) @@
  Saved("buffer", {"au8MinLspBandwidth", "au8MaxLspBandwidth[0]",
                   "au8MaxLspBandwidth[1]", "au8MaxLspBandwidth[2]",
                   "au8MaxLspBandwidth[3]", "au8MaxLspBandwidth[4]",
                   "au8MaxLspBandwidth[5]", "au8MaxLspBandwidth[6]",
                   "au8MaxLspBandwidth[7]"}) @@
  Word(8, {"u8StorageType"}) @@
  AtCommit("u8RowStatus")

(* teLinkSrlgTable *)
teLinkSrlgTable_Index ==
  Rows(<<Signed(32, "u32IfIndex"), Unsigned(32, "u32Srlg")>>)
teLinkSrlgTable_Read ==
  Value("INTEGER", {"u8RowStatus", "u8StorageType"})
teLinkSrlgTable_Check ==
  CommitRows("u8RowStatus",
    OfFirst("INTEGER", {"u8StorageType"}))
teLinkSrlgTable_Write ==
  Word(8, {"u8StorageType"}) @@
  AtCommit("u8RowStatus")

(* teLinkBandwidthTable *)
teLinkBandwidthTable_Index ==
  Rows(<<Signed(32, "u32IfIndex"), Unsigned(32, "u32Priority")>>)
teLinkBandwidthTable_Read ==
  Entire("OCTET_STR", {"au8Unreserved"}) @@
  Value("INTEGER", {"u8RowStatus", "u8StorageType"})
teLinkBandwidthTable_Check ==
  CommitRows("u8RowStatus",
    OfFirst("INTEGER", {"u8StorageType"}))
teLinkBandwidthTable_Write ==
  Word(8, {"u8StorageType"}) @@
  AtCommit("u8RowStatus")

(* componentLinkTable *)
componentLinkTable_Index ==
  Rows(<<Signed(32, "u32IfIndex")>>)
componentLinkTable_Read ==
  Entire("OCTET_STR", {"au8MaxResBandwidth"}) @@
  Value("INTEGER", {"i32PreferredProtection", "i32CurrentProtection",
                    "u8RowStatus", "u8StorageType"})
componentLinkTable_Check ==
  CommitRows("u8RowStatus",
    Sized("OCTET_STR", {"au8MaxResBandwidth"}) @@
    OfFirst("INTEGER", {"i32PreferredProtection", "u8StorageType"}))
componentLinkTable_Write ==
  Saved("buffer", {"au8MaxResBandwidth"}) @@
  Word(32, {"i32PreferredProtection"}) @@
  Word(8, {"u8StorageType"}) @@
  AtCommit("u8RowStatus")

(* componentLinkSwCapTable *)
componentLinkSwCapTable_Index ==
  Rows(<<Signed(32, "u32IfIndex"), Unsigned(32, "u32Id")>>)
componentLinkSwCapTable_Read ==
  Value("INTEGER", {"i32Type", "i32Encoding", "i32Indication", "u8RowStatus",
                    "u8StorageType"}) @@
  Entire("OCTET_STR", {"au8MinLspBandwidth", "au8MaxLspBandwidthPrio[0]",
                       "au8MaxLspBandwidthPrio[1]",
                       "au8MaxLspBandwidthPrio[2]",
                       "au8MaxLspBandwidthPrio[3]",
                       "au8MaxLspBandwidthPrio[4]",
                       "au8MaxLspBandwidthPrio[5]",
                       "au8MaxLspBandwidthPrio[6]",
                       "au8MaxLspBandwidthPrio[7]"}) @@
  Value("UNSIGNED", {"u32InterfaceMtu"})
componentLinkSwCapTable_Check ==
  CommitRows("u8RowStatus",
    OfFirst("INTEGER", {"i32Type", "i32Encoding", "i32Indication",
                        "u8StorageType"}) @@
    Sized("OCTET_STR", {"au8MinLspBandwidth", "au8MaxLspBandwidthPrio[0]",
                        "au8MaxLspBandwidthPrio[1]",
                        "au8MaxLspBandwidthPrio[2]",
                        "au8MaxLspBandwidthPrio[3]",
                        "au8MaxLspBandwidthPrio[4]",
                        "au8MaxLspBandwidthPrio[5]",
                        "au8MaxLspBandwidthPrio[6]",
                        "au8MaxLspBandwidthPrio[7]"}) @@
    OfFirst("UNSIGNED", {"u32InterfaceMtu"}))
componentLinkSwCapTable_Write ==
  Word(32, {"i32Type", "i32Encoding", "u32InterfaceMtu", "i32Indication"}) @@
  Saved("buffer", {"au8MinLspBandwidth"}) @@
  Saved("sized", {"au8MaxLspBandwidthPrio[0]", "au8MaxLspBandwidthPrio[1]",
                  "au8MaxLspBandwidthPrio[2]", "au8MaxLspBandwidthPrio[3]",
                  "au8MaxLspBandwidthPrio[4]", "au8MaxLspBandwidthPrio[5]",
                  "au8MaxLspBandwidthPrio[6]", "au8MaxLspBandwidthPrio[7]"}) @@
  Word(8, {"u8StorageType"}) @@
  AtCommit("u8RowStatus")

(* componentLinkBandwidthTable *)
componentLinkBandwidthTable_Index ==
  Rows(<<Signed(32, "u32IfIndex"), Unsigned(32, "u32Priority")>>)
componentLinkBandwidthTable_Read ==
  Entire("OCTET_STR", {"au8Unreserved"}) @@
  Value("INTEGER", {"u8RowStatus", "u8StorageType"})
componentLinkBandwidthTable_Check ==
  CommitRows("u8RowStatus",
    OfFirst("INTEGER", {"u8StorageType"}))
componentLinkBandwidthTable_Write ==
  Word(8, {"u8StorageType"}) @@
  AtCommit("u8RowStatus")

(* teAdminGroupTable *)
teAdminGroupTable_Index ==
  Rows(<<Signed(32, "i32Number")>>)
teAdminGroupTable_Read ==
  Counted("OCTET_STR", {"au8Name"}) @@
  Value("INTEGER", {"u8RowStatus"})
teAdminGroupTable_Check ==
  CommitRows("u8RowStatus",
    Sized("OCTET_STR", {"au8Name"}))
teAdminGroupTable_Write ==
  Saved("counted", {"au8Name"}) @@
  AtCommit("u8RowStatus")

teLinkStdMIB_tables ==
  [teLinkTable |->
     Table(teLinkTable_Index, teLinkTable_Read,
           teLinkTable_Check, teLinkTable_Write),
   teLinkSwCapTable |->
     Table(teLinkSwCapTable_Index, teLinkSwCapTable_Read,
           teLinkSwCapTable_Check, teLinkSwCapTable_Write),
   teLinkSrlgTable |->
     Table(teLinkSrlgTable_Index, teLinkSrlgTable_Read,
           teLinkSrlgTable_Check, teLinkSrlgTable_Write),
   teLinkBandwidthTable |->
     Table(teLinkBandwidthTable_Index, teLinkBandwidthTable_Read,
           teLinkBandwidthTable_Check, teLinkBandwidthTable_Write),
   componentLinkTable |->
     Table(componentLinkTable_Index, componentLinkTable_Read,
           componentLinkTable_Check, componentLinkTable_Write),
   componentLinkSwCapTable |->
     Table(componentLinkSwCapTable_Index, componentLinkSwCapTable_Read,
           componentLinkSwCapTable_Check, componentLinkSwCapTable_Write),
   componentLinkBandwidthTable |->
     Table(componentLinkBandwidthTable_Index, componentLinkBandwidthTable_Read,
           componentLinkBandwidthTable_Check, componentLinkBandwidthTable_Write),
   teAdminGroupTable |->
     Table(teAdminGroupTable_Index, teAdminGroupTable_Read,
           teAdminGroupTable_Check, teAdminGroupTable_Write)]

=============================================================================
