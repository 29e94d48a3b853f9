------------------------------ MODULE SnmpTables ------------------------------
(***************************************************************************)
(* The tables of the agent itself (snmp/).                                 *)
(***************************************************************************)
EXTENDS Tables

-----------------------------------------------------------------------------
(* snmp/snmpMIB.c                                                          *)

(* snmpSet *)
snmpSet_Read ==
  Value("INTEGER", {"i32SerialNo"})
snmpSet_Check ==
  Scalars(
    OfFirst("INTEGER", {"i32SerialNo"}))
snmpSet_Write ==
  InPlace(32, {"i32SerialNo"})

(* snmpTargetObjects *)
snmpTargetObjects_Read ==
  Value("INTEGER", {"i32TargetSpinLock"}) @@
  Value("COUNTER", {"u32UnavailableContexts", "u32UnknownContexts"})
snmpTargetObjects_Check ==
  Scalars(
    OfFirst("INTEGER", {"i32TargetSpinLock"}))
snmpTargetObjects_Write ==
  InPlace(32, {"i32TargetSpinLock"})

(* usmStats *)
usmStats_Read ==
  Value("COUNTER", {"u32UnsupportedSecLevels", "u32NotInTimeWindows",
                    "u32UnknownUserNames", "u32UnknownEngineIDs",
                    "u32WrongDigests", "u32DecryptionErrors"})

(* usmUser *)
usmUser_Read ==
  Value("INTEGER", {"i32SpinLock"})
usmUser_Check ==
  Scalars(
    OfFirst("INTEGER", {"i32SpinLock"}))
usmUser_Write ==
  InPlace(32, {"i32SpinLock"})

(* vacmMIBViews *)
vacmMIBViews_Read ==
  Value("INTEGER", {"i32ViewSpinLock"})
vacmMIBViews_Check ==
  Scalars(
    OfFirst("INTEGER", {"i32ViewSpinLock"}))
vacmMIBViews_Write ==
  InPlace(32, {"i32ViewSpinLock"})

(* snmpTargetAddrTable *)
snmpTargetAddrTable_Index ==
  Rows(<<Octets("au8Name")>>)
snmpTargetAddrTable_Read ==
  Counted("OBJECT_ID", {"aoTDomain"}) @@
  Counted("OCTET_STR", {"au8TAddress", "au8TagList", "au8Params"}) @@
  Value("INTEGER", {"i32Timeout", "i32RetryCount", "u8StorageType",
                    "u8RowStatus"})
snmpTargetAddrTable_Check ==
  CommitRows("u8RowStatus",
    Sized("OBJECT_ID", {"aoTDomain"}) @@
    Sized("OCTET_STR", {"au8TAddress", "au8TagList", "au8Params"}) @@
    OfFirst("INTEGER", {"i32Timeout", "i32RetryCount", "u8StorageType"}))
snmpTargetAddrTable_Write ==
  Saved("counted", {"aoTDomain", "au8TAddress", "au8TagList", "au8Params"}) @@
  Word(32, {"i32Timeout", "i32RetryCount"}) @@
  Word(8, {"u8StorageType"}) @@
  AtCommit("u8RowStatus")

(* snmpTargetParamsTable *)
snmpTargetParamsTable_Index ==
  Rows(<<Octets("au8Name")>>)
snmpTargetParamsTable_Read ==
  Value("INTEGER", {"i32MPModel", "i32SecurityModel", "i32SecurityLevel",
                    "u8StorageType", "u8RowStatus"}) @@
  Counted("OCTET_STR", {"au8SecurityName"})
snmpTargetParamsTable_Check ==
  CommitRows("u8RowStatus",
    OfFirst("INTEGER", {"i32MPModel", "i32SecurityModel", "i32SecurityLevel",
                        "u8StorageType"}) @@
    Sized("OCTET_STR", {"au8SecurityName"}))
snmpTargetParamsTable_Write ==
  Word(32, {"i32MPModel", "i32SecurityModel", "i32SecurityLevel"}) @@
  Saved("counted", {"au8SecurityName"}) @@
  Word(8, {"u8StorageType"}) @@
  AtCommit("u8RowStatus")

(* snmpNotifyTable *)
snmpNotifyTable_Index ==
  Rows(<<Octets("au8Name")>>)
snmpNotifyTable_Read ==
  Counted("OCTET_STR", {"au8Tag"}) @@
  Value("INTEGER", {"i32Type", "u8StorageType", "u8RowStatus"})
snmpNotifyTable_Check ==
  CommitRows("u8RowStatus",
    Sized("OCTET_STR", {"au8Tag"}) @@
    OfFirst("INTEGER", {"i32Type", "u8StorageType"}))
snmpNotifyTable_Write ==
  Saved("counted", {"au8Tag"}) @@
  Word(32, {"i32Type"}) @@
  Word(8, {"u8StorageType"}) @@
  AtCommit("u8RowStatus")

(* snmpNotifyFilterProfileTable *)
snmpNotifyFilterProfileTable_Index ==
  Rows(<<Octets("au8TargetParamsName")>>)
snmpNotifyFilterProfileTable_Read ==
  Counted("OCTET_STR", {"au8Name"}) @@
  Value("INTEGER", {"u8StorType", "u8RowStatus"})
snmpNotifyFilterProfileTable_Check ==
  CommitRows("u8RowStatus",
    Sized("OCTET_STR", {"au8Name"}) @@
    OfFirst("INTEGER", {"u8StorType"}))
snmpNotifyFilterProfileTable_Write ==
  Saved("counted", {"au8Name"}) @@
  Word(8, {"u8StorType"}) @@
  AtCommit("u8RowStatus")

(* snmpNotifyFilterTable *)
snmpNotifyFilterTable_Index ==
  Rows(<<Octets("au8ProfileName"), Oid("aoSubtree")>>)
snmpNotifyFilterTable_Read ==
  Counted("OCTET_STR", {"au8Mask"}) @@
  Value("INTEGER", {"i32Type", "u8StorageType", "u8RowStatus"})
snmpNotifyFilterTable_Check ==
  CommitRows("u8RowStatus",
    Sized("OCTET_STR", {"au8Mask"}) @@
    OfFirst("INTEGER", {"i32Type", "u8StorageType"}))
snmpNotifyFilterTable_Write ==
  Saved("counted", {"au8Mask"}) @@
  Word(32, {"i32Type"}) @@
  Word(8, {"u8StorageType"}) @@
  AtCommit("u8RowStatus")

(* usmUserTable *)
usmUserTable_Index ==
  Rows(<<Octets("au8EngineID"), Octets("au8Name")>>)
usmUserTable_Read ==
  Counted("OCTET_STR", {"au8SecurityName", "au8AuthKeyChange",
                        "au8OwnAuthKeyChange", "au8PrivKeyChange",
                        "au8OwnPrivKeyChange", "au8Public"}) @@
  Counted("OBJECT_ID", {"aoCloneFrom", "aoAuthProtocol", "aoPrivProtocol"}) @@
  Value("INTEGER", {"u8StorageType", "u8Status"})
usmUserTable_Check ==
  CommitRows("u8Status",
    Sized("OBJECT_ID", {"aoCloneFrom", "aoAuthProtocol", "aoPrivProtocol"}) @@
    Sized("OCTET_STR", {"au8AuthKeyChange", "au8OwnAuthKeyChange",
                        "au8PrivKeyChange", "au8OwnPrivKeyChange",
                        "au8Public"}) @@
    OfFirst("INTEGER", {"u8StorageType"}))
usmUserTable_Write ==
  Saved("counted", {"aoCloneFrom", "aoAuthProtocol", "au8AuthKeyChange",
                    "au8OwnAuthKeyChange", "aoPrivProtocol",
                    "au8PrivKeyChange", "au8OwnPrivKeyChange", "au8Public"}) @@
  Word(8, {"u8StorageType"}) @@
  AtCommit("u8Status")

(* vacmContextTable *)
vacmContextTable_Index ==
  Rows(<<Octets("au8Name")>>)
vacmContextTable_Read ==
  Counted("OCTET_STR", {"au8Name"})

(* vacmSecurityToGroupTable *)
vacmSecurityToGroupTable_Index ==
  Rows(<<Signed(32, "i32SecurityModel"), Octets("au8SecurityName")>>)
vacmSecurityToGroupTable_Read ==
  Counted("OCTET_STR", {"au8GroupName"}) @@
  Value("INTEGER", {"u8StorageType", "u8Status"})
vacmSecurityToGroupTable_Check ==
  CommitRows("u8Status",
    Sized("OCTET_STR", {"au8GroupName"}) @@
    OfFirst("INTEGER", {"u8StorageType"}))
vacmSecurityToGroupTable_Write ==
  Saved("counted", {"au8GroupName"}) @@
  Word(8, {"u8StorageType"}) @@
  AtCommit("u8Status")

(* vacmAccessTable *)
vacmAccessTable_Index ==
  Rows(
    <<Octets("au8GroupName"),
      Octets("au8ContextPrefix"),
      Signed(32, "i32SecurityModel"),
      Signed(32, "i32SecurityLevel")>>)
vacmAccessTable_Read ==
  Value("INTEGER", {"i32ContextMatch", "u8StorageType", "u8Status"}) @@
  Counted("OCTET_STR", {"au8ReadViewName", "au8WriteViewName",
                        "au8NotifyViewName"})
vacmAccessTable_Check ==
  CommitRows("u8Status",
    OfFirst("INTEGER", {"i32ContextMatch", "u8StorageType"}) @@
    Sized("OCTET_STR", {"au8ReadViewName", "au8WriteViewName",
                        "au8NotifyViewName"}))
vacmAccessTable_Write ==
  Word(32, {"i32ContextMatch"}) @@
  Saved("counted", {"au8ReadViewName", "au8WriteViewName",
                    "au8NotifyViewName"}) @@
  Word(8, {"u8StorageType"}) @@
  AtCommit("u8Status")

(* vacmViewTreeFamilyTable *)
vacmViewTreeFamilyTable_Index ==
  Rows(<<Octets("au8ViewName"), Oid("aoSubtree")>>)
vacmViewTreeFamilyTable_Read ==
  Counted("OCTET_STR", {"au8Mask"}) @@
  Value("INTEGER", {"i32Type", "u8StorageType", "u8Status"})
vacmViewTreeFamilyTable_Check ==
  CommitRows("u8Status",
    Sized("OCTET_STR", {"au8Mask"}) @@
    OfFirst("INTEGER", {"i32Type", "u8StorageType"}))
vacmViewTreeFamilyTable_Write ==
  Saved("counted", {"au8Mask"}) @@
  Word(32, {"i32Type"}) @@
  Word(8, {"u8StorageType"}) @@
  AtCommit("u8Status")

(* snmpCommunityTable *)
snmpCommunityTable_Index ==
  Rows(<<Octets("au8Index")>>)
snmpCommunityTable_Read ==
  Counted("OCTET_STR", {"au8Name", "au8SecurityName", "au8ContextEngineID",
                        "au8ContextName", "au8TransportTag"}) @@
  Value("INTEGER", {"u8StorageType", "u8Status"})
snmpCommunityTable_Check ==
  CommitRows("u8Status",
    Sized("OCTET_STR", {"au8Name", "au8SecurityName", "au8ContextEngineID",
                        "au8ContextName", "au8TransportTag"}) @@
    OfFirst("INTEGER", {"u8StorageType"}))
snmpCommunityTable_Write ==
  Saved("counted", {"au8Name", "au8SecurityName", "au8ContextEngineID",
                    "au8ContextName", "au8TransportTag"}) @@
  Word(8, {"u8StorageType"}) @@
  AtCommit("u8Status")

(* snmpTargetAddrExtTable *)
snmpTargetAddrExtTable_Index ==
  Rows(<<Octets("au8Name")>>)
snmpTargetAddrExtTable_Read ==
  Counted("OCTET_STR", {"au8TMask"}) @@
  Value("INTEGER", {"i32MMS"})
snmpTargetAddrExtTable_Check ==
  ColumnRows(
    Sized("OCTET_STR", {"au8TMask"}) @@
    OfFirst("INTEGER", {"i32MMS"}))
snmpTargetAddrExtTable_Write ==
  Saved("counted", {"au8TMask"}) @@
  Word(32, {"i32MMS"})

snmpMIB_tables ==
  [snmpSet |-> Table(NoIndex, snmpSet_Read, snmpSet_Check, snmpSet_Write),
   snmpTargetObjects |->
     Table(NoIndex, snmpTargetObjects_Read,
           snmpTargetObjects_Check, snmpTargetObjects_Write),
   usmStats |-> ReadOnly(NoIndex, usmStats_Read),
   usmUser |-> Table(NoIndex, usmUser_Read, usmUser_Check, usmUser_Write),
   vacmMIBViews |->
     Table(NoIndex, vacmMIBViews_Read,
           vacmMIBViews_Check, vacmMIBViews_Write),
   snmpTargetAddrTable |->
     Table(snmpTargetAddrTable_Index, snmpTargetAddrTable_Read,
           snmpTargetAddrTable_Check, snmpTargetAddrTable_Write),
   snmpTargetParamsTable |->
     Table(snmpTargetParamsTable_Index, snmpTargetParamsTable_Read,
           snmpTargetParamsTable_Check, snmpTargetParamsTable_Write),
   snmpNotifyTable |->
     Table(snmpNotifyTable_Index, snmpNotifyTable_Read,
           snmpNotifyTable_Check, snmpNotifyTable_Write),
   snmpNotifyFilterProfileTable |->
     Table(snmpNotifyFilterProfileTable_Index, snmpNotifyFilterProfileTable_Read,
           snmpNotifyFilterProfileTable_Check, snmpNotifyFilterProfileTable_Write),
   snmpNotifyFilterTable |->
     Table(snmpNotifyFilterTable_Index, snmpNotifyFilterTable_Read,
           snmpNotifyFilterTable_Check, snmpNotifyFilterTable_Write),
   usmUserTable |->
     Table(usmUserTable_Index, usmUserTable_Read,
           usmUserTable_Check, usmUserTable_Write),
   vacmContextTable |-> ReadOnly(vacmContextTable_Index, vacmContextTable_Read),
   vacmSecurityToGroupTable |->
     Table(vacmSecurityToGroupTable_Index, vacmSecurityToGroupTable_Read,
           vacmSecurityToGroupTable_Check, vacmSecurityToGroupTable_Write),
   vacmAccessTable |->
     Table(vacmAccessTable_Index, vacmAccessTable_Read,
           vacmAccessTable_Check, vacmAccessTable_Write),
   vacmViewTreeFamilyTable |->
     Table(vacmViewTreeFamilyTable_Index, vacmViewTreeFamilyTable_Read,
           vacmViewTreeFamilyTable_Check, vacmViewTreeFamilyTable_Write),
   snmpCommunityTable |->
     Table(snmpCommunityTable_Index, snmpCommunityTable_Read,
           snmpCommunityTable_Check, snmpCommunityTable_Write),
   snmpTargetAddrExtTable |->
     Table(snmpTargetAddrExtTable_Index, snmpTargetAddrExtTable_Read,
           snmpTargetAddrExtTable_Check, snmpTargetAddrExtTable_Write)]

=============================================================================
