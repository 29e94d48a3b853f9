------------------------------ MODULE InetTables ------------------------------
(***************************************************************************)
(* The tables of addresses, neighbours, routes and transport (inet/,       *)
(* tcpUdp/).                                                               *)
(***************************************************************************)
EXTENDS Tables

-----------------------------------------------------------------------------
(* inet/clnsMIB.c                                                          *)

(* clnp *)
clnp_Read ==
  Value("INTEGER", {"i32Forwarding", "i32DefaultLifeTime", "i32ReasmTimeout"}) @@
  Value("COUNTER", {"u32InReceives", "u32InHdrErrors", "u32InAddrErrors",
                    "u32ForwPDUs", "u32InUnknownNLPs", "u32InUnknownULPs",
                    "u32InDiscards", "u32InDelivers", "u32OutRequests",
                    "u32OutDiscards", "u32OutNoRoutes", "u32ReasmReqds",
                    "u32ReasmOKs", "u32ReasmFails", "u32SegOKs", "u32SegFails",
                    "u32SegCreates", "u32InOpts", "u32OutOpts",
                    "u32RoutingDiscards"})
clnp_Check ==
  Scalars(
    OfFirst("INTEGER", {"i32Forwarding", "i32DefaultLifeTime"}))
clnp_Write ==
  InPlace(32, {"i32Forwarding", "i32DefaultLifeTime"})

(* error *)
error_Read ==
  Value("COUNTER", {"u32ClnpInErrors", "u32ClnpOutErrors",
                    "u32ClnpInErrUnspecs", "u32ClnpInErrProcs",
                    "u32ClnpInErrCksums", "u32ClnpInErrCongests",
                    "u32ClnpInErrHdrs", "u32ClnpInErrSegs",
                    "u32ClnpInErrIncomps", "u32ClnpInErrDups",
                    "u32ClnpInErrUnreachDsts", "u32ClnpInErrUnknownDsts",
                    "u32ClnpInErrSRUnspecs", "u32ClnpInErrSRSyntaxes",
                    "u32ClnpInErrSRUnkAddrs", "u32ClnpInErrSRBadPaths",
                    "u32ClnpInErrHops", "u32ClnpInErrHopReassms",
                    "u32ClnpInErrUnsOptions", "u32ClnpInErrUnsVersions",
                    "u32ClnpInErrUnsSecurities", "u32ClnpInErrUnsSRs",
                    "u32ClnpInErrUnsRRs", "u32ClnpInErrInterferences",
                    "u32ClnpOutErrUnspecs", "u32ClnpOutErrProcs",
                    "u32ClnpOutErrCksums", "u32ClnpOutErrCongests",
                    "u32ClnpOutErrHdrs", "u32ClnpOutErrSegs",
                    "u32ClnpOutErrIncomps", "u32ClnpOutErrDups",
                    "u32ClnpOutErrUnreachDsts", "u32ClnpOutErrUnknownDsts",
                    "u32ClnpOutErrSRUnspecs", "u32ClnpOutErrSRSyntaxes",
                    "u32ClnpOutErrSRUnkAddrs", "u32ClnpOutErrSRBadPaths",
                    "u32ClnpOutErrHops", "u32ClnpOutErrHopReassms",
                    "u32ClnpOutErrUnsOptions", "u32ClnpOutErrUnsVersions",
                    "u32ClnpOutErrUnsSecurities", "u32ClnpOutErrUnsSRs",
                    "u32ClnpOutErrUnsRRs", "u32ClnpOutErrInterferences"})

(* esis *)
esis_Read ==
  Value("COUNTER", {"u32ESHins", "u32ESHouts", "u32ISHins", "u32ISHouts",
                    "u32RDUins", "u32RDUouts"})

(* clnpAddrTable *)
clnpAddrTable_Index ==
  Rows(<<Octets("au8EntAddr")>>)
clnpAddrTable_Read ==
  Counted("OCTET_STR", {"au8EntAddr"}) @@
  Value("INTEGER", {"i32EntIfIndex", "i32EntReasmMaxSize"})

(* clnpRoutingTable *)
clnpRoutingTable_Index ==
  Rows(<<Octets("au8RouteDest")>>)
clnpRoutingTable_Read ==
  Counted("OCTET_STR", {"au8RouteDest", "au8RouteNextHop"}) @@
  Value("INTEGER", {"i32RouteIfIndex", "i32RouteMetric1", "i32RouteMetric2",
                    "i32RouteMetric3", "i32RouteMetric4", "i32RouteType",
                    "i32RouteProto", "i32RouteAge", "i32RouteMetric5"}) @@
  Counted("OBJECT_ID", {"aoRouteInfo"})
clnpRoutingTable_Check ==
  FixedRows(
    Sized("OCTET_STR", {"au8RouteDest", "au8RouteNextHop"}) @@
    OfFirst("INTEGER", {"i32RouteIfIndex", "i32RouteMetric1",
                        "i32RouteMetric2", "i32RouteMetric3",
                        "i32RouteMetric4", "i32RouteType", "i32RouteAge",
                        "i32RouteMetric5"}))
clnpRoutingTable_Write ==
  Saved("counted", {"au8RouteDest", "au8RouteNextHop"}) @@
  Word(32, {"i32RouteIfIndex", "i32RouteMetric1", "i32RouteMetric2",
            "i32RouteMetric3", "i32RouteMetric4", "i32RouteType",
            "i32RouteAge", "i32RouteMetric5"})

(* clnpNetToMediaTable *)
clnpNetToMediaTable_Index ==
  Rows(<<Signed(32, "i32IfIndex"), Octets("au8NetAddress")>>)
clnpNetToMediaTable_Read ==
  Value("INTEGER", {"i32IfIndex", "i32Type", "i32Age", "i32HoldTime"}) @@
  Counted("OCTET_STR", {"au8PhysAddress", "au8NetAddress"})
clnpNetToMediaTable_Check ==
  FixedRows(
    OfFirst("INTEGER", {"i32IfIndex", "i32Type", "i32Age", "i32HoldTime"}) @@
    Sized("OCTET_STR", {"au8PhysAddress", "au8NetAddress"}))
clnpNetToMediaTable_Write ==
  Word(32, {"i32IfIndex", "i32Type", "i32Age", "i32HoldTime"}) @@
  Saved("counted", {"au8PhysAddress", "au8NetAddress"})

(* clnpMediaToNetTable *)
clnpMediaToNetTable_Index ==
  Rows(<<Signed(32, "i32IfIndex"), Octets("au8PhysAddress")>>)
clnpMediaToNetTable_Read ==
  Value("INTEGER", {"i32IfIndex", "i32Type", "i32Age", "i32HoldTime"}) @@
  Counted("OCTET_STR", {"au8Address", "au8PhysAddress"})
clnpMediaToNetTable_Check ==
  FixedRows(
    OfFirst("INTEGER", {"i32IfIndex", "i32Type", "i32Age", "i32HoldTime"}) @@
    Sized("OCTET_STR", {"au8Address", "au8PhysAddress"}))
clnpMediaToNetTable_Write ==
  Word(32, {"i32IfIndex", "i32Type", "i32Age", "i32HoldTime"}) @@
  Saved("counted", {"au8Address", "au8PhysAddress"})

clnsMIB_tables ==
  [clnp |-> Table(NoIndex, clnp_Read, clnp_Check, clnp_Write),
   error |-> ReadOnly(NoIndex, error_Read),
   esis |-> ReadOnly(NoIndex, esis_Read),
   clnpAddrTable |-> ReadOnly(clnpAddrTable_Index, clnpAddrTable_Read),
   clnpRoutingTable |->
     Table(clnpRoutingTable_Index, clnpRoutingTable_Read,
           clnpRoutingTable_Check, clnpRoutingTable_Write),
   clnpNetToMediaTable |->
     Table(clnpNetToMediaTable_Index, clnpNetToMediaTable_Read,
           clnpNetToMediaTable_Check, clnpNetToMediaTable_Write),
   clnpMediaToNetTable |->
     Table(clnpMediaToNetTable_Index, clnpMediaToNetTable_Read,
           clnpMediaToNetTable_Check, clnpMediaToNetTable_Write)]

-----------------------------------------------------------------------------
(* inet/icmpMIB.c                                                          *)

(* icmpStatsTable *)
icmpStatsTable_Index ==
  Rows(<<Signed(32, "i32IPVersion")>>)
icmpStatsTable_Read ==
  Value("COUNTER", {"u32InMsgs", "u32InErrors", "u32OutMsgs", "u32OutErrors"})

(* icmpMsgStatsTable *)
icmpMsgStatsTable_Index ==
  Rows(<<Signed(32, "i32IPVersion"), Signed(32, "i32Type")>>)
icmpMsgStatsTable_Read ==
  Value("COUNTER", {"u32InPkts", "u32OutPkts"})

icmpMIB_tables ==
  [icmpStatsTable |-> ReadOnly(icmpStatsTable_Index, icmpStatsTable_Read),
   icmpMsgStatsTable |-> ReadOnly(icmpMsgStatsTable_Index, icmpMsgStatsTable_Read)]

-----------------------------------------------------------------------------
(* inet/ipForward.c                                                        *)

(* ipForward *)
ipForward_Read ==
  Value("GAUGE", {"u32InetCidrRouteNumber"}) @@
  Value("COUNTER", {"u32InetCidrRouteDiscards"})

(* inetCidrRouteTable *)
inetCidrRouteTable_Index ==
  Rows(
    <<Signed(32, "i32DestType"),
      Octets("au8Dest"),
      Unsigned(32, "u32PfxLen"),
      Oid("aoPolicy"),
      Signed(32, "i32NextHopType"),
      Octets("au8NextHop")>>)
inetCidrRouteTable_Read ==
  Value("INTEGER", {"u32IfIndex", "i32Type", "i32Proto", "i32Metric1",
                    "i32Metric2", "i32Metric3", "i32Metric4", "i32Metric5",
                    "u8Status"}) @@
  Value("GAUGE", {"u32Age"}) @@
  Value("UNSIGNED", {"u32NextHopAS"})
inetCidrRouteTable_Check ==
  CommitRows("u8Status",
    OfFirst("INTEGER", {"u32IfIndex", "i32Type", "i32Metric1", "i32Metric2",
                        "i32Metric3", "i32Metric4", "i32Metric5"}) @@
    OfFirst("UNSIGNED", {"u32NextHopAS"}))
inetCidrRouteTable_Write ==
  Word(32, {"u32IfIndex", "i32Type", "u32NextHopAS", "i32Metric1",
            "i32Metric2", "i32Metric3", "i32Metric4", "i32Metric5"}) @@
  AtCommit("u8Status")

ipForward_tables ==
  [ipForward |-> ReadOnly(NoIndex, ipForward_Read),
   inetCidrRouteTable |->
     Table(inetCidrRouteTable_Index, inetCidrRouteTable_Read,
           inetCidrRouteTable_Check, inetCidrRouteTable_Write)]

-----------------------------------------------------------------------------
(* inet/ipMIB.c                                                            *)

(* ip *)
ip_Read ==
  Value("INTEGER", {"i32Forwarding", "i32DefaultTTL", "i32ReasmTimeout",
                    "i32Ipv6IpForwarding", "i32Ipv6IpDefaultHopLimit",
                    "i32AddressSpinLock", "i32Ipv6RouterAdvertSpinLock"}) @@
  Value("TIMETICKS", {"u32Ipv4InterfaceTableLastChange",
                      "u32Ipv6InterfaceTableLastChange"})
ip_Check ==
  Scalars(
    OfFirst("INTEGER", {"i32Forwarding", "i32DefaultTTL",
                        "i32Ipv6IpForwarding", "i32Ipv6IpDefaultHopLimit",
                        "i32AddressSpinLock", "i32Ipv6RouterAdvertSpinLock"}))
ip_Write ==
  InPlace(32, {"i32Forwarding", "i32DefaultTTL", "i32Ipv6IpForwarding",
               "i32Ipv6IpDefaultHopLimit", "i32AddressSpinLock",
               "i32Ipv6RouterAdvertSpinLock"})

(* ipTrafficStats *)
ipTrafficStats_Read ==
  Value("TIMETICKS", {"u32IfStatsTableLastChange"})

(* ipv4InterfaceTable *)
ipv4InterfaceTable_Index ==
  Rows(<<Signed(32, "u32IfIndex")>>)
ipv4InterfaceTable_Read ==
  Value("INTEGER", {"i32ReasmMaxSize", "i32EnableStatus"}) @@
  Value("UNSIGNED", {"u32RetransmitTime"})
ipv4InterfaceTable_Check ==
  FixedRows(
    OfFirst("INTEGER", {"i32EnableStatus"}))
ipv4InterfaceTable_Write ==
  Word(32, {"i32EnableStatus"})

(* ipv6InterfaceTable *)
ipv6InterfaceTable_Index ==
  Rows(<<Signed(32, "u32IfIndex")>>)
ipv6InterfaceTable_Read ==
  Value("UNSIGNED", {"u32ReasmMaxSize", "u32ReachableTime",
                     "u32RetransmitTime"}) @@
  Counted("OCTET_STR", {"au8Identifier"}) @@
  Value("INTEGER", {"i32EnableStatus", "i32Forwarding"})
ipv6InterfaceTable_Check ==
  FixedRows(
    OfFirst("INTEGER", {"i32EnableStatus", "i32Forwarding"}))
ipv6InterfaceTable_Write ==
  Word(32, {"i32EnableStatus", "i32Forwarding"})

(* ipSystemStatsTable *)
ipSystemStatsTable_Index ==
  Rows(<<Signed(32, "i32IPVersion")>>)
ipSystemStatsTable_Read ==
  Value("COUNTER", {"u32InReceives", "u32InOctets", "u32InHdrErrors",
                    "u32InNoRoutes", "u32InAddrErrors", "u32InUnknownProtos",
                    "u32InTruncatedPkts", "u32InForwDatagrams",
                    "u32ReasmReqds", "u32ReasmOKs", "u32ReasmFails",
                    "u32InDiscards", "u32InDelivers", "u32OutRequests",
                    "u32OutNoRoutes", "u32OutForwDatagrams", "u32OutDiscards",
                    "u32OutFragReqds", "u32OutFragOKs", "u32OutFragFails",
                    "u32OutFragCreates", "u32OutTransmits", "u32OutOctets",
                    "u32InMcastPkts", "u32InMcastOctets", "u32OutMcastPkts",
                    "u32OutMcastOctets", "u32InBcastPkts", "u32OutBcastPkts"}) @@
  Value("COUNTER64", {"u64HCInReceives", "u64HCInOctets",
                      "u64HCInForwDatagrams", "u64HCInDelivers",
                      "u64HCOutRequests", "u64HCOutForwDatagrams",
                      "u64HCOutTransmits", "u64HCOutOctets",
                      "u64HCInMcastPkts", "u64HCInMcastOctets",
                      "u64HCOutMcastPkts", "u64HCOutMcastOctets",
                      "u64HCInBcastPkts", "u64HCOutBcastPkts"}) @@
  Value("TIMETICKS", {"u32DiscontinuityTime"}) @@
  Value("UNSIGNED", {"u32RefreshRate"})

(* ipIfStatsTable *)
ipIfStatsTable_Index ==
  Rows(<<Signed(32, "i32IPVersion"), Signed(32, "u32IfIndex")>>)
ipIfStatsTable_Read ==
  Value("COUNTER", {"u32InReceives", "u32InOctets", "u32InHdrErrors",
                    "u32InNoRoutes", "u32InAddrErrors", "u32InUnknownProtos",
                    "u32InTruncatedPkts", "u32InForwDatagrams",
                    "u32ReasmReqds", "u32ReasmOKs", "u32ReasmFails",
                    "u32InDiscards", "u32InDelivers", "u32OutRequests",
                    "u32OutForwDatagrams", "u32OutDiscards", "u32OutFragReqds",
                    "u32OutFragOKs", "u32OutFragFails", "u32OutFragCreates",
                    "u32OutTransmits", "u32OutOctets", "u32InMcastPkts",
                    "u32InMcastOctets", "u32OutMcastPkts", "u32OutMcastOctets",
                    "u32InBcastPkts", "u32OutBcastPkts"}) @@
  Value("COUNTER64", {"u64HCInReceives", "u64HCInOctets",
                      "u64HCInForwDatagrams", "u64HCInDelivers",
                      "u64HCOutRequests", "u64HCOutForwDatagrams",
                      "u64HCOutTransmits", "u64HCOutOctets",
                      "u64HCInMcastPkts", "u64HCInMcastOctets",
                      "u64HCOutMcastPkts", "u64HCOutMcastOctets",
                      "u64HCInBcastPkts", "u64HCOutBcastPkts"}) @@
  Value("TIMETICKS", {"u32DiscontinuityTime"}) @@
  Value("UNSIGNED", {"u32RefreshRate"})

(* ipAddressPrefixTable *)
ipAddressPrefixTable_Index ==
  Rows(
    <<Signed(32, "u32IfIndex"),
      Signed(32, "i32Type"),
      Octets("au8Prefix"),
      Unsigned(32, "u32Length")>>)
ipAddressPrefixTable_Read ==
  Value("INTEGER", {"i32Origin", "u8OnLinkFlag", "u8AutonomousFlag"}) @@
  Value("UNSIGNED", {"u32AdvPreferredLifetime", "u32AdvValidLifetime"})

(* ipAddressTable *)
ipAddressTable_Index ==
  RowsOf("ipAddressData", <<Signed(32, "i32AddrType"), Octets("au8Addr")>>)
ipAddressTable_Read ==
  Value("INTEGER", {"u32IfIndex", "i32Type", "i32Origin", "i32Status",
                    "u8RowStatus", "u8StorageType"}) @@
  Counted("OBJECT_ID", {"aoPrefix"}) @@
  Value("TIMETICKS", {"u32Created", "u32LastChanged"})
ipAddressTable_Check ==
  [HandlerRows("u8RowStatus",
    OfFirst("INTEGER", {"u32IfIndex", "i32Type", "i32Status", "u8StorageType"})) EXCEPT
    !.creates = {"createAndWait"},
    !.frozen = {"u32IfIndex", "i32Type", "i32Status", "u8StorageType"},
    !.tested = FALSE]
ipAddressTable_Write ==
  Word(32, {"u32IfIndex", "i32Type", "i32Status"}) @@
  Word(8, {"u8StorageType"}) @@
  AtAction("u8RowStatus", "removeExt")

(* ipNetToPhysicalTable *)
ipNetToPhysicalTable_Index ==
  Rows(
    <<Signed(32, "u32IfIndex"),
      Signed(32, "i32NetAddressType"),
      Octets("au8NetAddress")>>)
ipNetToPhysicalTable_Read ==
  Counted("OCTET_STR", {"au8PhysAddress"}) @@
  Value("TIMETICKS", {"u32LastUpdated"}) @@
  Value("INTEGER", {"i32Type", "i32State", "u8RowStatus"})
ipNetToPhysicalTable_Check ==
  CommitRows("u8RowStatus",
    Sized("OCTET_STR", {"au8PhysAddress"}) @@
    OfFirst("INTEGER", {"i32Type"}))
ipNetToPhysicalTable_Write ==
  Saved("counted", {"au8PhysAddress"}) @@
  Word(32, {"i32Type"}) @@
  AtCommit("u8RowStatus")

(* ipv6ScopeZoneIndexTable *)
ipv6ScopeZoneIndexTable_Index ==
  Rows(<<Signed(32, "u32IfIndex")>>)
ipv6ScopeZoneIndexTable_Read ==
  Value("UNSIGNED", {"u32LinkLocal", "u32Index3", "u32AdminLocal",
                     "u32SiteLocal", "u32Index6", "u32Index7",
                     "u32OrganizationLocal", "u32Index9", "u32IndexA",
                     "u32IndexB", "u32IndexC", "u32IndexD"})

(* ipDefaultRouterTable *)
ipDefaultRouterTable_Index ==
  Rows(
    <<Signed(32, "i32AddressType"),
      Octets("au8Address"),
      Signed(32, "u32IfIndex")>>)
ipDefaultRouterTable_Read ==
  Value("UNSIGNED", {"u32Lifetime"}) @@
  Value("INTEGER", {"i32Preference"})

(* ipv6RouterAdvertTable *)
ipv6RouterAdvertTable_Index ==
  Rows(<<Signed(32, "u32IfIndex")>>)
ipv6RouterAdvertTable_Read ==
  Value("INTEGER", {"u8SendAdverts", "u8ManagedFlag", "u8OtherConfigFlag",
                    "u8RowStatus"}) @@
  Value("UNSIGNED", {"u32MaxInterval", "u32MinInterval", "u32LinkMTU",
                     "u32ReachableTime", "u32RetransmitTime", "u32CurHopLimit",
                     "u32DefaultLifetime"})
ipv6RouterAdvertTable_Check ==
  CommitRows("u8RowStatus",
    OfFirst("INTEGER", {"u8SendAdverts", "u8ManagedFlag", "u8OtherConfigFlag"}) @@
    OfFirst("UNSIGNED", {"u32MaxInterval", "u32MinInterval", "u32LinkMTU",
                         "u32ReachableTime", "u32RetransmitTime",
                         "u32CurHopLimit", "u32DefaultLifetime"}))
ipv6RouterAdvertTable_Write ==
  Word(8, {"u8SendAdverts", "u8ManagedFlag", "u8OtherConfigFlag"}) @@
  Word(32, {"u32MaxInterval", "u32MinInterval", "u32LinkMTU",
            "u32ReachableTime", "u32RetransmitTime", "u32CurHopLimit",
            "u32DefaultLifetime"}) @@
  AtCommit("u8RowStatus")

ipMIB_tables ==
  [ip |-> Table(NoIndex, ip_Read, ip_Check, ip_Write),
   ipTrafficStats |-> ReadOnly(NoIndex, ipTrafficStats_Read),
   ipv4InterfaceTable |->
     Table(ipv4InterfaceTable_Index, ipv4InterfaceTable_Read,
           ipv4InterfaceTable_Check, ipv4InterfaceTable_Write),
   ipv6InterfaceTable |->
     Table(ipv6InterfaceTable_Index, ipv6InterfaceTable_Read,
           ipv6InterfaceTable_Check, ipv6InterfaceTable_Write),
   ipSystemStatsTable |-> ReadOnly(ipSystemStatsTable_Index, ipSystemStatsTable_Read),
   ipIfStatsTable |-> ReadOnly(ipIfStatsTable_Index, ipIfStatsTable_Read),
   ipAddressPrefixTable |-> ReadOnly(ipAddressPrefixTable_Index, ipAddressPrefixTable_Read),
   ipAddressTable |->
     Table(ipAddressTable_Index, ipAddressTable_Read,
           ipAddressTable_Check, ipAddressTable_Write),
   ipNetToPhysicalTable |->
     Table(ipNetToPhysicalTable_Index, ipNetToPhysicalTable_Read,
           ipNetToPhysicalTable_Check, ipNetToPhysicalTable_Write),
   ipv6ScopeZoneIndexTable |-> ReadOnly(ipv6ScopeZoneIndexTable_Index, ipv6ScopeZoneIndexTable_Read),
   ipDefaultRouterTable |-> ReadOnly(ipDefaultRouterTable_Index, ipDefaultRouterTable_Read),
   ipv6RouterAdvertTable |->
     Table(ipv6RouterAdvertTable_Index, ipv6RouterAdvertTable_Read,
           ipv6RouterAdvertTable_Check, ipv6RouterAdvertTable_Write)]

-----------------------------------------------------------------------------
(* inet/neInetMIB.c                                                        *)

(* neInetScalars *)
neInetScalars_Read ==
  Counted("OCTET_STR", {"au8ForwardingEnable"})
neInetScalars_Check ==
  Scalars(
    OfFirst("OCTET_STR", {"au8ForwardingEnable"}))
neInetScalars_Write ==
  InPlace(0, {"au8ForwardingEnable"})

(* neIpScalars *)
neIpScalars_Read ==
  Value("UNSIGNED", {"u32Asn", "u32RouterId"})
neIpScalars_Check ==
  Scalars(
    OfFirst("UNSIGNED", {"u32Asn", "u32RouterId"}))
neIpScalars_Write ==
  InPlace(32, {"u32Asn", "u32RouterId"})

(* neInetIfTable *)
neInetIfTable_Index ==
  Rows(<<Signed(32, "u32IfIndex")>>)
neInetIfTable_Read ==
  Value("INTEGER", {"i32TrafficEnable"}) @@
  Counted("OCTET_STR", {"au8ForwardingEnable"})
neInetIfTable_Check ==
  [FixedRows(
    OfFirst("INTEGER", {"i32TrafficEnable"}) @@
    Sized("OCTET_STR", {"au8ForwardingEnable"})) EXCEPT
    !.missing = "return"]
neInetIfTable_Write ==
  Word(32, {"i32TrafficEnable"}) @@
  Saved("counted", {"au8ForwardingEnable"})

(* neInetIntRouteTable *)
neInetIntRouteTable_Index ==
  Rows(
    <<Octets("au8Dest"),
      Unsigned(32, "u32DestPrefixLen"),
      Unsigned(32, "u32Index"),
      Octets("au8NextHop"),
      Signed(32, "u32IfIndex"),
      Signed(32, "i32Proto")>>)
neInetIntRouteTable_Read ==
  Counted("OBJECT_ID", {"aoPolicy"}) @@
  Counted("OCTET_STR", {"au8State"})

(* neInetRouteTable *)
neInetRouteTable_Index ==
  Rows(
    <<Octets("au8Dest"),
      Unsigned(32, "u32DestPrefixLen"),
      Unsigned(32, "u32Index"),
      Octets("au8NextHop"),
      Signed(32, "u32IfIndex")>>)
neInetRouteTable_Read ==
  Counted("OBJECT_ID", {"aoPolicy"}) @@
  Counted("OCTET_STR", {"au8State"})

(* neIpAddressTable *)
neIpAddressTable_Index ==
  RowsOf("ipAddressData", <<Signed(32, "i32AddrType"), Octets("au8Addr")>>)
neIpAddressTable_Read ==
  Value("UNSIGNED", {"u32PrefixLength"})
neIpAddressTable_Check ==
  [FixedRows(
    OfFirst("UNSIGNED", {"u32PrefixLength"})) EXCEPT
    !.frozen = {"u32PrefixLength"},
    !.missing = "return"]
neIpAddressTable_Write ==
  Word(32, {"u32PrefixLength"})

(* neIpUnNumTable *)
neIpUnNumTable_Index ==
  Rows(<<Signed(32, "u32IfIndex")>>)
neIpUnNumTable_Read ==
  Value("INTEGER", {"i32AddressType", "u32NumberedIfIndex", "u32LocalId",
                    "u32RemoteId", "u8RowStatus", "u8StorageType"}) @@
  Counted("OCTET_STR", {"au8LocalAddress", "au8RemoteAddress",
                        "au8DestPhysAddress"})
neIpUnNumTable_Check ==
  [HandlerRows("u8RowStatus",
    OfFirst("INTEGER", {"i32AddressType", "u32LocalId", "u32RemoteId",
                        "u8StorageType"}) @@
    Sized("OCTET_STR", {"au8LocalAddress", "au8RemoteAddress",
                        "au8DestPhysAddress"})) EXCEPT
    !.creates = {"createAndWait"},
    !.frozen = {"i32AddressType", "au8LocalAddress", "au8RemoteAddress",
                "u32LocalId", "u32RemoteId", "au8DestPhysAddress",
                "u8StorageType"},
    !.tested = FALSE]
neIpUnNumTable_Write ==
  Word(32, {"i32AddressType", "u32LocalId", "u32RemoteId"}) @@
  Saved("counted", {"au8LocalAddress", "au8RemoteAddress",
                    "au8DestPhysAddress"}) @@
  Word(8, {"u8StorageType"}) @@
  AtAction("u8RowStatus", "removeExt")

(* neIpAsNodeTable *)
neIpAsNodeTable_Index ==
  Rows(
    <<Unsigned(32, "u32Asn"),
      Signed(32, "i32AddrType"),
      Octets("au8Addr"),
      Unsigned(32, "u32AddrPrefixLen")>>)
neIpAsNodeTable_Read ==
  Value("UNSIGNED", {"u32RouterId"}) @@
  Counted("OCTET_STR", {"au8Info"}) @@
  Value("INTEGER", {"u8RowStatus", "u8StorageType"})
neIpAsNodeTable_Check ==
  CommitRows("u8RowStatus",
    OfFirst("INTEGER", {"u8StorageType"}))
neIpAsNodeTable_Write ==
  Word(8, {"u8StorageType"}) @@
  AtCommit("u8RowStatus")

neInetMIB_tables ==
  [neInetScalars |->
     Table(NoIndex, neInetScalars_Read,
           neInetScalars_Check, neInetScalars_Write),
   neIpScalars |->
     Table(NoIndex, neIpScalars_Read,
           neIpScalars_Check, neIpScalars_Write),
   neInetIfTable |->
     Table(neInetIfTable_Index, neInetIfTable_Read,
           neInetIfTable_Check, neInetIfTable_Write),
   neInetIntRouteTable |-> ReadOnly(neInetIntRouteTable_Index, neInetIntRouteTable_Read),
   neInetRouteTable |-> ReadOnly(neInetRouteTable_Index, neInetRouteTable_Read),
   neIpAddressTable |->
     Table(neIpAddressTable_Index, neIpAddressTable_Read,
           neIpAddressTable_Check, neIpAddressTable_Write),
   neIpUnNumTable |->
     Table(neIpUnNumTable_Index, neIpUnNumTable_Read,
           neIpUnNumTable_Check, neIpUnNumTable_Write),
   neIpAsNodeTable |->
     Table(neIpAsNodeTable_Index, neIpAsNodeTable_Read,
           neIpAsNodeTable_Check, neIpAsNodeTable_Write)]

-----------------------------------------------------------------------------
(* tcpUdp/tcpMIB.c                                                         *)

(* tcp *)
tcp_Read ==
  Value("INTEGER", {"i32RtoAlgorithm", "i32RtoMin", "i32RtoMax", "i32MaxConn"}) @@
  Value("COUNTER", {"u32ActiveOpens", "u32PassiveOpens", "u32AttemptFails",
                    "u32EstabResets", "u32InSegs", "u32OutSegs",
                    "u32RetransSegs", "u32InErrs", "u32OutRsts"}) @@
  Value("GAUGE", {"u32CurrEstab"}) @@
  Value("COUNTER64", {"u64HCInSegs", "u64HCOutSegs"})

(* tcpConnectionTable *)
tcpConnectionTable_Index ==
  Rows(
    <<Signed(32, "i32LocalAddressType"),
      Octets("au8LocalAddress"),
      Unsigned(32, "u32LocalPort"),
      Signed(32, "i32RemAddressType"),
      Octets("au8RemAddress"),
      Unsigned(32, "u32RemPort")>>)
tcpConnectionTable_Read ==
  Value("INTEGER", {"i32State"}) @@
  Value("UNSIGNED", {"u32Process"})
tcpConnectionTable_Check ==
  FixedRows(
    OfFirst("INTEGER", {"i32State"}))
tcpConnectionTable_Write ==
  Word(32, {"i32State"})

(* tcpListenerTable *)
tcpListenerTable_Index ==
  Rows(
    <<Signed(32, "i32LocalAddressType"),
      Octets("au8LocalAddress"),
      Unsigned(32, "u32LocalPort")>>)
tcpListenerTable_Read ==
  Value("UNSIGNED", {"u32Process"})

tcpMIB_tables ==
  [tcp |-> ReadOnly(NoIndex, tcp_Read),
   tcpConnectionTable |->
     Table(tcpConnectionTable_Index, tcpConnectionTable_Read,
           tcpConnectionTable_Check, tcpConnectionTable_Write),
   tcpListenerTable |-> ReadOnly(tcpListenerTable_Index, tcpListenerTable_Read)]

-----------------------------------------------------------------------------
(* tcpUdp/udpMIB.c                                                         *)

(* udp *)
udp_Read ==
  Value("COUNTER", {"u32InDatagrams", "u32NoPorts", "u32InErrors",
                    "u32OutDatagrams"}) @@
  Value("COUNTER64", {"u64HCInDatagrams", "u64HCOutDatagrams"})

(* udpEndpointTable *)
udpEndpointTable_Index ==
  Rows(
    <<Signed(32, "i32LocalAddressType"),
      Octets("au8LocalAddress"),
      Unsigned(32, "u32LocalPort"),
      Signed(32, "i32RemoteAddressType"),
      Octets("au8RemoteAddress"),
      Unsigned(32, "u32RemotePort"),
      Unsigned(32, "u32Instance")>>)
udpEndpointTable_Read ==
  Value("UNSIGNED", {"u32Process"})

udpMIB_tables ==
  [udp |-> ReadOnly(NoIndex, udp_Read),
   udpEndpointTable |-> ReadOnly(udpEndpointTable_Index, udpEndpointTable_Read)]

=============================================================================
