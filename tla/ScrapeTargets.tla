---------------------------- MODULE ScrapeTargets ----------------------------
(***************************************************************************)
(* What a configured data source asks for: the switch over dataSource.Name *)
(* in CollectPrometheusMetric (internal/exporter/exporter.collect.go).     *)
(* A name is a scrape target with or without the suffix "V1", so the name  *)
(* "VpnStatsV1" is [target |-> "VpnStats", v1 |-> TRUE].                   *)
(***************************************************************************)

\* Appliances only: these targets fail on a software broker.
HardwareOnly == {"Disk", "Raid", "InterfaceHW", "Alarm", "Environment",
                 "Hardware", "ClockDetail"}

\* Software brokers only.
SoftwareOnly == {"Health", "StorageElement"}

\* Targets whose getter takes no filter.
Unfiltered == {"Version", "Health", "Disk", "Raid", "Memory", "GlobalStats",
               "GlobalSystemInfo", "Spool", "SpoolStats", "Redundancy",
               "Alarm", "Environment", "Hardware", "ClockDetail",
               "ReplicationStats", "ConfigSyncRouter", "ConfigSync"}

\* The getter filters by item, and is given the item filter.
FilteredByItem == {"StorageElement", "Interface", "InterfaceHW", "ClientStats",
                   "ClientConnections", "ClientMessageSpoolEgress"}

\* The getter filters by message VPN, and is given the VPN filter.
FilteredByVpn == {"Vpn", "VpnReplication", "ConfigSyncVpn", "VpnSpool",
                  "ClientProfile", "VpnStats"}

\* The getter filters by item, but is given the VPN filter.
ItemFromVpn == {"ClientMessageSpoolStats"}

\* The getter is given both; ClusterLinks takes a cluster and a link filter.
FilteredByBoth == {"Bridge", "BridgeRemote", "BridgeDetail", "BridgeClientCert",
                   "BridgeStats", "Client", "ClientSlowSubscriber",
                   "ClusterLinks", "QueueRates", "QueueStats", "QueueDetails",
                   "TopicEndpointRates", "TopicEndpointStats",
                   "TopicEndpointDetails", "RestConsumerStats", "RdpStats",
                   "RdpInfo", "MqttSession"}

\* The one target read through SEMP v2.
Semp2Targets == {"QueueStatsV2"}

\* The targets the switch knows under their plain name.
Targets == UNION {Unfiltered, FilteredByItem, FilteredByVpn, ItemFromVpn,
                  FilteredByBoth, Semp2Targets}

\* The targets the switch also knows with the suffix "V1".
WithV1Alias == Targets \ {"QueueStatsV2", "MqttSession"}

\* The case of the switch that matches ds, on a hardware or software broker.
Dispatch(ds, isHWBroker) ==
  CASE ds.target \notin Targets                      -> "unknownTarget"
    [] ds.v1 /\ ds.target \notin WithV1Alias         -> "unknownTarget"
    [] ds.target \in HardwareOnly /\ ~isHWBroker     -> "hardwareOnly"
    [] ds.target \in SoftwareOnly /\ isHWBroker      -> "softwareOnly"
    [] ds.target \in Semp2Targets                    -> "semp2"
    [] OTHER                                         -> "semp1"

\* The filters the getter is called with: what fills its VPN (or cluster)
\* parameter and what fills its item parameter.
GetterFilters(ds) ==
  [vpn  |-> IF ds.target \in FilteredByVpn \cup FilteredByBoth \cup Semp2Targets
            THEN ds.vpnFilter ELSE "unused",
   item |-> CASE ds.target \in ItemFromVpn -> ds.vpnFilter
              [] ds.target \in FilteredByItem \cup FilteredByBoth \cup Semp2Targets
                   -> ds.itemFilter
              [] OTHER -> "unused"]

\* A request of a single VPN is a must for SEMP v2: "*" means the default VPN,
\* which may not be configured.
GetVpnNameFails(ds, defaultVpnSet) == ds.vpnFilter = "*" /\ ~defaultVpnSet

=============================================================================
