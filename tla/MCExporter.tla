------------------------------ MODULE MCExporter ------------------------------
(***************************************************************************)
(* TLC instances of Exporter.                                              *)
(***************************************************************************)
EXTENDS Exporter

\* One data source of every kind the worker tells apart.  Spool may panic,
\* QueueStatsV2 with "*" needs a default VPN, Disk needs an appliance, Health a
\* software broker, and Vpn occurs with two filters under one name.
Ds(target, v1, vpnFilter) ==
  [target |-> target, v1 |-> v1, vpnFilter |-> vpnFilter, itemFilter |-> "item"]

DataSources == {Ds("Vpn", FALSE, "a"), Ds("Vpn", FALSE, "b"), Ds("Spool", TRUE, "a"),
                Ds("QueueStatsV2", FALSE, "*"), Ds("Disk", FALSE, "a"),
                Ds("Health", FALSE, "a"), Ds("Bogus", FALSE, "a")}

RequestsOf(lists) ==
  [sources : lists, isHWBroker : BOOLEAN, defaultVpnSet : BOOLEAN]

PairsAndTriples ==
  RequestsOf({<<d, e>> : d, e \in DataSources}
             \cup {<<Ds("Vpn", FALSE, "a"), d, Ds("Vpn", FALSE, "b")>> : d \in DataSources})

\* Every scrape target, with and without the suffix, on both kinds of broker.
SingleSources == RequestsOf({<<Ds(t, v1, "vpn")>> : t \in Targets, v1 \in BOOLEAN})

TwoMetrics == {[name |-> <<"metric", "m">>, value |-> v] : v \in {5, 6}}
=============================================================================
