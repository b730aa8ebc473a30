----------------------------- MODULE MCFibDiff -----------------------------
(* One file a source, since cells of different files never meet; a /32 and  *)
(* a network; routes of every kind the policies and the comparisons tell    *)
(* apart, of which a prefix may have several protocols or next hops.        *)
EXTENDS FibDiff

CONSTANTS host, net

MCTables == {"n1 default"}
MCPrefixes == {host, net}
MCHostPrefixes == {host}
MCLoopbackIfaces == {"lo"}

Hop(ip, iface) == [ip |-> ip, iface |-> iface]
Route(prefix, protocol, hops, attrs) ==
  [prefix |-> prefix, protocol |-> protocol, hops |-> hops, attrs |-> attrs]

MCRoutes ==
  {Route(host, "connected", {Hop(None, "lo")}, None),
   Route(host, "connected", {Hop(None, "eth1")}, None),
   Route(host, "ospf", {Hop("ip1", "eth1")}, None),
   Route(net, "ospf", {Hop("ip1", None)}, None),
   Route(net, "ospf", {Hop("ip1", "eth1"), Hop("ip2", "eth2")}, None),
   Route(net, "bgp", {Hop("ip1", "eth1")}, "med 0"),
   Route(net, "bgp", {Hop("ip1", None)}, "med 10"),
   Route(host, "static", {}, None)}

(* hammerhead_transform.py:189: "ECMP routes show up as multiple entries".  *)
MCEcmpRoutes ==
  {Route(net, "ospf", {Hop("ip1", "eth1")}, None), Route(net, "ospf", {Hop("ip2", "eth2")}, None)}
=============================================================================
