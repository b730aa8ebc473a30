----------------------------- MODULE FibExtract -----------------------------
(***************************************************************************)
(* How the routes that a node holds become the rows of its FIB files: one  *)
(* extraction by one of the four sources.  A router is asked twice, for    *)
(* its routes and for its BGP paths (extract_fib of harness/adapters), and *)
(* goes on routing in between; so is Batfish (run_one), whose snapshot     *)
(* stands still; Hammerhead says both at once.  What they print goes       *)
(* through parsers of their own (harness/extract/fib.py, tools/batfish.py, *)
(* tools/hammerhead_transform.py) into rows that are to mean the same.     *)
(*                                                                         *)
(* The files are written by the callers: TopologyRun, SimOnlyBench.  VRF   *)
(* aliases and text are left out.  A route's as_path, local_pref, med are  *)
(* one value, a path.                                                      *)
(***************************************************************************)
EXTENDS Naturals, Sequences, FiniteSets

CONSTANTS
  Cells,  \* a VRF of the router, or a node and VRF of the simulator; a prefix
  Paths,  \* BGP paths
  Ribs    \* sets of routes a source may hold

Routers == {"frr", "eos"}
Simulators == {"batfish", "hammerhead"}
Sources == Routers \cup Simulators

None == "none"  \* Python's None, and a missing key

Protocol == {"bgp", "ospf", "isis", "static", "connected", "local", "rip"}

(* What a source can call a route: a protocol, one of those that only some  *)
(* tables name, or a label of a version nobody has seen.                    *)
Kind == Protocol \cup {"eigrp", "kernel", "new"}

(* A route leaves by some of two gateways, by an interface alone ("out"),   *)
(* or, with no next hop, is discarded.                                      *)
Route ==
  [cell : Cells, kind : Kind, hops : SUBSET {"gw1", "gw2", "out"}, path : Paths,
   installed : BOOLEAN]

(* What a source holds: of the routes of a cell at most one is installed.   *)
Rib ==
  {held \in Ribs :
     /\ held \subseteq Route
     /\ \A r, s \in held : r.cell = s.cell /\ r.installed /\ s.installed => r = s}

VARIABLES
  source,     \* whose FIB is extracted
  rib,        \* what it holds now
  phase,      \* where the extraction stands
  routesDoc,  \* what the first query printed: a set of entries
  bgpDoc,     \* bgpDoc[c]: the paths the second one printed for a cell, in order
  fib,        \* the rows that came out
  ribRead     \* history: rib when it was asked for its routes

vars == <<source, rib, phase, routesDoc, bgpDoc, fib, ribRead>>

Init ==
  /\ source \in Sources /\ rib \in Rib
  /\ phase = "routes"
  /\ routesDoc = {} /\ bgpDoc = [c \in Cells |-> <<>>] /\ fib = {}
  /\ ribRead = rib

-----------------------------------------------------------------------------
(* What the sources print (external).                                       *)

(* For the address of a next hop that is an interface alone.                *)
NoAddress(src) ==
  CASE src = "frr"        -> {None}
    [] src = "eos"        -> {None, "0.0.0.0"}
    [] src = "batfish"    -> {"AUTO/NONE"}
    [] src = "hammerhead" -> {None, "0.0.0.0"}

Hop(ip, iface, active) == [ip |-> ip, iface |-> iface, active |-> active]

PrintedHop(src, h, z) == Hop(IF h = "out" THEN z ELSE h, "eth", TRUE)

(* For the interface of a discard route: Hammerhead prints the marker or,   *)
(* on some entries, nothing.                                                *)
NoInterface(src) ==
  CASE src \in Routers     -> {None}
    [] src = "batfish"    -> {"null_interface"}
    [] src = "hammerhead" -> {None, "null_interface"}

(* A discard route has a next hop in print all the same, of nothing.        *)
DiscardHop(z, n) == Hop(z, n, TRUE)

(* FRR lists next hops that are down.                                       *)
DeadHops(src) == {{}} \cup {d \in {{Hop("gw2", "eth", FALSE)}} : src = "frr"}

(* One entry a route from a router, one a next hop from a simulator, which  *)
(* has none for a route that is not installed.  EOS says "drop" for a       *)
(* discard route, Hammerhead does not speak of local ones.                  *)
Entries(src, r, z, n, dead) ==
  LET entry(hops) == [cell |-> r.cell, kind |-> r.kind, hops |-> hops,
                      programmed |-> r.installed /\ ~(src = "eos" /\ r.hops = {}),
                      path |-> IF src = "hammerhead" /\ r.kind = "bgp" THEN r.path ELSE None]
      hops == IF r.hops = {} THEN {DiscardHop(z, n)}
                             ELSE {PrintedHop(src, h, z) : h \in r.hops}
  IN IF src \in Routers THEN {entry(hops \cup dead)}
     ELSE {entry({h}) : h \in {g \in hops :
             r.installed /\ (src = "hammerhead" => r.kind # "local")}}

(* The BGP paths of a cell: the best one, and perhaps another before or     *)
(* after it.                                                                *)
PrintedPaths(r) ==
  LET best  == [path |-> r.path, best |-> TRUE]
      other == {[path |-> p, best |-> FALSE] : p \in Paths \ {r.path}}
  IN {<<best>>} \cup {<<best, o>> : o \in other} \cup {<<o, best>> : o \in other}

(* A router routes on between the queries; one step stands for any number.  *)
RouteMoves ==
  /\ source \in Routers /\ phase = "bgp" /\ rib = ribRead
  /\ rib' \in Rib
  /\ UNCHANGED <<source, phase, routesDoc, bgpDoc, fib, ribRead>>

-----------------------------------------------------------------------------
(* The parsers.                                                             *)

(* _map_batfish_protocol, _map_protocol, and the maps in                    *)
(* _parse_frr_route_entry and _parse_eos_route_entry, label by label: what  *)
(* it is mapped to, "skip", or "raise" for one not in the tables.           *)
MapProtocol(src, kind) ==
  CASE kind \in Protocol                            -> kind
    [] kind = "eigrp" /\ src = "batfish"            -> "eigrp"
    [] kind = "eigrp" /\ src = "hammerhead"         -> "skip"
    [] kind = "kernel" /\ src \in {"frr", "batfish"} -> "skip"
    [] OTHER                                        -> "raise"

(* _parse_frr_route_entry and _parse_eos_route_entry look at what is        *)
(* selected, installed, forwarded and programmed first.                     *)
Considered(src, doc) == {e \in doc : src \in Routers => e.programmed}

(* A Route of a protocol that is not in the literal is refused as well.     *)
Raises(src, doc) ==
  \E e \in Considered(src, doc) : MapProtocol(src, e.kind) \notin Protocol \cup {"skip"}

(* _clean_ip, and the same for EOS and Hammerhead.                          *)
CleanIp(src, ip) ==
  IF \/ src = "batfish" /\ ip = "AUTO/NONE"
     \/ src \in {"eos", "hammerhead"} /\ ip = "0.0.0.0"
  THEN None ELSE ip

(* _clean_iface; the null interface of Hammerhead stays one.                *)
CleanIface(src, iface) ==
  IF src = "batfish" /\ iface = "null_interface" THEN None ELSE iface

MutNextHops(src, hops) ==  \* a next hop that is down is one all the same
  LET clean(h) == [ip |-> CleanIp(src, h.ip), iface |-> CleanIface(src, h.iface)]
  IN {clean(h) : h \in {g \in hops : clean(g) # [ip |-> None, iface |-> None]}}

(* The next hops that are up and not of nothing; EOS's are looked at before *)
(* they are cleaned.                                                        *)
NextHops(src, hops) ==
  LET clean(h) == [ip |-> CleanIp(src, h.ip), iface |-> CleanIface(src, h.iface)]
      seen(h)  == IF src = "eos" THEN [ip |-> h.ip, iface |-> h.iface] ELSE clean(h)
  IN {clean(h) : h \in {g \in hops : g.active /\ seen(g) # [ip |-> None, iface |-> None]}}

(* The rows of parse_frr_route_json, parse_eos_route_json,                  *)
(* transform_batfish_rows and transform_rib_view.                           *)
Parse(src, doc) ==
  {[cell |-> e.cell, protocol |-> e.kind, hops |-> NextHops(src, e.hops), path |-> e.path] :
     e \in {x \in Considered(src, doc) : MapProtocol(src, x.kind) # "skip"}}

MutBest(paths) == {paths[i].path : i \in {j \in DOMAIN paths : j = 1}}  \* the first listed

(* The path marked best of a cell, if any.                                  *)
Best(paths) == {paths[i].path : i \in {j \in DOMAIN paths : paths[j].best}}

(* merge_bgp_attributes and _merge_bgp_attrs.                               *)
MergeBgp(rows) ==
  {IF row.protocol = "bgp" /\ Best(bgpDoc[row.cell]) # {}
   THEN [row EXCEPT !.path = CHOOSE p \in Best(bgpDoc[row.cell]) : TRUE]
   ELSE row : row \in rows}

-----------------------------------------------------------------------------
(* The extraction.                                                          *)

(* "show ip route", get_routes, simulate --emit-rib all.                    *)
ReadRoutes ==
  /\ phase = "routes"
  /\ \E z \in NoAddress(source), n \in NoInterface(source), dead \in DeadHops(source) :
       routesDoc' = UNION {Entries(source, r, z, n, dead) : r \in rib}
  /\ ribRead' = rib
  /\ phase' = IF source = "hammerhead" THEN "parse" ELSE "bgp"
  /\ UNCHANGED <<source, rib, bgpDoc, fib>>

(* "show ip bgp", get_bgp_rib.                                              *)
ReadBgp ==
  /\ phase = "bgp"
  /\ LET bgp(c) == {r \in rib : r.cell = c /\ r.kind = "bgp" /\ r.installed}
     IN bgpDoc' \in {doc \in [Cells -> {<<>>} \cup UNION {PrintedPaths(r) : r \in rib}] :
                       \A c \in Cells : IF bgp(c) = {} THEN doc[c] = <<>>
                                        ELSE \E r \in bgp(c) : doc[c] \in PrintedPaths(r)}
  /\ phase' = "parse"
  /\ UNCHANGED <<source, rib, routesDoc, fib, ribRead>>

(* FrrVtyshError, CeosCliError, a timeout, an exception of pybatfish or of  *)
(* the Hammerhead runner.                                                   *)
QueryFails ==
  /\ phase \in {"routes", "bgp"}
  /\ phase' = "failed"
  /\ UNCHANGED <<source, rib, routesDoc, bgpDoc, fib, ribRead>>

(* Parsing and merging; a label that is refused ends the extraction.        *)
Extract ==
  /\ phase = "parse"
  /\ IF Raises(source, routesDoc)
     THEN phase' = "failed" /\ UNCHANGED fib
     ELSE phase' = "done" /\ fib' = MergeBgp(Parse(source, routesDoc))
  /\ UNCHANGED <<source, rib, routesDoc, bgpDoc, ribRead>>

Next == ReadRoutes \/ ReadBgp \/ QueryFails \/ Extract \/ RouteMoves

Spec == Init /\ [][Next]_vars

-----------------------------------------------------------------------------
(* Correctness.                                                             *)

(* What a file should speak of: no source is worse off for its format.  EOS *)
(* keeps no discard route and Hammerhead no local one.                      *)
Shown(r) ==
  /\ r.installed
  /\ ~(source = "eos" /\ r.hops = {})
  /\ ~(source = "hammerhead" /\ r.kind = "local")

InScope(r) == Shown(r) /\ r.kind \in Protocol

Meant(h) == IF h = "out" THEN [ip |-> None, iface |-> "eth"] ELSE [ip |-> h, iface |-> "eth"]

NullHop == [ip |-> None, iface |-> "null_interface"]

(* What rows may say of the next hops of a route.                           *)
Faithful(hops, r) ==
  \/ hops = {Meant(h) : h \in r.hops}
  \/ hops = {NullHop} /\ r.hops = {} /\ source = "hammerhead"

(* The rows of a cell say together what the source held when it was asked   *)
(* for its routes: the protocol and all next hops.  Nothing is lost and     *)
(* nothing added but the null interface of Hammerhead's discard routes, and *)
(* no label that nobody has seen was passed over.                           *)
SameRoutes ==
  phase = "done" =>
    /\ \A r \in ribRead : Shown(r) => r.kind # "new"
    /\ \A row \in fib : \E r \in ribRead : InScope(r) /\ r.cell = row.cell
    /\ \A r \in ribRead : InScope(r) =>
         LET rows == {row \in fib : row.cell = r.cell}
         IN /\ rows # {} /\ \A row \in rows : row.protocol = r.kind
            /\ Faithful(UNION {row.hops : row \in rows}, r)

(* A row has the attributes of the best path of its own cell, at the time   *)
(* of the second query; it goes without only if there was none any more,    *)
(* and all rows of a BGP route have the same ones.                          *)
OwnAttributes ==
  phase = "done" =>
    \A row \in fib :
      LET best == {r.path : r \in {s \in rib : s.cell = row.cell /\ s.kind = "bgp" /\ s.installed}}
      IN row.path = IF row.protocol = "bgp" /\ best # {} THEN CHOOSE p \in best : TRUE ELSE None
=============================================================================
