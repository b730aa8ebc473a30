------------------------------ MODULE FibDiff ------------------------------
(***************************************************************************)
(* How FIBs on disk become the published numbers.  Three computations read *)
(* the same files and each has its own code: diff_fibs and aggregate       *)
(* (harness/diff), _compute_three_way_agreement and                        *)
(* _compute_sim_only_agreement (harness/pipeline.py).  They are operators  *)
(* here; the state is only what they read and what they returned.          *)
(*                                                                         *)
(* A rate is kept as the counts it is made of.  A route's as_path,         *)
(* local_pref and med are compared together only, so they are one value.   *)
(***************************************************************************)
EXTENDS Naturals, Sequences, FiniteSets

CONSTANTS
  Tables,          \* a node and a canonical VRF: one FIB file each
  Prefixes,
  HostPrefixes,    \* those ending in /32
  LoopbackIfaces,  \* interface names that begin with "lo"
  Routes,          \* the routes a source may emit
  MaxRoutes        \* bound: routes in all files together

VARIABLES
  fibs,    \* fibs[source][table]: the routes of the file, as emitted
  policy,  \* the bench's LoopbackPolicy
  scores   \* what the three computations made of the files

vars == <<fibs, policy, scores>>

Simulators == {"batfish", "hammerhead"}
Sources == Simulators \cup {"vendor"}
Policies == {"strip", "materialize", "passthrough"}
Cells == Tables \X Prefixes

None == "none"  \* Python's None

(* The Protocol literal, in the order of the strings.                       *)
Protocols == <<"bgp", "connected", "isis", "local", "ospf", "rip", "static">>
Protocol == {Protocols[i] : i \in DOMAIN Protocols}

ASSUME RoutesAssumption ==
  /\ HostPrefixes \subseteq Prefixes /\ None \notin LoopbackIfaces
  /\ MaxRoutes \in Nat /\ IsFiniteSet(Tables) /\ IsFiniteSet(Prefixes)
  /\ \A r \in Routes : r.prefix \in Prefixes /\ r.protocol \in Protocol

-----------------------------------------------------------------------------
(* The index: one route a cell.                                             *)

HasLoopbackHop(r) == \E hop \in r.hops : hop.iface \in LoopbackIfaces

(* _is_loopback_host of extract/fib.py.                                     *)
IsLoopbackHost(r) ==
  /\ r.protocol \in {"connected", "local"} /\ r.prefix \in HostPrefixes
  /\ HasLoopbackHop(r)

(* canonicalize_node_fib strips under one policy only.                      *)
Kept(r, pol) == pol = "strip" => ~IsLoopbackHost(r)

(* The rows of a file that lie in a cell.                                   *)
Rows(fib, cell, pol) ==
  {i \in DOMAIN fib[cell[1]] :
     fib[cell[1]][i].prefix = cell[2] /\ Kept(fib[cell[1]][i], pol)}

Rank(p) == CHOOSE i \in DOMAIN Protocols : Protocols[i] = p

(* The rows are sorted by protocol, stably, and each overwrites the one     *)
(* before it: the last one stands.                                          *)
LastRow(file, rows) ==
  CHOOSE i \in rows : \A j \in rows :
    LET p == Rank(file[i].protocol)
        q == Rank(file[j].protocol)
    IN q < p \/ (q = p /\ j <= i)

(* _index_routes and _sim_only_index.                                       *)
Index(fib, pol) ==
  [cell \in {c \in Cells : Rows(fib, c, pol) # {}} |->
     fib[cell[1]][LastRow(fib[cell[1]], Rows(fib, cell, pol))]]

-----------------------------------------------------------------------------
(* diff_fibs and aggregate: each simulator against the routers.             *)

Answer(b) == IF b THEN "yes" ELSE "no"

(* _bgp_attrs_match: None unless both are BGP.                              *)
BgpAttrsMatch(a, b) ==
  IF a.protocol = "bgp" /\ b.protocol = "bgp" THEN Answer(a.attrs = b.attrs) ELSE None

(* _build_record.                                                           *)
Record(ix, cell) ==
  LET presence == {s \in Sources : cell \in DOMAIN ix[s]}
      both(sim) == {"vendor", sim} \subseteq presence
      v == ix["vendor"][cell]
  IN [cell |-> cell, presence |-> presence,
      protocol |-> [s \in Sources |-> IF s \in presence THEN ix[s][cell].protocol ELSE None],
      nextHop  |-> [sim \in Simulators |->
                      IF both(sim) THEN Answer(v.hops = ix[sim][cell].hops) ELSE None],
      sameProtocol |-> [sim \in Simulators |->
                      IF both(sim) THEN Answer(v.protocol = ix[sim][cell].protocol) ELSE None],
      bgp      |-> [sim \in Simulators |->
                      IF both(sim) THEN BgpAttrsMatch(v, ix[sim][cell]) ELSE None]]

DiffFibs(ws, pol) ==
  LET ix == [s \in Sources |-> Index(ws[s], pol)]
  IN {Record(ix, cell) : cell \in UNION {DOMAIN ix[s] : s \in Sources}}

Count(S, P(_)) == Cardinality({x \in S : P(x)})

Tally(compared, sim) ==
  [present  |-> Cardinality(compared),
   nextHop  |-> Count(compared, LAMBDA r : r.nextHop[sim] = "yes"),
   protocol |-> Count(compared, LAMBDA r : r.sameProtocol[sim] = "yes"),
   bgpTotal |-> Count(compared, LAMBDA r : r.bgp[sim] # None),
   bgp      |-> Count(compared, LAMBDA r : r.bgp[sim] = "yes"),
   perTotal |-> [p \in Protocol |-> Count(compared, LAMBDA r : r.protocol["vendor"] = p)],
   perMatch |-> [p \in Protocol |-> Count(compared, LAMBDA r :
                   r.protocol["vendor"] = p /\ r.nextHop[sim] = "yes")]]

(* Rows without vendor truth are not skipped.                               *)
MutCollect(records, sim) == Tally({r \in records : sim \in r.presence}, sim)

(* _collect.                                                                *)
Collect(records, sim) == Tally({r \in records : {"vendor", sim} \subseteq r.presence}, sim)

(* aggregate.                                                               *)
Metrics(records) ==
  [total |-> [s \in Sources |-> Count(records, LAMBDA r : r.protocol[s] # None)],
   rates |-> [sim \in Simulators |-> Collect(records, sim)]]

-----------------------------------------------------------------------------
(* _compute_three_way_agreement: three indexes, each pair.                  *)

Ips(r) == {hop.ip : hop \in r.hops} \ {None}
HasIface(r) == \E hop \in r.hops : hop.iface # None

(* _nh_sets_equal_sim_only: interface names are not compared.               *)
NextHopsAgree(a, b) ==
  IF Ips(a) # {} /\ Ips(b) # {} THEN Ips(a) = Ips(b)
  ELSE Ips(a) = {} /\ Ips(b) = {} /\ (HasIface(a) <=> HasIface(b))

Both(x, y) == DOMAIN x \cap DOMAIN y
Union(x, y) == DOMAIN x \cup DOMAIN y

PairCounts(x, y, bgp) ==
  [both     |-> Cardinality(Both(x, y)), union |-> Cardinality(Union(x, y)),
   nextHop  |-> Count(Both(x, y), LAMBDA k : NextHopsAgree(x[k], y[k])),
   protocol |-> Count(Both(x, y), LAMBDA k : x[k].protocol = y[k].protocol),
   bgpTotal |-> Cardinality(bgp),
   bgp      |-> Count(bgp, LAMBDA k : x[k].attrs = y[k].attrs)]

(* BGP attributes count when one side is BGP.                               *)
MutPairwise(x, y) ==
  PairCounts(x, y, {k \in Both(x, y) : "bgp" \in {x[k].protocol, y[k].protocol}})

(* _pairwise_agreement.                                                     *)
Pairwise(x, y) ==
  PairCounts(x, y, {k \in Both(x, y) : x[k].protocol = "bgp" /\ y[k].protocol = "bgp"})

ThreeWay(ws, pol) ==
  LET ix == [s \in Sources |-> Index(ws[s], pol)]
  IN [routes |-> [s \in Sources |-> Cardinality(DOMAIN ix[s])],
      truth  |-> [sim \in Simulators |-> Pairwise(ix[sim], ix["vendor"])],
      sims   |-> Pairwise(ix["batfish"], ix["hammerhead"])]

-----------------------------------------------------------------------------
(* _compute_sim_only_agreement: two indexes, reconciled.                    *)

(* _looks_like_loopback_host: IGP routes of any /32 as well.                *)
LooksLikeLoopbackHost(r) ==
  /\ r.prefix \in HostPrefixes
  /\ \/ r.protocol \in {"isis", "ospf"}
     \/ r.protocol \in {"connected", "local"} /\ HasLoopbackHop(r)

(* The cells of x that y lacks and that are a modelling difference.         *)
OneSided(x, y) == {k \in DOMAIN x \ DOMAIN y : LooksLikeLoopbackHost(x[k])}

Without(x, cells) == [k \in DOMAIN x \ cells |-> x[k]]

With(x, y, cells) == [k \in DOMAIN x \cup cells |-> IF k \in cells THEN y[k] ELSE x[k]]

MutReconcile(x, y, pol) ==  \* rows that only Batfish has are dropped, not the others
  LET extra == OneSided(x, y)
      missing == OneSided(y, x)
  IN CASE pol = "passthrough" -> [x |-> x, y |-> y, count |-> 0]
       [] pol = "strip" -> [x |-> Without(x, extra), y |-> y,
                            count |-> Cardinality(extra)]
       [] pol = "materialize" -> [x |-> With(x, y, missing), y |-> With(y, x, extra),
                                  count |-> Cardinality(extra) + Cardinality(missing)]

(* _reconcile_loopback_host_routes.                                         *)
Reconcile(x, y, pol) ==
  LET extra == OneSided(x, y)
      missing == OneSided(y, x)
  IN CASE pol = "passthrough" -> [x |-> x, y |-> y, count |-> 0]
       [] pol = "strip" -> [x |-> Without(x, extra \cup missing),
                            y |-> Without(y, extra \cup missing),
                            count |-> Cardinality(extra \cup missing)]
       [] pol = "materialize" -> [x |-> With(x, y, missing), y |-> With(y, x, extra),
                                  count |-> Cardinality(extra) + Cardinality(missing)]

(* One row of records.json.                                                 *)
SimOnlyRow(b, h, k) ==
  LET both == k \in Both(b, h)
  IN [cell |-> k, both |-> both,
      nextHop  |-> IF both THEN Answer(NextHopsAgree(b[k], h[k])) ELSE None,
      protocol |-> IF both THEN Answer(b[k].protocol = h[k].protocol) ELSE None,
      bgp      |-> IF both THEN BgpAttrsMatch(b[k], h[k]) ELSE None]

SimOnly(ws, pol) ==
  LET b == Index(ws["batfish"], pol)
      h == Index(ws["hammerhead"], pol)
      fair == Reconcile(b, h, pol)
      rows == {SimOnlyRow(fair.x, fair.y, k) : k \in Union(fair.x, fair.y)}
  IN [strict |-> [both |-> Cardinality(Both(b, h)), union |-> Cardinality(Union(b, h))],
      reconciled |-> fair.count,
      sims |-> [both     |-> Count(rows, LAMBDA r : r.both), union |-> Cardinality(rows),
                nextHop  |-> Count(rows, LAMBDA r : r.nextHop = "yes"),
                protocol |-> Count(rows, LAMBDA r : r.protocol = "yes"),
                bgpTotal |-> Count(rows, LAMBDA r : r.bgp # None),
                bgp      |-> Count(rows, LAMBDA r : r.bgp = "yes")]]

-----------------------------------------------------------------------------
(* Files are written, then scored.                                          *)

NoScores == [scored |-> FALSE]

Init ==
  /\ fibs = [s \in Sources |-> [t \in Tables |-> <<>>]]
  /\ policy \in Policies
  /\ scores = NoScores

NumRoutes(ws) == Cardinality(UNION {{<<s, t>>} \X DOMAIN ws[s][t] : s \in Sources, t \in Tables})

(* A router or a simulator emits a route.                                   *)
EmitRoute(s, t, r) ==
  /\ scores = NoScores /\ NumRoutes(fibs) < MaxRoutes
  /\ fibs' = [fibs EXCEPT ![s][t] = Append(@, r)]
  /\ UNCHANGED <<policy, scores>>

(* load_fib_workspace, and the three computations over it.                  *)
Score ==
  /\ scores = NoScores
  /\ scores' = [scored |-> TRUE,
                withTruth |-> Metrics(DiffFibs(fibs, policy)),
                threeWay  |-> ThreeWay(fibs, policy),
                simOnly   |-> SimOnly(fibs, policy)]
  /\ UNCHANGED <<fibs, policy>>

Next ==
  \/ \E s \in Sources, t \in Tables, r \in Routes : EmitRoute(s, t, r)
  \/ Score

Spec == Init /\ [][Next]_vars

-----------------------------------------------------------------------------
(* Correctness.                                                             *)

(* metrics.json adds up to the files: a simulator is compared in exactly    *)
(* the cells where it and the routers both have a row left, the             *)
(* per-protocol breakdown partitions them, and no rate can exceed one.      *)
CountsAddUp ==
  LET cellsOf(s) == {c \in Cells : Rows(fibs[s], c, policy) # {}}
      sum(f) == Cardinality(UNION {{p} \X (1..f[p]) : p \in Protocol})
  IN scores.scored =>
       /\ \A s \in Sources : scores.withTruth.total[s] = Cardinality(cellsOf(s))
       /\ \A sim \in Simulators :
            LET n == scores.withTruth.rates[sim]
            IN /\ n.present = Cardinality(cellsOf("vendor") \cap cellsOf(sim))
               /\ sum(n.perTotal) = n.present /\ sum(n.perMatch) = n.nextHop
               /\ \A p \in Protocol : n.perMatch[p] <= n.perTotal[p]
               /\ n.bgp <= n.bgpTotal /\ n.bgpTotal <= n.perTotal["bgp"]
               /\ n.bgpTotal <= n.protocol /\ n.protocol <= n.present

(* The three computations agree about the same files: the triad sees the    *)
(* cells, protocols and BGP attributes that the diff sees and is only       *)
(* more lenient about next hops, and the head-to-head differs from the      *)
(* triad's by exactly the cells it says it reconciled.                      *)
ModesAgree ==
  LET triad == scores.threeWay
      head == scores.simOnly
      diff == scores.withTruth
      moved(n, counts) ==  \* the triad's counts, these of them n higher
        [f \in DOMAIN triad.sims |-> IF f \in counts THEN triad.sims[f] + n
                                                     ELSE triad.sims[f]]
  IN scores.scored =>
       /\ triad.routes = diff.total
       /\ \A sim \in Simulators :
            LET x == triad.truth[sim]
                y == diff.rates[sim]
            IN /\ <<x.both, x.protocol, x.bgpTotal, x.bgp>>
                    = <<y.present, y.protocol, y.bgpTotal, y.bgp>>
               /\ y.nextHop <= x.nextHop
       /\ head.strict.both = triad.sims.both /\ head.strict.union = triad.sims.union
       /\ policy = "passthrough" => head.reconciled = 0
       /\ head.sims =
            CASE policy = "passthrough" -> triad.sims
              [] policy = "strip" -> [triad.sims EXCEPT !.union = @ - head.reconciled]
              [] policy = "materialize" ->
                   moved(head.reconciled, {"both", "nextHop", "protocol"})

(* The reconciliation favours neither simulator, is complete after one      *)
(* pass, touches no row except a loopback host that the other side lacks,   *)
(* and never makes the presence rate worse.                                 *)
ReconcileIsFair ==
  LET b == Index(fibs["batfish"], policy)
      h == Index(fibs["hammerhead"], policy)
      fair == Reconcile(b, h, policy)
      untouched(x, y, z) ==  \* z is x, reconciled with y
        \A k \in DOMAIN x :
          IF k \in DOMAIN z THEN z[k] = x[k]
          ELSE k \notin DOMAIN y /\ LooksLikeLoopbackHost(x[k])
  IN /\ Reconcile(h, b, policy) = [x |-> fair.y, y |-> fair.x, count |-> fair.count]
     /\ Reconcile(fair.x, fair.y, policy) = [fair EXCEPT !.count = 0]
     /\ untouched(b, h, fair.x) /\ untouched(h, b, fair.y)
     /\ Cardinality(Both(b, h)) * Cardinality(Union(fair.x, fair.y))
          <= Cardinality(Both(fair.x, fair.y)) * Cardinality(Union(b, h))

-----------------------------------------------------------------------------
(* What the documentation says and the code does not do.                    *)

(* test_hammerhead_transform.py:247: a simulator emits one entry per        *)
(* (prefix, next-hop), and "canonicalization later in the diff engine       *)
(* merges by prefix": what is scored has all the next hops of its protocol. *)
EcmpMerged ==
  \A s \in Simulators :
    LET ix == Index(fibs[s], policy)
        hops(c) == UNION {fibs[s][c[1]][i].hops : i \in
                            {j \in Rows(fibs[s], c, policy) :
                               fibs[s][c[1]][j].protocol = ix[c].protocol}}
    IN \A c \in DOMAIN ix : ix[c].hops = hops(c)
=============================================================================
