---------------------------- MODULE Scores_proofs ---------------------------
(***************************************************************************)
(* Proofs about the way of a route into the published numbers.             *)
(*                                                                         *)
(* The first part is about the scoring of the files (FibDiff), for any     *)
(* tables, prefixes and routes and any number of them: the comparison of   *)
(* next hops is an equivalence, the reconciliation of the loopback hosts   *)
(* is fair, the counts add up, and the three computations agree.           *)
(*                                                                         *)
(* The second part is about the extraction of a source's routes into rows  *)
(* (FibExtract), for whatever a source may hold: the rows say the same     *)
(* whatever its format, and have the attributes of their own best path.    *)
(*                                                                         *)
(* The third part is about the summary of a bench (BenchSummary), for any  *)
(* agreements and any number of them.  What a recursive function computes  *)
(* is had by induction over the positions (Segment): a set that holds the  *)
(* first of them, and each with the one before it, holds them all.  On     *)
(* that stand sums, products and powers, what sorted returns, quantiles,   *)
(* and the inequality of the two means.                                    *)
(***************************************************************************)
EXTENDS Scores, FiniteSetTheorems, FunctionTheorems, NaturalsInduction, SequenceTheorems, TLAPS

(* Routes with the same hops agree, so the three-way and head-to-head       *)
(* comparisons are never stricter than the one of diff_fibs.                *)
THEOREM SameHopsAgree ==
  ASSUME NEW a, NEW b, a.hops = b.hops
  PROVE  NextHopsAgree(a, b)
BY DEF NextHopsAgree, Ips, HasIface

(* The comparison does not depend on which simulator comes first.           *)
THEOREM AgreementIsSymmetric ==
  ASSUME NEW a, NEW b, NextHopsAgree(a, b)
  PROVE  NextHopsAgree(b, a)
<1> DEFINE A == Ips(a)
           B == Ips(b)
<1>1. CASE A # {} /\ B # {}
  BY <1>1 DEF NextHopsAgree
<1>2. CASE ~(A # {} /\ B # {})
  BY <1>2 DEF NextHopsAgree
<1> QED BY <1>1, <1>2

(* Two simulators that agree with the routers agree with each other.        *)
THEOREM AgreementIsTransitive ==
  ASSUME NEW a, NEW b, NEW c, NextHopsAgree(a, b), NextHopsAgree(b, c)
  PROVE  NextHopsAgree(a, c)
<1>1. CASE Ips(b) = {}
  BY <1>1 DEF NextHopsAgree
<1>2. CASE Ips(b) # {}
  BY <1>2 DEF NextHopsAgree
<1> QED BY <1>1, <1>2

-----------------------------------------------------------------------------
(* The reconciliation of two indexes, policy by policy.                     *)

LEMMA Passthrough ==
  ASSUME NEW x, NEW y
  PROVE  Reconcile(x, y, "passthrough") = [x |-> x, y |-> y, count |-> 0]
BY DEF Reconcile

LEMMA Strip ==
  ASSUME NEW x, NEW y
  PROVE  Reconcile(x, y, "strip") =
           [x |-> Without(x, OneSided(x, y) \cup OneSided(y, x)),
            y |-> Without(y, OneSided(x, y) \cup OneSided(y, x)),
            count |-> Cardinality(OneSided(x, y) \cup OneSided(y, x))]
BY DEF Reconcile

LEMMA Materialize ==
  ASSUME NEW x, NEW y
  PROVE  Reconcile(x, y, "materialize") =
           [x |-> With(x, y, OneSided(y, x)), y |-> With(y, x, OneSided(x, y)),
            count |-> Cardinality(OneSided(x, y)) + Cardinality(OneSided(y, x))]
BY DEF Reconcile

(* Nothing is left to reconcile after one pass.                             *)
LEMMA NothingLeft ==
  ASSUME NEW x, NEW y, NEW pol \in {"strip", "materialize"},
         NEW fx, NEW fy,
         fx = Reconcile(x, y, pol).x, fy = Reconcile(x, y, pol).y
  PROVE  OneSided(fx, fy) = {} /\ OneSided(fy, fx) = {}
<1> DEFINE S == OneSided(x, y) \cup OneSided(y, x)
<1>1. CASE pol = "strip"
  <2>1. fx = Without(x, S) /\ fy = Without(y, S)
    BY <1>1, Strip
  <2>2. /\ DOMAIN fx = DOMAIN x \ S /\ DOMAIN fy = DOMAIN y \ S
        /\ \A k \in DOMAIN fx : fx[k] = x[k]
        /\ \A k \in DOMAIN fy : fy[k] = y[k]
    BY <2>1 DEF Without
  <2> QED BY <2>2 DEF OneSided
<1>2. CASE pol = "materialize"
  <2>1. fx = With(x, y, OneSided(y, x)) /\ fy = With(y, x, OneSided(x, y))
    BY <1>2, Materialize
  <2>2. /\ DOMAIN fx = DOMAIN x \cup OneSided(y, x)
        /\ DOMAIN fy = DOMAIN y \cup OneSided(x, y)
        /\ \A k \in DOMAIN x \ OneSided(y, x) : fx[k] = x[k]
        /\ \A k \in DOMAIN y \ OneSided(x, y) : fy[k] = y[k]
    BY <2>1 DEF With
  <2>3. \A k \in DOMAIN fx \ DOMAIN fy : k \in DOMAIN x \ DOMAIN y /\ fx[k] = x[k]
    BY <2>2 DEF OneSided
  <2>4. \A k \in DOMAIN fy \ DOMAIN fx : k \in DOMAIN y \ DOMAIN x /\ fy[k] = y[k]
    BY <2>2 DEF OneSided
  <2> QED BY <2>2, <2>3, <2>4 DEF OneSided
<1> QED BY <1>1, <1>2

(* What _index_routes returns: a function, and a finite one.                *)
IsIndex(x) == x = [k \in DOMAIN x |-> x[k]] /\ IsFiniteSet(DOMAIN x)

LEMMA OneSidedIsFinite ==
  ASSUME NEW x, NEW y, IsFiniteSet(DOMAIN x)
  PROVE  IsFiniteSet(OneSided(x, y)) /\ Cardinality(OneSided(x, y)) \in Nat
<1>1. OneSided(x, y) \in SUBSET (DOMAIN x)
  BY DEF OneSided
<1> QED BY <1>1, FS_Subset, FS_CardinalityType

(* Swapping the simulators swaps the outcome.                               *)
LEMMA Symmetric ==
  ASSUME NEW x, NEW y, NEW pol \in Policies, IsIndex(x), IsIndex(y)
  PROVE  Reconcile(y, x, pol) =
           [x |-> Reconcile(x, y, pol).y, y |-> Reconcile(x, y, pol).x,
            count |-> Reconcile(x, y, pol).count]
<1>1. CASE pol = "passthrough"
  BY <1>1, Passthrough
<1>2. CASE pol = "strip"
  <2> DEFINE S == OneSided(x, y) \cup OneSided(y, x)
             R == OneSided(y, x) \cup OneSided(x, y)
  <2>1. Reconcile(x, y, pol) =
          [x |-> Without(x, S), y |-> Without(y, S), count |-> Cardinality(S)]
    BY <1>2, Strip
  <2>2. Reconcile(y, x, pol) =
          [x |-> Without(y, R), y |-> Without(x, R), count |-> Cardinality(R)]
    BY <1>2, Strip
  <2>3. R = S
    OBVIOUS
  <2> HIDE DEF S, R
  <2> QED BY <2>1, <2>2, <2>3
<1>3. CASE pol = "materialize"
  <2>1. Cardinality(OneSided(x, y)) \in Nat /\ Cardinality(OneSided(y, x)) \in Nat
    BY OneSidedIsFinite DEF IsIndex
  <2>2. Cardinality(OneSided(x, y)) + Cardinality(OneSided(y, x))
          = Cardinality(OneSided(y, x)) + Cardinality(OneSided(x, y))
    BY <2>1
  <2> QED BY <1>3, <2>2, Materialize
<1> QED BY <1>1, <1>2, <1>3 DEF Policies

LEMMA WithNothing ==
  ASSUME NEW x, NEW y, x = [k \in DOMAIN x |-> x[k]]
  PROVE  Without(x, {}) = x /\ With(x, y, {}) = x
<1>1. Without(x, {}) = x
  BY DEF Without
<1>2. With(x, y, {}) = [k \in DOMAIN x |-> x[k]]
  BY DEF With
<1> QED BY <1>1, <1>2

(* What the reconciliation returns are functions again.                     *)
LEMMA ReturnsFunctions ==
  ASSUME NEW x, NEW y, NEW pol \in Policies, IsIndex(x), IsIndex(y),
         NEW fx, NEW fy,
         fx = Reconcile(x, y, pol).x, fy = Reconcile(x, y, pol).y
  PROVE  fx = [k \in DOMAIN fx |-> fx[k]] /\ fy = [k \in DOMAIN fy |-> fy[k]]
<1>1. CASE pol = "passthrough"
  BY <1>1, Passthrough DEF IsIndex
<1>2. CASE pol = "strip"
  <2> DEFINE S == OneSided(x, y) \cup OneSided(y, x)
  <2>1. fx = Without(x, S) /\ fy = Without(y, S)
    BY <1>2, Strip
  <2> HIDE DEF S
  <2>2. /\ fx = [k \in DOMAIN x \ S |-> x[k]] /\ fy = [k \in DOMAIN y \ S |-> y[k]]
    BY <2>1 DEF Without
  <2> QED BY <2>2
<1>3. CASE pol = "materialize"
  <2> DEFINE S == OneSided(x, y)
             R == OneSided(y, x)
  <2>1. fx = With(x, y, R) /\ fy = With(y, x, S)
    BY <1>3, Materialize
  <2> HIDE DEF S, R
  <2>2. /\ fx = [k \in DOMAIN x \cup R |-> IF k \in R THEN y[k] ELSE x[k]]
        /\ fy = [k \in DOMAIN y \cup S |-> IF k \in S THEN x[k] ELSE y[k]]
    BY <2>1 DEF With
  <2> QED BY <2>2
<1> QED BY <1>1, <1>2, <1>3 DEF Policies

LEMMA Idempotent ==
  ASSUME NEW x, NEW y, NEW pol \in Policies, IsIndex(x), IsIndex(y),
         NEW fx, NEW fy,
         fx = Reconcile(x, y, pol).x, fy = Reconcile(x, y, pol).y
  PROVE  Reconcile(fx, fy, pol) = [x |-> fx, y |-> fy, count |-> 0]
<1>1. CASE pol = "passthrough"
  BY <1>1, Passthrough
<1>2. CASE pol \in {"strip", "materialize"}
  <2>1. OneSided(fx, fy) = {} /\ OneSided(fy, fx) = {}
    BY <1>2, NothingLeft
  <2>2. /\ Without(fx, {}) = fx /\ Without(fy, {}) = fy
        /\ With(fx, fy, {}) = fx /\ With(fy, fx, {}) = fy
    BY ReturnsFunctions, WithNothing
  <2>3. Cardinality({}) = 0 /\ Cardinality({}) + Cardinality({}) = 0
    BY FS_EmptySet
  <2>4. CASE pol = "strip"
    <3>1. OneSided(fx, fy) \cup OneSided(fy, fx) = {}
      BY <2>1
    <3> QED BY <2>2, <2>3, <2>4, <3>1, Strip
  <2>5. CASE pol = "materialize"
    BY <2>1, <2>2, <2>3, <2>5, Materialize
  <2> QED BY <1>2, <2>4, <2>5
<1> QED BY <1>1, <1>2 DEF Policies

(* z is x, reconciled with y: no row changed, and none removed but a        *)
(* loopback host that y lacks.                                              *)
Untouched(x, y, z) ==
  \A k \in DOMAIN x :
    IF k \in DOMAIN z THEN z[k] = x[k]
    ELSE k \notin DOMAIN y /\ LooksLikeLoopbackHost(x[k])

LEMMA RowsStay ==
  ASSUME NEW x, NEW y, NEW pol \in Policies
  PROVE  /\ Untouched(x, y, Reconcile(x, y, pol).x)
         /\ Untouched(y, x, Reconcile(x, y, pol).y)
<1>1. CASE pol = "passthrough"
  BY <1>1, Passthrough DEF Untouched
<1>2. CASE pol = "strip"
  <2>1. /\ Reconcile(x, y, pol).x = Without(x, OneSided(x, y) \cup OneSided(y, x))
        /\ Reconcile(x, y, pol).y = Without(y, OneSided(x, y) \cup OneSided(y, x))
    BY <1>2, Strip
  <2> QED BY <2>1 DEF Untouched, Without, OneSided
<1>3. CASE pol = "materialize"
  <2>1. /\ Reconcile(x, y, pol).x = With(x, y, OneSided(y, x))
        /\ Reconcile(x, y, pol).y = With(y, x, OneSided(x, y))
    BY <1>3, Materialize
  <2> QED BY <2>1 DEF Untouched, With, OneSided
<1> QED BY <1>1, <1>2, <1>3 DEF Policies

LEMMA TimesMonotone ==
  ASSUME NEW a \in Nat, NEW b \in Nat, NEW c \in Nat, b <= c
  PROVE  a * b <= a * c /\ b * a <= c * a
<1>1. PICK d \in Nat : c = b + d
  <2>1. c - b \in Nat /\ c = b + (c - b)
    OBVIOUS
  <2> QED BY <2>1
<1>2. a * c = a * b + a * d /\ c * a = b * a + d * a
  BY <1>1
<1>3. a * d \in Nat /\ d * a \in Nat /\ a * b \in Nat /\ b * a \in Nat
  OBVIOUS
<1> QED BY <1>2, <1>3

(* The share of cells that both simulators have does not go down.           *)
LEMMA PresenceNoWorse ==
  ASSUME NEW x, NEW y, NEW pol \in Policies, IsIndex(x), IsIndex(y),
         NEW fx, NEW fy,
         fx = Reconcile(x, y, pol).x, fy = Reconcile(x, y, pol).y
  PROVE  Cardinality(Both(x, y)) * Cardinality(Union(fx, fy))
           <= Cardinality(Both(fx, fy)) * Cardinality(Union(x, y))
<1> DEFINE S == OneSided(x, y)
           R == OneSided(y, x)
<1>1. /\ IsFiniteSet(Both(x, y)) /\ IsFiniteSet(Union(x, y))
      /\ Cardinality(Both(x, y)) \in Nat /\ Cardinality(Union(x, y)) \in Nat
  <2>1. IsFiniteSet(Both(x, y)) /\ IsFiniteSet(Union(x, y))
    BY FS_Intersection, FS_Union DEF IsIndex, Both, Union
  <2> QED BY <2>1, FS_CardinalityType
<1>2. CASE pol = "passthrough"
  <2>1. fx = x /\ fy = y
    BY <1>2, Passthrough
  <2>2. Cardinality(Union(x, y)) <= Cardinality(Union(x, y))
    BY <1>1
  <2> QED BY <1>1, <2>1, <2>2, TimesMonotone
<1>3. CASE pol = "strip"
  <2>1. fx = Without(x, S \cup R) /\ fy = Without(y, S \cup R)
    BY <1>3, Strip
  <2>2. DOMAIN fx = DOMAIN x \ (S \cup R) /\ DOMAIN fy = DOMAIN y \ (S \cup R)
    BY <2>1 DEF Without
  <2>3. Both(fx, fy) = Both(x, y)
    BY <2>2 DEF Both, OneSided
  <2>4. Union(fx, fy) \in SUBSET Union(x, y)
    BY <2>2 DEF Union
  <2>5. /\ IsFiniteSet(Union(fx, fy))
        /\ Cardinality(Union(fx, fy)) <= Cardinality(Union(x, y))
    BY <1>1, <2>4, FS_Subset
  <2>6. Cardinality(Union(fx, fy)) \in Nat
    BY <2>5, FS_CardinalityType
  <2> QED BY <1>1, <2>3, <2>5, <2>6, TimesMonotone
<1>4. CASE pol = "materialize"
  <2>1. fx = With(x, y, R) /\ fy = With(y, x, S)
    BY <1>4, Materialize
  <2>2. DOMAIN fx = DOMAIN x \cup R /\ DOMAIN fy = DOMAIN y \cup S
    BY <2>1 DEF With
  <2>3. Union(fx, fy) = Union(x, y)
    BY <2>2 DEF Union, OneSided
  <2>4. Both(x, y) \in SUBSET Both(fx, fy) /\ Both(fx, fy) \in SUBSET Union(x, y)
    BY <2>2 DEF Both, Union, OneSided
  <2>5. IsFiniteSet(Both(fx, fy))
    BY <1>1, <2>4, FS_Subset
  <2>6. Cardinality(Both(x, y)) <= Cardinality(Both(fx, fy))
    BY <2>4, <2>5, FS_Subset
  <2>7. Cardinality(Both(fx, fy)) \in Nat
    BY <2>5, FS_CardinalityType
  <2> QED BY <1>1, <2>3, <2>6, <2>7, TimesMonotone
<1> QED BY <1>2, <1>3, <1>4 DEF Policies

-----------------------------------------------------------------------------
(* The indexes of the files, and the property of the runs.                  *)

LEMMA IndexIsIndex ==
  ASSUME NEW fib, NEW pol
  PROVE  IsIndex(Index(fib, pol))
<1> DEFINE D == {c \in Cells : Rows(fib, c, pol) # {}}
           route(c) == fib[c[1]][LastRow(fib[c[1]], Rows(fib, c, pol))]
<1>1. Index(fib, pol) = [c \in D |-> route(c)]
  BY DEF Index
<1>2. IsFiniteSet(Cells)
  BY FS_Product, RoutesAssumption DEF Cells
<1>3. D \in SUBSET Cells
  OBVIOUS
<1>4. IsFiniteSet(D)
  BY <1>2, <1>3, FS_Subset
<1> HIDE DEF D, route
<1>5. DOMAIN Index(fib, pol) = D
  BY <1>1
<1> QED BY <1>1, <1>4, <1>5 DEF IsIndex

PolicyOK == policy \in Policies

(* One of the three policies is in force.                                   *)
LEMMA PolicyCorrect == Spec => []PolicyOK
<1>1. Init => PolicyOK
  BY DEF Init, PolicyOK
<1>2. PolicyOK /\ [Next]_vars => PolicyOK'
  BY DEF Next, EmitRoute, Score, vars, PolicyOK
<1> QED BY <1>1, <1>2, PTL DEF Spec

(* Whatever routers and simulators emit, in any number: the reconciliation  *)
(* favours neither simulator, is complete after one pass, touches no other  *)
(* row, and never makes the presence rate worse.                            *)
THEOREM ReconciliationIsFair == Spec => []ReconcileIsFair
<1>1. PolicyOK => ReconcileIsFair
  <2> SUFFICES ASSUME policy \in Policies
               PROVE  ReconcileIsFair
    BY DEF PolicyOK
  <2> DEFINE b == Index(fibs["batfish"], policy)
             h == Index(fibs["hammerhead"], policy)
             fair == Reconcile(b, h, policy)
  <2>1. IsIndex(b) /\ IsIndex(h)
    BY IndexIsIndex
  <2>2. Reconcile(h, b, policy) = [x |-> fair.y, y |-> fair.x, count |-> fair.count]
    BY <2>1, Symmetric
  <2>3. Reconcile(fair.x, fair.y, policy) = [x |-> fair.x, y |-> fair.y, count |-> 0]
    BY <2>1, Idempotent
  <2>4. Untouched(b, h, fair.x) /\ Untouched(h, b, fair.y)
    BY RowsStay
  <2>5. Cardinality(Both(b, h)) * Cardinality(Union(fair.x, fair.y))
          <= Cardinality(Both(fair.x, fair.y)) * Cardinality(Union(b, h))
    BY <2>1, PresenceNoWorse
  <2>6. [fair EXCEPT !.count = 0] = [x |-> fair.x, y |-> fair.y, count |-> 0]
    <3>1. fair = [x |-> fair.x, y |-> fair.y, count |-> fair.count]
      <4>1. CASE policy = "passthrough"
        BY <4>1, Passthrough
      <4>2. CASE policy = "strip"
        <5> DEFINE S == OneSided(b, h) \cup OneSided(h, b)
        <5>1. Reconcile(b, h, policy) =
                [x |-> Without(b, S), y |-> Without(h, S), count |-> Cardinality(S)]
          BY <4>2, Strip
        <5> HIDE DEF S, b, h
        <5> QED BY <5>1
      <4>3. CASE policy = "materialize"
        BY <4>3, Materialize
      <4> QED BY <4>1, <4>2, <4>3 DEF Policies
    <3> HIDE DEF fair
    <3> QED BY <3>1
  <2> HIDE DEF fair
  <2> QED BY <2>2, <2>3, <2>4, <2>5, <2>6 DEF ReconcileIsFair, Untouched, fair
<1> QED BY <1>1, PolicyCorrect, PTL

-----------------------------------------------------------------------------
(* Counting the cells of a set of records.                                  *)

(* Distinct cells have distinct records.                                    *)
LEMMA AsManyAsCells ==
  ASSUME NEW f, NEW S, IsFiniteSet(S), \A c, d \in S : f[c] = f[d] => c = d
  PROVE  IsFiniteSet({f[c] : c \in S}) /\ Cardinality({f[c] : c \in S}) = Cardinality(S)
<1> DEFINE T == {f[c] : c \in S}
           g == [c \in S |-> f[c]]
<1>1. g \in Bijection(S, T)
  <2>1. g \in [S -> T] /\ \A c \in S : g[c] = f[c]
    OBVIOUS
  <2>2. \A t \in T : \E c \in S : g[c] = t
    OBVIOUS
  <2> HIDE DEF g, T
  <2> QED
    BY <2>1, <2>2, Fun_IsBij
<1>2. ExistsBijection(S, T)
  BY <1>1 DEF ExistsBijection
<1> QED
  BY <1>2, FS_Bijection

(* The parts of a set, by a label, add up.                                  *)
PartOf(C, lab, p) == {c \in C : lab[c] = p}
Pieces(n, L) == UNION {{p} \X (1..n[p]) : p \in L}

LEMMA PartsAddUp ==
  ASSUME NEW L, NEW C, IsFiniteSet(C), NEW lab \in [C -> L], NEW n \in [L -> Nat],
         \A p \in L : n[p] = Cardinality(PartOf(C, lab, p))
  PROVE  Cardinality(Pieces(n, L)) = Cardinality(C)
<1> USE DEF PartOf
<1> DEFINE part(p) == {c \in C : lab[c] = p}
           U == UNION {{p} \X (1..n[p]) : p \in L}
           b == [p \in L |-> CHOOSE h : h \in Bijection(1..n[p], part(p))]
           F == [x \in U |-> b[x[1]][x[2]]]
<1>1. ASSUME NEW p \in L
      PROVE  b[p] \in Bijection(1..n[p], part(p))
  <2>1. part(p) \in SUBSET C
    OBVIOUS
  <2>2. IsFiniteSet(part(p))
    BY <2>1, FS_Subset
  <2>3. ExistsBijection(1..n[p], part(p))
    BY <2>2, FS_CardinalityType
  <2>4. \E h : h \in Bijection(1..n[p], part(p))
    BY <2>3 DEF ExistsBijection
  <2> HIDE DEF part
  <2> QED
    BY <2>4
<1>2. \A x : x \in U <=> \E p \in L : \E i \in 1..n[p] : x = <<p, i>>
  OBVIOUS
<1>3. \A p \in L : \A i \in 1..n[p] : <<p, i>> \in U /\ F[<<p, i>>] = b[p][i]
  BY <1>2
<1>4. F \in [U -> C]
  <2> SUFFICES ASSUME NEW x \in U
               PROVE  b[x[1]][x[2]] \in C
    OBVIOUS
  <2>1. PICK p \in L : \E i \in 1..n[p] : x = <<p, i>>
    BY <1>2
  <2>2. PICK i \in 1..n[p] : x = <<p, i>>
    BY <2>1
  <2> HIDE DEF b, part
  <2>3. b[p][i] \in part(p)
    BY <1>1, Fun_BijectionProperties
  <2> USE DEF part
  <2> QED
    BY <2>2, <2>3
<1> HIDE DEF F, U
<1>5. \A x, y \in U : F[x] = F[y] => x = y
  <2> SUFFICES ASSUME NEW x \in U, NEW y \in U, F[x] = F[y]
               PROVE  x = y
    OBVIOUS
  <2>1. PICK p \in L : \E i \in 1..n[p] : x = <<p, i>>
    BY <1>2
  <2>2. PICK i \in 1..n[p] : x = <<p, i>>
    BY <2>1
  <2>3. PICK q \in L : \E j \in 1..n[q] : y = <<q, j>>
    BY <1>2
  <2>4. PICK j \in 1..n[q] : y = <<q, j>>
    BY <2>3
  <2>5. b[p][i] = b[q][j]
    BY <1>3, <2>2, <2>4
  <2> HIDE DEF b, part
  <2>6. b[p][i] \in part(p) /\ b[q][j] \in part(q)
    BY <1>1, Fun_BijectionProperties
  <2>7. p = q
    BY <2>5, <2>6 DEF part
  <2>8. b[p] \in Bijection(1..n[p], part(p)) /\ j \in 1..n[p]
    BY <1>1, <2>7
  <2>9. i = j
    BY <2>5, <2>7, <2>8, Fun_BijectionProperties
  <2> QED
    BY <2>2, <2>4, <2>7, <2>9
<1>6. \A c \in C : \E x \in U : F[x] = c
  <2> TAKE c \in C
  <2>1. lab[c] \in L /\ c \in part(lab[c])
    OBVIOUS
  <2> HIDE DEF b, part
  <2>2. PICK i \in 1..n[lab[c]] : b[lab[c]][i] = c
    BY <1>1, <2>1, Fun_BijectionProperties
  <2> QED
    BY <1>3, <2>1, <2>2
<1>7. F \in Bijection(U, C)
  BY <1>4, <1>5, <1>6, Fun_IsBij
<1>8. ExistsBijection(C, U)
  BY <1>7, Fun_ExistsBijSymmetric DEF ExistsBijection
<1> QED
  BY <1>8, FS_Bijection DEF U, Pieces

(* A set of records stands for as many cells.                               *)
CellsOf(B, f, U) == {c \in U : f[c] \in B}

LEMMA RecordsAreCells ==
  ASSUME NEW f, NEW U, IsFiniteSet(U), \A c, d \in U : f[c] = f[d] => c = d,
         NEW B, \A r \in B : \E c \in U : r = f[c]
  PROVE  Cardinality(B) = Cardinality(CellsOf(B, f, U))
<1> DEFINE S == {c \in U : f[c] \in B}
<1>1. S \in SUBSET U
  OBVIOUS
<1>2. IsFiniteSet(S)
  BY <1>1, FS_Subset
<1>3. B = {f[c] : c \in S}
  OBVIOUS
<1>4. \A c, d \in S : f[c] = f[d] => c = d
  OBVIOUS
<1> HIDE DEF S
<1>5. Cardinality({f[c] : c \in S}) = Cardinality(S)
  BY <1>2, <1>4, AsManyAsCells
<1> QED
  BY <1>3, <1>5 DEF S, CellsOf

-----------------------------------------------------------------------------
(* The index: the row that stands is one of the rows.                       *)

LEMMA RanksAreNumbers == \A p \in Protocol : Rank(p) \in Nat
<1> SUFFICES ASSUME NEW p \in Protocol
             PROVE  Rank(p) \in Nat
  OBVIOUS
<1>1. DOMAIN Protocols = 1..7
  BY DEF Protocols
<1>2. \E i \in DOMAIN Protocols : Protocols[i] = p
  BY DEF Protocol
<1>3. Rank(p) \in DOMAIN Protocols
  BY <1>2 DEF Rank
<1> QED
  BY <1>1, <1>3

LEMMA TheLastRowIsARow ==
  ASSUME NEW file, NEW rows, rows # {}, IsFiniteSet(rows), rows \subseteq Nat,
         \A i \in rows : file[i].protocol \in Protocol
  PROVE  LastRow(file, rows) \in rows
<1> DEFINE rank(i) == Rank(file[i].protocol)
           after(i) == {j \in rows : rank(i) < rank(j) \/ (rank(i) = rank(j) /\ i < j)}
           Afters == {after(i) : i \in rows}
<1>1. \A i \in rows : i \in Nat /\ rank(i) \in Nat
  BY RanksAreNumbers
<1> HIDE DEF rank
<1>2. Afters # {} /\ Afters \subseteq FiniteSubsetsOf(rows)
  <2>1. \A i \in rows : after(i) \in SUBSET rows /\ IsFiniteSet(after(i))
    BY FS_Subset
  <2> QED
    BY <2>1 DEF FiniteSubsetsOf
<1>3. PICK A \in Afters : \A B \in Afters : ~ (<<B, A>> \in StrictSubsetOrdering(rows))
  <2> HIDE DEF Afters
  <2> QED
    BY <1>2, FS_StrictSubsetOrderingWellFounded, WFMin
<1>4. PICK i \in rows : A = after(i)
  OBVIOUS
<1>5. after(i) = {}
  <2> SUFFICES ASSUME NEW j \in after(i)
               PROVE  FALSE
    OBVIOUS
  <2>1. after(j) \in Afters
    OBVIOUS
  <2>2. after(j) \subseteq after(i)
    <3> SUFFICES ASSUME NEW k \in rows, rank(j) < rank(k) \/ (rank(j) = rank(k) /\ j < k)
                 PROVE  rank(i) < rank(k) \/ (rank(i) = rank(k) /\ i < k)
      OBVIOUS
    <3>1. rank(i) < rank(j) \/ (rank(i) = rank(j) /\ i < j)
      OBVIOUS
    <3>2. /\ rank(i) \in Nat /\ rank(j) \in Nat /\ rank(k) \in Nat
          /\ i \in Nat /\ j \in Nat /\ k \in Nat
      BY <1>1
    <3> QED
      BY <3>1, <3>2
  <2>3. j \in after(i) /\ j \notin after(j)
    BY <1>1
  <2>4. <<after(j), after(i)>> \in StrictSubsetOrdering(rows)
    BY <2>2, <2>3 DEF StrictSubsetOrdering
  <2> QED
    BY <1>3, <1>4, <2>1, <2>4
<1>6. \A j \in rows : rank(j) < rank(i) \/ (rank(j) = rank(i) /\ j <= i)
  BY <1>1, <1>5
<1>7. \E k \in rows : \A j \in rows :
        LET p == Rank(file[k].protocol)
            q == Rank(file[j].protocol)
        IN q < p \/ (q = p /\ j <= k)
  BY <1>6 DEF rank
<1> QED
  BY <1>7 DEF LastRow

Held(fib, pol) == {c \in Cells : Rows(fib, c, pol) # {}}

(* An index has the cells with a row left, and a route of the file in each. *)
LEMMA IndexOfRows ==
  ASSUME NEW fib \in [Tables -> Seq(Routes)], NEW pol
  PROVE  /\ DOMAIN Index(fib, pol) = Held(fib, pol)
         /\ \A c \in Held(fib, pol) : Index(fib, pol)[c] \in Routes
<1> DEFINE route(c) == fib[c[1]][LastRow(fib[c[1]], Rows(fib, c, pol))]
<1>1. Index(fib, pol) = [c \in Held(fib, pol) |-> route(c)]
  BY DEF Index, Held
<1>2. ASSUME NEW c \in Held(fib, pol)
      PROVE  route(c) \in Routes
  <2> DEFINE file == fib[c[1]]
             rows == Rows(fib, c, pol)
  <2>1. c[1] \in Tables /\ rows # {}
    BY DEF Held, Cells
  <2>2. file \in Seq(Routes)
    BY <2>1
  <2>3. rows \in SUBSET (1..Len(file))
    BY <2>2 DEF Rows
  <2>4. IsFiniteSet(rows) /\ rows \subseteq Nat
    <3>1. Len(file) \in Nat
      BY <2>2
    <3>2. IsFiniteSet(1..Len(file))
      BY <3>1, FS_Interval
    <3> QED
      BY <2>3, <3>2, FS_Subset
  <2>5. \A i \in rows : file[i] \in Routes /\ file[i].protocol \in Protocol
    BY <2>2, <2>3, RoutesAssumption
  <2> HIDE DEF file, rows
  <2>6. LastRow(file, rows) \in rows
    BY <2>1, <2>4, <2>5, TheLastRowIsARow
  <2> QED
    BY <2>5, <2>6 DEF file, rows
<1> HIDE DEF route
<1> QED
  BY <1>1, <1>2

-----------------------------------------------------------------------------
(* The counts of diff_fibs, aggregate and _pairwise_agreement, in cells.    *)

(* What the computations assume of their indexes.                           *)
Sound(x) == IsIndex(x) /\ \A c \in DOMAIN x : x[c].protocol \in Protocol

LEMMA NoneIsNoProtocol == None \notin Protocol
<1>1. DOMAIN Protocols = 1..7
  BY DEF Protocols
<1> QED
  BY <1>1 DEF Protocol, Protocols, None

(* The cells of two indexes: those in both, with the same next hops, with   *)
(* the same protocol, with BGP routes, with equal BGP routes, with a given  *)
(* protocol in the first, and these with the same next hops.                *)
SameHops(x, y) == {c \in Both(x, y) : x[c].hops = y[c].hops}
SameProtocol(x, y) == {c \in Both(x, y) : x[c].protocol = y[c].protocol}
BothBgp(x, y) == {c \in Both(x, y) : x[c].protocol = "bgp" /\ y[c].protocol = "bgp"}
SameBgp(x, y) == {c \in BothBgp(x, y) : x[c].attrs = y[c].attrs}
Of(x, y, p) == {c \in Both(x, y) : x[c].protocol = p}
SameHopsOf(x, y, p) == {c \in Both(x, y) : x[c].protocol = p /\ x[c].hops = y[c].hops}

(* A record of diff_fibs, field by field.                                   *)
LEMMA RecordOf ==
  ASSUME NEW ix, \A s \in Sources : Sound(ix[s]), NEW cell, NEW sim \in Simulators
  PROVE  LET r == Record(ix, cell)
             v == ix["vendor"]
             x == ix[sim]
         IN /\ r.cell = cell
            /\ \A s \in Sources : (r.protocol[s] # None) <=> (cell \in DOMAIN ix[s])
            /\ {"vendor", sim} \subseteq r.presence <=> cell \in Both(v, x)
            /\ cell \in Both(v, x) =>
                 /\ r.protocol["vendor"] = v[cell].protocol
                 /\ r.nextHop[sim] = "yes" <=> cell \in SameHops(v, x)
                 /\ r.sameProtocol[sim] = "yes" <=> cell \in SameProtocol(v, x)
                 /\ r.bgp[sim] # None <=> cell \in BothBgp(v, x)
                 /\ r.bgp[sim] = "yes" <=> cell \in SameBgp(v, x)
<1> DEFINE r == Record(ix, cell)
           v == ix["vendor"]
           x == ix[sim]
           presence == {s \in Sources : cell \in DOMAIN ix[s]}
           both(o) == {"vendor", o} \subseteq presence
<1>1. "vendor" \in Sources /\ sim \in Sources
  BY DEF Sources
<1>2. r.cell = cell /\ r.presence = presence
  BY DEF Record
<1>3. r.protocol = [s \in Sources |-> IF s \in presence THEN ix[s][cell].protocol ELSE None]
  BY DEF Record
<1>4. r.nextHop = [o \in Simulators |->
                     IF both(o) THEN Answer(v[cell].hops = ix[o][cell].hops) ELSE None]
  BY DEF Record
<1>5. r.sameProtocol = [o \in Simulators |->
                     IF both(o) THEN Answer(v[cell].protocol = ix[o][cell].protocol) ELSE None]
  BY DEF Record
<1>6. r.bgp = [o \in Simulators |->
                     IF both(o) THEN BgpAttrsMatch(v[cell], ix[o][cell]) ELSE None]
  BY DEF Record
<1>7. both(sim) <=> cell \in Both(v, x)
  BY <1>1 DEF Both
<1> HIDE DEF r
<1>8. \A s \in Sources : (r.protocol[s] # None) <=> (cell \in DOMAIN ix[s])
  BY <1>3, NoneIsNoProtocol DEF Sound
<1>9. ASSUME cell \in Both(v, x)
      PROVE  /\ r.protocol["vendor"] = v[cell].protocol
             /\ r.nextHop[sim] = Answer(v[cell].hops = x[cell].hops)
             /\ r.sameProtocol[sim] = Answer(v[cell].protocol = x[cell].protocol)
             /\ r.bgp[sim] = BgpAttrsMatch(v[cell], x[cell])
  <2>1. "vendor" \in presence
    BY <1>1, <1>9 DEF Both
  <2> QED
    BY <1>1, <1>3, <1>4, <1>5, <1>6, <1>7, <1>9, <2>1
<1> HIDE DEF both, presence, v, x
<1>10. ASSUME cell \in Both(v, x)
       PROVE  /\ r.nextHop[sim] = "yes" <=> cell \in SameHops(v, x)
              /\ r.sameProtocol[sim] = "yes" <=> cell \in SameProtocol(v, x)
              /\ r.bgp[sim] # None <=> cell \in BothBgp(v, x)
              /\ r.bgp[sim] = "yes" <=> cell \in SameBgp(v, x)
  BY <1>9, <1>10 DEF SameHops, SameProtocol, BothBgp, SameBgp, Answer, BgpAttrsMatch, None
<1>11. {"vendor", sim} \subseteq r.presence <=> cell \in Both(v, x)
  BY <1>2, <1>7 DEF both
<1> QED
  BY <1>2, <1>8, <1>9, <1>10, <1>11 DEF r, v, x

(* The cells of some index, and the records of diff_fibs.                   *)
AllCells(ix) == UNION {DOMAIN ix[s] : s \in Sources}
AllRecords(ix) == {Record(ix, c) : c \in AllCells(ix)}

LEMMA AllCellsAreFinite ==
  ASSUME NEW ix, \A s \in Sources : Sound(ix[s])
  PROVE  IsFiniteSet(AllCells(ix))
<1>1. \A s \in Sources : IsFiniteSet(DOMAIN ix[s])
  BY DEF Sound, IsIndex
<1>2. AllCells(ix)
        = DOMAIN ix["vendor"] \cup (DOMAIN ix["batfish"] \cup DOMAIN ix["hammerhead"])
  BY DEF AllCells, Sources, Simulators
<1>3. /\ IsFiniteSet(DOMAIN ix["vendor"])
      /\ IsFiniteSet(DOMAIN ix["batfish"]) /\ IsFiniteSet(DOMAIN ix["hammerhead"])
  BY <1>1 DEF Sources, Simulators
<1>4. IsFiniteSet(DOMAIN ix["batfish"] \cup DOMAIN ix["hammerhead"])
  BY <1>3, FS_Union
<1>5. IsFiniteSet(DOMAIN ix["vendor"] \cup (DOMAIN ix["batfish"] \cup DOMAIN ix["hammerhead"]))
  BY <1>3, <1>4, FS_Union
<1> QED
  BY <1>2, <1>5

(* A set of the records of diff_fibs counts the cells that it stands for.   *)
LEMMA CountOfRecords ==
  ASSUME NEW ix, \A s \in Sources : Sound(ix[s]),
         NEW B \in SUBSET AllRecords(ix)
  PROVE  Cardinality(B) = Cardinality({c \in AllCells(ix) : Record(ix, c) \in B})
<1> DEFINE U == AllCells(ix)
           f == [c \in U |-> Record(ix, c)]
<1>1. \A c, d \in U : f[c] = f[d] => c = d
  <2>1. "batfish" \in Simulators
    BY DEF Simulators
  <2>2. \A c : Record(ix, c).cell = c
    BY <2>1, RecordOf
  <2>3. \A c \in U : f[c].cell = c
    BY <2>2
  <2> QED
    BY <2>3
<1>2. IsFiniteSet(U)
  BY AllCellsAreFinite
<1>3. \A r \in B : \E c \in U : r = f[c]
  BY DEF AllRecords
<1>4. CellsOf(B, f, U) = {c \in U : Record(ix, c) \in B}
  BY DEF CellsOf
<1> HIDE DEF f, U
<1>5. Cardinality(B) = Cardinality(CellsOf(B, f, U))
  BY <1>1, <1>2, <1>3, RecordsAreCells
<1> QED
  BY <1>4, <1>5 DEF U

(* _collect, in cells.                                                      *)
LEMMA CollectOf ==
  ASSUME NEW ix, \A s \in Sources : Sound(ix[s]), NEW sim \in Simulators,
         NEW D, D = AllRecords(ix)
  PROVE  LET v == ix["vendor"]
             x == ix[sim]
         IN Collect(D, sim) =
              [present |-> Cardinality(Both(v, x)),
               nextHop |-> Cardinality(SameHops(v, x)),
               protocol |-> Cardinality(SameProtocol(v, x)),
               bgpTotal |-> Cardinality(BothBgp(v, x)),
               bgp |-> Cardinality(SameBgp(v, x)),
               perTotal |-> [p \in Protocol |-> Cardinality(Of(v, x, p))],
               perMatch |-> [p \in Protocol |-> Cardinality(SameHopsOf(v, x, p))]]
<1> DEFINE v == ix["vendor"]
           x == ix[sim]
           U == AllCells(ix)
           compared == {r \in D : {"vendor", sim} \subseteq r.presence}
           R(c) == Record(ix, c)
<1>1. Both(v, x) \subseteq U /\ D = {R(c) : c \in U}
  BY DEF Both, Sources, AllCells, AllRecords
<1>2. \A B \in SUBSET D : Cardinality(B) = Cardinality({c \in U : R(c) \in B})
  BY CountOfRecords
<1>3. \A c \in U : R(c) \in compared <=> c \in Both(v, x)
  BY <1>1, RecordOf
<1>4. \A c \in Both(v, x) :
        /\ R(c).protocol["vendor"] = v[c].protocol
        /\ R(c).nextHop[sim] = "yes" <=> c \in SameHops(v, x)
        /\ R(c).sameProtocol[sim] = "yes" <=> c \in SameProtocol(v, x)
        /\ R(c).bgp[sim] # None <=> c \in BothBgp(v, x)
        /\ R(c).bgp[sim] = "yes" <=> c \in SameBgp(v, x)
  BY RecordOf
<1>5. compared \in SUBSET D
  OBVIOUS
<1> HIDE DEF compared, R, U, v, x
<1>6. Cardinality(compared) = Cardinality(Both(v, x))
  <2>1. {c \in U : R(c) \in compared} = Both(v, x)
    BY <1>1, <1>3
  <2> QED
    BY <1>2, <1>5, <2>1
<1>7. Cardinality({r \in compared : r.nextHop[sim] = "yes"}) = Cardinality(SameHops(v, x))
  <2> DEFINE B == {r \in compared : r.nextHop[sim] = "yes"}
  <2>1. B \in SUBSET D
    BY <1>5
  <2>2. {c \in U : R(c) \in B} = SameHops(v, x)
    BY <1>1, <1>3, <1>4 DEF SameHops
  <2> QED
    BY <1>2, <2>1, <2>2
<1>8. Cardinality({r \in compared : r.sameProtocol[sim] = "yes"})
        = Cardinality(SameProtocol(v, x))
  <2> DEFINE B == {r \in compared : r.sameProtocol[sim] = "yes"}
  <2>1. B \in SUBSET D
    BY <1>5
  <2>2. {c \in U : R(c) \in B} = SameProtocol(v, x)
    BY <1>1, <1>3, <1>4 DEF SameProtocol
  <2> QED
    BY <1>2, <2>1, <2>2
<1>9. Cardinality({r \in compared : r.bgp[sim] # None}) = Cardinality(BothBgp(v, x))
  <2> DEFINE B == {r \in compared : r.bgp[sim] # None}
  <2>1. B \in SUBSET D
    BY <1>5
  <2>2. {c \in U : R(c) \in B} = BothBgp(v, x)
    BY <1>1, <1>3, <1>4 DEF BothBgp
  <2> QED
    BY <1>2, <2>1, <2>2
<1>10. Cardinality({r \in compared : r.bgp[sim] = "yes"}) = Cardinality(SameBgp(v, x))
  <2> DEFINE B == {r \in compared : r.bgp[sim] = "yes"}
  <2>1. B \in SUBSET D
    BY <1>5
  <2>2. {c \in U : R(c) \in B} = SameBgp(v, x)
    BY <1>1, <1>3, <1>4 DEF SameBgp, BothBgp
  <2> QED
    BY <1>2, <2>1, <2>2
<1>11. ASSUME NEW p \in Protocol
       PROVE  Cardinality({r \in compared : r.protocol["vendor"] = p})
                = Cardinality(Of(v, x, p))
  <2> DEFINE B == {r \in compared : r.protocol["vendor"] = p}
  <2>1. B \in SUBSET D
    BY <1>5
  <2>2. {c \in U : R(c) \in B} = Of(v, x, p)
    BY <1>1, <1>3, <1>4 DEF Of
  <2> QED
    BY <1>2, <2>1, <2>2
<1>12. ASSUME NEW p \in Protocol
       PROVE  Cardinality({r \in compared : r.protocol["vendor"] = p /\ r.nextHop[sim] = "yes"})
                = Cardinality(SameHopsOf(v, x, p))
  <2> DEFINE B == {r \in compared : r.protocol["vendor"] = p /\ r.nextHop[sim] = "yes"}
  <2>1. B \in SUBSET D
    BY <1>5
  <2>2. {c \in U : R(c) \in B} = SameHopsOf(v, x, p)
    BY <1>1, <1>3, <1>4 DEF SameHopsOf, SameHops
  <2> QED
    BY <1>2, <2>1, <2>2
<1>13. Collect(D, sim) = Tally(compared, sim)
  BY DEF Collect, compared
<1> QED
  BY <1>6, <1>7, <1>8, <1>9, <1>10, <1>11, <1>12, <1>13 DEF Tally, Count, v, x

(* aggregate's totals, in cells.                                            *)
LEMMA TotalOf ==
  ASSUME NEW ix, \A s \in Sources : Sound(ix[s]), NEW s \in Sources,
         NEW D, D = AllRecords(ix)
  PROVE  Metrics(D).total[s] = Cardinality(DOMAIN ix[s])
<1> DEFINE U == AllCells(ix)
           B == {r \in D : r.protocol[s] # None}
<1>1. Cardinality(B) = Cardinality({c \in U : Record(ix, c) \in B})
  BY CountOfRecords
<1>2. DOMAIN ix[s] \subseteq U /\ \A c \in U : Record(ix, c) \in B <=> c \in DOMAIN ix[s]
  <2>1. "batfish" \in Simulators
    BY DEF Simulators
  <2>2. \A c \in U : Record(ix, c).protocol[s] # None <=> c \in DOMAIN ix[s]
    BY <2>1, RecordOf
  <2> QED
    BY <2>2 DEF AllCells, AllRecords
<1>3. {c \in U : Record(ix, c) \in B} = DOMAIN ix[s]
  BY <1>2
<1>4. Metrics(D).total = [t \in Sources |-> Cardinality({r \in D : r.protocol[t] # None})]
  BY DEF Metrics, Count
<1> HIDE DEF B
<1> QED
  BY <1>1, <1>3, <1>4 DEF B

-----------------------------------------------------------------------------
(* What is scored is what the files hold.                                   *)

AgreeingHops(x, y) == {c \in Both(x, y) : NextHopsAgree(x[c], y[c])}

Indexes(ws, pol) == [s \in Sources |-> Index(ws[s], pol)]

Computed ==
  [scored |-> TRUE, withTruth |-> Metrics(DiffFibs(fibs, policy)),
   threeWay |-> ThreeWay(fibs, policy), simOnly |-> SimOnly(fibs, policy)]

ScoringInv ==
  /\ fibs \in [Sources -> [Tables -> Seq(Routes)]]
  /\ policy \in Policies
  /\ scores = NoScores \/ scores = Computed

(* The files hold routes, and scores are of the files as they are.          *)
THEOREM ScoringInvariance == Spec => []ScoringInv
<1>1. Init => ScoringInv
  BY DEF Init, ScoringInv
<1>2. ScoringInv /\ [Next]_vars => ScoringInv'
  <2> SUFFICES ASSUME ScoringInv, [Next]_vars
               PROVE  ScoringInv'
    OBVIOUS
  <2>1. ASSUME NEW s \in Sources, NEW t \in Tables, NEW r \in Routes, EmitRoute(s, t, r)
        PROVE  ScoringInv'
    <3>1. fibs' \in [Sources -> [Tables -> Seq(Routes)]]
      <4>1. fibs[s][t] \in Seq(Routes)
        BY DEF ScoringInv
      <4>2. Append(fibs[s][t], r) \in Seq(Routes)
        BY <4>1
      <4> QED
        BY <2>1, <4>2 DEF ScoringInv, EmitRoute
    <3> QED
      BY <2>1, <3>1 DEF ScoringInv, EmitRoute, NoScores
  <2>2. ASSUME Score
        PROVE  ScoringInv'
    BY <2>2 DEF ScoringInv, Score, Computed
  <2>3. ASSUME UNCHANGED vars
        PROVE  ScoringInv'
    BY <2>3 DEF ScoringInv, vars, Computed
  <2> QED
    BY <2>1, <2>2, <2>3 DEF Next
<1> QED
  BY <1>1, <1>2, PTL DEF Spec

LEMMA IndexesAreSound ==
  ASSUME ScoringInv, NEW s \in Sources
  PROVE  /\ Sound(Indexes(fibs, policy)[s])
         /\ DOMAIN Indexes(fibs, policy)[s] = Held(fibs[s], policy)
<1>1. fibs[s] \in [Tables -> Seq(Routes)]
  BY DEF ScoringInv
<1>2. Indexes(fibs, policy)[s] = Index(fibs[s], policy)
  BY DEF Indexes
<1>3. /\ DOMAIN Index(fibs[s], policy) = Held(fibs[s], policy)
      /\ \A c \in Held(fibs[s], policy) : Index(fibs[s], policy)[c] \in Routes
  BY <1>1, IndexOfRows
<1>4. IsIndex(Index(fibs[s], policy))
  BY IndexIsIndex
<1> QED
  BY <1>2, <1>3, <1>4, RoutesAssumption DEF Sound

(* The parts of two indexes are finite and lie in one another.              *)
LEMMA PartsNest ==
  ASSUME NEW x, NEW y, Sound(x), Sound(y)
  PROVE  /\ IsFiniteSet(Both(x, y)) /\ IsFiniteSet(SameHops(x, y))
         /\ IsFiniteSet(AgreeingHops(x, y))
         /\ Cardinality(SameProtocol(x, y)) <= Cardinality(Both(x, y))
         /\ Cardinality(BothBgp(x, y)) <= Cardinality(SameProtocol(x, y))
         /\ Cardinality(BothBgp(x, y)) <= Cardinality(Of(x, y, "bgp"))
         /\ Cardinality(SameBgp(x, y)) <= Cardinality(BothBgp(x, y))
         /\ Cardinality(SameHops(x, y)) <= Cardinality(AgreeingHops(x, y))
         /\ \A p \in Protocol : Cardinality(SameHopsOf(x, y, p)) <= Cardinality(Of(x, y, p))
<1>1. IsFiniteSet(Both(x, y))
  BY FS_Intersection DEF Sound, IsIndex, Both
<1>2. /\ SameProtocol(x, y) \in SUBSET Both(x, y) /\ BothBgp(x, y) \in SUBSET SameProtocol(x, y)
      /\ BothBgp(x, y) \in SUBSET Of(x, y, "bgp") /\ SameBgp(x, y) \in SUBSET BothBgp(x, y)
      /\ Of(x, y, "bgp") \in SUBSET Both(x, y) /\ SameHops(x, y) \in SUBSET Both(x, y)
      /\ AgreeingHops(x, y) \in SUBSET Both(x, y)
  BY DEF SameProtocol, BothBgp, Of, SameBgp, SameHops, AgreeingHops
<1>3. SameHops(x, y) \in SUBSET AgreeingHops(x, y)
  BY SameHopsAgree DEF SameHops, AgreeingHops
<1>4. /\ IsFiniteSet(SameProtocol(x, y)) /\ IsFiniteSet(Of(x, y, "bgp"))
      /\ IsFiniteSet(SameHops(x, y)) /\ IsFiniteSet(AgreeingHops(x, y))
      /\ Cardinality(SameProtocol(x, y)) <= Cardinality(Both(x, y))
  BY <1>1, <1>2, FS_Subset
<1>5. /\ IsFiniteSet(BothBgp(x, y))
      /\ Cardinality(BothBgp(x, y)) <= Cardinality(SameProtocol(x, y))
      /\ Cardinality(BothBgp(x, y)) <= Cardinality(Of(x, y, "bgp"))
      /\ Cardinality(SameHops(x, y)) <= Cardinality(AgreeingHops(x, y))
  BY <1>2, <1>3, <1>4, FS_Subset
<1>6. Cardinality(SameBgp(x, y)) <= Cardinality(BothBgp(x, y))
  BY <1>2, <1>5, FS_Subset
<1>7. ASSUME NEW p \in Protocol
      PROVE  Cardinality(SameHopsOf(x, y, p)) <= Cardinality(Of(x, y, p))
  <2>1. Of(x, y, p) \in SUBSET Both(x, y) /\ SameHopsOf(x, y, p) \in SUBSET Of(x, y, p)
    BY DEF Of, SameHopsOf
  <2>2. IsFiniteSet(Of(x, y, p))
    BY <1>1, <2>1, FS_Subset
  <2> QED
    BY <2>1, <2>2, FS_Subset
<1> QED
  BY <1>1, <1>4, <1>5, <1>6, <1>7

(* A breakdown by protocol adds up to the whole.                            *)
LEMMA ProtocolsAddUp ==
  ASSUME NEW x, NEW y, Sound(x), Sound(y),
         NEW C, C \subseteq Both(x, y),
         NEW n, n = [p \in Protocol |-> Cardinality({c \in C : x[c].protocol = p})]
  PROVE  Cardinality(UNION {{p} \X (1..n[p]) : p \in Protocol}) = Cardinality(C)
<1> DEFINE lab == [c \in C |-> x[c].protocol]
<1>1. IsFiniteSet(C)
  BY PartsNest, FS_Subset
<1>2. \A p \in Protocol : Cardinality({c \in C : x[c].protocol = p}) \in Nat
  <2> TAKE p \in Protocol
  <2>1. {c \in C : x[c].protocol = p} \in SUBSET C
    OBVIOUS
  <2> QED
    BY <1>1, <2>1, FS_Subset, FS_CardinalityType
<1>3. n \in [Protocol -> Nat]
  BY <1>2
<1>4. lab \in [C -> Protocol]
  BY DEF Sound, Both
<1>5. \A p \in Protocol : n[p] = Cardinality(PartOf(C, lab, p))
  <2> TAKE p \in Protocol
  <2>1. PartOf(C, lab, p) = {c \in C : x[c].protocol = p}
    BY DEF PartOf
  <2> QED
    BY <2>1
<1> HIDE DEF lab
<1>6. Cardinality(Pieces(n, Protocol)) = Cardinality(C)
  BY ONLY <1>1, <1>3, <1>4, <1>5, PartsAddUp
<1> QED
  BY <1>6 DEF Pieces

LEMMA RecordsOfTheFiles ==
  ASSUME NEW ws, NEW pol
  PROVE  DiffFibs(ws, pol) = AllRecords(Indexes(ws, pol))
BY DEF DiffFibs, AllRecords, AllCells, Indexes

(* Whatever files are scored, metrics.json adds up: a simulator is compared *)
(* in exactly the cells where it and the routers have a row left, the       *)
(* breakdown by protocol partitions them, and no rate exceeds one.          *)
THEOREM MetricsAddUp == Spec => []CountsAddUp
<1>1. ScoringInv => CountsAddUp
  <2> SUFFICES ASSUME ScoringInv, scores.scored
               PROVE  CountsAddUp
    BY DEF CountsAddUp
  <2> DEFINE ix == Indexes(fibs, policy)
             D == DiffFibs(fibs, policy)
             sum(f) == Cardinality(UNION {{p} \X (1..f[p]) : p \in Protocol})
  <2>1. scores = Computed
    BY DEF ScoringInv, NoScores
  <2>2. scores.withTruth = Metrics(D)
    BY <2>1 DEF Computed
  <2>3. \A s \in Sources : Sound(ix[s])
    BY IndexesAreSound
  <2>4. D = AllRecords(ix)
    BY RecordsOfTheFiles
  <2> HIDE DEF ix, D
  <2>5. ASSUME NEW s \in Sources
        PROVE  scores.withTruth.total[s] = Cardinality(Held(fibs[s], policy))
    <3>1. DOMAIN ix[s] = Held(fibs[s], policy)
      BY IndexesAreSound DEF ix
    <3> QED
      BY <2>2, <2>3, <2>4, <3>1, TotalOf
  <2>6. ASSUME NEW sim \in Simulators
        PROVE  LET n == scores.withTruth.rates[sim]
               IN /\ n.present =
                       Cardinality(Held(fibs["vendor"], policy) \cap Held(fibs[sim], policy))
                  /\ sum(n.perTotal) = n.present /\ sum(n.perMatch) = n.nextHop
                  /\ \A p \in Protocol : n.perMatch[p] <= n.perTotal[p]
                  /\ n.bgp <= n.bgpTotal /\ n.bgpTotal <= n.perTotal["bgp"]
                  /\ n.bgpTotal <= n.protocol /\ n.protocol <= n.present
    <3> DEFINE n == scores.withTruth.rates[sim]
               v == ix["vendor"]
               x == ix[sim]
    <3>1. n = Collect(D, sim)
      BY <2>2 DEF Metrics
    <3>2. n = [present |-> Cardinality(Both(v, x)),
               nextHop |-> Cardinality(SameHops(v, x)),
               protocol |-> Cardinality(SameProtocol(v, x)),
               bgpTotal |-> Cardinality(BothBgp(v, x)),
               bgp |-> Cardinality(SameBgp(v, x)),
               perTotal |-> [p \in Protocol |-> Cardinality(Of(v, x, p))],
               perMatch |-> [p \in Protocol |-> Cardinality(SameHopsOf(v, x, p))]]
      BY <2>3, <2>4, <3>1, CollectOf
    <3> HIDE DEF n
    <3>3. /\ n.present = Cardinality(Both(v, x)) /\ n.nextHop = Cardinality(SameHops(v, x))
          /\ n.protocol = Cardinality(SameProtocol(v, x))
          /\ n.bgpTotal = Cardinality(BothBgp(v, x)) /\ n.bgp = Cardinality(SameBgp(v, x))
          /\ n.perTotal = [p \in Protocol |-> Cardinality(Of(v, x, p))]
          /\ n.perMatch = [p \in Protocol |-> Cardinality(SameHopsOf(v, x, p))]
      BY <3>2
    <3>4. /\ Sound(v) /\ Sound(x)
          /\ DOMAIN v = Held(fibs["vendor"], policy) /\ DOMAIN x = Held(fibs[sim], policy)
      BY IndexesAreSound DEF ix, Sources
    <3>5. "bgp" \in Protocol
      <4>1. DOMAIN Protocols = 1..7 /\ Protocols[1] = "bgp"
        BY DEF Protocols
      <4> QED
        BY <4>1 DEF Protocol
    <3> HIDE DEF v, x
    <3>6. n.present = Cardinality(Held(fibs["vendor"], policy) \cap Held(fibs[sim], policy))
      BY <3>3, <3>4 DEF Both
    <3>7. sum(n.perTotal) = n.present
      <4>1. n.perTotal = [p \in Protocol |-> Cardinality({c \in Both(v, x) : v[c].protocol = p})]
        BY <3>3 DEF Of
      <4> QED
        BY <3>3, <3>4, <4>1, ProtocolsAddUp
    <3>8. sum(n.perMatch) = n.nextHop
      <4> DEFINE part(p) == {c \in SameHops(v, x) : v[c].protocol = p}
      <4>1. \A p \in Protocol : SameHopsOf(v, x, p) = part(p)
        BY DEF SameHops, SameHopsOf
      <4> HIDE DEF part
      <4>2. n.perMatch = [p \in Protocol |-> Cardinality(part(p))]
        BY <3>3, <4>1
      <4> USE DEF part
      <4>3. SameHops(v, x) \subseteq Both(v, x)
        BY DEF SameHops
      <4> QED
        BY <3>3, <3>4, <4>2, <4>3, ProtocolsAddUp
    <3>9. \A p \in Protocol : n.perMatch[p] <= n.perTotal[p]
      BY <3>3, <3>4, PartsNest
    <3>10. /\ n.bgp <= n.bgpTotal /\ n.bgpTotal <= n.perTotal["bgp"]
           /\ n.bgpTotal <= n.protocol /\ n.protocol <= n.present
      BY <3>3, <3>4, <3>5, PartsNest
    <3> HIDE DEF sum
    <3> QED
      BY <3>6, <3>7, <3>8, <3>9, <3>10 DEF n
  <2> QED
    BY <2>5, <2>6 DEF CountsAddUp, Held
<1> QED
  BY <1>1, ScoringInvariance, PTL

-----------------------------------------------------------------------------
(* The three computations agree.                                            *)

LEMMA PairwiseOf ==
  ASSUME NEW x, NEW y
  PROVE  Pairwise(x, y) =
           [both |-> Cardinality(Both(x, y)), union |-> Cardinality(Union(x, y)),
            nextHop |-> Cardinality(AgreeingHops(x, y)),
            protocol |-> Cardinality(SameProtocol(x, y)),
            bgpTotal |-> Cardinality(BothBgp(x, y)),
            bgp |-> Cardinality(SameBgp(x, y))]
BY DEF Pairwise, PairCounts, Count, AgreeingHops, SameProtocol, BothBgp, SameBgp

(* A row of records.json, field by field.                                   *)
LEMMA SimOnlyRowOf ==
  ASSUME NEW x, NEW y, NEW k
  PROVE  LET r == SimOnlyRow(x, y, k)
         IN /\ r.cell = k /\ (r.both <=> k \in Both(x, y))
            /\ r.nextHop = "yes" <=> k \in AgreeingHops(x, y)
            /\ r.protocol = "yes" <=> k \in SameProtocol(x, y)
            /\ r.bgp # None <=> k \in BothBgp(x, y)
            /\ r.bgp = "yes" <=> k \in SameBgp(x, y)
<1> DEFINE r == SimOnlyRow(x, y, k)
           agree == NextHopsAgree(x[k], y[k])
<1>1. /\ r.cell = k /\ r.both = (k \in Both(x, y))
      /\ r.nextHop = IF k \in Both(x, y) THEN Answer(agree) ELSE None
      /\ r.protocol = IF k \in Both(x, y) THEN Answer(x[k].protocol = y[k].protocol) ELSE None
      /\ r.bgp = IF k \in Both(x, y) THEN BgpAttrsMatch(x[k], y[k]) ELSE None
  BY DEF SimOnlyRow
<1>2. k \in AgreeingHops(x, y) <=> k \in Both(x, y) /\ agree
  BY DEF AgreeingHops
<1> HIDE DEF r, agree
<1> QED
  BY <1>1, <1>2 DEF r, Answer, None, BgpAttrsMatch, SameProtocol, BothBgp, SameBgp

(* What _compute_sim_only_agreement counts is what _pairwise_agreement      *)
(* counts of the reconciled indexes.                                        *)
LEMMA RowsCountPairs ==
  ASSUME NEW x, NEW y, IsFiniteSet(DOMAIN x), IsFiniteSet(DOMAIN y),
         NEW D, D = {SimOnlyRow(x, y, c) : c \in Union(x, y)}
  PROVE  [both     |-> Count(D, LAMBDA r : r.both), union |-> Cardinality(D),
          nextHop  |-> Count(D, LAMBDA r : r.nextHop = "yes"),
          protocol |-> Count(D, LAMBDA r : r.protocol = "yes"),
          bgpTotal |-> Count(D, LAMBDA r : r.bgp # None),
          bgp      |-> Count(D, LAMBDA r : r.bgp = "yes")] = Pairwise(x, y)
<1> DEFINE U == Union(x, y)
           f == [c \in U |-> SimOnlyRow(x, y, c)]
<1>1. \A c \in U : f[c] = SimOnlyRow(x, y, c)
  OBVIOUS
<1>2. D = {f[c] : c \in U}
  OBVIOUS
<1>3. IsFiniteSet(U)
  BY FS_Union DEF Union
<1> HIDE DEF f
<1>4. \A c \in U :
        /\ f[c].cell = c /\ (f[c].both <=> c \in Both(x, y))
        /\ f[c].nextHop = "yes" <=> c \in AgreeingHops(x, y)
        /\ f[c].protocol = "yes" <=> c \in SameProtocol(x, y)
        /\ f[c].bgp # None <=> c \in BothBgp(x, y)
        /\ f[c].bgp = "yes" <=> c \in SameBgp(x, y)
  BY <1>1, SimOnlyRowOf
<1>5. \A c, d \in U : f[c] = f[d] => c = d
  BY <1>4
<1>6. /\ Both(x, y) \subseteq U /\ AgreeingHops(x, y) \subseteq U
      /\ SameProtocol(x, y) \subseteq U /\ BothBgp(x, y) \subseteq U
      /\ SameBgp(x, y) \subseteq U
  BY DEF Both, Union, AgreeingHops, SameProtocol, BothBgp, SameBgp
<1> HIDE DEF U
<1>7. \A B \in SUBSET D : Cardinality(B) = Cardinality(CellsOf(B, f, U))
  <2> SUFFICES ASSUME NEW B \in SUBSET D
               PROVE  Cardinality(B) = Cardinality(CellsOf(B, f, U))
    OBVIOUS
  <2>1. \A r \in B : \E c \in U : r = f[c]
    BY <1>2
  <2> QED
    BY <1>3, <1>5, <2>1, RecordsAreCells
<1>8. Cardinality(D) = Cardinality(U)
  <2>1. CellsOf(D, f, U) = U
    BY <1>2 DEF CellsOf
  <2> QED
    BY <1>7, <2>1
<1>9. Cardinality({r \in D : r.both}) = Cardinality(Both(x, y))
  <2> DEFINE B == {r \in D : r.both}
  <2>1. CellsOf(B, f, U) = Both(x, y)
    BY <1>2, <1>4, <1>6 DEF CellsOf
  <2> QED
    BY <1>7, <2>1
<1>10. Cardinality({r \in D : r.nextHop = "yes"}) = Cardinality(AgreeingHops(x, y))
  <2> DEFINE B == {r \in D : r.nextHop = "yes"}
  <2>1. CellsOf(B, f, U) = AgreeingHops(x, y)
    BY <1>2, <1>4, <1>6 DEF CellsOf
  <2> QED
    BY <1>7, <2>1
<1>11. Cardinality({r \in D : r.protocol = "yes"}) = Cardinality(SameProtocol(x, y))
  <2> DEFINE B == {r \in D : r.protocol = "yes"}
  <2>1. CellsOf(B, f, U) = SameProtocol(x, y)
    BY <1>2, <1>4, <1>6 DEF CellsOf
  <2> QED
    BY <1>7, <2>1
<1>12. Cardinality({r \in D : r.bgp # None}) = Cardinality(BothBgp(x, y))
  <2> DEFINE B == {r \in D : r.bgp # None}
  <2>1. CellsOf(B, f, U) = BothBgp(x, y)
    BY <1>2, <1>4, <1>6 DEF CellsOf
  <2> QED
    BY <1>7, <2>1
<1>13. Cardinality({r \in D : r.bgp = "yes"}) = Cardinality(SameBgp(x, y))
  <2> DEFINE B == {r \in D : r.bgp = "yes"}
  <2>1. CellsOf(B, f, U) = SameBgp(x, y)
    BY <1>2, <1>4, <1>6 DEF CellsOf
  <2> QED
    BY <1>7, <2>1
<1> QED
  BY <1>8, <1>9, <1>10, <1>11, <1>12, <1>13, PairwiseOf DEF Count, U

(* Stripping takes the one-sided loopback hosts from the union, and nothing *)
(* from what both have.                                                     *)
Stripped(x, y) == OneSided(x, y) \cup OneSided(y, x)

LEMMA StripCounts ==
  ASSUME NEW x, NEW y, Sound(x), Sound(y)
  PROVE  Pairwise(Without(x, Stripped(x, y)), Without(y, Stripped(x, y))) =
           [both |-> Pairwise(x, y).both,
            union |-> Pairwise(x, y).union - Cardinality(Stripped(x, y)),
            nextHop |-> Pairwise(x, y).nextHop, protocol |-> Pairwise(x, y).protocol,
            bgpTotal |-> Pairwise(x, y).bgpTotal, bgp |-> Pairwise(x, y).bgp]
<1> DEFINE S == Stripped(x, y)
           u == Without(x, S)
           w == Without(y, S)
<1>1. /\ DOMAIN u = DOMAIN x \ S /\ DOMAIN w = DOMAIN y \ S
      /\ \A k \in DOMAIN u : u[k] = x[k]
      /\ \A k \in DOMAIN w : w[k] = y[k]
  BY DEF Without
<1>2. S \subseteq Union(x, y) /\ S \cap Both(x, y) = {}
  BY DEF Stripped, OneSided, Union, Both
<1> HIDE DEF S, u, w
<1>3. Both(u, w) = Both(x, y) /\ Union(u, w) = Union(x, y) \ S
  BY <1>1, <1>2 DEF Both, Union
<1>4. \A k \in Both(x, y) : u[k] = x[k] /\ w[k] = y[k]
  BY <1>1, <1>3 DEF Both
<1>5. /\ AgreeingHops(u, w) = AgreeingHops(x, y) /\ SameProtocol(u, w) = SameProtocol(x, y)
      /\ BothBgp(u, w) = BothBgp(x, y)
  BY <1>3, <1>4 DEF AgreeingHops, SameProtocol, BothBgp
<1>6. SameBgp(u, w) = SameBgp(x, y)
  BY <1>3, <1>4 DEF SameBgp, BothBgp
<1>7. Cardinality(Union(u, w)) = Cardinality(Union(x, y)) - Cardinality(S)
  <2>1. IsFiniteSet(Union(x, y))
    BY FS_Union DEF Sound, IsIndex, Union
  <2>2. IsFiniteSet(S)
    BY <1>2, <2>1, FS_Subset
  <2>3. Cardinality(Union(x, y) \ S)
          = Cardinality(Union(x, y)) - Cardinality(Union(x, y) \cap S)
    BY <2>1, FS_Difference
  <2>4. Union(x, y) \cap S = S
    BY <1>2
  <2> QED
    BY <1>3, <2>3, <2>4
<1> QED
  BY <1>3, <1>5, <1>6, <1>7, PairwiseOf DEF u, w, S

(* Materializing gives both sides the one-sided loopback hosts, as equal    *)
(* rows that are never BGP.                                                 *)
LEMMA MaterializeCounts ==
  ASSUME NEW x, NEW y, Sound(x), Sound(y),
         NEW S, S = OneSided(x, y), NEW R, R = OneSided(y, x),
         NEW n, n = Cardinality(S) + Cardinality(R)
  PROVE  LET p == Pairwise(x, y)
         IN Pairwise(With(x, y, R), With(y, x, S)) =
              [both |-> p.both + n, union |-> p.union, nextHop |-> p.nextHop + n,
               protocol |-> p.protocol + n, bgpTotal |-> p.bgpTotal, bgp |-> p.bgp]
<1> DEFINE u == With(x, y, R)
           w == With(y, x, S)
<1>1. /\ DOMAIN u = DOMAIN x \cup R /\ DOMAIN w = DOMAIN y \cup S
      /\ \A k \in DOMAIN u : u[k] = IF k \in R THEN y[k] ELSE x[k]
      /\ \A k \in DOMAIN w : w[k] = IF k \in S THEN x[k] ELSE y[k]
  BY DEF With
<1>2. /\ S \subseteq DOMAIN x /\ R \subseteq DOMAIN y
      /\ S \cap DOMAIN y = {} /\ R \cap DOMAIN x = {} /\ S \cap R = {}
      /\ \A k \in S : x[k].protocol # "bgp"
      /\ \A k \in R : y[k].protocol # "bgp"
  BY DEF OneSided, LooksLikeLoopbackHost
<1> HIDE DEF u, w
<1>3. /\ Both(u, w) = Both(x, y) \cup (S \cup R) /\ Union(u, w) = Union(x, y)
      /\ (S \cup R) \cap Both(x, y) = {}
  BY <1>1, <1>2 DEF Both, Union
<1>4. /\ \A k \in Both(x, y) : u[k] = x[k] /\ w[k] = y[k]
      /\ \A k \in S \cup R : u[k] = w[k] /\ u[k].protocol # "bgp"
  BY <1>1, <1>2 DEF Both
<1>5. \A k \in S \cup R : NextHopsAgree(u[k], w[k])
  BY <1>4, SameHopsAgree
<1>6. /\ AgreeingHops(u, w) = AgreeingHops(x, y) \cup (S \cup R)
      /\ SameProtocol(u, w) = SameProtocol(x, y) \cup (S \cup R)
      /\ BothBgp(u, w) = BothBgp(x, y)
  BY <1>3, <1>4, <1>5 DEF AgreeingHops, SameProtocol, BothBgp
<1>7. SameBgp(u, w) = SameBgp(x, y)
  BY <1>3, <1>4, <1>6 DEF SameBgp, BothBgp
<1>8. /\ IsFiniteSet(S \cup R) /\ Cardinality(S \cup R) = n
      /\ n \in Nat
  <2>1. /\ IsFiniteSet(S) /\ IsFiniteSet(R)
        /\ Cardinality(S) \in Nat /\ Cardinality(R) \in Nat
    BY OneSidedIsFinite DEF Sound, IsIndex
  <2>2. Cardinality(S \cap R) = 0
    BY <1>2, FS_EmptySet
  <2>3. Cardinality(S \cup R) = Cardinality(S) + Cardinality(R) - Cardinality(S \cap R)
    BY <2>1, FS_Union
  <2>4. IsFiniteSet(S \cup R)
    BY <2>1, FS_Union
  <2> QED
    BY <2>1, <2>2, <2>3, <2>4
<1>9. ASSUME NEW P \in SUBSET Both(x, y)
      PROVE  Cardinality(P \cup (S \cup R)) = Cardinality(P) + n
  <2>1. IsFiniteSet(P)
    BY PartsNest, FS_Subset
  <2>2. P \cap (S \cup R) = {}
    BY <1>3
  <2>3. Cardinality(P \cap (S \cup R)) = 0
    BY <2>2, FS_EmptySet
  <2>4. Cardinality(P \cup (S \cup R))
          = Cardinality(P) + Cardinality(S \cup R) - Cardinality(P \cap (S \cup R))
    BY <1>8, <2>1, FS_Union
  <2>5. Cardinality(P) \in Nat
    BY <2>1, FS_CardinalityType
  <2> QED
    BY <1>8, <2>3, <2>4, <2>5
<1>10. /\ Cardinality(Both(u, w)) = Cardinality(Both(x, y)) + n
       /\ Cardinality(AgreeingHops(u, w)) = Cardinality(AgreeingHops(x, y)) + n
       /\ Cardinality(SameProtocol(u, w)) = Cardinality(SameProtocol(x, y)) + n
  <2>1. /\ AgreeingHops(x, y) \in SUBSET Both(x, y)
        /\ SameProtocol(x, y) \in SUBSET Both(x, y)
        /\ Both(x, y) \in SUBSET Both(x, y)
    BY DEF AgreeingHops, SameProtocol
  <2> QED
    BY <1>3, <1>6, <1>9, <2>1
<1> QED
  BY <1>3, <1>6, <1>7, <1>10, PairwiseOf DEF u, w

LEMMA ReconciledIsFinite ==
  ASSUME NEW x, NEW y, NEW pol \in Policies, Sound(x), Sound(y)
  PROVE  /\ IsFiniteSet(DOMAIN Reconcile(x, y, pol).x)
         /\ IsFiniteSet(DOMAIN Reconcile(x, y, pol).y)
<1>1. IsFiniteSet(DOMAIN x \cup DOMAIN y)
  BY FS_Union DEF Sound, IsIndex
<1>2. /\ DOMAIN Reconcile(x, y, pol).x \in SUBSET (DOMAIN x \cup DOMAIN y)
      /\ DOMAIN Reconcile(x, y, pol).y \in SUBSET (DOMAIN x \cup DOMAIN y)
  <2>1. CASE pol = "passthrough"
    BY <2>1, Passthrough
  <2>2. CASE pol = "strip"
    <3> DEFINE S == OneSided(x, y) \cup OneSided(y, x)
    <3>1. Reconcile(x, y, pol).x = Without(x, S) /\ Reconcile(x, y, pol).y = Without(y, S)
      BY <2>2, Strip
    <3> HIDE DEF S
    <3> QED
      BY <3>1 DEF Without
  <2>3. CASE pol = "materialize"
    <3>1. /\ Reconcile(x, y, pol).x = With(x, y, OneSided(y, x))
          /\ Reconcile(x, y, pol).y = With(y, x, OneSided(x, y))
      BY <2>3, Materialize
    <3>2. OneSided(x, y) \subseteq DOMAIN x /\ OneSided(y, x) \subseteq DOMAIN y
      BY DEF OneSided
    <3> QED
      BY <3>1, <3>2 DEF With
  <2> QED
    BY <2>1, <2>2, <2>3 DEF Policies
<1> QED
  BY <1>1, <1>2, FS_Subset

(* Whatever files are scored, the three computations agree: the triad sees  *)
(* the cells, protocols and BGP attributes that the diff sees and is only   *)
(* more lenient about next hops, and the head-to-head differs from the      *)
(* triad's by exactly the cells it says it reconciled.                      *)
THEOREM ComputationsAgree == Spec => []ModesAgree
<1>1. ScoringInv => ModesAgree
  <2> SUFFICES ASSUME ScoringInv, scores.scored
               PROVE  ModesAgree
    BY DEF ModesAgree
  <2> DEFINE ix == Indexes(fibs, policy)
             D == DiffFibs(fibs, policy)
             b == ix["batfish"]
             h == ix["hammerhead"]
             fair == Reconcile(b, h, policy)
             triad == scores.threeWay
             head == scores.simOnly
             diff == scores.withTruth
  <2>1. /\ diff = Metrics(D) /\ triad = ThreeWay(fibs, policy)
        /\ head = SimOnly(fibs, policy)
    <3>1. scores = Computed
      BY DEF ScoringInv, NoScores
    <3> QED
      BY <3>1 DEF Computed
  <2>2. \A s \in Sources : Sound(ix[s])
    BY IndexesAreSound
  <2>3. D = AllRecords(ix)
    BY RecordsOfTheFiles
  <2>4. triad = [routes |-> [s \in Sources |-> Cardinality(DOMAIN ix[s])],
                 truth |-> [sim \in Simulators |-> Pairwise(ix[sim], ix["vendor"])],
                 sims |-> Pairwise(b, h)]
    BY <2>1 DEF ThreeWay, Indexes
  <2>5. Sound(b) /\ Sound(h) /\ policy \in Policies
    BY <2>2 DEF ScoringInv, Sources, Simulators
  <2>6. /\ head.strict = [both |-> Cardinality(Both(b, h)), union |-> Cardinality(Union(b, h))]
        /\ head.reconciled = fair.count
        /\ head.sims = Pairwise(fair.x, fair.y)
    <3> DEFINE rows == {SimOnlyRow(fair.x, fair.y, k) : k \in Union(fair.x, fair.y)}
    <3>1. b = Index(fibs["batfish"], policy) /\ h = Index(fibs["hammerhead"], policy)
      BY DEF Indexes, Sources, Simulators
    <3>2. IsFiniteSet(DOMAIN fair.x) /\ IsFiniteSet(DOMAIN fair.y)
      BY <2>5, ReconciledIsFinite
    <3> DEFINE counts ==
          [both     |-> Count(rows, LAMBDA r : r.both), union |-> Cardinality(rows),
           nextHop  |-> Count(rows, LAMBDA r : r.nextHop = "yes"),
           protocol |-> Count(rows, LAMBDA r : r.protocol = "yes"),
           bgpTotal |-> Count(rows, LAMBDA r : r.bgp # None),
           bgp      |-> Count(rows, LAMBDA r : r.bgp = "yes")]
    <3>3. head = [strict |-> [both |-> Cardinality(Both(b, h)), union |-> Cardinality(Union(b, h))],
                  reconciled |-> fair.count, sims |-> counts]
      BY <2>1, <3>1 DEF SimOnly
    <3> HIDE DEF fair
    <3>4. counts = Pairwise(fair.x, fair.y)
      BY <3>2, RowsCountPairs
    <3> HIDE DEF counts
    <3> QED
      BY <3>3, <3>4
  <2> HIDE DEF ix, D, b, h, fair, triad, head, diff
  <2>7. triad.routes = diff.total
    <3>1. \A s \in Sources : diff.total[s] = Cardinality(DOMAIN ix[s])
      BY <2>1, <2>2, <2>3, TotalOf
    <3>2. diff.total = [s \in Sources |-> diff.total[s]]
      BY <2>1 DEF Metrics
    <3> QED
      BY <2>4, <3>1, <3>2
  <2>8. ASSUME NEW sim \in Simulators
        PROVE  LET x == triad.truth[sim]
                   y == diff.rates[sim]
               IN /\ <<x.both, x.protocol, x.bgpTotal, x.bgp>>
                       = <<y.present, y.protocol, y.bgpTotal, y.bgp>>
                  /\ y.nextHop <= x.nextHop
    <3> DEFINE u == ix[sim]
               v == ix["vendor"]
               x == triad.truth[sim]
               y == diff.rates[sim]
    <3>1. Sound(u) /\ Sound(v)
      BY <2>2 DEF Sources
    <3>2. x = Pairwise(u, v)
      BY <2>4
    <3>3. y = Collect(D, sim)
      BY <2>1 DEF Metrics
    <3>4. /\ y.present = Cardinality(Both(v, u)) /\ y.nextHop = Cardinality(SameHops(v, u))
          /\ y.protocol = Cardinality(SameProtocol(v, u))
          /\ y.bgpTotal = Cardinality(BothBgp(v, u)) /\ y.bgp = Cardinality(SameBgp(v, u))
      BY <2>2, <2>3, <3>3, CollectOf
    <3> HIDE DEF u, v, x, y
    <3>5. /\ x.both = Cardinality(Both(u, v)) /\ x.nextHop = Cardinality(AgreeingHops(u, v))
          /\ x.protocol = Cardinality(SameProtocol(u, v))
          /\ x.bgpTotal = Cardinality(BothBgp(u, v)) /\ x.bgp = Cardinality(SameBgp(u, v))
      BY <3>2, PairwiseOf
    <3>6. /\ Both(v, u) = Both(u, v) /\ SameHops(v, u) = SameHops(u, v)
          /\ SameProtocol(v, u) = SameProtocol(u, v) /\ BothBgp(v, u) = BothBgp(u, v)
          /\ SameBgp(v, u) = SameBgp(u, v)
      <4>1. Both(v, u) = Both(u, v)
        BY DEF Both
      <4>2. BothBgp(v, u) = BothBgp(u, v)
        BY <4>1 DEF BothBgp
      <4> QED
        BY <4>1, <4>2 DEF SameHops, SameProtocol, SameBgp
    <3>7. Cardinality(SameHops(u, v)) <= Cardinality(AgreeingHops(u, v))
      BY <3>1, PartsNest
    <3> QED
      BY <3>4, <3>5, <3>6, <3>7 DEF x, y
  <2>9. head.strict.both = triad.sims.both /\ head.strict.union = triad.sims.union
    BY <2>4, <2>6, PairwiseOf
  <2>10. CASE policy = "passthrough"
    <3>1. fair = [x |-> b, y |-> h, count |-> 0]
      BY <2>10, Passthrough DEF fair
    <3>2. head.reconciled = 0 /\ head.sims = triad.sims
      BY <2>4, <2>6, <3>1
    <3> QED
      BY <2>7, <2>8, <2>9, <2>10, <3>2 DEF ModesAgree, triad, head, diff
  <2>11. CASE policy = "strip"
    <3> DEFINE S == Stripped(b, h)
    <3>1. fair = [x |-> Without(b, S), y |-> Without(h, S), count |-> Cardinality(S)]
      BY <2>11, Strip DEF fair, Stripped
    <3>2. Sound(b) /\ Sound(h)
      BY <2>5
    <3> HIDE DEF S
    <3> DEFINE p == triad.sims
    <3>3. p = Pairwise(b, h)
      BY <2>4
    <3>4. head.sims = [both |-> p.both, union |-> p.union - Cardinality(S),
                       nextHop |-> p.nextHop, protocol |-> p.protocol,
                       bgpTotal |-> p.bgpTotal, bgp |-> p.bgp]
      BY <2>6, <3>1, <3>2, <3>3, StripCounts DEF S
    <3>5. head.reconciled = Cardinality(S)
      BY <2>6, <3>1
    <3> HIDE DEF p
    <3>6. p = [both |-> p.both, union |-> p.union, nextHop |-> p.nextHop,
               protocol |-> p.protocol, bgpTotal |-> p.bgpTotal, bgp |-> p.bgp]
      BY <3>3, PairwiseOf
    <3>7. head.sims = [p EXCEPT !.union = @ - head.reconciled]
      BY <3>4, <3>5, <3>6
    <3> QED
      BY <2>7, <2>8, <2>9, <2>11, <3>7 DEF ModesAgree, triad, head, diff, p
  <2>12. CASE policy = "materialize"
    <3> DEFINE n == head.reconciled
               counts == {"both", "nextHop", "protocol"}
    <3>1. /\ fair.x = With(b, h, OneSided(h, b)) /\ fair.y = With(h, b, OneSided(b, h))
          /\ n = Cardinality(OneSided(b, h)) + Cardinality(OneSided(h, b))
      BY <2>6, <2>12, Materialize DEF fair
    <3>2. triad.sims = Pairwise(b, h)
      BY <2>4
    <3> HIDE DEF n
    <3>3. head.sims = [both |-> triad.sims.both + n, union |-> triad.sims.union,
                       nextHop |-> triad.sims.nextHop + n,
                       protocol |-> triad.sims.protocol + n,
                       bgpTotal |-> triad.sims.bgpTotal, bgp |-> triad.sims.bgp]
      BY <2>5, <2>6, <3>1, <3>2, MaterializeCounts
    <3>4. DOMAIN triad.sims = {"both", "union", "nextHop", "protocol", "bgpTotal", "bgp"}
      BY <3>2, PairwiseOf
    <3>5. head.sims = [f \in DOMAIN triad.sims |->
                         IF f \in counts THEN triad.sims[f] + n ELSE triad.sims[f]]
      BY <3>3, <3>4
    <3> QED
      BY <2>7, <2>8, <2>9, <2>12, <3>5 DEF ModesAgree, triad, head, diff, n
  <2> QED
    BY <2>5, <2>10, <2>11, <2>12 DEF Policies
<1> QED
  BY <1>1, ScoringInvariance, PTL

-----------------------------------------------------------------------------
(* The extraction.  Between the two queries the routes may move, so what    *)
(* was printed is kept apart from what is held: the rows are of the routes  *)
(* at the first query, their attributes of the routes at the second.        *)


Way == {"gw1", "gw2", "out"}
Nothing == [ip |-> Fx!None, iface |-> Fx!None]

(* What the rows of a route may say of its next hops.                       *)
Allowed(src, r) ==
  {Fx!Meant(h) : h \in r.hops}
    \cup {h \in {Fx!NullHop} : r.hops = {} /\ src = "hammerhead"}

Phases == {"routes", "bgp", "parse", "done", "failed"}

(* What the first query printed is of the routes held then.                 *)
Printed ==
  phase \in {"bgp", "parse"} =>
    \E z \in Fx!NoAddress(source), n \in Fx!NoInterface(source), dead \in Fx!DeadHops(source) :
      routesDoc = UNION {Fx!Entries(source, r, z, n, dead) : r \in ribRead}

(* The installed BGP routes of a cell, of which there is one at most.       *)
Bgp(held, c) == {s \in held : s.cell = c /\ s.kind = "bgp" /\ s.installed}

(* What the second one printed is of the routes held since.                 *)
PathsPrinted ==
  IF source = "hammerhead"
  THEN /\ rib = ribRead /\ phase # "bgp"
       /\ \A c \in Cells : Fx!Best(bgpDoc[c]) = {}
  ELSE phase = "parse" =>
         \A c \in Cells : Fx!Best(bgpDoc[c]) = {r.path : r \in Bgp(rib, c)}

XInv ==
  /\ source \in Fx!Sources /\ phase \in Phases
  /\ rib \in Fx!Rib /\ ribRead \in Fx!Rib
  /\ Printed /\ PathsPrinted
  /\ Fx!SameRoutes /\ Fx!OwnAttributes

-----------------------------------------------------------------------------
(* The next hops of a route, printed and parsed again.                      *)

CleanHop(src, h) == [ip |-> Fx!CleanIp(src, h.ip), iface |-> Fx!CleanIface(src, h.iface)]

LEMMA PrintedHopIsMeant ==
  ASSUME NEW src \in Fx!Sources, NEW z \in Fx!NoAddress(src), NEW h \in Way
  PROVE  /\ CleanHop(src, Fx!PrintedHop(src, h, z)) = Fx!Meant(h)
         /\ Fx!PrintedHop(src, h, z).active /\ Fx!Meant(h) # Nothing
         /\ Fx!PrintedHop(src, h, z).iface = "eth"
BY DEF Fx!Sources, Fx!Routers, Fx!Simulators, Fx!NoAddress, Way, CleanHop, Fx!PrintedHop, Fx!Hop,
   Fx!Meant, Nothing,
       Fx!CleanIp, Fx!CleanIface, Fx!None

LEMMA DiscardHopIsNothing ==
  ASSUME NEW src \in Fx!Sources \ {"eos"}, NEW z \in Fx!NoAddress(src),
         NEW n \in Fx!NoInterface(src)
  PROVE  \/ CleanHop(src, Fx!DiscardHop(z, n)) = Nothing
         \/ src = "hammerhead" /\ CleanHop(src, Fx!DiscardHop(z, n)) = Fx!NullHop
BY DEF Fx!Sources, Fx!Routers, Fx!Simulators, Fx!NoAddress, Fx!NoInterface, CleanHop,
       Fx!DiscardHop, Fx!Hop, Fx!NullHop, Nothing, Fx!CleanIp, Fx!CleanIface, Fx!None

(* Up, and not of nothing.                                                  *)
Counted(src, h) ==
  /\ h.active
  /\ (IF src = "eos" THEN [ip |-> h.ip, iface |-> h.iface] ELSE CleanHop(src, h)) # Nothing

LEMMA NextHopsAre ==
  ASSUME NEW src, NEW hops
  PROVE  Fx!NextHops(src, hops) = {CleanHop(src, h) : h \in {g \in hops : Counted(src, g)}}
BY DEF Fx!NextHops, Counted, CleanHop, Nothing

LEMMA PrintedHopCounts ==
  ASSUME NEW src \in Fx!Sources, NEW z \in Fx!NoAddress(src), NEW h \in Way
  PROVE  Counted(src, Fx!PrintedHop(src, h, z))
<1>1. [ip |-> Fx!PrintedHop(src, h, z).ip, iface |-> Fx!PrintedHop(src, h, z).iface] # Nothing
  BY PrintedHopIsMeant DEF Nothing, Fx!None
<1> QED
  BY <1>1, PrintedHopIsMeant DEF Counted

(* The entries a source prints for a route.                                 *)
PrintedHops(src, r, z, n) ==
  IF r.hops = {} THEN {Fx!DiscardHop(z, n)} ELSE {Fx!PrintedHop(src, h, z) : h \in r.hops}

EntryOf(src, r, hops) ==
  [cell |-> r.cell, kind |-> r.kind, hops |-> hops,
   programmed |-> r.installed /\ ~(src = "eos" /\ r.hops = {}),
   path |-> IF src = "hammerhead" /\ r.kind = "bgp" THEN r.path ELSE Fx!None]

LEMMA RouterEntries ==
  ASSUME NEW src \in Fx!Routers, NEW r, NEW z, NEW n, NEW dead
  PROVE  Fx!Entries(src, r, z, n, dead) = {EntryOf(src, r, PrintedHops(src, r, z, n) \cup dead)}
BY DEF Fx!Entries, EntryOf, PrintedHops

LEMMA SimulatorEntry ==
  ASSUME NEW src \in Fx!Simulators, NEW r, NEW z, NEW n, NEW dead, NEW e \in Fx!Entries(src, r, z, n, dead)
  PROVE  /\ r.installed /\ (src = "hammerhead" => r.kind # "local")
         /\ \E hops \in SUBSET (PrintedHops(src, r, z, n) \cup dead) : e = EntryOf(src, r, hops)
<1>1. r.installed /\ (src = "hammerhead" => r.kind # "local")
  BY DEF Fx!Entries, Fx!Routers, Fx!Simulators
<1>2. PICK g \in PrintedHops(src, r, z, n) : e = EntryOf(src, r, {g})
  BY DEF Fx!Entries, EntryOf, PrintedHops, Fx!Routers, Fx!Simulators
<1> QED
  BY <1>1, <1>2

LEMMA SimulatorEntries ==
  ASSUME NEW src \in Fx!Simulators, NEW r, NEW z, NEW n, NEW dead, NEW g \in PrintedHops(src, r, z, n),
         r.installed, src = "hammerhead" => r.kind # "local"
  PROVE  EntryOf(src, r, {g}) \in Fx!Entries(src, r, z, n, dead)
BY DEF Fx!Entries, EntryOf, PrintedHops, Fx!Routers, Fx!Simulators

(* A source speaks of a route, in its own way.                              *)
ShownBy(src, r) ==
  /\ r.installed
  /\ ~(src = "eos" /\ r.hops = {})
  /\ ~(src = "hammerhead" /\ r.kind = "local")

LEMMA EntriesSay ==
  ASSUME NEW src \in Fx!Sources, NEW r \in Fx!Route, NEW z \in Fx!NoAddress(src),
         NEW n \in Fx!NoInterface(src), NEW dead \in Fx!DeadHops(src), NEW e \in Fx!Considered(src, Fx!Entries(src, r, z, n, dead))
  PROVE  /\ ShownBy(src, r) /\ e.cell = r.cell /\ e.kind = r.kind
         /\ e.path = IF src = "hammerhead" /\ r.kind = "bgp" THEN r.path ELSE Fx!None
         /\ Fx!NextHops(src, e.hops) \subseteq Allowed(src, r)
<1>1. e \in Fx!Entries(src, r, z, n, dead) /\ (src \in Fx!Routers => e.programmed)
  BY DEF Fx!Considered
<1>2. PICK hops \in SUBSET (PrintedHops(src, r, z, n) \cup dead) : e = EntryOf(src, r, hops)
  <2>1. CASE src \in Fx!Routers
    <3>1. e = EntryOf(src, r, PrintedHops(src, r, z, n) \cup dead)
      BY <1>1, <2>1, RouterEntries
    <3> QED
      BY <3>1
  <2>2. CASE src \in Fx!Simulators
    <3>1. e \in Fx!Entries(src, r, z, n, dead)
      BY <1>1
    <3> QED
      BY ONLY <2>2, <3>1, SimulatorEntry
  <2> QED
    BY <2>1, <2>2 DEF Fx!Sources
<1>3. ShownBy(src, r)
  <2>1. CASE src \in Fx!Routers
    BY <1>1, <1>2, <2>1 DEF EntryOf, ShownBy, Fx!Routers
  <2>2. CASE src \in Fx!Simulators
    BY <1>1, <2>2, SimulatorEntry DEF ShownBy, Fx!Simulators
  <2> QED
    BY <2>1, <2>2 DEF Fx!Sources
<1>4. r.hops \subseteq Way
  BY DEF Fx!Route, Way
<1>5. ASSUME NEW g \in hops, Counted(src, g)
      PROVE  CleanHop(src, g) \in Allowed(src, r)
  <2>1. g \notin dead
    BY <1>5 DEF Fx!DeadHops, Fx!Hop, Counted
  <2>2. g \in PrintedHops(src, r, z, n)
    BY <2>1
  <2>3. CASE r.hops = {}
    <3>1. g = Fx!DiscardHop(z, n) /\ src # "eos"
      BY <1>3, <2>2, <2>3 DEF PrintedHops, ShownBy
    <3> QED
      BY <1>5, <2>3, <3>1, DiscardHopIsNothing DEF Counted, Allowed
  <2>4. CASE r.hops # {}
    BY <1>4, <2>2, <2>4, PrintedHopIsMeant DEF PrintedHops, Allowed
  <2> QED
    BY <2>3, <2>4
<1>6. Fx!NextHops(src, hops) \subseteq Allowed(src, r)
  BY <1>5, NextHopsAre
<1> QED
  BY <1>2, <1>3, <1>6 DEF EntryOf

LEMMA EntriesAreThere ==
  ASSUME NEW src \in Fx!Sources, NEW r \in Fx!Route, NEW z \in Fx!NoAddress(src),
         NEW n \in Fx!NoInterface(src), NEW dead \in Fx!DeadHops(src), ShownBy(src, r)
  PROVE  /\ Fx!Considered(src, Fx!Entries(src, r, z, n, dead)) # {}
         /\ \A h \in r.hops : \E e \in Fx!Considered(src, Fx!Entries(src, r, z, n, dead)) :
              Fx!Meant(h) \in Fx!NextHops(src, e.hops)
<1> DEFINE doc == Fx!Entries(src, r, z, n, dead)
<1>1. r.hops \subseteq Way /\ PrintedHops(src, r, z, n) # {}
  BY DEF Fx!Route, Way, PrintedHops
<1>2. CASE src \in Fx!Routers
  <2> DEFINE e == EntryOf(src, r, PrintedHops(src, r, z, n) \cup dead)
  <2>1. e \in Fx!Considered(src, doc)
    <3>1. e \in doc
      BY <1>2, RouterEntries
    <3>2. e.programmed
      BY DEF EntryOf, ShownBy
    <3> QED
      BY <3>1, <3>2 DEF Fx!Considered
  <2>2. ASSUME NEW h \in r.hops
        PROVE  Fx!Meant(h) \in Fx!NextHops(src, e.hops)
    <3>1. Fx!PrintedHop(src, h, z) \in e.hops
      BY DEF EntryOf, PrintedHops
    <3> QED
      BY <1>1, <3>1, NextHopsAre, PrintedHopCounts, PrintedHopIsMeant
  <2> QED
    BY <2>1, <2>2
<1>3. CASE src \in Fx!Simulators
  <2>1. \A g \in PrintedHops(src, r, z, n) : EntryOf(src, r, {g}) \in Fx!Considered(src, doc)
    <3> TAKE g \in PrintedHops(src, r, z, n)
    <3>1. EntryOf(src, r, {g}) \in doc
      BY <1>3, SimulatorEntries DEF ShownBy
    <3> QED
      BY <1>3, <3>1 DEF Fx!Considered, Fx!Routers, Fx!Simulators
  <2>2. ASSUME NEW h \in r.hops
        PROVE  \E e \in Fx!Considered(src, doc) : Fx!Meant(h) \in Fx!NextHops(src, e.hops)
    <3> DEFINE g == Fx!PrintedHop(src, h, z)
    <3>1. g \in PrintedHops(src, r, z, n)
      BY DEF PrintedHops
    <3>2. EntryOf(src, r, {g}).hops = {g}
      BY DEF EntryOf
    <3>3. Fx!Meant(h) \in Fx!NextHops(src, {g})
      BY <1>1, NextHopsAre, PrintedHopCounts, PrintedHopIsMeant
    <3> QED
      BY <2>1, <3>1, <3>2, <3>3
  <2> QED
    BY <1>1, <2>1, <2>2
<1> QED
  BY <1>2, <1>3 DEF Fx!Sources

-----------------------------------------------------------------------------
(* The paths of a cell, printed.                                            *)

LEMMA BestIsPrinted ==
  ASSUME NEW r, NEW paths \in Fx!PrintedPaths(r)
  PROVE  Fx!Best(paths) = {r.path}
<1> DEFINE best == [path |-> r.path, best |-> TRUE]
<1>1. CASE paths = <<best>>
  BY <1>1 DEF Fx!Best
<1>2. CASE \E p \in Paths : paths = <<best, [path |-> p, best |-> FALSE]>>
  BY <1>2 DEF Fx!Best
<1>3. CASE \E p \in Paths : paths = <<[path |-> p, best |-> FALSE], best>>
  BY <1>3 DEF Fx!Best
<1> QED
  BY <1>1, <1>2, <1>3 DEF Fx!PrintedPaths

LEMMA NoPath == Fx!Best(<<>>) = {}
BY DEF Fx!Best

-----------------------------------------------------------------------------
(* The rows, one by one.                                                    *)

(* The entries that become rows.                                            *)
Taken == {e \in Fx!Considered(source, routesDoc) : Fx!MapProtocol(source, e.kind) # "skip"}

RowPath(e) ==
  IF e.kind = "bgp" /\ Fx!Best(bgpDoc[e.cell]) # {}
  THEN CHOOSE p \in Fx!Best(bgpDoc[e.cell]) : TRUE ELSE e.path

RowOf(e) ==
  [cell |-> e.cell, protocol |-> e.kind, hops |-> Fx!NextHops(source, e.hops), path |-> RowPath(e)]

LEMMA RowsAre ==
  Fx!MergeBgp(Fx!Parse(source, routesDoc)) = {RowOf(e) : e \in Taken}
<1> DEFINE row(e) == [cell |-> e.cell, protocol |-> e.kind,
                      hops |-> Fx!NextHops(source, e.hops), path |-> e.path]
           merged(w) == IF w.protocol = "bgp" /\ Fx!Best(bgpDoc[w.cell]) # {}
                        THEN [w EXCEPT !.path = CHOOSE p \in Fx!Best(bgpDoc[w.cell]) : TRUE]
                        ELSE w
<1>1. Fx!Parse(source, routesDoc) = {row(e) : e \in Taken}
  BY DEF Fx!Parse, Taken
<1>2. \A e : merged(row(e)) = RowOf(e)
  <2> TAKE e
  <2>1. CASE e.kind = "bgp" /\ Fx!Best(bgpDoc[e.cell]) # {}
    BY <2>1 DEF RowOf, RowPath
  <2>2. CASE ~(e.kind = "bgp" /\ Fx!Best(bgpDoc[e.cell]) # {})
    BY <2>2 DEF RowOf, RowPath
  <2> QED
    BY <2>1, <2>2
<1>3. Fx!MergeBgp(Fx!Parse(source, routesDoc)) = {merged(w) : w \in Fx!Parse(source, routesDoc)}
  BY DEF Fx!MergeBgp
<1> HIDE DEF row, merged
<1> QED
  BY <1>1, <1>2, <1>3

(* What Parse keeps of an entry that it does not refuse.                    *)
LEMMA TakenKind ==
  ASSUME ~Fx!Raises(source, routesDoc), NEW e \in Fx!Considered(source, routesDoc)
  PROVE  /\ e.kind # "new"
         /\ e \in Taken <=> e.kind \in Fx!Protocol
<1>1. Fx!MapProtocol(source, e.kind) \in Fx!Protocol \cup {"skip"}
  BY DEF Fx!Raises
<1>2. "skip" \notin Fx!Protocol /\ "raise" \notin Fx!Protocol \cup {"skip"}
      /\ "new" \notin Fx!Protocol /\ "eigrp" \notin Fx!Protocol /\ "kernel" \notin Fx!Protocol
  BY DEF Fx!Protocol
<1>3. CASE e.kind \in Fx!Protocol
  BY <1>2, <1>3 DEF Fx!MapProtocol, Taken
<1>4. CASE e.kind \notin Fx!Protocol
  BY <1>1, <1>2, <1>4 DEF Fx!MapProtocol, Taken
<1> QED
  BY <1>3, <1>4

-----------------------------------------------------------------------------
(* Parsing and merging what was printed gives the rows meant.               *)
LEMMA ExtractStep ==
  ASSUME XInv, Fx!Extract
  PROVE  XInv'
<1>1. /\ phase = "parse" /\ source \in Fx!Sources /\ rib \in Fx!Rib /\ ribRead \in Fx!Rib
      /\ UNCHANGED <<source, rib, routesDoc, bgpDoc, ribRead>>
      /\ phase' \in {"failed", "done"}
  BY DEF Fx!Extract, XInv
<1>2. PICK z \in Fx!NoAddress(source), n \in Fx!NoInterface(source),
           dead \in Fx!DeadHops(source) :
        routesDoc = UNION {Fx!Entries(source, r, z, n, dead) : r \in ribRead}
  BY <1>1 DEF XInv, Printed
<1>3. CASE phase' = "failed"
  BY <1>1, <1>3
  DEF XInv, Phases, Printed, PathsPrinted, Fx!SameRoutes, Fx!OwnAttributes, Bgp
<1>4. CASE phase' = "done"
  <2>1. ~Fx!Raises(source, routesDoc) /\ extracted' = {RowOf(e) : e \in Taken}
    BY <1>4, RowsAre DEF Fx!Extract
  <2>2. /\ ribRead \subseteq Fx!Route
        /\ \A r, s \in ribRead : r.cell = s.cell /\ r.installed /\ s.installed => r = s
        /\ \A r, s \in rib : r.cell = s.cell /\ r.installed /\ s.installed => r = s
    BY <1>1 DEF Fx!Rib
  <2>3. \A r \in ribRead : Fx!Shown(r) <=> ShownBy(source, r)
    BY DEF Fx!Shown, ShownBy
  <2>4. ASSUME NEW e \in Fx!Considered(source, routesDoc)
        PROVE  \E r \in ribRead :
                 /\ Fx!Shown(r) /\ e.cell = r.cell /\ e.kind = r.kind
                 /\ e.path = IF source = "hammerhead" /\ r.kind = "bgp" THEN r.path ELSE Fx!None
                 /\ Fx!NextHops(source, e.hops) \subseteq Allowed(source, r)
    <3>1. PICK r \in ribRead : e \in Fx!Considered(source, Fx!Entries(source, r, z, n, dead))
      BY <1>2 DEF Fx!Considered
    <3> QED
      BY <1>1, <2>2, <2>3, <3>1, EntriesSay
  <2>5. ASSUME NEW r \in ribRead, Fx!Shown(r)
        PROVE  /\ \E e \in Fx!Considered(source, routesDoc) : e.cell = r.cell /\ e.kind = r.kind
               /\ \A h \in r.hops : \E e \in Fx!Considered(source, routesDoc) :
                    /\ e.cell = r.cell /\ e.kind = r.kind
                    /\ Fx!Meant(h) \in Fx!NextHops(source, e.hops)
    <3> DEFINE doc == Fx!Entries(source, r, z, n, dead)
    <3>1. Fx!Considered(source, doc) \subseteq Fx!Considered(source, routesDoc)
      BY <1>2 DEF Fx!Considered
    <3>2. ShownBy(source, r) /\ r \in Fx!Route
      BY <2>2, <2>3, <2>5
    <3>3. \A e \in Fx!Considered(source, doc) : e.cell = r.cell /\ e.kind = r.kind
      BY <1>1, <3>2, EntriesSay
    <3>4. /\ Fx!Considered(source, doc) # {}
          /\ \A h \in r.hops : \E e \in Fx!Considered(source, doc) :
               Fx!Meant(h) \in Fx!NextHops(source, e.hops)
      BY <1>1, <3>2, EntriesAreThere
    <3> HIDE DEF doc
    <3> QED
      BY <3>1, <3>3, <3>4
  <2>6. \A row \in extracted' : \E e \in Taken : row = RowOf(e)
    BY <2>1
  <2>7. \A r \in ribRead : Fx!Shown(r) => r.kind # "new"
    BY <2>1, <2>5, TakenKind
  <2>8. \A row \in extracted' : \E r \in ribRead : Fx!InScope(r) /\ r.cell = row.cell
    <3> SUFFICES ASSUME NEW e \in Taken
                 PROVE  \E r \in ribRead : Fx!InScope(r) /\ r.cell = e.cell
      BY <2>6 DEF RowOf
    <3>1. e \in Fx!Considered(source, routesDoc) /\ e.kind \in Fx!Protocol
      BY <2>1, TakenKind DEF Taken
    <3> QED
      BY <2>4, <3>1 DEF Fx!InScope
  <2>9. ASSUME NEW r \in ribRead, Fx!InScope(r)
        PROVE  LET rows == {row \in extracted' : row.cell = r.cell}
               IN /\ rows # {} /\ \A row \in rows : row.protocol = r.kind
                  /\ Fx!Faithful(UNION {row.hops : row \in rows}, r)
    <3> DEFINE rows == {row \in extracted' : row.cell = r.cell}
    <3>1. Fx!Shown(r) /\ r.kind \in Fx!Protocol
      BY <2>9 DEF Fx!InScope
    <3>2. \A e \in Fx!Considered(source, routesDoc) :
            e.cell = r.cell /\ e.kind = r.kind =>
              RowOf(e) \in rows /\ RowOf(e).hops = Fx!NextHops(source, e.hops)
      <4> TAKE e \in Fx!Considered(source, routesDoc)
      <4>1. e.kind = r.kind => RowOf(e) \in extracted'
        BY <2>1, <3>1, TakenKind
      <4>2. RowOf(e).cell = e.cell /\ RowOf(e).hops = Fx!NextHops(source, e.hops)
        BY DEF RowOf
      <4> QED
        BY <4>1, <4>2
    <3>3. rows # {}
      BY <2>5, <3>1, <3>2
    <3>4. ASSUME NEW row \in rows
          PROVE  row.protocol = r.kind /\ row.hops \subseteq Allowed(source, r)
      <4>1. PICK e \in Taken : row = RowOf(e)
        BY <2>6
      <4>2. PICK s \in ribRead :
              /\ Fx!Shown(s) /\ e.cell = s.cell /\ e.kind = s.kind
              /\ Fx!NextHops(source, e.hops) \subseteq Allowed(source, s)
        BY <2>4 DEF Taken
      <4>3. s = r
        BY <2>2, <3>1, <4>1, <4>2 DEF RowOf, Fx!Shown
      <4> QED
        BY <4>1, <4>2, <4>3 DEF RowOf
    <3>5. ASSUME NEW h \in r.hops
          PROVE  \E row \in rows : Fx!Meant(h) \in row.hops
      <4>1. PICK e \in Fx!Considered(source, routesDoc) :
              e.cell = r.cell /\ e.kind = r.kind /\ Fx!Meant(h) \in Fx!NextHops(source, e.hops)
        BY <2>5, <3>1
      <4> QED
        BY <3>2, <4>1
    <3> DEFINE union == UNION {row.hops : row \in rows}
               meant == {Fx!Meant(h) : h \in r.hops}
    <3> HIDE DEF rows
    <3>6. meant \subseteq union /\ union \subseteq Allowed(source, r)
      BY <3>4, <3>5
    <3>7. union = meant \/ (union = {Fx!NullHop} /\ r.hops = {} /\ source = "hammerhead")
      <4> HIDE DEF union
      <4>1. CASE r.hops = {} /\ source = "hammerhead"
        <5>1. union \subseteq {Fx!NullHop} /\ meant = {}
          BY <3>6, <4>1 DEF Allowed
        <5> QED
          BY <4>1, <5>1
      <4>2. CASE ~(r.hops = {} /\ source = "hammerhead")
        BY <3>6, <4>2 DEF Allowed
      <4> QED
        BY <4>1, <4>2
    <3> QED
      BY <3>3, <3>4, <3>7 DEF rows, Fx!Faithful
  <2>10. Fx!SameRoutes'
    BY <1>1, <2>7, <2>8, <2>9 DEF Fx!SameRoutes, Fx!InScope, Fx!Shown, Fx!Faithful
  <2>11. ASSUME NEW row \in extracted'
         PROVE  row.path = IF row.protocol = "bgp" /\ {r.path : r \in Bgp(rib, row.cell)} # {}
                           THEN CHOOSE p \in {r.path : r \in Bgp(rib, row.cell)} : TRUE
                           ELSE Fx!None
    <3> DEFINE best == {r.path : r \in Bgp(rib, row.cell)}
    <3>1. PICK e \in Taken : row = RowOf(e)
      BY <2>6
    <3>2. PICK r \in ribRead :
            /\ Fx!Shown(r) /\ e.cell = r.cell /\ e.kind = r.kind
            /\ e.path = IF source = "hammerhead" /\ r.kind = "bgp" THEN r.path ELSE Fx!None
      BY <2>4 DEF Taken
    <3>3. row.cell = e.cell /\ row.protocol = e.kind /\ row.path = RowPath(e)
          /\ r.cell \in Cells
      BY <2>2, <3>1, <3>2 DEF RowOf, Fx!Route
    <3>4. CASE source = "hammerhead"
      <4>1. row.path = e.path /\ rib = ribRead
        BY <1>1, <3>2, <3>3, <3>4 DEF XInv, PathsPrinted, RowPath
      <4>2. CASE e.kind = "bgp"
        <5>1. r \in Bgp(rib, row.cell)
          BY <3>2, <3>3, <4>1, <4>2 DEF Bgp, Fx!Shown
        <5>2. best = {r.path}
          BY <2>2, <5>1 DEF Bgp
        <5> HIDE DEF best
        <5>3. (CHOOSE p \in best : TRUE) = r.path
          BY <5>2
        <5> QED
          BY <3>2, <3>3, <3>4, <4>1, <4>2, <5>2, <5>3 DEF best
      <4>3. CASE e.kind # "bgp"
        BY <3>2, <3>3, <4>1, <4>3
      <4> QED
        BY <4>2, <4>3
    <3>5. CASE source # "hammerhead"
      <4>1. Fx!Best(bgpDoc[e.cell]) = best /\ e.path = Fx!None
        BY <1>1, <3>2, <3>3, <3>5 DEF XInv, PathsPrinted
      <4> HIDE DEF best
      <4> QED
        BY <3>3, <4>1 DEF RowPath, best
    <3> QED
      BY <3>4, <3>5
  <2>12. Fx!OwnAttributes'
    BY <1>1, <2>11 DEF Fx!OwnAttributes, Bgp
  <2>13. Printed' /\ PathsPrinted'
    BY <1>1, <1>4 DEF XInv, Printed, PathsPrinted
  <2> QED
    BY <1>1, <1>4, <2>10, <2>12, <2>13 DEF XInv, Phases
<1> QED
  BY <1>1, <1>3, <1>4

-----------------------------------------------------------------------------
(* The other steps.                                                         *)

LEMMA XInvInit == Fx!Init => XInv
<1> SUFFICES ASSUME Fx!Init
             PROVE  XInv
  OBVIOUS
<1>1. \A c \in Cells : Fx!Best(bgpDoc[c]) = {}
  BY NoPath DEF Fx!Init
<1> QED
  BY <1>1 DEF Fx!Init, XInv, Phases, Printed, PathsPrinted, Fx!SameRoutes, Fx!OwnAttributes

LEMMA ReadRoutesStep ==
  ASSUME XInv, Fx!ReadRoutes
  PROVE  XInv'
<1>1. /\ phase = "routes" /\ ribRead' = rib /\ UNCHANGED <<source, rib, bgpDoc, extracted>>
      /\ phase' = IF source = "hammerhead" THEN "parse" ELSE "bgp"
      /\ \E z \in Fx!NoAddress(source), n \in Fx!NoInterface(source), dead \in Fx!DeadHops(source) :
           routesDoc' = UNION {Fx!Entries(source, r, z, n, dead) : r \in rib}
  BY DEF Fx!ReadRoutes
<1>2. Printed' /\ PathsPrinted'
  BY <1>1 DEF XInv, Printed, PathsPrinted
<1> QED
  BY <1>1, <1>2 DEF XInv, Phases, Fx!SameRoutes, Fx!OwnAttributes

LEMMA ReadBgpStep ==
  ASSUME XInv, Fx!ReadBgp
  PROVE  XInv'
<1>1. /\ phase = "bgp" /\ phase' = "parse" /\ source # "hammerhead"
      /\ UNCHANGED <<source, rib, routesDoc, extracted, ribRead>>
      /\ \A c \in Cells : IF Bgp(rib, c) = {} THEN bgpDoc'[c] = <<>>
                           ELSE \E r \in Bgp(rib, c) : bgpDoc'[c] \in Fx!PrintedPaths(r)
  BY DEF Fx!ReadBgp, XInv, PathsPrinted, Bgp
<1>2. \A c \in Cells : Fx!Best(bgpDoc'[c]) = {r.path : r \in Bgp(rib, c)}
  <2> TAKE c \in Cells
  <2>1. CASE Bgp(rib, c) = {}
    BY <1>1, <2>1, NoPath
  <2>2. CASE Bgp(rib, c) # {}
    <3>1. PICK r \in Bgp(rib, c) : bgpDoc'[c] \in Fx!PrintedPaths(r)
      BY <1>1, <2>2
    <3>2. Bgp(rib, c) = {r}
      BY <3>1 DEF XInv, Fx!Rib, Bgp
    <3> QED
      BY <3>1, <3>2, BestIsPrinted
  <2> QED
    BY <2>1, <2>2
<1>3. Printed'
  BY <1>1 DEF XInv, Printed
<1>4. PathsPrinted'
  BY <1>1, <1>2 DEF PathsPrinted, Bgp
<1> QED
  BY <1>1, <1>3, <1>4 DEF XInv, Phases, Fx!SameRoutes, Fx!OwnAttributes

LEMMA OtherStep ==
  ASSUME XInv, Fx!QueryFails \/ Fx!RouteMoves \/ UNCHANGED Fx!vars
  PROVE  XInv'
<1>1. CASE Fx!QueryFails
  BY <1>1 DEF Fx!QueryFails, XInv, Phases, Printed, PathsPrinted, Fx!SameRoutes, Fx!OwnAttributes
<1>2. CASE Fx!RouteMoves
  <2>1. /\ phase = "bgp" /\ source \in Fx!Routers /\ rib' \in Fx!Rib
        /\ UNCHANGED <<source, phase, routesDoc, bgpDoc, extracted, ribRead>>
    BY <1>2 DEF Fx!RouteMoves
  <2> QED
    BY <2>1 DEF XInv, Fx!Routers, Phases, Printed, PathsPrinted, Fx!SameRoutes, Fx!OwnAttributes
<1>3. CASE UNCHANGED Fx!vars
  <2>1. UNCHANGED <<source, rib, phase, routesDoc, bgpDoc, extracted, ribRead>>
    BY <1>3 DEF Fx!vars
  <2>2. Printed'
    BY <2>1 DEF XInv, Printed
  <2>3. PathsPrinted'
    BY <2>1 DEF XInv, PathsPrinted, Bgp
  <2>4. Fx!SameRoutes'
    BY <2>1 DEF XInv, Fx!SameRoutes, Fx!InScope, Fx!Shown, Fx!Faithful
  <2>5. Fx!OwnAttributes'
    BY <2>1 DEF XInv, Fx!OwnAttributes
  <2> QED
    BY <2>1, <2>2, <2>3, <2>4, <2>5 DEF XInv
<1> QED
  BY <1>1, <1>2, <1>3

LEMMA XInvStep == XInv /\ [Fx!Next]_(Fx!vars) => XInv'
BY ReadRoutesStep, ReadBgpStep, ExtractStep, OtherStep DEF Fx!Next

THEOREM ExtractionInvariance == Fx!Spec => []XInv
<1> QED
  BY XInvInit, XInvStep, PTL DEF Fx!Spec

(* Each of the machines runs as if it were alone.                           *)
THEOREM MachinesRunAlone == ScoresSpec => Spec /\ Fx!Spec /\ Bench!Spec
<1>1. ScoresInit => Init /\ Fx!Init /\ Bench!Init
  BY DEF ScoresInit
<1>2. [ScoresNext]_<<machine, vars, extraction, bench>> => [Next]_vars
  BY DEF ScoresNext
<1>3. [ScoresNext]_<<machine, vars, extraction, bench>> => [Fx!Next]_(Fx!vars)
  BY DEF ScoresNext, extraction, Fx!vars
<1>4. [ScoresNext]_<<machine, vars, extraction, bench>> => [Bench!Next]_(Bench!vars)
  BY DEF ScoresNext, bench, Bench!vars
<1> QED
  BY <1>1, <1>2, <1>3, <1>4, PTL DEF ScoresSpec, Spec, Fx!Spec, Bench!Spec

(* Whatever a source holds and however it prints it, the rows of its files  *)
(* say what it held: every installed route of a known protocol with all its *)
(* next hops that are up, and nothing else but the null interface that      *)
(* Hammerhead prints for a discard route and its parser keeps; a label that *)
(* no table names ends the extraction instead.                              *)
THEOREM FilesSayWhatWasHeld == ScoresSpec => []SameRoutes
<1>1. XInv => SameRoutes
  BY DEF XInv, SameRoutes
<1> QED
  BY <1>1, MachinesRunAlone, ExtractionInvariance, PTL

(* A row's BGP attributes are of the best path of its own VRF and prefix,   *)
(* as it was when the second query was answered.                            *)
THEOREM AttributesAreOwn == ScoresSpec => []OwnAttributes
<1>1. XInv => OwnAttributes
  BY DEF XInv, OwnAttributes
<1> QED
  BY <1>1, MachinesRunAlone, ExtractionInvariance, PTL

-----------------------------------------------------------------------------
(* Induction over an initial segment of the numbers, for a set: the least   *)
(* number outside of it is neither the first nor the one after another.     *)
LEMMA Segment ==
  ASSUME NEW n \in Nat, NEW S, 0 \in S, \A i \in 1..n : i - 1 \in S => i \in S
  PROVE  \A i \in 0..n : i \in S
<1> DEFINE Out == (0..n) \ S
<1> SUFFICES ASSUME Out # {} PROVE FALSE
  OBVIOUS
<1>1. Out \subseteq Nat
  OBVIOUS
<1>2. PICK i \in Out : \A j \in Out : ~ (<<j, i>> \in OpToRel(<, Nat))
  <2> HIDE DEF Out
  <2> QED
    BY <1>1, NatLessThanWellFounded, WFMin
<1>3. i # 0 /\ i \in 1..n
  OBVIOUS
<1>4. i - 1 \in Out
  BY <1>3
<1>5. <<i - 1, i>> \in OpToRel(<, Nat)
  BY <1>3 DEF OpToRel
<1> QED
  BY <1>2, <1>4, <1>5

(* sum holds the sums of xs at T, up to each position.                      *)
AddsUp(sum, n, T, xs) ==
  /\ sum \in [0..n -> Int] /\ sum[0] = 0
  /\ \A i \in 1..n : sum[i] = sum[i - 1] + (IF i \in T THEN xs[i] ELSE 0)
  /\ Bench!SumOf(T, xs) = sum[n]

(* xs has n numbers, integers where they are looked at.                     *)
IntegersAt(xs, n, T) == Len(xs) = n /\ \A i \in 1..n : i \in T => xs[i] \in Int

(* There is a function that holds the sums.                                 *)
LEMMA SumUp ==
  ASSUME NEW n \in Nat, NEW T, NEW xs, IntegersAt(xs, n, T)
  PROVE  \E sum : AddsUp(sum, n, T, xs)
<1> USE DEF IntegersAt
<1> DEFINE g(i) == IF i \in T THEN xs[i] ELSE 0
           Is(s, k) == s[0] = 0 /\ \A i \in 1..k : s[i] = s[i - 1] + g(i)
           Has == {k \in 0..n : \E s \in [0..k -> Int] : Is(s, k)}
<1>0. \A i \in 1..n : g(i) \in Int
  OBVIOUS
<1>1. 0 \in Has
  <2>1. [i \in 0..0 |-> 0] \in [0..0 -> Int] /\ Is([i \in 0..0 |-> 0], 0)
    OBVIOUS
  <2> HIDE DEF Is
  <2> QED
    BY <2>1
<1>2. ASSUME NEW k \in 1..n, k - 1 \in Has
      PROVE  k \in Has
  <2>1. PICK s \in [0..k - 1 -> Int] : Is(s, k - 1)
    BY <1>2
  <2> DEFINE t == [i \in 0..k |-> IF i = k THEN s[k - 1] + g(k) ELSE s[i]]
  <2>2. t \in [0..k -> Int]
    BY <1>0
  <2>3. t[0] = 0
    BY <2>1
  <2>4. ASSUME NEW i \in 1..k PROVE t[i] = t[i - 1] + g(i)
    BY <2>1
  <2>5. Is(t, k)
    BY <2>3, <2>4
  <2> HIDE DEF t, Is
  <2> QED
    BY <2>2, <2>5
<1>3. n \in Has
  <2> HIDE DEF Has
  <2>1. \A i \in 0..n : i \in Has
    BY <1>1, <1>2, Segment
  <2> QED
    BY <2>1
<1>4. PICK s \in [0..n -> Int] : Is(s, n)
  BY <1>3
<1> DEFINE F(f) == [i \in 0..n |-> IF i = 0 THEN 0 ELSE f[i - 1] + g(i)]
           upTo == CHOOSE f : f = F(f)
<1>5. s = F(s)
  BY <1>4
<1>6. upTo = F(upTo)
  BY <1>5
<1>7. Bench!SumOf(T, xs) = upTo[n]
  BY DEF Bench!SumOf
<1>8. upTo[0] = 0 /\ \A i \in 1..n : upTo[i] = upTo[i - 1] + g(i)
  <2>1. F(upTo)[0] = 0 /\ \A i \in 1..n : F(upTo)[i] = upTo[i - 1] + g(i)
    OBVIOUS
  <2> HIDE DEF upTo, g, F
  <2> QED
    BY <1>6, <2>1
<1> DEFINE Same == {i \in 0..n : upTo[i] = s[i]}
<1> HIDE DEF upTo, g, F
<1>9. \A i \in 0..n : i \in Same
  <2>1. 0 \in Same
    BY <1>4, <1>8
  <2>2. ASSUME NEW i \in 1..n, i - 1 \in Same PROVE i \in Same
    BY <2>2, <1>4, <1>8
  <2> HIDE DEF Same
  <2> QED
    BY <2>1, <2>2, Segment
<1> QED
  BY <1>4, <1>7, <1>9 DEF g, AddsUp

(* Sums compare as their terms do, up to a factor.                          *)
LEMMA SumsBelow ==
  ASSUME NEW n \in Nat, NEW T, NEW c \in Int, NEW xs, NEW ws, Len(xs) = n, Len(ws) = n,
         \A i \in 1..n : i \in T => xs[i] \in Int /\ ws[i] \in Int /\ c * ws[i] <= xs[i]
  PROVE  c * Bench!SumOf(T, ws) <= Bench!SumOf(T, xs)
<1>1. PICK x : AddsUp(x, n, T, xs)
  <2>1. IntegersAt(xs, n, T)
    BY DEF IntegersAt
  <2> QED
    BY <2>1, SumUp
<1>2. PICK w : AddsUp(w, n, T, ws)
  <2>1. IntegersAt(ws, n, T)
    BY DEF IntegersAt
  <2> QED
    BY <2>1, SumUp
<1> DEFINE Good == {i \in 0..n : c * w[i] <= x[i]}
<1>3. 0 \in Good
  BY <1>1, <1>2 DEF AddsUp
<1>4. ASSUME NEW i \in 1..n, i - 1 \in Good PROVE i \in Good
  <2>1. c * w[i - 1] <= x[i - 1] /\ w[i - 1] \in Int /\ x[i - 1] \in Int
    BY <1>4, <1>1, <1>2 DEF AddsUp
  <2>2. CASE i \in T
    <3>1. x[i] = x[i - 1] + xs[i] /\ w[i] = w[i - 1] + ws[i]
      BY <2>2, <1>1, <1>2 DEF AddsUp
    <3>2. xs[i] \in Int /\ ws[i] \in Int /\ c * ws[i] <= xs[i]
      BY <2>2
    <3> DEFINE a == w[i - 1]
               b == ws[i]
    <3>3. a \in Int /\ b \in Int
      BY <2>1, <3>2
    <3>4. c * (a + b) = c * a + c * b
      <4> HIDE DEF a, b
      <4> QED
        BY <3>3
    <3>5. c * w[i] <= x[i]
      BY <2>1, <3>1, <3>2, <3>4
    <3> QED
      BY <3>5
  <2>3. CASE i \notin T
    BY <2>1, <2>3, <1>1, <1>2 DEF AddsUp
  <2> QED
    BY <2>2, <2>3
<1>5. \A i \in 0..n : i \in Good
  <2> HIDE DEF Good
  <2> QED
    BY <1>3, <1>4, Segment
<1> QED
  BY <1>1, <1>2, <1>5 DEF AddsUp

(* The same, from above.                                                    *)
LEMMA SumsAbove ==
  ASSUME NEW n \in Nat, NEW T, NEW c \in Int, NEW xs, NEW ws, Len(xs) = n, Len(ws) = n,
         \A i \in 1..n : i \in T => xs[i] \in Int /\ ws[i] \in Int /\ xs[i] <= c * ws[i]
  PROVE  Bench!SumOf(T, xs) <= c * Bench!SumOf(T, ws)
<1>1. PICK x : AddsUp(x, n, T, xs)
  <2>1. IntegersAt(xs, n, T)
    BY DEF IntegersAt
  <2> QED
    BY <2>1, SumUp
<1>2. PICK w : AddsUp(w, n, T, ws)
  <2>1. IntegersAt(ws, n, T)
    BY DEF IntegersAt
  <2> QED
    BY <2>1, SumUp
<1> DEFINE Good == {i \in 0..n : x[i] <= c * w[i]}
<1>3. 0 \in Good
  BY <1>1, <1>2 DEF AddsUp
<1>4. ASSUME NEW i \in 1..n, i - 1 \in Good PROVE i \in Good
  <2>1. x[i - 1] <= c * w[i - 1] /\ w[i - 1] \in Int /\ x[i - 1] \in Int
    BY <1>4, <1>1, <1>2 DEF AddsUp
  <2>2. CASE i \in T
    <3>1. x[i] = x[i - 1] + xs[i] /\ w[i] = w[i - 1] + ws[i]
      BY <2>2, <1>1, <1>2 DEF AddsUp
    <3>2. xs[i] \in Int /\ ws[i] \in Int /\ xs[i] <= c * ws[i]
      BY <2>2
    <3> DEFINE a == w[i - 1]
               b == ws[i]
    <3>3. a \in Int /\ b \in Int
      BY <2>1, <3>2
    <3>4. c * (a + b) = c * a + c * b
      <4> HIDE DEF a, b
      <4> QED
        BY <3>3
    <3>5. x[i] <= c * w[i]
      BY <2>1, <3>1, <3>2, <3>4
    <3> QED
      BY <3>5
  <2>3. CASE i \notin T
    BY <2>1, <2>3, <1>1, <1>2 DEF AddsUp
  <2> QED
    BY <2>2, <2>3
<1>5. \A i \in 0..n : i \in Good
  <2> HIDE DEF Good
  <2> QED
    BY <1>3, <1>4, Segment
<1> QED
  BY <1>1, <1>2, <1>5 DEF AddsUp

(* count holds how many positions of T there are up to each.                *)
CountsUp(count, n, T) ==
  /\ count \in [0..n -> Nat] /\ count[0] = 0
  /\ \A i \in 1..n : count[i] = count[i - 1] + (IF i \in T THEN 1 ELSE 0)
  /\ Cardinality(T) = count[n]

(* There is a function that holds the counts.                               *)
LEMMA CountUp ==
  ASSUME NEW n \in Nat, NEW T, T \subseteq 1..n
  PROVE  /\ IsFiniteSet(T) /\ Cardinality(T) \in Nat
         /\ \E count : CountsUp(count, n, T)
<1> DEFINE up(i) == T \cap 1..i
           count == [i \in 0..n |-> Cardinality(up(i))]
<1>1. IsFiniteSet(T) /\ Cardinality(T) \in Nat
  <2>1. IsFiniteSet(1..n)
    BY FS_Interval
  <2> QED
    BY <2>1, FS_Subset, FS_CardinalityType
<1>2. \A i \in 0..n : IsFiniteSet(up(i)) /\ Cardinality(up(i)) \in Nat
  BY <1>1, FS_Subset, FS_CardinalityType
<1>3. up(0) = {} /\ up(n) = T
  <2>1. 1..0 = {}
    OBVIOUS
  <2> QED
    BY <2>1
<1>4. ASSUME NEW i \in 1..n
      PROVE  count[i] = count[i - 1] + (IF i \in T THEN 1 ELSE 0)
  <2>1. i - 1 \in 0..n /\ IsFiniteSet(up(i - 1))
    BY <1>2
  <2>2. CASE i \in T
    <3>1. up(i) = up(i - 1) \cup {i} /\ i \notin up(i - 1)
      BY <2>2
    <3>2. Cardinality(up(i)) = Cardinality(up(i - 1)) + 1
      <4> HIDE DEF up
      <4> QED
        BY <2>1, <3>1, FS_AddElement
    <3> HIDE DEF up
    <3> QED
      BY <2>1, <2>2, <3>2
  <2>3. CASE i \notin T
    <3>1. up(i) = up(i - 1)
      BY <2>3
    <3> HIDE DEF up
    <3> QED
      BY <1>2, <2>1, <2>3, <3>1
  <2> QED
    BY <2>2, <2>3
<1>5. count[0] = 0 /\ count[n] = Cardinality(T) /\ count \in [0..n -> Nat]
  <2> HIDE DEF up
  <2> QED
    BY <1>2, <1>3, FS_EmptySet
<1> HIDE DEF count
<1> QED
  BY <1>1, <1>4, <1>5 DEF CountsUp

(* Of ones, the sum is the count.                                           *)
LEMMA SumOfOnes ==
  ASSUME NEW n \in Nat, NEW T, T \subseteq 1..n, NEW ones, Len(ones) = n,
         \A i \in T : ones[i] = 1
  PROVE  Bench!SumOf(T, ones) = Cardinality(T)
<1>1. PICK x : AddsUp(x, n, T, ones)
  <2>1. IntegersAt(ones, n, T)
    BY DEF IntegersAt
  <2> QED
    BY <2>1, SumUp
<1>2. PICK count : CountsUp(count, n, T)
  BY CountUp
<1> DEFINE Same == {i \in 0..n : x[i] = count[i]}
<1>3. 0 \in Same
  BY <1>1, <1>2 DEF AddsUp, CountsUp
<1>4. ASSUME NEW i \in 1..n, i - 1 \in Same PROVE i \in Same
  <2>1. x[i - 1] = count[i - 1]
    BY <1>4
  <2>2. CASE i \in T
    <3>1. x[i] = x[i - 1] + 1 /\ count[i] = count[i - 1] + 1
      BY <2>2, <1>1, <1>2 DEF AddsUp, CountsUp
    <3> QED
      BY <2>1, <3>1
  <2>3. CASE i \notin T
    <3>1. x[i] = x[i - 1] + 0 /\ count[i] = count[i - 1] + 0
      BY <2>3, <1>1, <1>2 DEF AddsUp, CountsUp
    <3> QED
      BY <2>1, <3>1
  <2> QED
    BY <2>2, <2>3
<1>5. \A i \in 0..n : i \in Same
  <2> HIDE DEF Same
  <2> QED
    BY <1>3, <1>4, Segment
<1> QED
  BY <1>1, <1>2, <1>5 DEF AddsUp, CountsUp

(* A sum of integers is one.                                                *)
LEMMA SumIsInt ==
  ASSUME NEW n \in Nat, NEW T, NEW xs, Len(xs) = n, \A i \in 1..n : i \in T => xs[i] \in Int
  PROVE  Bench!SumOf(T, xs) \in Int
<1>1. PICK x : AddsUp(x, n, T, xs)
  <2>1. IntegersAt(xs, n, T)
    BY DEF IntegersAt
  <2> QED
    BY <2>1, SumUp
<1> QED
  BY <1>1 DEF AddsUp, CountsUp

(* A sum of numbers from lo to hi is that many times between these.         *)
LEMMA SumBetween ==
  ASSUME NEW n \in Nat, NEW T, T \subseteq 1..n, NEW xs, Len(xs) = n,
         NEW lo \in Int, NEW hi \in Int,
         \A i \in T : xs[i] \in Int /\ lo <= xs[i] /\ xs[i] <= hi
  PROVE  Bench!Between(lo, <<Bench!SumOf(T, xs), Cardinality(T)>>, hi)
<1> DEFINE ones == [i \in 1..n |-> 1]
<1>1. Len(ones) = n /\ \A i \in 1..n : ones[i] = 1
  OBVIOUS
<1> HIDE DEF ones
<1>2. Bench!SumOf(T, ones) = Cardinality(T)
  BY <1>1, SumOfOnes
<1>3. lo * Bench!SumOf(T, ones) <= Bench!SumOf(T, xs)
  BY <1>1, SumsBelow
<1>4. Bench!SumOf(T, xs) <= hi * Bench!SumOf(T, ones)
  BY <1>1, SumsAbove
<1> QED
  BY <1>2, <1>3, <1>4 DEF Bench!Between

(* A sum looks at nothing but the positions it is over.                     *)
LEMMA SameSums ==
  ASSUME NEW n \in Nat, NEW T, NEW xs, NEW ys, Len(xs) = n, Len(ys) = n,
         \A i \in 1..n : i \in T => xs[i] \in Int /\ xs[i] = ys[i]
  PROVE  Bench!SumOf(T, xs) = Bench!SumOf(T, ys)
<1>1. Bench!SumOf(T, xs) \in Int /\ Bench!SumOf(T, ys) \in Int
  BY SumIsInt
<1>2. 1 * Bench!SumOf(T, ys) <= Bench!SumOf(T, xs)
  BY SumsBelow
<1>3. Bench!SumOf(T, xs) <= 1 * Bench!SumOf(T, ys)
  BY SumsAbove
<1> QED
  BY <1>1, <1>2, <1>3

(* With one position more, a sum has at most one term more.                 *)
LEMMA SumOneMore ==
  ASSUME NEW n \in Nat, NEW T, NEW xs, Len(xs) = n, NEW U, NEW ys, Len(ys) = n + 1,
         \A i \in 1..n : (i \in T <=> i \in U) /\ (i \in T => xs[i] \in Int /\ ys[i] = xs[i]),
         n + 1 \in U => ys[n + 1] \in Int
  PROVE  Bench!SumOf(U, ys) = Bench!SumOf(T, xs) + (IF n + 1 \in U THEN ys[n + 1] ELSE 0)
<1>1. PICK x : AddsUp(x, n, T, xs)
  <2>1. IntegersAt(xs, n, T)
    BY DEF IntegersAt
  <2> QED
    BY <2>1, SumUp
<1>2. PICK y : AddsUp(y, n + 1, U, ys)
  <2>1. IntegersAt(ys, n + 1, U)
    <3>1. ASSUME NEW i \in 1..(n + 1), i \in U PROVE ys[i] \in Int
      <4>1. i \in 1..n \/ i = n + 1
        OBVIOUS
      <4> QED
        BY <3>1, <4>1
    <3> QED
      BY <3>1 DEF IntegersAt
  <2> QED
    BY <2>1, SumUp
<1> DEFINE Same == {i \in 0..n : x[i] = y[i]}
<1>3. 0 \in Same
  BY <1>1, <1>2 DEF AddsUp
<1>4. ASSUME NEW i \in 1..n, i - 1 \in Same PROVE i \in Same
  <2>1. x[i - 1] = y[i - 1]
    BY <1>4
  <2>2. x[i] = x[i - 1] + (IF i \in T THEN xs[i] ELSE 0)
    BY <1>1 DEF AddsUp
  <2>3. y[i] = y[i - 1] + (IF i \in U THEN ys[i] ELSE 0)
    BY <1>2 DEF AddsUp
  <2> QED
    BY <2>1, <2>2, <2>3
<1>5. \A i \in 0..n : i \in Same
  <2> HIDE DEF Same
  <2> QED
    BY <1>3, <1>4, Segment
<1>6. x[n] = y[n]
  BY <1>5
<1>7. y[n + 1] = y[n + 1 - 1] + (IF n + 1 \in U THEN ys[n + 1] ELSE 0)
  BY <1>2 DEF AddsUp
<1> QED
  BY <1>1, <1>2, <1>6, <1>7 DEF AddsUp

(* Where every number outside of T is 100, the sum of all is the one at T   *)
(* and that many times 100.                                                 *)
LEMMA SumOutside ==
  ASSUME NEW n \in Nat, NEW T, T \subseteq 1..n, NEW xs, Len(xs) = n,
         \A i \in 1..n : xs[i] \in Int /\ (i \notin T => xs[i] = 100)
  PROVE  Bench!SumOf(1..n, xs) = Bench!SumOf(T, xs) + 100 * (n - Cardinality(T))
<1>1. PICK all : AddsUp(all, n, 1..n, xs)
  <2>1. IntegersAt(xs, n, 1..n)
    BY DEF IntegersAt
  <2> QED
    BY <2>1, SumUp
<1>2. PICK x : AddsUp(x, n, T, xs)
  <2>1. IntegersAt(xs, n, T)
    BY DEF IntegersAt
  <2> QED
    BY <2>1, SumUp
<1>3. PICK count : CountsUp(count, n, T)
  BY CountUp
<1> DEFINE Good == {i \in 0..n : all[i] = x[i] + 100 * (i - count[i])}
<1>4. 0 \in Good
  BY <1>1, <1>2, <1>3 DEF AddsUp, CountsUp
<1>5. ASSUME NEW i \in 1..n, i - 1 \in Good PROVE i \in Good
  <2>1. /\ all[i - 1] = x[i - 1] + 100 * ((i - 1) - count[i - 1])
        /\ x[i - 1] \in Int /\ count[i - 1] \in Int
    BY <1>5, <1>2, <1>3 DEF AddsUp, CountsUp
  <2>2. all[i] = all[i - 1] + xs[i] /\ xs[i] \in Int
    BY <1>1 DEF AddsUp
  <2>3. CASE i \in T
    <3>1. x[i] = x[i - 1] + xs[i] /\ count[i] = count[i - 1] + 1
      BY <2>3, <1>2, <1>3 DEF AddsUp, CountsUp
    <3>2. i - (count[i - 1] + 1) = (i - 1) - count[i - 1]
      BY <2>1
    <3>3. all[i] = x[i] + 100 * (i - count[i])
      BY <2>1, <2>2, <3>1, <3>2
    <3> QED
      BY <3>3
  <2>4. CASE i \notin T
    <3>1. x[i] = x[i - 1] + 0 /\ count[i] = count[i - 1] + 0 /\ xs[i] = 100
      BY <2>4, <1>2, <1>3 DEF AddsUp, CountsUp
    <3> QED
      BY <2>1, <2>2, <3>1
  <2> QED
    BY <2>3, <2>4
<1>6. \A i \in 0..n : i \in Good
  <2> HIDE DEF Good
  <2> QED
    BY <1>4, <1>5, Segment
<1>7. all[n] = x[n] + 100 * (n - count[n])
  BY <1>6
<1> QED
  BY <1>1, <1>2, <1>3, <1>7 DEF AddsUp, CountsUp

(* list holds the agreements at T, up to each position.                     *)
ListsUp(list, n, S, T, as) ==
  /\ list \in [0..n -> Seq(S)] /\ list[0] = <<>>
  /\ \A i \in 1..n : list[i] = IF i \in T THEN Append(list[i - 1], as[i]) ELSE list[i - 1]
  /\ Bench!Those(T, as) = list[n]

(* There is a function that holds the lists.                                *)
LEMMA ListUp ==
  ASSUME NEW n \in Nat, NEW T, NEW S, NEW as \in Seq(S), Len(as) = n
  PROVE  \E list : ListsUp(list, n, S, T, as)
<1> DEFINE g(l, i) == IF i \in T THEN Append(l, as[i]) ELSE l
           Is(s, k) == s[0] = <<>> /\ \A i \in 1..k : s[i] = g(s[i - 1], i)
           Has == {k \in 0..n : \E s \in [0..k -> Seq(S)] : Is(s, k)}
<1>0. \A i \in 1..n : \A l \in Seq(S) : g(l, i) \in Seq(S)
  <2>1. \A i \in 1..n : as[i] \in S
    BY ElementOfSeq
  <2> QED
    BY <2>1, AppendProperties
<1>1. 0 \in Has
  <2>1. <<>> \in Seq(S)
    BY EmptySeq
  <2>2. [i \in 0..0 |-> <<>>] \in [0..0 -> Seq(S)] /\ Is([i \in 0..0 |-> <<>>], 0)
    BY <2>1
  <2> HIDE DEF Is
  <2> QED
    BY <2>2
<1>2. ASSUME NEW k \in 1..n, k - 1 \in Has
      PROVE  k \in Has
  <2>1. PICK s \in [0..k - 1 -> Seq(S)] : Is(s, k - 1)
    BY <1>2
  <2> HIDE DEF g
  <2> DEFINE t == [i \in 0..k |-> IF i = k THEN g(s[k - 1], k) ELSE s[i]]
  <2>2. t \in [0..k -> Seq(S)]
    BY <1>0
  <2>3. t[0] = <<>>
    BY <2>1
  <2>4. ASSUME NEW i \in 1..k PROVE t[i] = g(t[i - 1], i)
    BY <2>1
  <2>5. Is(t, k)
    BY <2>3, <2>4
  <2> HIDE DEF t, Is
  <2> QED
    BY <2>2, <2>5
<1>3. n \in Has
  <2> HIDE DEF Has
  <2>1. \A i \in 0..n : i \in Has
    BY <1>1, <1>2, Segment
  <2> QED
    BY <2>1
<1>4. PICK s \in [0..n -> Seq(S)] : Is(s, n)
  BY <1>3
<1> DEFINE F(f) == [i \in 0..n |-> IF i = 0 THEN <<>>
                                   ELSE IF i \in T THEN Append(f[i - 1], as[i]) ELSE f[i - 1]]
           upTo == CHOOSE f : f = F(f)
<1>5. s = F(s)
  <2>1. \A i \in 0..n : F(s)[i] = IF i = 0 THEN <<>> ELSE g(s[i - 1], i)
    OBVIOUS
  <2>2. \A i \in 0..n : F(s)[i] = s[i]
    <3> HIDE DEF g, F
    <3> QED
      BY <1>4, <2>1
  <2>3. F(s) = [i \in 0..n |-> F(s)[i]] /\ s = [i \in 0..n |-> s[i]]
    OBVIOUS
  <2> HIDE DEF F
  <2> QED
    BY <2>2, <2>3
<1>6. upTo = F(upTo)
  BY <1>5
<1>7. Bench!Those(T, as) = upTo[n]
  BY DEF Bench!Those
<1>8. upTo[0] = <<>> /\ \A i \in 1..n : upTo[i] = g(upTo[i - 1], i)
  <2>1. F(upTo)[0] = <<>> /\ \A i \in 1..n : F(upTo)[i] = g(upTo[i - 1], i)
    <3> HIDE DEF upTo
    <3>1. F(upTo)[0] = <<>>
      OBVIOUS
    <3>2. ASSUME NEW i \in 1..n PROVE F(upTo)[i] = g(upTo[i - 1], i)
      <4>1. i \in 0..n /\ i # 0
        OBVIOUS
      <4> QED
        BY <4>1, Zenon
    <3> HIDE DEF F, g
    <3> QED
      BY <3>1, <3>2
  <2> HIDE DEF upTo, g, F
  <2> QED
    BY <1>6, <2>1
<1> DEFINE Same == {i \in 0..n : upTo[i] = s[i]}
<1> HIDE DEF upTo, g, F
<1>9. \A i \in 0..n : i \in Same
  <2>1. 0 \in Same
    BY <1>4, <1>8
  <2>2. ASSUME NEW i \in 1..n, i - 1 \in Same PROVE i \in Same
    BY <2>2, <1>4, <1>8
  <2> HIDE DEF Same
  <2> QED
    BY <2>1, <2>2, Segment
<1>10. s[0] = <<>> /\ \A i \in 1..n : s[i] = IF i \in T THEN Append(s[i - 1], as[i]) ELSE s[i - 1]
  BY <1>4 DEF g
<1>11. Bench!Those(T, as) = s[n]
  BY <1>7, <1>9
<1> QED
  BY <1>4, <1>10, <1>11 DEF ListsUp

(* The positions of T with a verdict of V.                                  *)
Having(V, T, as) == {i \in T : as[i].degraded \in V}

(* The positions of all the agreements of a list.                           *)
All(as) == 1..Len(as)

(* The list at T has as many agreements with a verdict of V as T has, their *)
(* rates add up to the same, and it holds those at T and no other.          *)
SaysTheSame(c, m, x, count, T, i, S, V, as) ==
  /\ m = Len(c)
  /\ Bench!SumOf(Having(V, All(c), c), Bench!Rates(c)) = x
  /\ Cardinality(Having(V, All(c), c)) = count
  /\ \A j \in 1..Len(c) : \E k \in T : c[j] = as[k]
  /\ \A k \in T : k <= i => \E j \in 1..Len(c) : c[j] = as[k]

(* A list that says the same as T still does with the next of T appended.   *)
LEMMA OneMoreSaysTheSame ==
  ASSUME NEW n \in Nat, NEW S, NEW as \in Seq(S), Len(as) = n, NEW T, T \subseteq 1..n, NEW V,
         \A a \in S : a.rate \in Int, NEW i \in 1..n,
         NEW c \in Seq(S), NEW m \in Nat, NEW x \in Int, NEW count \in Nat, i \in T,
         SaysTheSame(c, m, x, count, T, i - 1, S, V, as)
  PROVE  SaysTheSame(Append(c, as[i]), m + 1, x + (IF as[i].degraded \in V THEN as[i].rate ELSE 0),
                     count + (IF as[i].degraded \in V THEN 1 ELSE 0), T, i, S, V, as)
<1> DEFINE d == Append(c, as[i])
           ys == Bench!Rates(d)
           xs == Bench!Rates(c)
           A == Having(V, All(c), c)
           B == Having(V, All(d), d)
<1>1. /\ as[i] \in S /\ Len(c) = m /\ Len(d) = m + 1 /\ d[m + 1] = as[i] /\ d \in Seq(S)
      /\ \A j \in 1..m : d[j] = c[j] /\ c[j] \in S
  <2>1. Len(c) = m
    BY DEF SaysTheSame
  <2>2. as[i] \in S /\ \A j \in 1..Len(c) : c[j] \in S
    BY ElementOfSeq
  <2> DEFINE x0 == as[i]
  <2> HIDE DEF x0
  <2>3. /\ Append(c, x0) \in Seq(S) /\ Len(Append(c, x0)) = Len(c) + 1
        /\ \A j \in 1..Len(c) : Append(c, x0)[j] = c[j]
        /\ Append(c, x0)[Len(c) + 1] = x0
    <3>1. x0 \in S
      BY <2>2 DEF x0
    <3> QED
      BY <3>1, AppendProperties
  <2>4. d = Append(c, x0)
    BY DEF x0
  <2> HIDE DEF d
  <2>5. d \in Seq(S) /\ Len(d) = m + 1 /\ (\A j \in 1..m : d[j] = c[j]) /\ d[m + 1] = x0
    BY <2>1, <2>3, <2>4
  <2> QED
    BY <2>1, <2>2, <2>5 DEF x0
<1> HIDE DEF d
<1>2. /\ Len(xs) = m /\ Len(ys) = m + 1 /\ ys[m + 1] = as[i].rate
      /\ \A j \in 1..m : xs[j] = c[j].rate /\ ys[j] = xs[j] /\ xs[j] \in Int
  <2>1. xs = [j \in 1..m |-> c[j].rate]
    BY <1>1 DEF Bench!Rates
  <2>2. ys = [j \in 1..(m + 1) |-> d[j].rate]
    BY <1>1 DEF Bench!Rates
  <2>3. \A j \in 1..m : c[j].rate \in Int
    BY <1>1, Zenon
  <2> HIDE DEF xs, ys
  <2>4. Len(xs) = m /\ Len(ys) = m + 1
    BY <2>1, <2>2
  <2>5. ys[m + 1] = as[i].rate
    <3>1. m + 1 \in 1..(m + 1)
      OBVIOUS
    <3> QED
      BY <1>1, <2>2, <3>1, Zenon
  <2>6. ASSUME NEW j \in 1..m PROVE xs[j] = c[j].rate /\ ys[j] = xs[j] /\ xs[j] \in Int
    <3>1. j \in 1..(m + 1)
      OBVIOUS
    <3> QED
      BY <1>1, <2>1, <2>2, <2>3, <3>1
  <2> QED
    BY <2>4, <2>5, <2>6
<1>3. /\ A \subseteq 1..m /\ \A j \in 1..m : j \in A <=> j \in B
      /\ m + 1 \in B <=> as[i].degraded \in V
      /\ B = IF as[i].degraded \in V THEN A \cup {m + 1} ELSE A
  <2>1. A = {j \in 1..m : c[j].degraded \in V}
    BY <1>1 DEF Having, All
  <2>2. B = {j \in 1..(m + 1) : d[j].degraded \in V}
    BY <1>1 DEF Having, All
  <2> HIDE DEF A, B
  <2>3. \A j \in 1..m : j \in A <=> j \in B
    BY <1>1, <2>1, <2>2
  <2>4. m + 1 \in B <=> as[i].degraded \in V
    <3>1. m + 1 \in 1..(m + 1)
      OBVIOUS
    <3> QED
      BY <1>1, <2>2, <3>1, Zenon
  <2>5. B \subseteq (1..m) \cup {m + 1} /\ A \subseteq 1..m
    BY <2>1, <2>2
  <2>6. B = IF as[i].degraded \in V THEN A \cup {m + 1} ELSE A
    <3>1. CASE as[i].degraded \in V
      <4>1. A \cup {m + 1} \subseteq B
        BY <2>3, <2>4, <2>5, <3>1
      <4>2. B \subseteq A \cup {m + 1}
        BY <2>3, <2>5
      <4> QED
        BY <3>1, <4>1, <4>2
    <3>2. CASE as[i].degraded \notin V
      <4>1. A \subseteq B
        BY <2>3, <2>5
      <4>2. B \subseteq A
        BY <2>3, <2>4, <2>5, <3>2
      <4> QED
        BY <3>2, <4>1, <4>2
    <3> QED
      BY <3>1, <3>2
  <2> QED
    BY <2>3, <2>4, <2>5, <2>6
<1>4. as[i].rate \in Int
  BY <1>1, Zenon
<1> HIDE DEF xs, ys, A, B
<1>5. Bench!SumOf(B, ys) = Bench!SumOf(A, xs) + (IF m + 1 \in B THEN ys[m + 1] ELSE 0)
  <2>1. \A j \in 1..m : (j \in A <=> j \in B) /\ (j \in A => xs[j] \in Int /\ ys[j] = xs[j])
    BY <1>2, <1>3
  <2>2. ys[m + 1] \in Int
    BY <1>2, <1>4
  <2>3. Len(xs) = m /\ Len(ys) = m + 1
    BY <1>2
  <2> QED
    BY <2>1, <2>2, <2>3, SumOneMore
<1>6. Bench!SumOf(A, xs) = x /\ Cardinality(A) = count
  BY DEF SaysTheSame, A, xs
<1>7. Bench!SumOf(B, ys) = x + (IF as[i].degraded \in V THEN as[i].rate ELSE 0)
  BY <1>2, <1>3, <1>5, <1>6
<1>8. Cardinality(B) = count + (IF as[i].degraded \in V THEN 1 ELSE 0)
  <2>1. IsFiniteSet(A)
    <3>1. IsFiniteSet(1..m)
      BY FS_Interval
    <3> QED
      BY <1>3, <3>1, FS_Subset
  <2>2. m + 1 \notin A
    BY <1>3
  <2>3. CASE as[i].degraded \in V
    BY <1>3, <1>6, <2>1, <2>2, <2>3, FS_AddElement
  <2>4. CASE as[i].degraded \notin V
    BY <1>3, <1>6, <2>4
  <2> QED
    BY <2>3, <2>4
<1>9. \A j \in 1..(m + 1) : \E k \in T : d[j] = as[k]
  <2>1. \A j \in 1..m : \E k \in T : c[j] = as[k]
    BY <1>1 DEF SaysTheSame
  <2>2. ASSUME NEW j \in 1..(m + 1) PROVE \E k \in T : d[j] = as[k]
    <3>1. j \in 1..m \/ j = m + 1
      OBVIOUS
    <3> QED
      BY <1>1, <2>1, <3>1
  <2> QED
    BY <2>2
<1>10. ASSUME NEW k \in T, k <= i PROVE \E j \in 1..(m + 1) : d[j] = as[k]
  <2>1. CASE k = i
    <3>1. m + 1 \in 1..(m + 1)
      OBVIOUS
    <3> QED
      BY <1>1, <2>1, <3>1, Zenon
  <2>2. CASE k <= i - 1
    <3>1. PICK j \in 1..Len(c) : c[j] = as[k]
      BY <2>2 DEF SaysTheSame
    <3>2. j \in 1..m /\ j \in 1..(m + 1)
      BY <1>1
    <3> QED
      BY <1>1, <3>1, <3>2, Zenon
  <2>3. k = i \/ k <= i - 1
    BY <1>10
  <2> QED
    BY <2>1, <2>2, <2>3
<1> QED
  BY <1>1, <1>7, <1>8, <1>9, <1>10 DEF SaysTheSame, d, ys, B

(* So the list of all of T says the same as T.                              *)
LEMMA TheListSaysTheSame ==
  ASSUME NEW n \in Nat, NEW S, NEW as \in Seq(S), Len(as) = n, NEW T, T \subseteq 1..n, NEW V,
         \A a \in S : a.rate \in Int
  PROVE  /\ Bench!Those(T, as) \in Seq(S)
         /\ SaysTheSame(Bench!Those(T, as), Cardinality(T),
                        Bench!SumOf(Having(V, T, as), Bench!Rates(as)),
                        Cardinality(Having(V, T, as)), T, n, S, V, as)
<1> DEFINE W == Having(V, T, as)
           xs == Bench!Rates(as)
<1>1. W \subseteq T /\ W \subseteq 1..n
  BY DEF Having
<1>2. Len(xs) = n /\ \A i \in 1..n : xs[i] = as[i].rate /\ xs[i] \in Int /\ as[i] \in S
  <2>1. xs = [i \in 1..n |-> as[i].rate]
    BY DEF Bench!Rates
  <2>2. \A i \in 1..n : as[i] \in S
    BY ElementOfSeq
  <2>3. \A i \in 1..n : as[i].rate \in Int
    BY <2>2, Zenon
  <2> HIDE DEF xs
  <2>4. Len(xs) = n
    BY <2>1
  <2>5. \A i \in 1..n : xs[i] = as[i].rate
    BY <2>1, Zenon
  <2> QED
    BY <2>2, <2>3, <2>4, <2>5, Zenon
<1>3. \A i \in 1..n : i \in W <=> i \in T /\ as[i].degraded \in V
  BY DEF Having
<1> HIDE DEF W, xs
<1>4. PICK x : AddsUp(x, n, W, xs)
  <2>1. IntegersAt(xs, n, W)
    BY <1>2 DEF IntegersAt
  <2> QED
    BY <2>1, SumUp
<1>5. PICK number : CountsUp(number, n, T)
  BY CountUp
<1>6. PICK count : CountsUp(count, n, W)
  BY <1>1, CountUp
<1>7. PICK list : ListsUp(list, n, S, T, as)
  BY ListUp
<1> DEFINE Good == {i \in 0..n : SaysTheSame(list[i], number[i], x[i], count[i], T, i, S, V, as)}
<1>8. 0 \in Good
  <2>1. list[0] = <<>> /\ number[0] = 0 /\ x[0] = 0 /\ count[0] = 0
    BY <1>4, <1>5, <1>6, <1>7 DEF AddsUp, CountsUp, ListsUp
  <2> DEFINE e == <<>>
  <2>2. Len(e) = 0 /\ Having(V, All(e), e) = {} /\ Len(Bench!Rates(e)) = 0
    <3>1. All(e) = {}
      BY DEF All
    <3>2. Bench!Rates(e) = <<>>
      BY DEF Bench!Rates
    <3> QED
      BY <3>1, <3>2 DEF Having
  <2>3. Bench!SumOf({}, Bench!Rates(e)) = 0
    <3>1. PICK s : AddsUp(s, 0, {}, Bench!Rates(e))
      <4>1. IntegersAt(Bench!Rates(e), 0, {})
        BY <2>2 DEF IntegersAt
      <4> QED
        BY <4>1, SumUp
    <3> QED
      BY <3>1 DEF AddsUp
  <2>4. SaysTheSame(e, 0, 0, 0, T, 0, S, V, as)
    <3>1. \A k \in T : ~(k <= 0)
      OBVIOUS
    <3> HIDE DEF e
    <3> QED
      BY <2>2, <2>3, <3>1, FS_EmptySet DEF SaysTheSame
  <2>5. 0 \in 0..n
    OBVIOUS
  <2> QED
    BY <2>1, <2>4, <2>5, Zenon
<1>9. ASSUME NEW i \in 1..n, i - 1 \in Good PROVE i \in Good
  <2>1. SaysTheSame(list[i - 1], number[i - 1], x[i - 1], count[i - 1], T, i - 1, S, V, as)
    BY <1>9
  <2>2. /\ list[i - 1] \in Seq(S) /\ number[i - 1] \in Nat /\ x[i - 1] \in Int
        /\ count[i - 1] \in Nat
    <3>1. i - 1 \in 0..n
      OBVIOUS
    <3>2. list[i - 1] \in Seq(S)
      BY <1>7, <3>1 DEF ListsUp
    <3> QED
      BY <1>4, <1>5, <1>6, <3>1, <3>2 DEF AddsUp, CountsUp
  <2>3. CASE i \in T
    <3>1. list[i] = Append(list[i - 1], as[i]) /\ number[i] = number[i - 1] + 1
      BY <2>3, <1>5, <1>7 DEF CountsUp, ListsUp
    <3>2. /\ x[i] = x[i - 1] + (IF as[i].degraded \in V THEN as[i].rate ELSE 0)
          /\ count[i] = count[i - 1] + (IF as[i].degraded \in V THEN 1 ELSE 0)
      BY <1>2, <1>3, <2>3, <1>4, <1>6 DEF AddsUp, CountsUp
    <3>3. SaysTheSame(list[i], number[i], x[i], count[i], T, i, S, V, as)
      <4> DEFINE c == list[i - 1]
      <4> HIDE DEF c
      <4>1. SaysTheSame(Append(c, as[i]), number[i - 1] + 1,
               x[i - 1] + (IF as[i].degraded \in V THEN as[i].rate ELSE 0),
               count[i - 1] + (IF as[i].degraded \in V THEN 1 ELSE 0), T, i, S, V, as)
        BY <2>1, <2>2, <2>3, OneMoreSaysTheSame DEF c
      <4> QED
        BY <3>1, <3>2, <4>1 DEF c
    <3>4. i \in 0..n
      OBVIOUS
    <3> QED
      BY <3>3, <3>4, Zenon
  <2>4. CASE i \notin T
    <3>1. list[i] = list[i - 1] /\ number[i] = number[i - 1] + 0
      BY <2>4, <1>5, <1>7 DEF CountsUp, ListsUp
    <3>2. x[i] = x[i - 1] + 0 /\ count[i] = count[i - 1] + 0
      BY <1>1, <2>4, <1>4, <1>6 DEF AddsUp, CountsUp
    <3>3. number[i] = number[i - 1] /\ x[i] = x[i - 1] /\ count[i] = count[i - 1]
      BY <2>2, <3>1, <3>2
    <3>4. \A k \in T : k <= i => k <= i - 1
      BY <2>4
    <3>5. SaysTheSame(list[i - 1], number[i - 1], x[i - 1], count[i - 1], T, i, S, V, as)
      BY <2>1, <3>4 DEF SaysTheSame
    <3>6. i \in 0..n
      OBVIOUS
    <3>7. list[i] = list[i - 1]
      BY <3>1
    <3> QED
      BY <3>3, <3>5, <3>6, <3>7, Zenon
  <2> QED
    BY <2>3, <2>4
<1>10. \A i \in 0..n : i \in Good
  <2> HIDE DEF Good
  <2> QED
    BY <1>8, <1>9, Segment
<1>11. SaysTheSame(list[n], number[n], x[n], count[n], T, n, S, V, as)
  <2>1. n \in 0..n
    OBVIOUS
  <2> QED
    BY <1>10, <2>1, Zenon
<1>12. list[n] = Bench!Those(T, as) /\ list[n] \in Seq(S)
  BY <1>7 DEF ListsUp
<1> QED
  BY <1>4, <1>5, <1>6, <1>11, <1>12 DEF AddsUp, CountsUp, W, xs

(* The module of the summary counts a set as this one does.                 *)
LEMMA SameCount == \A T : Bench!Cardinality(T) = Cardinality(T)
BY DEF Bench!Cardinality, Cardinality

(* What the numbers of a bench assume of its agreements.                    *)
LEMMA AgreementsAre ==
  ASSUME NEW as \in Seq(Agreements)
  PROVE  /\ Len(as) \in Nat /\ DOMAIN as = 1..Len(as)
         /\ \A i \in 1..Len(as) :
              /\ as[i] \in Agreements /\ as[i] \in Bench!Agreement /\ Bench!WellScored(as[i])
              /\ as[i].both \in Nat /\ as[i].rate \in 0..100 /\ as[i].rate \in Int
              /\ as[i].degraded \in {"no", "yes", "unknown"}
              /\ as[i].both = 0 => as[i].rate = 100
<1>1. Len(as) \in Nat /\ DOMAIN as = 1..Len(as)
  BY LenProperties
<1>2. ASSUME NEW i \in 1..Len(as)
      PROVE  /\ as[i] \in Agreements /\ as[i] \in Bench!Agreement /\ Bench!WellScored(as[i])
             /\ as[i].both \in Nat /\ as[i].rate \in 0..100 /\ as[i].rate \in Int
             /\ as[i].degraded \in {"no", "yes", "unknown"}
             /\ as[i].both = 0 => as[i].rate = 100
  <2> DEFINE a == as[i]
  <2>1. a \in Agreements
    BY ElementOfSeq
  <2> HIDE DEF a
  <2>2. Bench!WellScored(a)
    BY <2>1, AgreementsAssumption
  <2>3. a \in Bench!Agreement /\ (a.both = 0 => a.rate = 100)
    BY <2>2 DEF Bench!WellScored
  <2>4. a.both \in Nat /\ a.rate \in 0..100 /\ a.degraded \in {"no", "yes", "unknown"}
    BY <2>3 DEF Bench!Agreement
  <2>5. a.rate \in Int
    <3>1. 0..100 \subseteq Int
      OBVIOUS
    <3> QED
      BY <2>4, <3>1, Zenon
  <2> QED
    BY <2>1, <2>2, <2>3, <2>4, <2>5 DEF a
<1> QED
  BY <1>1, <1>2

(* A rate is a number.                                                      *)
LEMMA RatesAre == \A a \in Agreements : a.rate \in Int
<1> SUFFICES ASSUME NEW a \in Agreements PROVE a.rate \in Int
  OBVIOUS
<1>1. a \in Bench!Agreement
  BY AgreementsAssumption DEF Bench!WellScored
<1>2. a.rate \in 0..100
  BY <1>1 DEF Bench!Agreement
<1>3. 0..100 \subseteq Int
  OBVIOUS
<1> QED
  BY <1>2, <1>3, Zenon

(* Only where none is covered is the list of the covered ones empty.        *)
LEMMA NoneAlone ==
  ASSUME NEW as \in Seq(Agreements),
         NEW only, only = Bench!Those(Bench!Covered(as), as), only = <<>>
  PROVE  Bench!Covered(as) = {}
<1> DEFINE n == Len(as)
           cov == Bench!Covered(as)
<1>1. n \in Nat /\ DOMAIN as = 1..n /\ cov \subseteq 1..n
  BY AgreementsAre DEF Bench!Covered
<1> HIDE DEF cov
<1>2. SaysTheSame(only, Cardinality(cov), Bench!SumOf(Having({}, cov, as), Bench!Rates(as)),
                  Cardinality(Having({}, cov, as)), cov, n, Agreements, {}, as)
  BY <1>1, RatesAre, TheListSaysTheSame DEF cov
<1>3. Cardinality(cov) = 0
  <2>1. Len(only) = 0
    OBVIOUS
  <2> QED
    BY <1>2, <2>1 DEF SaysTheSame
<1>4. IsFiniteSet(cov)
  BY <1>1, CountUp
<1> QED
  BY <1>3, <1>4, FS_EmptySet DEF cov

(* The means of the covered ones alone are those called covered.            *)
SameMeans(only, as) ==
  /\ Bench!Scoring(only).naive = Bench!Scoring(as).rate
  /\ Bench!CoverageBlock(only).rate = Bench!CoverageBlock(as).rate

(* The agreements of only are those of as at T.                             *)
SameMembers(only, T, as) ==
  /\ \A i \in DOMAIN only : \E k \in T : only[i] = as[k]
  /\ \A k \in T : \E i \in DOMAIN only : only[i] = as[k]

(* The topologies that were compared, taken alone, have the covered means   *)
(* of all of them for their naive means.                                    *)
LEMMA TheCoveredAlone ==
  ASSUME NEW as \in Seq(Agreements),
         NEW only, only = Bench!Those(Bench!Covered(as), as), only # <<>>
  PROVE  /\ SameMeans(only, as) /\ SameMembers(only, Bench!Covered(as), as)
         /\ only \in Seq(Agreements) /\ Bench!Covered(as) # {}
<1> DEFINE n == Len(as)
           cov == Bench!Covered(as)
           m == Len(only)
           V == {"no", "yes", "unknown"}
           xs == Bench!Rates(as)
           ys == Bench!Rates(only)
<1>1. n \in Nat /\ DOMAIN as = 1..n /\ cov \subseteq 1..n
  BY AgreementsAre DEF Bench!Covered
<1>2. \A a \in Agreements : a.rate \in Int
  BY RatesAre
<1>3. only \in Seq(Agreements) /\
      \A W : SaysTheSame(only, Cardinality(cov), Bench!SumOf(Having(W, cov, as), xs),
                         Cardinality(Having(W, cov, as)), cov, n, Agreements, W, as)
  BY <1>1, <1>2, TheListSaysTheSame
<1>4. m \in Nat /\ DOMAIN only = 1..m /\ m # 0
  BY <1>3, LenProperties, EmptySeq
<1>5. /\ m = Cardinality(cov)
      /\ \A j \in 1..m : \E k \in cov : only[j] = as[k]
      /\ \A k \in cov : k <= n => \E j \in 1..m : only[j] = as[k]
  BY <1>3 DEF SaysTheSame
<1>6. cov # {}
  BY <1>4, <1>5, FS_EmptySet
<1>7. cov = Bench!Covered(as)
  OBVIOUS
<1>8. \A k \in cov : as[k].both > 0 /\ as[k].degraded \in V
  BY <1>1, AgreementsAre DEF Bench!Covered
<1>9. \A j \in 1..m : only[j].both > 0 /\ only[j].degraded \in V
  BY <1>5, <1>8, Zenon
<1>10. Having(V, cov, as) = cov /\ Having(V, All(only), only) = 1..m
  BY <1>8, <1>9 DEF Having, All
<1>11. Bench!SumOf(1..m, ys) = Bench!SumOf(cov, xs)
  BY <1>3, <1>10 DEF SaysTheSame
<1>12. Bench!Mean(DOMAIN only, ys) = Bench!Mean(cov, xs)
  <2> HIDE DEF m, xs, ys
  <2>1. 1..m # {}
    <3>1. m \in Nat /\ m # 0
      BY <1>4
    <3>2. 1 \in 1..m
      BY <3>1
    <3> QED
      BY <3>2
  <2>2. Cardinality(1..m) = m
    BY <1>4, FS_Interval
  <2>3. DOMAIN only # {} /\ Cardinality(DOMAIN only) = Cardinality(cov)
    BY <1>4, <1>5, <2>1, <2>2
  <2>4. Bench!SumOf(DOMAIN only, ys) = Bench!SumOf(cov, xs)
    BY <1>4, <1>11
  <2> QED
    BY <1>6, <2>3, <2>4, SameCount, Zenon DEF Bench!Mean
<1>13. Having({"no"}, cov, as) = Bench!Covered(as) \cap Bench!Saying("no", as)
  BY <1>1, <1>7 DEF Having, Bench!Saying
<1>14. Having({"no"}, All(only), only) = Bench!Covered(only) \cap Bench!Saying("no", only)
  BY <1>4, <1>9 DEF Having, All, Bench!Covered, Bench!Saying
<1> DEFINE A == Having({"no"}, cov, as)
           B == Having({"no"}, All(only), only)
<1>15. Bench!SumOf(B, ys) = Bench!SumOf(A, xs) /\ Cardinality(B) = Cardinality(A)
  BY <1>3 DEF SaysTheSame
<1>16. A = {} <=> B = {}
  <2>1. IsFiniteSet(A) /\ IsFiniteSet(B)
    <3> HIDE DEF m, n
    <3>0. A \subseteq 1..n /\ B \subseteq 1..m
      BY <1>1 DEF Having, All, m
    <3>1. n \in Int /\ m \in Int
      BY <1>1, <1>4
    <3>2. IsFiniteSet(1..n) /\ IsFiniteSet(1..m)
      BY <3>1, FS_Interval
    <3> HIDE DEF A, B, m, n
    <3> QED
      BY <3>0, <3>2, FS_Subset
  <2> HIDE DEF A, B
  <2> QED
    BY <1>15, <2>1, FS_EmptySet
<1>17. Bench!MeanOrNone(B, ys) = Bench!MeanOrNone(A, xs)
  <2> HIDE DEF A, B, xs, ys
  <2> QED
    BY <1>15, <1>16, SameCount, Zenon DEF Bench!MeanOrNone, Bench!Mean
<1>18. Bench!CoverageBlock(only).rate = Bench!CoverageBlock(as).rate
  BY <1>13, <1>14, <1>17 DEF Bench!CoverageBlock
<1>19. Bench!Scoring(only).naive = Bench!Scoring(as).rate
  BY <1>7, <1>12 DEF Bench!Scoring
<1> QED
  <2> HIDE DEF m, n
  <2>0. DOMAIN only = 1..m
    BY <1>4
  <2>1. ASSUME NEW i \in DOMAIN only PROVE \E k \in cov : only[i] = as[k]
    <3>1. i \in 1..m
      BY <2>0
    <3> QED
      BY <1>5, <3>1, Zenon
  <2>2. ASSUME NEW k \in cov PROVE k <= n
    <3>1. k \in 1..n
      BY <1>1
    <3> QED
      BY <1>1, <3>1
  <2>3. ASSUME NEW k \in cov PROVE \E i \in DOMAIN only : only[i] = as[k]
    <3>1. PICK j \in 1..m : only[j] = as[k]
      BY <1>5, <2>2, Zenon
    <3>2. j \in DOMAIN only
      BY <2>0, <3>1
    <3> QED
      BY <3>1, <3>2, Zenon
  <2> QED
    BY <1>3, <1>6, <1>7, <1>18, <1>19, <2>1, <2>3 DEF SameMeans, SameMembers

(* The topologies that were not compared only ever flatter the naive mean.  *)
LEMMA TheNaiveFlatters ==
  ASSUME NEW as \in Seq(Agreements), NEW cov, cov = Bench!Covered(as), cov # {}
  PROVE  LET rate == Bench!Scoring(as).rate
             naive == Bench!Scoring(as).naive
         IN /\ rate[1] * naive[2] <= naive[1] * rate[2]
            /\ \A lo \in Nat : (\A i \in cov : lo <= as[i].rate) => Bench!Between(lo, rate, 100)
<1> DEFINE n == Len(as)
           xs == Bench!Rates(as)
           c == Cardinality(cov)
           R == Bench!SumOf(cov, xs)
           N == Bench!SumOf(1..n, xs)
<1>1. n \in Nat /\ DOMAIN as = 1..n
  BY AgreementsAre
<1>2. cov \subseteq 1..n /\ \A i \in 1..n : i \in cov <=> as[i].both > 0
  BY <1>1 DEF Bench!Covered
<1>3. Len(xs) = n /\ \A i \in 1..n : xs[i] = as[i].rate
  <2>1. xs = [i \in 1..n |-> as[i].rate]
    BY <1>1 DEF Bench!Rates
  <2> HIDE DEF xs, n
  <2>2. Len(xs) = n
    BY <1>1, <2>1
  <2> QED
    BY <2>1, <2>2, Zenon
<1>4. ASSUME NEW i \in 1..n
      PROVE  /\ xs[i] \in Int /\ 0 <= xs[i] /\ xs[i] <= 100
             /\ i \notin cov => xs[i] = 100
  <2> DEFINE both == as[i].both
             rate == as[i].rate
  <2>1. both \in Nat /\ rate \in 0..100 /\ (both = 0 => rate = 100)
    BY AgreementsAre
  <2>2. (i \in cov <=> both > 0) /\ xs[i] = rate
    BY <1>2, <1>3, Zenon
  <2> HIDE DEF both, rate
  <2>3. rate \in Int /\ 0 <= rate /\ rate <= 100
    BY <2>1
  <2>4. both > 0 \/ both = 0
    BY <2>1
  <2> QED
    BY <2>1, <2>2, <2>3, <2>4, Zenon
<1> HIDE DEF xs, n
<1>5. IsFiniteSet(cov) /\ c \in Nat /\ c <= n /\ c # 0
  <2>1. IsFiniteSet(1..n) /\ Cardinality(1..n) = n
    BY <1>1, FS_Interval
  <2>2. IsFiniteSet(cov) /\ c <= n
    BY <1>2, <2>1, FS_Subset
  <2> QED
    BY <2>2, FS_CardinalityType, FS_EmptySet
<1>6. Bench!Scoring(as).rate = <<R, c>>
  BY <1>2, SameCount DEF Bench!Scoring, Bench!Mean, xs
<1>7. Bench!Scoring(as).naive = <<N, n>>
  <2>1. 1..n # {}
    BY <1>2
  <2>2. Cardinality(1..n) = n
    BY <1>1, FS_Interval
  <2>3. Bench!Mean(1..n, xs) = <<N, n>>
    BY <2>1, <2>2, SameCount, Zenon DEF Bench!Mean
  <2> QED
    BY <1>1, <2>3 DEF Bench!Scoring, xs
<1>8. \A i \in 1..n : xs[i] \in Int
  BY <1>4
<1>9. N = R + 100 * (n - c)
  BY <1>1, <1>2, <1>3, <1>4, <1>8, SumOutside
<1>10. ASSUME NEW lo \in Nat, \A i \in cov : lo <= xs[i]
       PROVE  Bench!Between(lo, <<R, c>>, 100)
  <2>1. \A i \in cov : xs[i] \in Int /\ lo <= xs[i] /\ xs[i] <= 100
    <3>1. \A i \in cov : i \in 1..n
      BY <1>2
    <3> QED
      BY <3>1, <1>4, <1>10, Zenon
  <2>2. lo \in Int /\ 100 \in Int
    OBVIOUS
  <2> QED
    BY <1>1, <1>2, <1>3, <2>1, <2>2, SumBetween
<1>11. R \in Int /\ R <= 100 * c
  <2>1. \A i \in cov : 0 <= xs[i]
    <3>1. \A i \in cov : i \in 1..n
      BY <1>2
    <3> QED
      BY <3>1, <1>4, Zenon
  <2>2. Bench!Between(0, <<R, c>>, 100)
    BY <1>10, <2>1
  <2>3. R \in Int
    BY <1>1, <1>2, <1>3, <1>8, SumIsInt
  <2> QED
    BY <2>2, <2>3 DEF Bench!Between
<1>12. R * n <= N * c
  <2> HIDE DEF R, N, c
  <2> DEFINE u == n - c
  <2>1. u \in Nat /\ n = c + u
    BY <1>1, <1>5
  <2> HIDE DEF u
  <2>2. N = R + 100 * u
    BY <1>1, <1>5, <1>9, <2>1
  <2>3. R * u <= (100 * c) * u
    BY <1>5, <1>11, <2>1
  <2>4. R * (c + u) = R * c + R * u
    BY <1>5, <1>11, <2>1
  <2>5. (R + 100 * u) * c = R * c + (100 * c) * u
    BY <1>5, <1>11, <2>1
  <2>6. R * n = R * c + R * u
    BY <2>1, <2>4
  <2>7. N * c = R * c + (100 * c) * u
    BY <2>2, <2>5
  <2>8. R * c \in Int /\ R * u \in Int /\ (100 * c) * u \in Int
    BY <1>5, <1>11, <2>1
  <2> HIDE DEF R, N, c
  <2> QED
    BY <2>3, <2>6, <2>7, <2>8
<1>13. ASSUME NEW lo \in Nat, \A i \in cov : lo <= as[i].rate
       PROVE  Bench!Between(lo, <<R, c>>, 100)
  <2>1. \A i \in cov : lo <= xs[i]
    BY <1>2, <1>3, <1>13, Zenon
  <2> QED
    BY <1>10, <2>1
<1> HIDE DEF R, N, c
<1>14. /\ Bench!Scoring(as).rate[1] = R /\ Bench!Scoring(as).rate[2] = c
       /\ Bench!Scoring(as).naive[1] = N /\ Bench!Scoring(as).naive[2] = n
  <2> DEFINE p == <<R, c>>
             q == <<N, n>>
  <2>1. p[1] = R /\ p[2] = c /\ q[1] = N /\ q[2] = n
    OBVIOUS
  <2> QED
    BY <1>6, <1>7, <2>1, Zenon
<1>15. Bench!Scoring(as).rate[1] * Bench!Scoring(as).naive[2]
          <= Bench!Scoring(as).naive[1] * Bench!Scoring(as).rate[2]
  BY <1>12, <1>14, Zenon
<1> QED
  BY <1>6, <1>13, <1>15, Zenon

(* What each ratio is of.                                                   *)
LEMMA TheRatiosAre ==
  ASSUME NEW a
  PROVE  /\ Bench!RatioOf("fair", a) = Bench!Over(a.bfSim, Bench!SimulatePlusRib(a))
         /\ Bench!RatioOf("wall", a) = Bench!Over(a.bfWall, a.hhWall)
         /\ Bench!RatioOf("asym", a) = Bench!Over(a.bfSim, a.hhSim)
BY DEF Bench!RatioOf

(* Whatever Hammerhead says about itself, the scoring is the same.          *)
THEOREM TheVerdictIsNotScored ==
  ASSUME NEW as \in Seq(Agreements), NEW bs,
         bs = [i \in DOMAIN as |-> [as[i] EXCEPT !.degraded = "unknown"]]
  PROVE  Len(bs) = Len(as) /\ Bench!Scoring(bs) = Bench!Scoring(as)
<1> DEFINE n == Len(as)
<1>1. n \in Nat /\ DOMAIN as = 1..n
  BY AgreementsAre
<1>2. bs = [i \in 1..n |-> [as[i] EXCEPT !.degraded = "unknown"]]
  BY <1>1
<1>3. DOMAIN bs = 1..n /\ Len(bs) = n
  <2> HIDE DEF n
  <2> QED
    BY <1>1, <1>2
<1> HIDE DEF n
<1>4. ASSUME NEW i \in 1..n
      PROVE  /\ bs[i].both = as[i].both /\ bs[i].union = as[i].union
             /\ bs[i].rate = as[i].rate /\ bs[i].bfRoutes = as[i].bfRoutes
             /\ bs[i].bfSim = as[i].bfSim /\ bs[i].hhSim = as[i].hhSim
             /\ bs[i].hhRib = as[i].hhRib /\ bs[i].bfWall = as[i].bfWall
             /\ bs[i].hhWall = as[i].hhWall
  <2> DEFINE a == as[i]
  <2>1. a \in Bench!Agreement
    BY AgreementsAre DEF n
  <2>2. bs[i] = [a EXCEPT !.degraded = "unknown"]
    BY <1>2
  <2> HIDE DEF a
  <2>3. DOMAIN a = {"bfSim", "hhSim", "hhRib", "bfWall", "hhWall",
                    "both", "union", "rate", "bfRoutes", "degraded"}
    BY <2>1 DEF Bench!Agreement
  <2>4. \A f \in DOMAIN a : f # "degraded" => [a EXCEPT !.degraded = "unknown"][f] = a[f]
    OBVIOUS
  <2> DEFINE b == [a EXCEPT !.degraded = "unknown"]
  <2>5. /\ b["both"] = a["both"] /\ b["union"] = a["union"] /\ b["rate"] = a["rate"]
        /\ b["bfRoutes"] = a["bfRoutes"] /\ b["bfSim"] = a["bfSim"] /\ b["hhSim"] = a["hhSim"]
        /\ b["hhRib"] = a["hhRib"] /\ b["bfWall"] = a["bfWall"] /\ b["hhWall"] = a["hhWall"]
    BY <2>3, <2>4
  <2> HIDE DEF b
  <2> QED
    BY <2>2, <2>5 DEF a, b
<1>5. Bench!Covered(bs) = Bench!Covered(as)
  BY <1>1, <1>3, <1>4 DEF Bench!Covered
<1>6. Bench!Rates(bs) = Bench!Rates(as)
  BY <1>1, <1>3, <1>4 DEF Bench!Rates
<1>7. [i \in DOMAIN bs |-> Bench!Presence(bs[i])] = [i \in DOMAIN as |-> Bench!Presence(as[i])]
  BY <1>1, <1>3, <1>4 DEF Bench!Presence
<1>8. [i \in DOMAIN bs |-> bs[i].bfRoutes] = [i \in DOMAIN as |-> as[i].bfRoutes]
  BY <1>1, <1>3, <1>4
<1>9. Bench!Weights(bs) = Bench!Weights(as)
  BY <1>1, <1>3, <1>4 DEF Bench!Weights
<1>10. ASSUME NEW q \in Bench!Quantities PROVE Bench!Ratios(q, bs) = Bench!Ratios(q, as)
  <2>1. ASSUME NEW i \in 1..n PROVE Bench!RatioOf(q, bs[i]) = Bench!RatioOf(q, as[i])
    <3> DEFINE a == as[i]
               b == bs[i]
    <3>1. /\ b.bfSim = a.bfSim /\ b.hhSim = a.hhSim /\ b.hhRib = a.hhRib
          /\ b.bfWall = a.bfWall /\ b.hhWall = a.hhWall
      BY <1>4
    <3> HIDE DEF a, b
    <3>2. Bench!SimulatePlusRib(b) = Bench!SimulatePlusRib(a)
      BY <3>1 DEF Bench!SimulatePlusRib
    <3>3. /\ Bench!RatioOf("fair", b) = Bench!RatioOf("fair", a)
          /\ Bench!RatioOf("wall", b) = Bench!RatioOf("wall", a)
          /\ Bench!RatioOf("asym", b) = Bench!RatioOf("asym", a)
      BY <3>1, <3>2, TheRatiosAre
    <3>4. q = "fair" \/ q = "wall" \/ q = "asym"
      BY DEF Bench!Quantities
    <3> QED
      BY <3>3, <3>4 DEF a, b
  <2> QED
    BY <1>1, <1>3, <2>1, Zenon DEF Bench!Ratios
<1> QED
  BY <1>1, <1>3, <1>5, <1>6, <1>7, <1>8, <1>9, <1>10, Zenon DEF Bench!Scoring, n

(* The verdicts count every topology once.                                  *)
LEMMA TheVerdictsAddUp ==
  ASSUME NEW as \in Seq(Agreements)
  PROVE  LET v == Bench!CoverageBlock(as)
         IN /\ v.complete + v.degraded + v.unknown = Len(as)
            /\ v.coveredComplete <= v.complete
            /\ v.coveredComplete <= Bench!Scoring(as).covered
<1> DEFINE n == Len(as)
           No == Bench!Saying("no", as)
           Yes == Bench!Saying("yes", as)
           Unknown == Bench!Saying("unknown", as)
           Cov == Bench!Covered(as)
<1>1. n \in Nat /\ DOMAIN as = 1..n /\ \A i \in 1..n : as[i].degraded \in {"no", "yes", "unknown"}
  BY AgreementsAre
<1>2. /\ No \cup Yes \cup Unknown = 1..n /\ Cov \subseteq 1..n
      /\ No \cap Yes = {} /\ (No \cup Yes) \cap Unknown = {}
  BY <1>1 DEF Bench!Saying, Bench!Covered
<1> HIDE DEF n, No, Yes, Unknown, Cov
<1>3. IsFiniteSet(1..n) /\ Cardinality(1..n) = n
  BY <1>1, FS_Interval
<1>4. IsFiniteSet(No) /\ IsFiniteSet(Yes) /\ IsFiniteSet(Unknown) /\ IsFiniteSet(Cov)
  BY <1>2, <1>3, FS_Subset
<1>5. /\ Cardinality(No) \in Nat /\ Cardinality(Yes) \in Nat /\ Cardinality(Unknown) \in Nat
      /\ Cardinality(Cov) \in Nat
  BY <1>4, FS_CardinalityType
<1>6. IsFiniteSet(No \cup Yes) /\ Cardinality(No \cup Yes) = Cardinality(No) + Cardinality(Yes)
  <2>1. Cardinality(No \cup Yes) = Cardinality(No) + Cardinality(Yes) - Cardinality(No \cap Yes)
    BY <1>4, FS_Union
  <2>2. IsFiniteSet(No \cup Yes)
    BY <1>4, FS_Union
  <2>3. Cardinality(No \cap Yes) = 0
    BY <1>2, FS_EmptySet
  <2> QED
    BY <1>5, <2>1, <2>2, <2>3
<1>7. n = Cardinality(No) + Cardinality(Yes) + Cardinality(Unknown)
  <2>1. Cardinality((No \cup Yes) \cup Unknown) =
          Cardinality(No \cup Yes) + Cardinality(Unknown) - Cardinality((No \cup Yes) \cap Unknown)
    BY <1>4, <1>6, FS_Union
  <2>2. Cardinality((No \cup Yes) \cap Unknown) = 0
    BY <1>2, FS_EmptySet
  <2>3. n = Cardinality((No \cup Yes) \cup Unknown)
    BY <1>2, <1>3
  <2> QED
    BY <1>5, <1>6, <2>1, <2>2, <2>3
<1>8. Cardinality(Cov \cap No) <= Cardinality(No) /\ Cardinality(Cov \cap No) <= Cardinality(Cov)
  BY <1>4, FS_Subset
<1>9. LET v == Bench!CoverageBlock(as)
      IN /\ v.complete = Cardinality(No) /\ v.degraded = Cardinality(Yes)
         /\ v.unknown = Cardinality(Unknown) /\ v.coveredComplete = Cardinality(Cov \cap No)
         /\ Bench!Scoring(as).covered = Cardinality(Cov)
  BY SameCount DEF Bench!CoverageBlock, Bench!Scoring, No, Yes, Unknown, Cov
<1> QED
  BY <1>7, <1>8, <1>9 DEF n

(* The invariant of the summary: it is of all that was scored.              *)
SInv ==
  /\ agreements \in Seq(Agreements)
  /\ summary = Bench!NoSummary \/ summary = Bench!AggregateSimOnly(agreements)

(* The invariant holds from the start and with every topology scored.       *)
THEOREM SummaryInvariance == Bench!Spec => []SInv
<1>1. Bench!Init => SInv
  BY EmptySeq DEF Bench!Init, SInv
<1>2. SInv /\ [Bench!Next]_(Bench!vars) => SInv'
  <2> SUFFICES ASSUME SInv, [Bench!Next]_(Bench!vars)
               PROVE  SInv'
    OBVIOUS
  <2>1. CASE Bench!TopologyScored
    <3>1. PICK a \in Agreements : agreements' = Append(agreements, a)
      BY <2>1 DEF Bench!TopologyScored
    <3>2. agreements' \in Seq(Agreements)
      BY <3>1, AppendProperties DEF SInv
    <3> QED
      BY <2>1, <3>2 DEF SInv, Bench!TopologyScored
  <2>2. CASE Bench!WriteSummary
    BY <2>2 DEF SInv, Bench!WriteSummary
  <2>3. CASE UNCHANGED Bench!vars
    BY <2>3 DEF SInv, Bench!vars
  <2> QED
    BY <2>1, <2>2, <2>3 DEF Bench!Next
<1> QED
  BY <1>1, <1>2, PTL DEF Bench!Spec

(* What a written summary is.                                               *)
LEMMA TheSummaryIs ==
  ASSUME SInv, Bench!Scored
  PROVE  /\ agreements \in Seq(Agreements) /\ agreements # <<>>
         /\ summary = Bench!AggregateSimOnly(agreements)
         /\ summary.scoring = Bench!Scoring(agreements)
         /\ summary.verdicts = Bench!CoverageBlock(agreements)
BY DEF SInv, Bench!Scored, Bench!AggregateSimOnly

(* With the invariant, the means are honest.                                *)
LEMMA TheMeansAreHonest == SInv => Bench!HonestMeans
<1> SUFFICES ASSUME SInv, Bench!Scored PROVE Bench!HonestMeans
  BY DEF Bench!HonestMeans
<1> DEFINE as == agreements
           cov == {i \in DOMAIN as : as[i].both > 0}
           compared == Bench!Those(cov, as)
           alone == Bench!AggregateSimOnly(compared)
           bs == [i \in DOMAIN as |-> [as[i] EXCEPT !.degraded = "unknown"]]
           blind == Bench!AggregateSimOnly(bs)
           v == summary.verdicts
           mean == summary.scoring
           rates == {compared[i].rate : i \in DOMAIN compared}
<1>1. /\ as \in Seq(Agreements) /\ as # <<>> /\ summary = Bench!AggregateSimOnly(as)
      /\ mean = Bench!Scoring(as) /\ v = Bench!CoverageBlock(as)
  BY TheSummaryIs
<1>2. ASSUME compared # <<>>
      PROVE  /\ alone.scoring.naive = mean.rate /\ alone.verdicts.rate = v.rate
             /\ mean.rate[1] * mean.naive[2] <= mean.naive[1] * mean.rate[2]
             /\ \A lo \in rates : (\A x \in rates : lo <= x) => Bench!Between(lo, mean.rate, 100)
             /\ v.rate = Bench!NoMean <=> ~\E i \in DOMAIN compared : compared[i].degraded = "no"
  <2>0. cov = Bench!Covered(as) /\ compared = Bench!Those(Bench!Covered(as), as)
    BY DEF Bench!Covered
  <2> HIDE DEF cov, compared
  <2>1. /\ SameMeans(compared, as) /\ SameMembers(compared, cov, as)
        /\ compared \in Seq(Agreements) /\ cov # {}
    BY <1>1, <1>2, <2>0, TheCoveredAlone
  <2>2. /\ Bench!Scoring(compared).naive = Bench!Scoring(as).rate
        /\ Bench!CoverageBlock(compared).rate = Bench!CoverageBlock(as).rate
        /\ compared \in Seq(Agreements) /\ cov # {} /\ cov = Bench!Covered(as)
        /\ \A i \in DOMAIN compared : \E k \in cov : compared[i] = as[k]
        /\ \A k \in cov : \E i \in DOMAIN compared : compared[i] = as[k]
    BY <2>0, <2>1, Zenon DEF SameMeans, SameMembers
  <2>3. alone.scoring = Bench!Scoring(compared) /\ alone.verdicts = Bench!CoverageBlock(compared)
    BY <1>2 DEF Bench!AggregateSimOnly
  <2>4. \A lo \in rates : lo \in Nat
    <3> SUFFICES ASSUME NEW i \in DOMAIN compared PROVE compared[i].rate \in Nat
      OBVIOUS
    <3>1. i \in 1..Len(compared)
      BY <2>2, AgreementsAre
    <3>2. compared[i].rate \in 0..100
      BY <2>2, <3>1, AgreementsAre
    <3>3. 0..100 \subseteq Nat
      OBVIOUS
    <3> QED
      BY <3>2, <3>3, Zenon
  <2>5. ASSUME NEW lo \in rates, \A x \in rates : lo <= x
        PROVE  \A i \in cov : lo <= as[i].rate
    <3> SUFFICES ASSUME NEW k \in cov PROVE lo <= as[k].rate
      OBVIOUS
    <3>1. PICK i \in DOMAIN compared : compared[i] = as[k]
      BY <2>2
    <3>2. compared[i].rate \in rates
      BY Zenon
    <3> QED
      BY <2>5, <3>1, <3>2, Zenon
  <2>6. /\ mean.rate[1] * mean.naive[2] <= mean.naive[1] * mean.rate[2]
        /\ \A lo \in Nat : (\A i \in cov : lo <= as[i].rate) => Bench!Between(lo, mean.rate, 100)
    BY <1>1, <2>2, TheNaiveFlatters
  <2>7. v.rate = Bench!NoMean <=> ~\E i \in DOMAIN compared : compared[i].degraded = "no"
    <3> DEFINE T == cov \cap Bench!Saying("no", as)
    <3>1. v.rate = Bench!MeanOrNone(T, Bench!Rates(as))
      BY <1>1, <2>2 DEF Bench!CoverageBlock
    <3>2. T = {} <=> ~\E k \in cov : as[k].degraded = "no"
      BY <2>2 DEF Bench!Saying, Bench!Covered
    <3>3. (\E k \in cov : as[k].degraded = "no")
             <=> \E i \in DOMAIN compared : compared[i].degraded = "no"
      <4>1. ASSUME NEW k \in cov, as[k].degraded = "no"
            PROVE  \E i \in DOMAIN compared : compared[i].degraded = "no"
        <5>1. PICK i \in DOMAIN compared : compared[i] = as[k]
          BY <2>2
        <5> QED
          BY <4>1, <5>1
      <4>2. ASSUME NEW i \in DOMAIN compared, compared[i].degraded = "no"
            PROVE  \E k \in cov : as[k].degraded = "no"
        <5>1. PICK k \in cov : compared[i] = as[k]
          BY <2>2
        <5> QED
          BY <4>2, <5>1
      <4> QED
        BY <4>1, <4>2
    <3> HIDE DEF T
    <3>4. v.rate = Bench!NoMean <=> T = {}
      <4>1. \A x, y : <<x, y>> # <<>>
        OBVIOUS
      <4> QED
        BY <3>1, <4>1, Zenon DEF Bench!MeanOrNone, Bench!Mean, Bench!NoMean
    <3> QED
      BY <3>2, <3>3, <3>4, Zenon
  <2> QED
    BY <1>1, <2>2, <2>3, <2>4, <2>5, <2>6, <2>7, Zenon
<1>3. ASSUME compared = <<>>
      PROVE  v.rate = Bench!NoMean <=> ~\E i \in DOMAIN compared : compared[i].degraded = "no"
  <2>1. cov = {}
    <3>1. cov = Bench!Covered(as) /\ compared = Bench!Those(Bench!Covered(as), as)
      BY DEF Bench!Covered
    <3> HIDE DEF as, cov, compared
    <3> QED
      BY <1>1, <1>3, <3>1, NoneAlone
  <2>2. Bench!Covered(as) \cap Bench!Saying("no", as) = {}
    BY <2>1 DEF Bench!Covered
  <2>3. v.rate = Bench!NoMean
    <3> HIDE DEF as, v
    <3> QED
      BY <1>1, <2>2 DEF Bench!CoverageBlock, Bench!MeanOrNone
  <2>4. DOMAIN compared = {}
    BY <1>3
  <2> QED
    BY <2>3, <2>4
<1>4. [blind EXCEPT !.verdicts = v] = summary
  <2>1. Len(bs) = Len(as) /\ Bench!Scoring(bs) = Bench!Scoring(as)
    <3>1. bs = [i \in DOMAIN as |-> [as[i] EXCEPT !.degraded = "unknown"]]
      OBVIOUS
    <3> HIDE DEF as, bs
    <3> QED
      BY <1>1, <3>1, TheVerdictIsNotScored
  <2>2. bs # <<>>
    <3>1. Len(as) # 0
      BY <1>1, EmptySeq
    <3> HIDE DEF bs
    <3> QED
      BY <2>1, <3>1
  <2> HIDE DEF as, bs, v
  <2>3. blind = [topologies |-> Len(as), verdicts |-> Bench!CoverageBlock(bs),
                 scoring |-> Bench!Scoring(as)]
    BY <2>1, <2>2 DEF Bench!AggregateSimOnly
  <2>4. summary = [topologies |-> Len(as), verdicts |-> v, scoring |-> Bench!Scoring(as)]
    BY <1>1 DEF Bench!AggregateSimOnly
  <2> DEFINE l == Len(as)
             b == Bench!CoverageBlock(bs)
             sc == Bench!Scoring(as)
  <2>5. blind = [topologies |-> l, verdicts |-> b, scoring |-> sc]
    BY <2>3
  <2>6. summary = [topologies |-> l, verdicts |-> v, scoring |-> sc]
    BY <2>4
  <2> HIDE DEF blind, l, b, sc
  <2>7. [[topologies |-> l, verdicts |-> b, scoring |-> sc] EXCEPT !.verdicts = v]
          = [topologies |-> l, verdicts |-> v, scoring |-> sc]
    OBVIOUS
  <2> QED
    BY <2>5, <2>6, <2>7, Zenon
<1>5. /\ v.complete + v.degraded + v.unknown = Len(as)
      /\ v.coveredComplete <= v.complete /\ v.coveredComplete <= mean.covered
  BY <1>1, TheVerdictsAddUp
<1> HIDE DEF compared, alone, blind, v, mean, rates
<1> QED
  BY <1>1, <1>2, <1>3, <1>4, <1>5 DEF Bench!HonestMeans, compared, alone, blind, v, mean, rates

(* The quotient of two numbers.                                             *)
LEMMA Quotient ==
  ASSUME NEW x \in Nat, NEW h \in Nat, h > 0
  PROVE  x \div h \in Nat /\ h * (x \div h) <= x /\ x < h * (x \div h) + h
OBVIOUS

(* What a division leaves over.                                             *)
LEMMA Remainder ==
  ASSUME NEW x \in Nat, NEW h \in Nat, h > 0
  PROVE  x % h \in Nat /\ x = h * (x \div h) + (x % h)
OBVIOUS

(* A larger divisor gives no larger quotient.                               *)
LEMMA QuotientFalls ==
  ASSUME NEW x \in Nat, NEW h \in Nat, NEW k \in Nat, h > 0, h <= k
  PROVE  x \div k <= x \div h
<1> DEFINE p == x \div k
           q == x \div h
<1>1. p \in Nat /\ q \in Nat /\ k * p <= x /\ x < h * q + h
  BY Quotient
<1> HIDE DEF p, q
<1> SUFFICES ASSUME q < p PROVE FALSE
  BY <1>1 DEF p, q
<1>2. h * q + h <= h * p
  <2>1. h * (q + 1) <= h * p
    BY <1>1
  <2> QED
    BY <2>1, <1>1
<1>3. h * p <= k * p
  BY <1>1
<1> QED
  BY <1>1, <1>2, <1>3

(* What divides the unit divides no multiple of it to nothing.              *)
LEMMA QuotientOfUnit ==
  ASSUME NEW unit \in Nat, unit > 0, NEW bf \in Nat, bf > 0, NEW h \in Nat, h > 0, unit % h = 0
  PROVE  (unit * bf) \div h > 0
<1> DEFINE m == unit \div h
           p == (unit * bf) \div h
<1>1. m \in Nat /\ unit = h * m
  BY Remainder, Quotient
<1> HIDE DEF m
<1>2. m > 0
  BY <1>1
<1>3. unit >= h
  BY <1>1, <1>2
<1>4. unit * bf \in Nat /\ unit * bf >= unit
  OBVIOUS
<1>5. p \in Nat /\ unit * bf < h * p + h
  BY <1>4, Quotient
<1> HIDE DEF p
<1>6. p > 0
  <2> SUFFICES ASSUME p = 0 PROVE FALSE
    BY <1>5
  <2>1. h * p = 0
    OBVIOUS
  <2> QED
    BY <1>3, <1>4, <1>5, <2>1
<1> QED
  BY <1>6 DEF p

(* A ratio is a number, and positive where both times were measured.        *)
LEMMA RatioIs ==
  ASSUME NEW bf \in Bench!Time, NEW hh \in Bench!Time, hh > 0 => Unit % hh = 0
  PROVE  LET r == Bench!Over(bf, hh)
             x == IF r = Bench!None THEN 0 ELSE r
         IN x \in Nat /\ (x > 0 <=> bf > 0 /\ hh > 0)
<1> DEFINE r == Bench!Over(bf, hh)
           x == IF r = Bench!None THEN 0 ELSE r
<1>1. Unit \in Nat /\ Unit > 0
  BY AgreementsAssumption
<1>2. bf \in Nat \cup {-1} /\ hh \in Nat \cup {-1}
  BY DEF Bench!Time, Bench!None
<1>3. CASE bf = -1 \/ hh = -1 \/ hh <= 0
  <2>1. r = -1
    BY <1>2, <1>3 DEF Bench!Over, Bench!None
  <2> HIDE DEF r
  <2>2. x = 0
    BY <2>1 DEF Bench!None
  <2> HIDE DEF x
  <2>3. ~(bf > 0 /\ hh > 0)
    BY <1>2, <1>3
  <2> QED
    BY <2>2, <2>3 DEF x, r
<1>4. CASE bf \in Nat /\ hh \in Nat /\ hh > 0
  <2>1. r = (Unit * bf) \div hh
    BY <1>4 DEF Bench!Over, Bench!None
  <2>2. r \in Nat
    <3>1. Unit * bf \in Nat
      BY <1>1, <1>4
    <3> QED
      BY <1>4, <2>1, <3>1, Quotient
  <2>3. bf > 0 => r > 0
    BY <1>1, <1>4, <2>1, QuotientOfUnit
  <2>4. bf = 0 => r = 0
    <3> SUFFICES ASSUME bf = 0 PROVE r = 0
      OBVIOUS
    <3>1. Unit * bf = 0
      BY <1>1
    <3>2. hh * r <= 0 /\ r \in Nat
      BY <1>4, <2>1, <2>2, <3>1, Quotient
    <3> HIDE DEF r
    <3> QED
      BY <1>4, <3>2
  <2> HIDE DEF r
  <2>5. x = r
    BY <2>2 DEF Bench!None
  <2> HIDE DEF x
  <2> QED
    BY <1>4, <2>2, <2>3, <2>4, <2>5 DEF x, r
<1> QED
  BY <1>2, <1>3, <1>4

(* The times of a topology that was scored.                                 *)
LEMMA TimesAre ==
  ASSUME NEW a \in Agreements
  PROVE  LET solved == Bench!SimulatePlusRib(a)
         IN /\ a.bfSim \in Bench!Time /\ a.hhSim \in Bench!Time
            /\ a.bfWall \in Bench!Time /\ a.hhWall \in Bench!Time
            /\ solved \in Bench!Time /\ a.hhSim <= solved
            /\ a.hhSim > 0 => Unit % a.hhSim = 0
            /\ a.hhWall > 0 => Unit % a.hhWall = 0
            /\ solved > 0 => Unit % solved = 0
<1> DEFINE solved == Bench!SimulatePlusRib(a)
           sim == a.hhSim
           more == a.hhRib
<1>1. /\ a \in Bench!Agreement
      /\ \A hh \in {a.hhSim, Bench!SimulatePlusRib(a), a.hhWall} : hh > 0 => Unit % hh = 0
  BY AgreementsAssumption DEF Bench!WellScored
<1>2. /\ a.bfSim \in Bench!Time /\ a.hhSim \in Bench!Time /\ a.hhRib \in Bench!Time
      /\ a.bfWall \in Bench!Time /\ a.hhWall \in Bench!Time
  BY <1>1 DEF Bench!Agreement
<1>3. solved = IF sim # Bench!None /\ more # Bench!None THEN sim + more ELSE sim
  BY DEF Bench!SimulatePlusRib
<1> HIDE DEF solved
<1>4. sim \in Nat \cup {-1} /\ more \in Nat \cup {-1}
  BY <1>2 DEF Bench!Time, Bench!None
<1> HIDE DEF sim, more
<1>5. solved \in Nat \cup {-1} /\ sim <= solved
  BY <1>3, <1>4 DEF Bench!None
<1> QED
  BY <1>1, <1>2, <1>5 DEF solved, sim, Bench!Time, Bench!None

(* The number that stands for a ratio: none is zero.                        *)
Number(ratio) == IF ratio = Bench!None THEN 0 ELSE ratio

(* The three numbers of a topology: each is positive where its two times    *)
(* were measured, and the fair one is not above the one that favours        *)
(* Hammerhead.                                                              *)
LEMMA NumbersAre ==
  ASSUME NEW a \in Agreements
  PROVE  LET solved == Bench!SimulatePlusRib(a)
             fair == Number(Bench!RatioOf("fair", a))
             wall == Number(Bench!RatioOf("wall", a))
             asym == Number(Bench!RatioOf("asym", a))
         IN /\ fair \in Nat /\ wall \in Nat /\ asym \in Nat
            /\ fair > 0 <=> a.bfSim > 0 /\ solved > 0
            /\ wall > 0 <=> a.bfWall > 0 /\ a.hhWall > 0
            /\ asym > 0 <=> a.bfSim > 0 /\ a.hhSim > 0
            /\ asym > 0 => fair > 0 /\ fair <= asym
<1> DEFINE solved == Bench!SimulatePlusRib(a)
           bf == a.bfSim
           sim == a.hhSim
           bfWall == a.bfWall
           hhWall == a.hhWall
<1>1. /\ bf \in Bench!Time /\ sim \in Bench!Time /\ bfWall \in Bench!Time
      /\ hhWall \in Bench!Time /\ solved \in Bench!Time /\ sim <= solved
      /\ sim > 0 => Unit % sim = 0
      /\ hhWall > 0 => Unit % hhWall = 0
      /\ solved > 0 => Unit % solved = 0
  BY TimesAre
<1>2. /\ Bench!RatioOf("fair", a) = Bench!Over(bf, solved)
      /\ Bench!RatioOf("wall", a) = Bench!Over(bfWall, hhWall)
      /\ Bench!RatioOf("asym", a) = Bench!Over(bf, sim)
  BY TheRatiosAre
<1> DEFINE fair == Number(Bench!Over(bf, solved))
           wall == Number(Bench!Over(bfWall, hhWall))
           asym == Number(Bench!Over(bf, sim))
<1> HIDE DEF bf, sim, solved, bfWall, hhWall
<1>3. fair \in Nat /\ (fair > 0 <=> bf > 0 /\ solved > 0)
  BY <1>1, RatioIs DEF Number
<1>4. wall \in Nat /\ (wall > 0 <=> bfWall > 0 /\ hhWall > 0)
  BY <1>1, RatioIs DEF Number
<1>5. asym \in Nat /\ (asym > 0 <=> bf > 0 /\ sim > 0)
  BY <1>1, RatioIs DEF Number
<1>6. ASSUME asym > 0 PROVE fair > 0 /\ fair <= asym
  <2>1. bf > 0 /\ sim > 0 /\ sim <= solved
    BY <1>1, <1>5, <1>6
  <2>2. bf \in Nat /\ sim \in Nat /\ solved \in Nat /\ solved > 0
    BY <1>1, <2>1 DEF Bench!Time, Bench!None
  <2>3. Unit * bf \in Nat
    BY <2>2, AgreementsAssumption
  <2>4. (Unit * bf) \div solved <= (Unit * bf) \div sim
    BY <2>1, <2>2, <2>3, QuotientFalls
  <2>5. (Unit * bf) \div solved \in Nat /\ (Unit * bf) \div sim \in Nat
    BY <2>1, <2>2, <2>3, Quotient
  <2>6. /\ Bench!Over(bf, solved) = (Unit * bf) \div solved
        /\ Bench!Over(bf, sim) = (Unit * bf) \div sim
    BY <2>1, <2>2 DEF Bench!Over, Bench!None
  <2>7. fair = (Unit * bf) \div solved /\ asym = (Unit * bf) \div sim
    BY <2>5, <2>6 DEF Number, Bench!None
  <2>8. fair > 0
    BY <1>3, <2>1, <2>2
  <2> QED
    BY <2>4, <2>7, <2>8
<1> HIDE DEF fair, wall, asym
<1> QED
  BY <1>2, <1>3, <1>4, <1>5, <1>6 DEF fair, wall, asym, bf, sim, solved, bfWall, hhWall

(* The numbers of one quantity, per topology.                               *)
LEMMA RatiosAre ==
  ASSUME NEW as \in Seq(Agreements), NEW q \in Bench!Quantities
  PROVE  LET r == Bench!Ratios(q, as)
         IN /\ Len(r) = Len(as) /\ DOMAIN r = 1..Len(as)
            /\ \A i \in 1..Len(as) : r[i] = Number(Bench!RatioOf(q, as[i])) /\ r[i] \in Nat
<1> DEFINE n == Len(as)
           r == Bench!Ratios(q, as)
<1>1. n \in Nat /\ DOMAIN as = 1..n /\ \A i \in 1..n : as[i] \in Agreements
  BY AgreementsAre
<1>2. r = [i \in 1..n |-> Number(Bench!RatioOf(q, as[i]))]
  BY <1>1 DEF Bench!Ratios, Number
<1>3. ASSUME NEW i \in 1..n PROVE Number(Bench!RatioOf(q, as[i])) \in Nat
  <2>1. as[i] \in Agreements
    BY <1>1
  <2>2. /\ Number(Bench!RatioOf("fair", as[i])) \in Nat
        /\ Number(Bench!RatioOf("wall", as[i])) \in Nat
        /\ Number(Bench!RatioOf("asym", as[i])) \in Nat
    BY <2>1, NumbersAre
  <2>3. q = "fair" \/ q = "wall" \/ q = "asym"
    BY DEF Bench!Quantities
  <2> QED
    BY <2>2, <2>3
<1> HIDE DEF n, r
<1>4. DOMAIN r = 1..n /\ Len(r) = n
  BY <1>1, <1>2
<1>5. ASSUME NEW i \in 1..n PROVE r[i] = Number(Bench!RatioOf(q, as[i]))
  BY <1>2
<1> QED
  BY <1>3, <1>4, <1>5 DEF n, r

(* A set of natural numbers that is not empty has a least one.              *)
LEMMA Least ==
  ASSUME NEW S, S \subseteq Nat, S # {}
  PROVE  \E x \in S : \A y \in S : x <= y
<1>1. PICK x \in S : \A y \in S : ~ (<<y, x>> \in OpToRel(<, Nat))
  BY NatLessThanWellFounded, WFMin
<1>2. \A y \in S : ~ (y < x)
  <2> SUFFICES ASSUME NEW y \in S, y < x PROVE FALSE
    OBVIOUS
  <2>1. <<y, x>> \in OpToRel(<, Nat)
    BY DEF OpToRel
  <2> QED
    BY <1>1, <2>1
<1> QED
  BY <1>2

(* Numbers of a position each.                                              *)
NaturalsOver(xs, T) == \A i \in T : xs[i] \in Nat

(* Finitely many numbers have a bound.                                      *)
LEMMA Bounded ==
  ASSUME NEW n \in Nat, NEW T, T \subseteq 1..n, NEW xs, NaturalsOver(xs, T)
  PROVE  \E b \in Nat : \A i \in T : xs[i] <= b
<1> DEFINE Has == {j \in 0..n : \E b \in Nat : \A i \in T : i <= j => xs[i] <= b}
<1>1. 0 \in Has
  <2>1. \A i \in T : ~(i <= 0)
    OBVIOUS
  <2>2. \E b \in Nat : \A i \in T : i <= 0 => xs[i] <= b
    BY <2>1
  <2> QED
    BY <2>2
<1>2. ASSUME NEW j \in 1..n, j - 1 \in Has PROVE j \in Has
  <2>1. PICK b \in Nat : \A i \in T : i <= j - 1 => xs[i] <= b
    BY <1>2
  <2>2. CASE j \in T
    <3> DEFINE c == IF b <= xs[j] THEN xs[j] ELSE b
    <3>1. c \in Nat /\ b <= c /\ xs[j] <= c
      BY <2>2 DEF NaturalsOver
    <3> HIDE DEF c
    <3>2. ASSUME NEW i \in T, i <= j PROVE xs[i] <= c
      <4>1. i \in Nat /\ xs[i] \in Nat
        BY DEF NaturalsOver
      <4>2. CASE i = j
        BY <3>1, <4>2
      <4>3. CASE i <= j - 1
        BY <2>1, <3>1, <4>1, <4>3
      <4> QED
        BY <3>2, <4>1, <4>2, <4>3
    <3> QED
      BY <3>1, <3>2
  <2>3. CASE j \notin T
    <3>1. ASSUME NEW i \in T, i <= j PROVE xs[i] <= b
      <4>1. i <= j - 1
        BY <2>3, <3>1
      <4> QED
        BY <2>1, <4>1
    <3> QED
      BY <3>1
  <2> QED
    BY <2>2, <2>3
<1>3. n \in Has
  <2> HIDE DEF Has
  <2>1. \A j \in 0..n : j \in Has
    BY <1>1, <1>2, Segment
  <2> QED
    BY <2>1
<1>4. PICK b \in Nat : \A i \in T : i <= n => xs[i] <= b
  BY <1>3
<1>5. \A i \in T : i <= n
  OBVIOUS
<1> QED
  BY <1>4, <1>5

-----------------------------------------------------------------------------
(* Order.                                                                   *)

(* The positions of T with a number below x, and with one up to x.          *)
Lower(T, xs, x) == {i \in T : xs[i] < x}
UpTo(T, xs, x) == {i \in T : xs[i] <= x}

(* x has rank k among the numbers at T.                                     *)
Ranks(x, k, T, xs) ==
  /\ \E i \in T : x = xs[i]
  /\ Cardinality(Lower(T, xs, x)) < k /\ k <= Cardinality(UpTo(T, xs, x))

(* There are finitely many positions below a number, and up to it.          *)
LEMMA Counts ==
  ASSUME NEW T, IsFiniteSet(T), NEW xs, NEW x
  PROVE  /\ Lower(T, xs, x) \subseteq T /\ UpTo(T, xs, x) \subseteq T
         /\ IsFiniteSet(Lower(T, xs, x)) /\ IsFiniteSet(UpTo(T, xs, x))
         /\ Cardinality(Lower(T, xs, x)) \in Nat /\ Cardinality(UpTo(T, xs, x)) \in Nat
         /\ Cardinality(T) \in Nat
<1>1. Lower(T, xs, x) \subseteq T /\ UpTo(T, xs, x) \subseteq T
  BY DEF Lower, UpTo
<1> QED
  BY <1>1, FS_Subset, FS_CardinalityType

(* The least number with at least k up to it has rank k.                    *)
LEMMA EveryRankIsTaken ==
  ASSUME NEW n \in Nat, NEW T, T \subseteq 1..n, NEW xs, NaturalsOver(xs, T),
         NEW k \in 1..Cardinality(T)
  PROVE  \E x : Ranks(x, k, T, xs)
<1>1. IsFiniteSet(T) /\ Cardinality(T) \in Nat
  BY CountUp
<1> DEFINE S == {x \in Nat : k <= Cardinality(UpTo(T, xs, x))}
<1>2. S # {}
  <2>1. PICK b \in Nat : \A i \in T : xs[i] <= b
    BY Bounded
  <2>2. UpTo(T, xs, b) = T
    BY <2>1 DEF UpTo
  <2>3. k <= Cardinality(UpTo(T, xs, b))
    BY <2>2, <1>1
  <2> QED
    BY <2>3
<1>3. PICK x \in S : \A y \in S : x <= y
  <2>1. S \subseteq Nat
    OBVIOUS
  <2> HIDE DEF S
  <2> QED
    BY <1>2, <2>1, Least
<1>4. x \in Nat /\ k <= Cardinality(UpTo(T, xs, x))
  OBVIOUS
<1>5. Cardinality(Lower(T, xs, x)) < k
  <2>1. CASE x = 0
    <3>0. \A i \in T : ~(xs[i] < 0)
      <4> SUFFICES ASSUME NEW i \in T PROVE ~(xs[i] < 0)
        OBVIOUS
      <4>1. xs[i] \in Nat
        BY DEF NaturalsOver
      <4> QED
        BY <4>1
    <3>1. Lower(T, xs, x) = {}
      BY <2>1, <3>0 DEF Lower
    <3> QED
      BY <3>1, FS_EmptySet
  <2>2. CASE x # 0
    <3>1. x - 1 \in Nat /\ x - 1 \notin S
      BY <1>3, <1>4, <2>2
    <3>2. Lower(T, xs, x) = UpTo(T, xs, x - 1)
      <4>1. ASSUME NEW i \in T PROVE xs[i] < x <=> xs[i] <= x - 1
        <5>1. xs[i] \in Nat
          BY DEF NaturalsOver
        <5> QED
          BY <1>4, <5>1
      <4> QED
        BY <4>1 DEF Lower, UpTo
    <3>3. ~(k <= Cardinality(UpTo(T, xs, x - 1)))
      BY <3>1
    <3>4. Cardinality(UpTo(T, xs, x - 1)) \in Nat
      BY <1>1, Counts
    <3> QED
      BY <3>2, <3>3, <3>4
  <2> QED
    BY <2>1, <2>2
<1>6. \E i \in T : x = xs[i]
  <2> SUFFICES ASSUME \A i \in T : x # xs[i] PROVE FALSE
    OBVIOUS
  <2>1. UpTo(T, xs, x) = Lower(T, xs, x)
    <3>1. ASSUME NEW i \in T PROVE xs[i] <= x <=> xs[i] < x
      <4>1. xs[i] \in Nat /\ x # xs[i]
        BY DEF NaturalsOver
      <4> QED
        BY <1>4, <4>1
    <3> QED
      BY <3>1 DEF UpTo, Lower
  <2>2. Cardinality(Lower(T, xs, x)) \in Nat
    BY <1>1, Counts
  <2> QED
    BY <1>4, <1>5, <2>1, <2>2
<1> QED
  BY <1>4, <1>5, <1>6 DEF Ranks

(* What sorted returns.                                                     *)
LEMMA SortedIs ==
  ASSUME NEW n \in Nat, NEW T, T \subseteq 1..n, NEW xs, NaturalsOver(xs, T)
  PROVE  LET c == Cardinality(T)
             sorted == Bench!Sorted(T, xs)
         IN /\ c \in Nat /\ DOMAIN sorted = 1..c /\ Len(sorted) = c
            /\ \A k \in 1..c : sorted[k] \in Nat /\ Ranks(sorted[k], k, T, xs)
<1> DEFINE c == Cardinality(T)
           sorted == Bench!Sorted(T, xs)
           values == {xs[i] : i \in T}
           pick(k) == CHOOSE x \in values : /\ Cardinality({i \in T : xs[i] < x}) < k
                                            /\ k <= Cardinality({i \in T : xs[i] <= x})
<1>1. c \in Nat
  BY CountUp
<1>2. sorted = [k \in 1..c |-> pick(k)]
  BY DEF Bench!Sorted, Bench!Cardinality, Cardinality
<1>3. ASSUME NEW k \in 1..c PROVE pick(k) \in Nat /\ Ranks(pick(k), k, T, xs)
  <2>1. PICK x : Ranks(x, k, T, xs)
    BY EveryRankIsTaken
  <2>2. \E y \in values : /\ Cardinality({i \in T : xs[i] < y}) < k
                          /\ k <= Cardinality({i \in T : xs[i] <= y})
    BY <2>1 DEF Ranks, Lower, UpTo
  <2>3. /\ pick(k) \in values
        /\ Cardinality({i \in T : xs[i] < pick(k)}) < k
        /\ k <= Cardinality({i \in T : xs[i] <= pick(k)})
    BY <2>2, Zenon
  <2> HIDE DEF pick
  <2>4. PICK i \in T : pick(k) = xs[i]
    BY <2>3
  <2>5. pick(k) \in Nat
    BY <2>4 DEF NaturalsOver
  <2> QED
    BY <2>3, <2>4, <2>5 DEF Ranks, Lower, UpTo
<1> HIDE DEF sorted, pick, c
<1>4. DOMAIN sorted = 1..c /\ Len(sorted) = c /\ \A k \in 1..c : sorted[k] = pick(k)
  BY <1>1, <1>2
<1> QED
  BY <1>1, <1>3, <1>4 DEF sorted, c

(* A number of lower rank is not above one of a higher rank, of numbers     *)
(* that are not below.                                                      *)
LEMMA RanksInOrder ==
  ASSUME NEW T, IsFiniteSet(T), NEW xs, NaturalsOver(xs, T), NEW ys, NaturalsOver(ys, T),
         \A i \in T : xs[i] <= ys[i],
         NEW j \in Nat, NEW k \in Nat, j <= k, NEW x \in Nat, NEW y \in Nat,
         Ranks(x, j, T, xs), Ranks(y, k, T, ys)
  PROVE  x <= y
<1> SUFFICES ASSUME y < x PROVE FALSE
  OBVIOUS
<1>1. UpTo(T, ys, y) \subseteq Lower(T, xs, x)
  BY DEF UpTo, Lower, NaturalsOver
<1>2. IsFiniteSet(Lower(T, xs, x)) /\ Cardinality(Lower(T, xs, x)) \in Nat
      /\ Cardinality(UpTo(T, ys, y)) \in Nat
  BY Counts
<1>3. Cardinality(UpTo(T, ys, y)) <= Cardinality(Lower(T, xs, x))
  BY <1>1, <1>2, FS_Subset
<1> QED
  BY <1>2, <1>3 DEF Ranks

(* The first is the least, the last the greatest.                           *)
LEMMA EndsOfOrder ==
  ASSUME NEW T, IsFiniteSet(T), NEW xs, NaturalsOver(xs, T), NEW x \in Nat, NEW i \in T
  PROVE  /\ Ranks(x, 1, T, xs) => x <= xs[i]
         /\ Ranks(x, Cardinality(T), T, xs) => xs[i] <= x
<1>0. xs[i] \in Nat
  BY DEF NaturalsOver
<1>1. ASSUME Ranks(x, 1, T, xs), xs[i] < x PROVE FALSE
  <2>1. i \in Lower(T, xs, x)
    BY <1>1 DEF Lower
  <2>2. Cardinality(Lower(T, xs, x)) = 0
    BY <1>1, Counts DEF Ranks
  <2> QED
    BY <2>1, <2>2, Counts, FS_EmptySet
<1>2. ASSUME Ranks(x, Cardinality(T), T, xs), x < xs[i] PROVE FALSE
  <2>1. i \notin UpTo(T, xs, x)
    BY <1>0, <1>2 DEF UpTo
  <2>2. UpTo(T, xs, x) \subseteq T \ {i}
    BY <2>1, Counts
  <2>3. Cardinality(T \ {i}) = Cardinality(T) - 1 /\ IsFiniteSet(T \ {i})
    BY FS_RemoveElement
  <2>4. Cardinality(UpTo(T, xs, x)) <= Cardinality(T) - 1
    BY <2>2, <2>3, FS_Subset
  <2>5. Cardinality(T) <= Cardinality(UpTo(T, xs, x))
    BY <1>2 DEF Ranks
  <2> QED
    BY <2>4, <2>5, Counts
<1> QED
  BY <1>0, <1>1, <1>2

-----------------------------------------------------------------------------
(* Quantiles.                                                               *)

(* xs is sorted.                                                            *)
Rising(xs, n) ==
  /\ Len(xs) = n /\ \A i \in 1..n : xs[i] \in Nat
  /\ \A i, j \in 1..n : i <= j => xs[i] <= xs[j]

(* Where the quantile at k quarters of n numbers is: after l of them, and r *)
(* quarters of the way to the next.                                         *)
At(k, n, l, r) ==
  l \in Nat /\ r \in 0..3 /\ k * (n - 1) = 4 * l + r /\ l + 1 <= n /\ (r # 0 => l + 2 <= n)

(* The number at that place, in quarters.                                   *)
Part(xs, l, r) == IF r = 0 THEN 4 * xs[l + 1] ELSE 4 * xs[l + 1] + r * (xs[l + 2] - xs[l + 1])

(* There is one such place, and the quantile is what is found there.        *)
LEMMA QuantileIs ==
  ASSUME NEW n \in Nat, n > 0, NEW k \in 1..3
  PROVE  \E l, r : /\ At(k, n, l, r)
                   /\ \A xs : Len(xs) = n => Bench!Quantile(xs, k) = Part(xs, l, r)
<1> DEFINE pos == k * (n - 1)
           l == pos \div 4
           r == pos % 4
<1>1. pos \in Nat /\ pos <= 3 * (n - 1)
  <2>1. k = 1 \/ k = 2 \/ k = 3
    OBVIOUS
  <2> QED
    BY <2>1
<1>2. ASSUME NEW xs, Len(xs) = n PROVE Bench!Quantile(xs, k) = Part(xs, l, r)
  <2>1. (l + 1) + 1 = l + 2
    BY <1>1
  <2> QED
    BY <1>2, <2>1 DEF Bench!Quantile, Part
<1>3. l \in Nat /\ r \in 0..3 /\ pos = 4 * l + r
  BY <1>1
<1> HIDE DEF l, r
<1>4. l + 1 <= n /\ (r # 0 => l + 2 <= n)
  BY <1>1, <1>3
<1>5. At(k, n, l, r)
  BY <1>3, <1>4 DEF At
<1> QED
  BY <1>2, <1>5

(* It is one of the numbers, or between two of them.                        *)
LEMMA PartIs ==
  ASSUME NEW n \in Nat, n > 0, NEW xs, Rising(xs, n), NEW k \in 1..3, NEW l, NEW r,
         At(k, n, l, r)
  PROVE  /\ xs[l + 1] \in Nat /\ Part(xs, l, r) \in Int /\ 4 * xs[l + 1] <= Part(xs, l, r)
         /\ 4 * xs[1] <= Part(xs, l, r) /\ Part(xs, l, r) <= 4 * xs[n]
         /\ \A m \in Nat : l < m /\ m + 1 <= n => Part(xs, l, r) <= 4 * xs[m + 1]
<1>1. /\ l \in Nat /\ r \in 0..3 /\ l + 1 \in 1..n /\ 1 \in 1..n /\ n \in 1..n
      /\ r # 0 => l + 2 \in 1..n
  BY DEF At
<1> DEFINE x == xs[l + 1]
           y == IF r = 0 THEN x ELSE xs[l + 2]
           p == Part(xs, l, r)
<1>2. x \in Nat /\ y \in Nat /\ x <= y /\ xs[1] \in Nat /\ xs[n] \in Nat /\ xs[1] <= x
      /\ y <= xs[n]
  <2>1. x \in Nat /\ xs[1] \in Nat /\ xs[n] \in Nat /\ xs[1] <= x /\ x <= xs[n]
    BY <1>1 DEF Rising
  <2>2. ASSUME r # 0 PROVE xs[l + 2] \in Nat /\ x <= xs[l + 2] /\ xs[l + 2] <= xs[n]
    BY <1>1, <2>2 DEF Rising
  <2> QED
    BY <2>1, <2>2
<1>3. p = 4 * x + r * (y - x)
  <2>1. CASE r = 0
    BY <1>2, <2>1 DEF Part
  <2>2. CASE r # 0
    BY <2>2 DEF Part
  <2> QED
    BY <2>1, <2>2
<1>4. ASSUME NEW m \in Nat, l < m, m + 1 <= n PROVE y <= xs[m + 1] /\ xs[m + 1] \in Nat
  <2>1. m + 1 \in 1..n
    BY <1>4
  <2>2. CASE r = 0
    BY <1>1, <1>4, <2>1, <2>2 DEF Rising
  <2>3. CASE r # 0
    <3>1. l + 2 <= m + 1
      BY <1>1, <1>4
    <3> QED
      BY <1>1, <2>1, <2>3, <3>1 DEF Rising
  <2> QED
    BY <2>2, <2>3
<1> HIDE DEF x, y, p
<1>5. p \in Int /\ 4 * x <= p /\ p <= 4 * y
  <2>1. r = 0 \/ r = 1 \/ r = 2 \/ r = 3
    BY <1>1
  <2> QED
    BY <1>2, <1>3, <2>1
<1>6. 4 * xs[1] <= p /\ p <= 4 * xs[n]
  BY <1>2, <1>5
<1>7. ASSUME NEW m \in Nat, l < m, m + 1 <= n PROVE p <= 4 * xs[m + 1]
  BY <1>2, <1>4, <1>5, <1>7
<1> QED
  BY <1>2, <1>5, <1>6, <1>7 DEF x, p

(* Of more quarters the quantile is not lower.                              *)
LEMMA QuantilesRise ==
  ASSUME NEW n \in Nat, n > 0, NEW xs, Rising(xs, n), NEW k \in 1..3, NEW m \in 1..3, k <= m
  PROVE  /\ Bench!Quantile(xs, k) \in Int
         /\ 4 * xs[1] <= Bench!Quantile(xs, k) /\ Bench!Quantile(xs, k) <= 4 * xs[n]
         /\ Bench!Quantile(xs, k) <= Bench!Quantile(xs, m)
<1>0. Len(xs) = n
  BY DEF Rising
<1>1. PICK l, r : At(k, n, l, r) /\ Bench!Quantile(xs, k) = Part(xs, l, r)
  BY <1>0, QuantileIs
<1>2. PICK i, s : At(m, n, i, s) /\ Bench!Quantile(xs, m) = Part(xs, i, s)
  BY <1>0, QuantileIs
<1>3. /\ Part(xs, l, r) \in Int /\ 4 * xs[1] <= Part(xs, l, r) /\ Part(xs, l, r) <= 4 * xs[n]
      /\ \A j \in Nat : l < j /\ j + 1 <= n => Part(xs, l, r) <= 4 * xs[j + 1]
  BY <1>1, PartIs
<1>4. xs[i + 1] \in Nat /\ Part(xs, i, s) \in Int /\ 4 * xs[i + 1] <= Part(xs, i, s)
  BY <1>2, PartIs
<1>5. /\ l \in Nat /\ r \in 0..3 /\ i \in Nat /\ s \in 0..3 /\ i + 1 <= n
      /\ k * (n - 1) = 4 * l + r /\ m * (n - 1) = 4 * i + s
  BY <1>1, <1>2 DEF At
<1>6. k * (n - 1) <= m * (n - 1)
  <2>1. k = 1 \/ k = 2 \/ k = 3
    OBVIOUS
  <2>2. m = 1 \/ m = 2 \/ m = 3
    OBVIOUS
  <2> QED
    BY <2>1, <2>2
<1>7. l < i \/ (l = i /\ r <= s)
  <2>1. 4 * l + r <= 4 * i + s
    BY <1>5, <1>6
  <2> QED
    BY <1>5, <2>1
<1>8. CASE l < i
  <2>1. Part(xs, l, r) <= 4 * xs[i + 1]
    BY <1>3, <1>5, <1>8
  <2> HIDE DEF Part
  <2> QED
    BY <1>1, <1>2, <1>3, <1>4, <2>1
<1>9. CASE l = i /\ r <= s
  <2>1. Part(xs, l, r) <= Part(xs, l, s)
    <3>1. CASE s = 0
      <4>1. r = s
        BY <1>5, <1>9, <3>1
      <4> QED
        BY <1>3, <4>1
    <3>2. CASE s # 0
      <4> DEFINE x == xs[l + 1]
                 y == xs[l + 2]
      <4>1. l + 1 \in 1..n /\ l + 2 \in 1..n
        BY <1>2, <1>5, <1>9, <3>2 DEF At
      <4>2. x \in Nat /\ y \in Nat /\ x <= y
        BY <1>5, <4>1 DEF Rising
      <4>3. /\ Part(xs, l, r) = IF r = 0 THEN 4 * x ELSE 4 * x + r * (y - x)
            /\ Part(xs, l, s) = 4 * x + s * (y - x)
        BY <3>2 DEF Part
      <4> HIDE DEF x, y
      <4>4. r = 0 \/ r = 1 \/ r = 2 \/ r = 3
        BY <1>5
      <4>5. s = 1 \/ s = 2 \/ s = 3
        BY <1>5, <3>2
      <4>6. (IF r = 0 THEN 4 * x ELSE 4 * x + r * (y - x)) <= 4 * x + s * (y - x)
        BY <1>9, <4>2, <4>4, <4>5
      <4> QED
        BY <4>3, <4>6
    <3> QED
      BY <3>1, <3>2
  <2>2. Part(xs, i, s) = Part(xs, l, s)
    BY <1>9
  <2> QED
    BY <1>1, <1>2, <1>3, <2>1, <2>2, Zenon
<1> QED
  BY <1>1, <1>3, <1>7, <1>8, <1>9

(* Of numbers that are not lower the quantile is not lower.                 *)
LEMMA QuantilesDominate ==
  ASSUME NEW n \in Nat, n > 0, NEW xs, Rising(xs, n), NEW ys, Rising(ys, n),
         \A i \in 1..n : xs[i] <= ys[i], NEW k \in 1..3
  PROVE  Bench!Quantile(xs, k) <= Bench!Quantile(ys, k)
<1>0. Len(xs) = n /\ Len(ys) = n
  BY DEF Rising
<1>1. PICK l, r : /\ At(k, n, l, r)
                  /\ \A zs : Len(zs) = n => Bench!Quantile(zs, k) = Part(zs, l, r)
  BY QuantileIs
<1>2. /\ Bench!Quantile(xs, k) = Part(xs, l, r)
      /\ Bench!Quantile(ys, k) = Part(ys, l, r)
  BY <1>0, <1>1
<1>3. l \in Nat /\ r \in 0..3 /\ l + 1 \in 1..n /\ (r # 0 => l + 2 \in 1..n)
  BY <1>1 DEF At
<1>4. xs[l + 1] \in Nat /\ ys[l + 1] \in Nat /\ xs[l + 1] <= ys[l + 1]
  BY <1>3 DEF Rising
<1>5. CASE r = 0
  BY <1>2, <1>4, <1>5 DEF Part
<1>6. CASE r # 0
  <2> DEFINE a == xs[l + 1]
             b == xs[l + 2]
             c == ys[l + 1]
             d == ys[l + 2]
  <2>1. b \in Nat /\ d \in Nat /\ b <= d
    BY <1>3, <1>6 DEF Rising
  <2>2. /\ Part(xs, l, r) = 4 * a + r * (b - a)
        /\ Part(ys, l, r) = 4 * c + r * (d - c)
    BY <1>6 DEF Part
  <2> HIDE DEF a, b, c, d
  <2>3. r = 1 \/ r = 2 \/ r = 3
    BY <1>3, <1>6
  <2>4. 4 * a + r * (b - a) <= 4 * c + r * (d - c)
    BY <1>4, <2>1, <2>3 DEF a, c
  <2> QED
    BY <1>2, <2>2, <2>4
<1> QED
  BY <1>5, <1>6

(* What is sorted rises, from the least number to the greatest.             *)
THEOREM SortedRises ==
  ASSUME NEW n \in Nat, NEW T, T \subseteq 1..n, T # {}, NEW xs, NaturalsOver(xs, T)
  PROVE  LET c == Cardinality(T)
             sorted == Bench!Sorted(T, xs)
         IN /\ c \in Nat /\ c > 0 /\ Rising(sorted, c)
            /\ \A i \in T : sorted[1] <= xs[i] /\ xs[i] <= sorted[c]
            /\ \E i \in T : sorted[1] = xs[i]
<1> DEFINE c == Cardinality(T)
           sorted == Bench!Sorted(T, xs)
<1>1. IsFiniteSet(T) /\ c \in Nat
  BY CountUp
<1>2. c > 0
  BY <1>1, FS_EmptySet
<1>3. Len(sorted) = c /\ \A k \in 1..c : sorted[k] \in Nat /\ Ranks(sorted[k], k, T, xs)
  BY SortedIs
<1> HIDE DEF sorted, c
<1>4. ASSUME NEW j \in 1..c, NEW k \in 1..c, j <= k PROVE sorted[j] <= sorted[k]
  <2>1. \A i \in T : xs[i] <= xs[i]
    BY DEF NaturalsOver
  <2>2. j \in Nat /\ k \in Nat /\ sorted[j] \in Nat /\ sorted[k] \in Nat
        /\ Ranks(sorted[j], j, T, xs) /\ Ranks(sorted[k], k, T, xs)
    BY <1>3
  <2> QED
    BY <1>1, <1>4, <2>1, <2>2, RanksInOrder
<1>5. Rising(sorted, c)
  BY <1>3, <1>4 DEF Rising
<1>6. 1 \in 1..c /\ c \in 1..c
  BY <1>1, <1>2
<1>7. /\ sorted[1] \in Nat /\ Ranks(sorted[1], 1, T, xs)
      /\ sorted[c] \in Nat /\ Ranks(sorted[c], c, T, xs)
  BY <1>3, <1>6
<1>8. \A i \in T : sorted[1] <= xs[i] /\ xs[i] <= sorted[c]
  BY <1>1, <1>7, EndsOfOrder DEF c
<1>9. \E i \in T : sorted[1] = xs[i]
  BY <1>7 DEF Ranks
<1> QED
  BY <1>1, <1>2, <1>5, <1>8, <1>9 DEF c, sorted

(* Of numbers that are not lower, none of those that are sorted is lower.   *)
LEMMA SortedDominates ==
  ASSUME NEW n \in Nat, NEW T, T \subseteq 1..n, NEW xs, NaturalsOver(xs, T), NEW ys,
         NaturalsOver(ys, T), \A i \in T : xs[i] <= ys[i], NEW k \in 1..Cardinality(T)
  PROVE  Bench!Sorted(T, xs)[k] <= Bench!Sorted(T, ys)[k]
<1> DEFINE x == Bench!Sorted(T, xs)[k]
           y == Bench!Sorted(T, ys)[k]
<1>1. IsFiniteSet(T) /\ Cardinality(T) \in Nat
  BY CountUp
<1>2. x \in Nat /\ Ranks(x, k, T, xs)
  BY SortedIs
<1>3. y \in Nat /\ Ranks(y, k, T, ys)
  BY SortedIs
<1> HIDE DEF x, y
<1>4. k \in Nat /\ k <= k
  BY <1>1
<1>5. x <= y
  BY <1>1, <1>2, <1>3, <1>4, RanksInOrder
<1> QED
  BY <1>5 DEF x, y

-----------------------------------------------------------------------------
(* Products and powers.                                                     *)

(* prod holds the products of xs at T, up to each position.                 *)
MultipliesUp(prod, n, T, xs) ==
  /\ prod \in [0..n -> Nat] /\ prod[0] = 1
  /\ \A i \in 1..n : prod[i] = prod[i - 1] * (IF i \in T THEN xs[i] ELSE 1)
  /\ Bench!ProductOf(T, xs) = prod[n]

(* xs has n numbers, not negative where they are looked at.                 *)
NaturalsAt(xs, n, T) == Len(xs) = n /\ \A i \in 1..n : i \in T => xs[i] \in Nat

(* There is a function that holds the products.                             *)
LEMMA ProductUp ==
  ASSUME NEW n \in Nat, NEW T, NEW xs, NaturalsAt(xs, n, T)
  PROVE  \E prod : MultipliesUp(prod, n, T, xs)
<1> USE DEF NaturalsAt
<1> DEFINE g(i) == IF i \in T THEN xs[i] ELSE 1
           Is(s, k) == s[0] = 1 /\ \A i \in 1..k : s[i] = s[i - 1] * g(i)
           Has == {k \in 0..n : \E s \in [0..k -> Nat] : Is(s, k)}
<1>0. \A i \in 1..n : g(i) \in Nat
  OBVIOUS
<1>1. 0 \in Has
  <2>1. [i \in 0..0 |-> 1] \in [0..0 -> Nat] /\ Is([i \in 0..0 |-> 1], 0)
    OBVIOUS
  <2> HIDE DEF Is
  <2> QED
    BY <2>1
<1>2. ASSUME NEW k \in 1..n, k - 1 \in Has
      PROVE  k \in Has
  <2>1. PICK s \in [0..k - 1 -> Nat] : Is(s, k - 1)
    BY <1>2
  <2> DEFINE t == [i \in 0..k |-> IF i = k THEN s[k - 1] * g(k) ELSE s[i]]
  <2>2. t \in [0..k -> Nat]
    <3>1. s[k - 1] \in Nat /\ g(k) \in Nat
      BY <1>0
    <3>2. s[k - 1] * g(k) \in Nat
      <4> HIDE DEF g
      <4> QED
        BY <3>1
    <3>3. \A i \in 0..k : i # k => s[i] \in Nat
      OBVIOUS
    <3> HIDE DEF g
    <3> QED
      BY <3>2, <3>3
  <2>3. t[0] = 1
    BY <2>1
  <2> HIDE DEF g
  <2>4. ASSUME NEW i \in 1..k PROVE t[i] = t[i - 1] * g(i)
    BY <2>1
  <2>5. Is(t, k)
    BY <2>3, <2>4
  <2> HIDE DEF t, Is
  <2> QED
    BY <2>2, <2>5
<1>3. n \in Has
  <2> HIDE DEF Has
  <2>1. \A i \in 0..n : i \in Has
    BY <1>1, <1>2, Segment
  <2> QED
    BY <2>1
<1>4. PICK s \in [0..n -> Nat] : Is(s, n)
  BY <1>3
<1> DEFINE F(f) == [i \in 0..n |-> IF i = 0 THEN 1 ELSE f[i - 1] * g(i)]
           upTo == CHOOSE f : f = F(f)
<1>5. s = F(s)
  <2> HIDE DEF g
  <2> QED
    BY <1>4
<1>6. upTo = F(upTo)
  <2> HIDE DEF F
  <2> QED
    BY <1>5
<1>7. Bench!ProductOf(T, xs) = upTo[n]
  BY DEF Bench!ProductOf
<1>8. upTo[0] = 1 /\ \A i \in 1..n : upTo[i] = upTo[i - 1] * g(i)
  <2>1. F(upTo)[0] = 1 /\ \A i \in 1..n : F(upTo)[i] = upTo[i - 1] * g(i)
    <3> HIDE DEF upTo, g
    <3> QED
      OBVIOUS
  <2> HIDE DEF upTo, g, F
  <2> QED
    BY <1>6, <2>1
<1> DEFINE Same == {i \in 0..n : upTo[i] = s[i]}
<1> HIDE DEF upTo, g, F
<1>9. \A i \in 0..n : i \in Same
  <2>1. 0 \in Same
    BY <1>4, <1>8
  <2>2. ASSUME NEW i \in 1..n, i - 1 \in Same PROVE i \in Same
    BY <2>2, <1>4, <1>8
  <2> HIDE DEF Same
  <2> QED
    BY <2>1, <2>2, Segment
<1>10. Bench!ProductOf(T, xs) = s[n]
  BY <1>7, <1>9
<1>11. s[0] = 1 /\ \A i \in 1..n : s[i] = s[i - 1] * (IF i \in T THEN xs[i] ELSE 1)
  BY <1>4, Zenon DEF g
<1> QED
  BY <1>10, <1>11, Zenon DEF MultipliesUp

(* Both sides of a comparison of numbers are multiplied.                    *)
LEMMA Multiplied ==
  ASSUME NEW a \in Nat, NEW b \in Nat, NEW c \in Nat, NEW d \in Nat, a <= b, c <= d
  PROVE  a * c \in Nat /\ b * d \in Nat /\ a * c <= b * d
<1>1. a * c \in Nat /\ b * c \in Nat /\ b * d \in Nat
  OBVIOUS
<1>2. a * c <= b * c
  OBVIOUS
<1>3. b * c <= b * d
  OBVIOUS
<1> QED
  BY <1>1, <1>2, <1>3

(* A factor above zero is cancelled.                                        *)
LEMMA Cancelled ==
  ASSUME NEW a \in Nat, NEW b \in Nat, NEW c \in Nat, c > 0, c * a <= c * b
  PROVE  a <= b
<1> SUFFICES ASSUME b < a PROVE FALSE
  OBVIOUS
<1>1. c * (b + 1) <= c * a
  OBVIOUS
<1>2. c * (b + 1) = c * b + c
  OBVIOUS
<1> QED
  BY <1>1, <1>2

(* Products compare as their factors do.                                    *)
LEMMA ProductsBelow ==
  ASSUME NEW n \in Nat, NEW T, NEW xs, NEW ys, NaturalsAt(xs, n, T), NaturalsAt(ys, n, T),
         \A i \in 1..n : i \in T => xs[i] <= ys[i]
  PROVE  Bench!ProductOf(T, xs) <= Bench!ProductOf(T, ys)
<1>1. PICK x : MultipliesUp(x, n, T, xs)
  BY ProductUp
<1>2. PICK y : MultipliesUp(y, n, T, ys)
  BY ProductUp
<1> DEFINE Good == {i \in 0..n : x[i] <= y[i]}
<1>3. 0 \in Good
  BY <1>1, <1>2 DEF MultipliesUp
<1>4. ASSUME NEW i \in 1..n, i - 1 \in Good PROVE i \in Good
  <2>1. x[i - 1] <= y[i - 1] /\ x[i - 1] \in Nat /\ y[i - 1] \in Nat
    BY <1>4, <1>1, <1>2 DEF MultipliesUp
  <2> DEFINE f == IF i \in T THEN xs[i] ELSE 1
             g == IF i \in T THEN ys[i] ELSE 1
  <2>2. x[i] = x[i - 1] * f /\ y[i] = y[i - 1] * g
    BY <1>1, <1>2 DEF MultipliesUp
  <2>3. f \in Nat /\ g \in Nat /\ f <= g
    BY DEF NaturalsAt
  <2> HIDE DEF f, g
  <2>4. x[i - 1] * f <= y[i - 1] * g
    BY <2>1, <2>3, Multiplied
  <2> QED
    BY <2>2, <2>4
<1>5. \A i \in 0..n : i \in Good
  <2> HIDE DEF Good
  <2> QED
    BY <1>3, <1>4, Segment
<1> QED
  BY <1>1, <1>2, <1>5 DEF MultipliesUp

(* A power is the power before, multiplied once more.                       *)
LEMMA PowerIs ==
  ASSUME NEW x \in Nat, NEW n \in Nat
  PROVE  /\ Bench!Power(x, 0) = 1 /\ Bench!Power(x, n) \in Nat
         /\ Bench!Power(x, n + 1) = Bench!Power(x, n) * x
<1> DEFINE xs(k) == [i \in 1..k |-> x]
<1>1. ASSUME NEW k \in Nat
      PROVE  NaturalsAt(xs(k), k, 1..k) /\ \A i \in 1..k : xs(k)[i] = x
  BY DEF NaturalsAt
<1>2. ASSUME NEW k \in Nat PROVE Bench!Power(x, k) = Bench!ProductOf(1..k, xs(k))
  BY DEF Bench!Power
<1> HIDE DEF xs
<1>3. PICK p : MultipliesUp(p, 0, 1..0, xs(0))
  BY <1>1, ProductUp
<1>4. PICK q : MultipliesUp(q, n, 1..n, xs(n))
  BY <1>1, ProductUp
<1>5. PICK r : MultipliesUp(r, n + 1, 1..(n + 1), xs(n + 1))
  BY <1>1, ProductUp
<1>6. Bench!Power(x, 0) = 1
  BY <1>2, <1>3 DEF MultipliesUp
<1> DEFINE Scaled(f, k) == f[0] = 1 /\ \A i \in 1..k : f[i] = f[i - 1] * x
<1>7. ASSUME NEW k \in Nat, NEW f, MultipliesUp(f, k, 1..k, xs(k))
      PROVE  Scaled(f, k) /\ Bench!Power(x, k) = f[k] /\ f[k] \in Nat
  <2>1. ASSUME NEW i \in 1..k PROVE f[i] = f[i - 1] * x
    <3>1. xs(k)[i] = x
      BY <1>1
    <3>2. f[i] = f[i - 1] * (IF i \in 1..k THEN xs(k)[i] ELSE 1)
      BY <1>7, Zenon DEF MultipliesUp
    <3> QED
      BY <3>1, <3>2, Zenon
  <2>2. f[0] = 1
    BY <1>7 DEF MultipliesUp
  <2>3. Bench!Power(x, k) = f[k]
    BY <1>2, <1>7 DEF MultipliesUp
  <2>4. f[k] \in Nat
    BY <1>7 DEF MultipliesUp
  <2> QED
    BY <2>1, <2>2, <2>3, <2>4, Zenon
<1>8. /\ q[0] = 1 /\ Bench!Power(x, n) = q[n] /\ q[n] \in Nat
      /\ \A i \in 1..n : q[i] = q[i - 1] * x
  BY <1>4, <1>7, Zenon
<1>9. /\ r[0] = 1 /\ Bench!Power(x, n + 1) = r[n + 1]
      /\ \A i \in 1..(n + 1) : r[i] = r[i - 1] * x
  <2>1. n + 1 \in Nat
    OBVIOUS
  <2> QED
    BY <1>5, <1>7, <2>1, Zenon
<1> DEFINE Same == {i \in 0..n : q[i] = r[i]}
<1>10. \A i \in 0..n : i \in Same
  <2>1. 0 \in Same
    BY <1>8, <1>9
  <2>2. ASSUME NEW i \in 1..n, i - 1 \in Same PROVE i \in Same
    <3>1. i \in 1..(n + 1) /\ q[i - 1] = r[i - 1]
      BY <2>2
    <3>2. q[i] = q[i - 1] * x /\ r[i] = r[i - 1] * x
      BY <1>8, <1>9, <3>1
    <3> QED
      BY <3>1, <3>2
  <2> HIDE DEF Same
  <2> QED
    BY <2>1, <2>2, Segment
<1>11. n \in 0..n
  OBVIOUS
<1>12. q[n] = r[n]
  BY <1>10, <1>11
<1>13. n + 1 \in 1..(n + 1) /\ (n + 1) - 1 = n
  OBVIOUS
<1>14. r[n + 1] = r[n] * x
  BY <1>9, <1>13
<1> QED
  BY <1>6, <1>8, <1>9, <1>12, <1>14

(* The power of a product.                                                  *)
LEMMA PowerOfProduct ==
  ASSUME NEW a \in Nat, NEW b \in Nat, NEW n \in Nat
  PROVE  Bench!Power(a * b, n) = Bench!Power(a, n) * Bench!Power(b, n)
<1> DEFINE Good == {i \in 0..n : Bench!Power(a * b, i) = Bench!Power(a, i) * Bench!Power(b, i)}
<1>0. a * b \in Nat
  OBVIOUS
<1>1. 0 \in Good
  BY <1>0, PowerIs
<1>2. ASSUME NEW i \in 1..n, i - 1 \in Good PROVE i \in Good
  <2> DEFINE j == i - 1
             p == Bench!Power(a * b, j)
             q == Bench!Power(a, j)
             r == Bench!Power(b, j)
  <2>1. j \in Nat /\ j + 1 = i
    OBVIOUS
  <2>2. p = q * r
    BY <1>2
  <2>3. /\ Bench!Power(a * b, j + 1) = p * (a * b)
        /\ Bench!Power(a, j + 1) = q * a
        /\ Bench!Power(b, j + 1) = r * b
        /\ p \in Nat /\ q \in Nat /\ r \in Nat
    BY <1>0, <2>1, PowerIs
  <2> HIDE DEF j, p, q, r
  <2>4. p * (a * b) = (q * a) * (r * b)
    BY <2>2, <2>3
  <2> QED
    BY <2>1, <2>3, <2>4
<1>3. \A i \in 0..n : i \in Good
  <2> HIDE DEF Good
  <2> QED
    BY <1>1, <1>2, Segment
<1> QED
  BY <1>3

(* A power of a number above zero is above zero.                            *)
LEMMA PowerIsPositive ==
  ASSUME NEW a \in Nat, a > 0, NEW n \in Nat
  PROVE  Bench!Power(a, n) > 0
<1> DEFINE Good == {i \in 0..n : Bench!Power(a, i) > 0}
<1>1. 0 \in Good
  BY PowerIs
<1>2. ASSUME NEW i \in 1..n, i - 1 \in Good PROVE i \in Good
  <2> DEFINE j == i - 1
             p == Bench!Power(a, j)
  <2>1. j \in Nat /\ j + 1 = i /\ p > 0
    BY <1>2
  <2>2. Bench!Power(a, j + 1) = p * a /\ p \in Nat
    BY <2>1, PowerIs
  <2> HIDE DEF j, p
  <2>3. p * a > 0
    BY <2>1, <2>2
  <2> QED
    BY <2>1, <2>2, <2>3
<1>3. \A i \in 0..n : i \in Good
  <2> HIDE DEF Good
  <2> QED
    BY <1>1, <1>2, Segment
<1> QED
  BY <1>3

-----------------------------------------------------------------------------
(* The geometric mean is not above the arithmetic one.                      *)

(* The step of the next lemma, of numbers alone: p and q stand for powers   *)
(* of u and v.                                                              *)
LEMMA TangentStep ==
  ASSUME NEW n \in Nat, NEW u \in Nat, NEW v \in Nat, NEW p \in Nat, NEW q \in Nat,
         (n + 1) * (u * q) <= p * u + n * (q * v)
  PROVE  (n + 2) * (u * (q * v)) <= (p * u) * u + (n + 1) * ((q * v) * v)
<1> DEFINE a == u * q
           b == q * v
           s == p * u
<1>1. a \in Nat /\ b \in Nat /\ s \in Nat
  OBVIOUS
<1>2. a * v = u * b
  OBVIOUS
<1>3. ((n + 1) * a) * u <= (s + n * b) * u
  BY <1>1
<1>4. /\ ((n + 1) * a) * u = (n + 1) * (a * u)
      /\ (s + n * b) * u = s * u + n * (b * u)
      /\ b * u = u * b
  <2> HIDE DEF a, b, s
  <2> QED
    BY <1>1
<1>5. 2 * (u * b) <= a * u + b * v
  <2> DEFINE w == IF u <= v THEN v - u ELSE u - v
  <2>1. w \in Nat /\ w * w = u * u - 2 * (u * v) + v * v
    OBVIOUS
  <2> HIDE DEF w
  <2>2. 0 <= q * (w * w)
    BY <2>1
  <2>3. q * (w * w) = q * (u * u) - 2 * (q * (u * v)) + q * (v * v)
    BY <2>1
  <2>4. a * u = q * (u * u) /\ u * b = q * (u * v) /\ b * v = q * (v * v)
    OBVIOUS
  <2> DEFINE x == q * (u * u)
             y == q * (u * v)
             z == q * (v * v)
  <2>5. x \in Nat /\ y \in Nat /\ z \in Nat
    OBVIOUS
  <2>6. 0 <= x - 2 * y + z
    BY <2>2, <2>3
  <2> HIDE DEF a, b, x, y, z
  <2>7. 2 * y <= x + z
    BY <2>5, <2>6
  <2> QED
    BY <2>4, <2>7 DEF x, y, z
<1> DEFINE au == a * u
           bu == u * b
           bv == b * v
           su == s * u
<1>6. au \in Nat /\ bu \in Nat /\ bv \in Nat /\ su \in Nat
  <2> HIDE DEF a, b, s
  <2> QED
    BY <1>1
<1> HIDE DEF a, b, s
<1>7. (n + 1) * au <= su + n * bu
  BY <1>3, <1>4
<1>8. 2 * bu <= au + bv
  BY <1>5
<1> HIDE DEF au, bu, bv, su
<1>9. (n + 1) * (2 * bu) <= (n + 1) * (au + bv)
  BY <1>6, <1>8
<1>10. /\ (n + 1) * (2 * bu) = (n + 2) * bu + n * bu
       /\ (n + 1) * (au + bv) = (n + 1) * au + (n + 1) * bv
  BY <1>6
<1> DEFINE k1 == (n + 1) * au
           k2 == n * bu
           k3 == (n + 2) * bu
           k4 == (n + 1) * bv
<1>11. k1 \in Nat /\ k2 \in Nat /\ k3 \in Nat /\ k4 \in Nat
  BY <1>6
<1>12. k1 <= su + k2 /\ k3 + k2 <= k1 + k4
  BY <1>7, <1>9, <1>10
<1> HIDE DEF k1, k2, k3, k4
<1>13. k3 <= su + k4
  BY <1>6, <1>11, <1>12
<1> QED
  BY <1>13 DEF k3, k4, su, bu, bv, a, b, s

(* The tangent of a power lies below it.                                    *)
LEMMA Tangent ==
  ASSUME NEW n \in Nat, NEW u \in Nat, NEW v \in Nat
  PROVE  (n + 1) * (u * Bench!Power(v, n))
           <= Bench!Power(u, n) * u + n * (Bench!Power(v, n) * v)
<1> DEFINE Good == {i \in 0..n : (i + 1) * (u * Bench!Power(v, i))
                                   <= Bench!Power(u, i) * u + i * (Bench!Power(v, i) * v)}
<1>1. 0 \in Good
  BY PowerIs
<1>2. ASSUME NEW i \in 1..n, i - 1 \in Good PROVE i \in Good
  <2> DEFINE j == i - 1
             p == Bench!Power(u, j)
             q == Bench!Power(v, j)
  <2>1. j \in Nat /\ i = j + 1 /\ j + 2 = i + 1
    OBVIOUS
  <2>2. (j + 1) * (u * q) <= p * u + j * (q * v)
    BY <1>2
  <2>3. /\ Bench!Power(u, j + 1) = p * u /\ Bench!Power(v, j + 1) = q * v
        /\ p \in Nat /\ q \in Nat
    BY <2>1, PowerIs
  <2> HIDE DEF j, p, q
  <2>4. (j + 2) * (u * (q * v)) <= (p * u) * u + (j + 1) * ((q * v) * v)
    BY <2>1, <2>2, <2>3, TangentStep
  <2>5. (i + 1) * (u * Bench!Power(v, i))
          <= Bench!Power(u, i) * u + i * (Bench!Power(v, i) * v)
    BY <2>1, <2>3, <2>4, Zenon
  <2> QED
    BY <2>5
<1>3. \A i \in 0..n : i \in Good
  <2> HIDE DEF Good
  <2> QED
    BY <1>1, <1>2, Segment
<1>4. n \in Good
  <2> HIDE DEF Good
  <2> QED
    BY <1>3
<1> QED
  BY <1>4

(* What the tangent says of one more number, of numbers alone: powers of    *)
(* a = n + 1, s, n and t = s + x are ka, ks, kn and kt.                     *)
LEMMA OneMoreFactor ==
  ASSUME NEW n \in Nat, n > 0, NEW s \in Nat, NEW x \in Nat, NEW prod \in Nat,
         NEW ka \in Nat, NEW ks \in Nat, NEW kn \in Nat, kn > 0, NEW kt \in Nat,
         kn * prod <= ks,
         (n + 1) * ((n * (s + x)) * (ka * ks))
           <= (kn * kt) * (n * (s + x)) + n * ((ka * ks) * ((n + 1) * s))
  PROVE  (ka * (n + 1)) * (prod * x) <= kt * (s + x)
<1> DEFINE m == n + 1
           t == s + x
           r == ka * ks
           e == kn * kt
<1>1. m \in Nat /\ t \in Nat /\ r \in Nat /\ e \in Nat
  OBVIOUS
<1>2. m * ((n * t) * r) <= e * (n * t) + n * (r * (m * s))
  OBVIOUS
<1>3. m * ((n * t) * r) = n * (r * (m * s)) + n * (r * (m * x))
  <2>1. m * t = m * s + m * x
    <3> HIDE DEF m
    <3> QED
      BY <1>1
  <2> DEFINE z == m * t
             y == m * s
             w == m * x
  <2>2. y \in Nat /\ w \in Nat /\ z \in Nat /\ z = y + w
    BY <1>1, <2>1
  <2>3. m * ((n * t) * r) = n * (r * z)
    <3> HIDE DEF m, t, r
    <3> QED
      BY <1>1
  <2> HIDE DEF y, w, z, r
  <2>4. n * (r * z) = n * (r * y) + n * (r * w)
    BY <1>1, <2>2
  <2> QED
    BY <2>3, <2>4 DEF y, w, z
<1>4. e * (n * t) = n * (e * t)
  <2> HIDE DEF e, t
  <2> QED
    BY <1>1
<1> DEFINE f == n * (r * (m * x))
           g == n * (r * (m * s))
           h == n * (e * t)
<1>5. f \in Nat /\ g \in Nat /\ h \in Nat
  <2> HIDE DEF m, r, e, t
  <2> QED
    BY <1>1
<1> HIDE DEF m, t, r, e
<1>6. g + f <= h + g
  BY <1>2, <1>3, <1>4
<1> HIDE DEF f, g, h
<1>7. f <= h
  BY <1>5, <1>6
<1> DEFINE y == r * (m * x)
           z == e * t
<1>8. y \in Nat /\ z \in Nat /\ n * y <= n * z
  BY <1>1, <1>7 DEF f, h
<1> HIDE DEF y, z
<1>9. y <= z
  BY <1>8, Cancelled
<1> DEFINE w == (ka * m) * (prod * x)
           q == kt * t
<1>10. kn * w <= y
  <2> DEFINE c == (ka * m) * x
             d == kn * prod
  <2>1. c \in Nat /\ d \in Nat
    BY <1>1
  <2>2. kn * w = d * c
    BY <1>1
  <2>3. y = ks * c
    BY <1>1 DEF y, r
  <2> HIDE DEF c, w
  <2>4. d * c <= ks * c
    BY <2>1, Multiplied
  <2> QED
    BY <2>2, <2>3, <2>4
<1>11. z = kn * q
  BY <1>1 DEF z, e
<1>12. w \in Nat /\ q \in Nat
  BY <1>1
<1> HIDE DEF w, q
<1>13. kn * w <= kn * q
  BY <1>8, <1>9, <1>10, <1>11, <1>12
<1>14. w <= q
  BY <1>12, <1>13, Cancelled
<1> QED
  BY <1>14 DEF w, q, m, t

(* The comparison of the means, for one more number.                        *)
LEMMA MeansStep ==
  ASSUME NEW n \in Nat, NEW s \in Nat, NEW prod \in Nat, NEW x \in Nat,
         n = 0 => s = 0 /\ prod = 1,
         Bench!Power(n, n) * prod <= Bench!Power(s, n)
  PROVE  Bench!Power(n + 1, n + 1) * (prod * x) <= Bench!Power(s + x, n + 1)
<1> DEFINE m == n + 1
           t == s + x
<1>1. m \in Nat /\ t \in Nat
  OBVIOUS
<1>2. /\ Bench!Power(m, n + 1) = Bench!Power(m, n) * m
      /\ Bench!Power(t, n + 1) = Bench!Power(t, n) * t
      /\ Bench!Power(m, n) \in Nat /\ Bench!Power(t, n) \in Nat
      /\ Bench!Power(s, n) \in Nat /\ Bench!Power(n, n) \in Nat
  BY <1>1, PowerIs
<1>3. CASE n = 0
  <2>1. Bench!Power(m, n) = 1 /\ Bench!Power(t, n) = 1 /\ m = 1
    BY <1>1, <1>3, PowerIs
  <2>2. /\ Bench!Power(n + 1, n + 1) * (prod * x) = x
        /\ Bench!Power(s + x, n + 1) = x
    BY <1>2, <1>3, <2>1
  <2> QED
    BY <2>2
<1>4. CASE n > 0
  <2> DEFINE u == n * t
             v == m * s
             ka == Bench!Power(m, n)
             ks == Bench!Power(s, n)
             kn == Bench!Power(n, n)
             kt == Bench!Power(t, n)
  <2>1. u \in Nat /\ v \in Nat
    BY <1>1
  <2>2. (n + 1) * (u * Bench!Power(v, n))
          <= Bench!Power(u, n) * u + n * (Bench!Power(v, n) * v)
    BY <2>1, Tangent
  <2>3. Bench!Power(u, n) = kn * kt /\ Bench!Power(v, n) = ka * ks
    <3> HIDE DEF m, t
    <3>1. Bench!Power(n * t, n) = kn * kt
      BY <1>1, PowerOfProduct
    <3>2. Bench!Power(m * s, n) = ka * ks
      BY <1>1, PowerOfProduct
    <3> QED
      BY <3>1, <3>2
  <2>4. kn > 0
    BY <1>4, PowerIsPositive
  <2>5. kn \in Nat /\ ks \in Nat /\ ka \in Nat /\ kt \in Nat /\ kn * prod <= ks
    BY <1>2
  <2> HIDE DEF kn, ks, ka, kt
  <2>6. (n + 1) * ((n * (s + x)) * (ka * ks))
          <= (kn * kt) * (n * (s + x)) + n * ((ka * ks) * ((n + 1) * s))
    BY <2>2, <2>3
  <2>7. (ka * (n + 1)) * (prod * x) <= kt * (s + x)
    BY <1>4, <2>4, <2>5, <2>6, OneMoreFactor
  <2> QED
    BY <1>2, <2>7 DEF ka, kt
<1> QED
  BY <1>3, <1>4

(* So compare the two means, of numbers at T.                               *)
THEOREM TheMeansCompare ==
  ASSUME NEW n \in Nat, NEW T, T \subseteq 1..n, NEW xs, NaturalsAt(xs, n, T)
  PROVE  LET c == Cardinality(T)
         IN /\ Bench!SumOf(T, xs) \in Nat /\ Bench!ProductOf(T, xs) \in Nat
            /\ Bench!ProductOf(T, xs) * Bench!Power(c, c) <= Bench!Power(Bench!SumOf(T, xs), c)
<1>1. PICK count : CountsUp(count, n, T)
  BY CountUp
<1>2. PICK sum : AddsUp(sum, n, T, xs)
  <2>1. IntegersAt(xs, n, T)
    BY DEF IntegersAt, NaturalsAt
  <2> QED
    BY <2>1, SumUp
<1>3. PICK prod : MultipliesUp(prod, n, T, xs)
  BY ProductUp
<1> DEFINE Compared(c, s, p) ==
             /\ s \in Nat /\ (c = 0 => s = 0 /\ p = 1)
             /\ Bench!Power(c, c) * p <= Bench!Power(s, c)
           Good == {i \in 0..n : Compared(count[i], sum[i], prod[i])}
<1>4. 0 \in Good
  <2>1. count[0] = 0 /\ sum[0] = 0 /\ prod[0] = 1
    BY <1>1, <1>2, <1>3 DEF CountsUp, AddsUp, MultipliesUp
  <2>2. Compared(0, 0, 1)
    BY PowerIs
  <2> HIDE DEF Compared
  <2> QED
    BY <2>1, <2>2
<1>5. ASSUME NEW i \in 1..n, i - 1 \in Good PROVE i \in Good
  <2> DEFINE c == count[i - 1]
             s == sum[i - 1]
             p == prod[i - 1]
  <2>1. c \in Nat /\ p \in Nat /\ Compared(c, s, p)
    BY <1>1, <1>3, <1>5 DEF CountsUp, MultipliesUp
  <2>2. CASE i \in T
    <3> DEFINE x == xs[i]
    <3>1. count[i] = c + 1 /\ sum[i] = s + x /\ prod[i] = p * x /\ x \in Nat
      BY <1>1, <1>2, <1>3, <2>2 DEF CountsUp, AddsUp, MultipliesUp, NaturalsAt
    <3> HIDE DEF c, s, p, x
    <3>2. Bench!Power(c + 1, c + 1) * (p * x) <= Bench!Power(s + x, c + 1)
      BY <2>1, <3>1, MeansStep
    <3>3. s + x \in Nat /\ c + 1 # 0
      BY <2>1, <3>1
    <3>4. Compared(c + 1, s + x, p * x)
      BY <3>2, <3>3
    <3> HIDE DEF Compared
    <3> QED
      BY <3>1, <3>4
  <2>3. CASE i \notin T
    <3>1. count[i] = c + 0 /\ sum[i] = s + 0 /\ prod[i] = p * 1
      BY <1>1, <1>2, <1>3, <2>3 DEF CountsUp, AddsUp, MultipliesUp
    <3> HIDE DEF c, s, p
    <3>2. count[i] = c /\ sum[i] = s /\ prod[i] = p
      BY <2>1, <3>1
    <3> HIDE DEF Compared
    <3> QED
      BY <2>1, <3>2
  <2> QED
    BY <2>2, <2>3
<1>6. n \in Good
  <2> HIDE DEF Good
  <2>1. \A i \in 0..n : i \in Good
    BY <1>4, <1>5, Segment
  <2> QED
    BY <2>1
<1> DEFINE c == Cardinality(T)
           s == Bench!SumOf(T, xs)
           p == Bench!ProductOf(T, xs)
<1>7. c = count[n] /\ s = sum[n] /\ p = prod[n] /\ p \in Nat /\ c \in Nat
  BY <1>1, <1>2, <1>3 DEF CountsUp, AddsUp, MultipliesUp
<1>8. Compared(c, s, p)
  BY <1>6, <1>7
<1> HIDE DEF c, s, p
<1>9. Bench!Power(c, c) \in Nat
  BY <1>7, PowerIs
<1>10. p * Bench!Power(c, c) = Bench!Power(c, c) * p
  BY <1>7, <1>9
<1> QED
  BY <1>7, <1>8, <1>10 DEF c, s, p

-----------------------------------------------------------------------------
(* The reductions of the ratios that are used.                              *)

(* What is reduced: ratios above zero at used, and weights above zero.      *)
Reducible(n, used, ratios, weights) ==
  /\ n \in Nat /\ used \subseteq 1..n /\ used # {}
  /\ DOMAIN ratios = 1..n /\ NaturalsAt(ratios, n, used) /\ \A i \in used : ratios[i] > 0
  /\ Len(weights) = n /\ \A i \in 1..n : weights[i] \in Nat /\ weights[i] > 0

(* The ratios, each as often as it weighs.                                  *)
Weighed(n, ratios, weights) == [i \in 1..n |-> weights[i] * ratios[i]]

(* The reductions, one by one.                                              *)
LEMMA TheReductionsAre ==
  ASSUME NEW n, NEW used, NEW ratios, NEW weights, Reducible(n, used, ratios, weights)
  PROVE  LET m == Bench!Reductions(used, ratios, weights)
             sorted == Bench!Sorted(used, ratios)
             c == Cardinality(used)
         IN /\ m.arithmetic = <<Bench!SumOf(used, ratios), c>>
            /\ m.geometric = <<Bench!ProductOf(used, ratios), c>>
            /\ m.weighted = <<Bench!SumOf(used, Weighed(n, ratios, weights)),
                              Bench!SumOf(used, weights)>>
            /\ m.p25 = Bench!Quantile(sorted, 1) /\ m.median = Bench!Quantile(sorted, 2)
            /\ m.p75 = Bench!Quantile(sorted, 3) /\ m.min = sorted[1] /\ m.max = sorted[c]
<1>1. DOMAIN ratios = 1..n
  BY DEF Reducible
<1> QED
  BY <1>1, SameCount DEF Bench!Reductions, Weighed

(* They are in order and within their range.                                *)
THEOREM TheReductionsAreInOrder ==
  ASSUME NEW n, NEW used, NEW ratios, NEW weights, Reducible(n, used, ratios, weights)
  PROVE  LET m == Bench!Reductions(used, ratios, weights)
             c == Cardinality(used)
         IN /\ 0 < m.min /\ 4 * m.min <= m.p25 /\ m.p25 <= m.median
            /\ m.median <= m.p75 /\ m.p75 <= 4 * m.max
            /\ Bench!Between(m.min, m.arithmetic, m.max)
            /\ Bench!Between(m.min, m.weighted, m.max)
            /\ m.geometric[1] * Bench!Power(c, c) <= Bench!Power(m.arithmetic[1], c)
<1> DEFINE m == Bench!Reductions(used, ratios, weights)
           c == Cardinality(used)
           sorted == Bench!Sorted(used, ratios)
           lo == sorted[1]
           hi == sorted[c]
           sum == Bench!SumOf(used, ratios)
           product == Bench!ProductOf(used, ratios)
           weighed == Weighed(n, ratios, weights)
<1>1. /\ n \in Nat /\ used \subseteq 1..n /\ used # {} /\ NaturalsAt(ratios, n, used)
      /\ NaturalsOver(ratios, used) /\ Len(ratios) = n /\ Len(weights) = n
  BY DEF Reducible, NaturalsAt, NaturalsOver
<1>2. ASSUME NEW i \in used
      PROVE  /\ ratios[i] \in Nat /\ ratios[i] > 0
             /\ weights[i] \in Nat /\ weights[i] > 0
  BY DEF Reducible, NaturalsAt
<1>3. /\ m.arithmetic = <<sum, c>> /\ m.geometric = <<product, c>>
      /\ m.weighted = <<Bench!SumOf(used, weighed), Bench!SumOf(used, weights)>>
      /\ m.p25 = Bench!Quantile(sorted, 1) /\ m.median = Bench!Quantile(sorted, 2)
      /\ m.p75 = Bench!Quantile(sorted, 3) /\ m.min = lo /\ m.max = hi
  BY TheReductionsAre
<1>4. /\ c \in Nat /\ c > 0 /\ Rising(sorted, c)
      /\ \A i \in used : lo <= ratios[i] /\ ratios[i] <= hi
      /\ \E i \in used : lo = ratios[i]
  BY <1>1, SortedRises
<1> HIDE DEF m, c, sorted
<1>5. lo \in Nat /\ hi \in Nat
  <2>1. 1 \in 1..c /\ c \in 1..c
    BY <1>4
  <2> QED
    BY <1>4, <2>1 DEF Rising
<1> HIDE DEF lo, hi
<1>6. 0 < lo
  BY <1>2, <1>4
<1>7. /\ 4 * lo <= Bench!Quantile(sorted, 1)
      /\ Bench!Quantile(sorted, 1) <= Bench!Quantile(sorted, 2)
      /\ Bench!Quantile(sorted, 2) <= Bench!Quantile(sorted, 3)
      /\ Bench!Quantile(sorted, 3) <= 4 * hi
  BY <1>4, QuantilesRise DEF lo, hi
<1>8. Bench!Between(lo, <<sum, c>>, hi)
  <2>1. \A i \in used : ratios[i] \in Int /\ lo <= ratios[i] /\ ratios[i] <= hi
    BY <1>2, <1>4
  <2>2. lo \in Int /\ hi \in Int /\ Len(ratios) = n
    BY <1>1, <1>5
  <2> HIDE DEF sum
  <2>3. Bench!Between(lo, <<Bench!SumOf(used, ratios), Cardinality(used)>>, hi)
    BY <1>1, <2>1, <2>2, SumBetween
  <2> QED
    BY <2>3 DEF c, sum
<1>9. Bench!Between(lo, <<Bench!SumOf(used, weighed), Bench!SumOf(used, weights)>>, hi)
  <2>1. Len(weighed) = n /\ \A i \in 1..n : weighed[i] = weights[i] * ratios[i]
    BY <1>1 DEF Weighed
  <2> HIDE DEF weighed
  <2>2. ASSUME NEW i \in used
        PROVE  /\ weighed[i] \in Int /\ weights[i] \in Int
               /\ lo * weights[i] <= weighed[i] /\ weighed[i] <= hi * weights[i]
    <3> DEFINE w == weights[i]
               x == ratios[i]
    <3>1. w \in Nat /\ x \in Nat /\ lo <= x /\ x <= hi
      BY <1>2, <1>4
    <3>2. weighed[i] = w * x
      BY <1>1, <2>1
    <3> HIDE DEF w, x
    <3>3. lo * w <= x * w /\ x * w <= hi * w /\ w * x = x * w /\ w * x \in Int
      BY <1>5, <3>1, Multiplied
    <3>4. w \in Int
      BY <3>1
    <3> QED
      BY <3>2, <3>3, <3>4 DEF w
  <2>3. lo \in Int /\ hi \in Int
    BY <1>5
  <2>4. lo * Bench!SumOf(used, weights) <= Bench!SumOf(used, weighed)
    BY <1>1, <2>1, <2>2, <2>3, SumsBelow
  <2>5. Bench!SumOf(used, weighed) <= hi * Bench!SumOf(used, weights)
    BY <1>1, <2>1, <2>2, <2>3, SumsAbove
  <2> QED
    BY <2>4, <2>5 DEF Bench!Between
<1>10. product * Bench!Power(c, c) <= Bench!Power(sum, c)
  BY <1>1, TheMeansCompare DEF c
<1>11. m.arithmetic[1] = sum /\ m.geometric[1] = product
  BY <1>3
<1> HIDE DEF sum, product, weighed
<1>12. /\ 0 < m.min /\ 4 * m.min <= m.p25 /\ m.p25 <= m.median
       /\ m.median <= m.p75 /\ m.p75 <= 4 * m.max
  BY <1>3, <1>6, <1>7, Zenon
<1>13. /\ Bench!Between(m.min, m.arithmetic, m.max)
       /\ Bench!Between(m.min, m.weighted, m.max)
  BY <1>3, <1>8, <1>9, Zenon
<1>14. m.geometric[1] * Bench!Power(c, c) <= Bench!Power(m.arithmetic[1], c)
  BY <1>10, <1>11, Zenon
<1> QED
  BY <1>12, <1>13, <1>14, Zenon DEF m, c

(* Of ratios that are not lower, no reduction is lower.                     *)
THEOREM TheReductionsFollow ==
  ASSUME NEW n, NEW used, NEW xs, NEW ys, NEW weights, Reducible(n, used, xs, weights),
         Reducible(n, used, ys, weights), \A i \in used : xs[i] <= ys[i]
  PROVE  Bench!NeverAbove(Bench!Reductions(used, xs, weights),
                          Bench!Reductions(used, ys, weights))
<1> DEFINE a == Bench!Reductions(used, xs, weights)
           b == Bench!Reductions(used, ys, weights)
           c == Cardinality(used)
           sortedX == Bench!Sorted(used, xs)
           sortedY == Bench!Sorted(used, ys)
           weighedX == Weighed(n, xs, weights)
           weighedY == Weighed(n, ys, weights)
<1>1. /\ n \in Nat /\ used \subseteq 1..n /\ used # {} /\ Len(weights) = n
      /\ NaturalsAt(xs, n, used) /\ NaturalsOver(xs, used) /\ Len(xs) = n
      /\ NaturalsAt(ys, n, used) /\ NaturalsOver(ys, used) /\ Len(ys) = n
  BY DEF Reducible, NaturalsAt, NaturalsOver
<1>2. ASSUME NEW i \in used
      PROVE  xs[i] \in Nat /\ ys[i] \in Nat /\ xs[i] <= ys[i] /\ weights[i] \in Nat
  BY DEF Reducible, NaturalsAt
<1>3. /\ a.arithmetic[1] = Bench!SumOf(used, xs) /\ a.geometric[1] = Bench!ProductOf(used, xs)
      /\ a.weighted[1] = Bench!SumOf(used, weighedX)
      /\ a.p25 = Bench!Quantile(sortedX, 1) /\ a.median = Bench!Quantile(sortedX, 2)
      /\ a.p75 = Bench!Quantile(sortedX, 3) /\ a.min = sortedX[1] /\ a.max = sortedX[c]
  BY TheReductionsAre
<1>4. /\ b.arithmetic[1] = Bench!SumOf(used, ys) /\ b.geometric[1] = Bench!ProductOf(used, ys)
      /\ b.weighted[1] = Bench!SumOf(used, weighedY)
      /\ b.p25 = Bench!Quantile(sortedY, 1) /\ b.median = Bench!Quantile(sortedY, 2)
      /\ b.p75 = Bench!Quantile(sortedY, 3) /\ b.min = sortedY[1] /\ b.max = sortedY[c]
  BY TheReductionsAre
<1>5. c \in Nat /\ c > 0 /\ Rising(sortedX, c) /\ Rising(sortedY, c)
  BY <1>1, SortedRises
<1>6. \A k \in 1..c : sortedX[k] <= sortedY[k]
  BY <1>1, <1>2, SortedDominates
<1> HIDE DEF a, b, c, sortedX, sortedY
<1>7. \A k \in 1..3 : Bench!Quantile(sortedX, k) <= Bench!Quantile(sortedY, k)
  BY <1>5, <1>6, QuantilesDominate
<1>8. sortedX[1] <= sortedY[1] /\ sortedX[c] <= sortedY[c]
  BY <1>5, <1>6
<1>9. Bench!SumOf(used, xs) <= Bench!SumOf(used, ys)
  <2>1. \A i \in 1..n : i \in used => ys[i] \in Int /\ xs[i] \in Int /\ 1 * xs[i] <= ys[i]
    BY <1>2
  <2>2. 1 * Bench!SumOf(used, xs) <= Bench!SumOf(used, ys)
    BY <1>1, <2>1, SumsBelow
  <2>3. Bench!SumOf(used, xs) \in Int
    BY <1>1, <2>1, SumIsInt
  <2> QED
    BY <2>2, <2>3
<1>10. Bench!SumOf(used, weighedX) <= Bench!SumOf(used, weighedY)
  <2>1. /\ Len(weighedX) = n /\ \A i \in 1..n : weighedX[i] = weights[i] * xs[i]
        /\ Len(weighedY) = n /\ \A i \in 1..n : weighedY[i] = weights[i] * ys[i]
    BY <1>1 DEF Weighed
  <2> HIDE DEF weighedX, weighedY
  <2>2. ASSUME NEW i \in 1..n, i \in used
        PROVE  weighedY[i] \in Int /\ weighedX[i] \in Int /\ 1 * weighedX[i] <= weighedY[i]
    <3> DEFINE w == weights[i]
               x == xs[i]
               y == ys[i]
    <3>1. w \in Nat /\ x \in Nat /\ y \in Nat /\ x <= y
      BY <1>2, <2>2
    <3>2. weighedX[i] = w * x /\ weighedY[i] = w * y
      BY <2>1
    <3> HIDE DEF w, x, y
    <3>3. w * x \in Int /\ w * y \in Int /\ w * x <= w * y
      BY <3>1, Multiplied
    <3> QED
      BY <3>2, <3>3
  <2>3. 1 * Bench!SumOf(used, weighedX) <= Bench!SumOf(used, weighedY)
    BY <1>1, <2>1, <2>2, SumsBelow
  <2>4. Bench!SumOf(used, weighedX) \in Int
    BY <1>1, <2>1, <2>2, SumIsInt
  <2> QED
    BY <2>3, <2>4
<1>11. Bench!ProductOf(used, xs) <= Bench!ProductOf(used, ys)
  BY <1>1, <1>2, ProductsBelow
<1> HIDE DEF weighedX, weighedY
<1>12. a.arithmetic[1] <= b.arithmetic[1] /\ a.weighted[1] <= b.weighted[1]
       /\ a.geometric[1] <= b.geometric[1]
  BY <1>3, <1>4, <1>9, <1>10, <1>11, Zenon
<1>13. 1 \in 1..3 /\ 2 \in 1..3 /\ 3 \in 1..3
  OBVIOUS
<1>14. /\ a.p25 <= b.p25 /\ a.median <= b.median /\ a.p75 <= b.p75
       /\ a.min <= b.min /\ a.max <= b.max
  BY <1>3, <1>4, <1>7, <1>8, <1>13, Zenon
<1>15. \A f \in {"p25", "median", "p75", "min", "max"} : a[f] <= b[f]
  BY <1>14
<1> QED
  BY <1>12, <1>15 DEF Bench!NeverAbove, a, b

(* The positions where a ratio is above zero.                               *)
Positive(ratios, n) == {i \in 1..n : ratios[i] > 0}

(* What summarize_ratios makes of one quantity.                             *)
LEMMA TheRatiosAreSummarized ==
  ASSUME NEW as \in Seq(Agreements), NEW q \in Bench!Quantities
  PROVE  LET n == Len(as)
             ratios == Bench!Ratios(q, as)
             weights == Bench!Weights(as)
             used == Positive(ratios, n)
             s == Bench!SummarizeRatios(ratios, weights)
         IN /\ s.used = Cardinality(used) /\ s.excluded = (1..n) \ used
            /\ s.used \in Nat /\ s.used = n - Cardinality(s.excluded)
            /\ s.used > 0 => /\ s.means = Bench!Reductions(used, ratios, weights)
                             /\ Reducible(n, used, ratios, weights)
<1> DEFINE n == Len(as)
           ratios == Bench!Ratios(q, as)
           weights == Bench!Weights(as)
           used == Positive(ratios, n)
           s == Bench!SummarizeRatios(ratios, weights)
           T == {i \in DOMAIN ratios : ~Bench!Excluded(ratios[i])}
           U == {i \in DOMAIN ratios : Bench!Excluded(ratios[i])}
<1>1. /\ n \in Nat /\ DOMAIN as = 1..n /\ Len(ratios) = n /\ DOMAIN ratios = 1..n
      /\ \A i \in 1..n : ratios[i] \in Nat
  BY AgreementsAre, RatiosAre
<1>2. /\ s.used = Bench!Cardinality(T) /\ s.excluded = U
      /\ T # {} => s.means = Bench!Reductions(T, ratios, weights)
  BY DEF Bench!SummarizeRatios
<1>3. Len(weights) = n /\ \A i \in 1..n : weights[i] \in Nat /\ weights[i] > 0
  <2>1. Len(weights) = n
    <3>1. weights = [i \in 1..n |-> weights[i]]
      BY <1>1 DEF Bench!Weights
    <3> HIDE DEF weights
    <3>2. DOMAIN weights = 1..n
      BY <3>1, Zenon
    <3> HIDE DEF n
    <3> QED
      BY <1>1, <3>1, <3>2
  <2>2. ASSUME NEW i \in 1..n PROVE weights[i] \in Nat /\ weights[i] > 0
    <3> DEFINE routes == as[i].bfRoutes
    <3>1. routes \in Nat
      <4>1. as[i] \in Bench!Agreement
        BY AgreementsAre
      <4> QED
        BY <4>1 DEF Bench!Agreement
    <3>2. weights[i] = IF routes > 0 THEN routes ELSE 1
      BY <1>1 DEF Bench!Weights
    <3> HIDE DEF routes, weights
    <3> QED
      BY <3>1, <3>2
  <2> QED
    BY <2>1, <2>2
<1> HIDE DEF n, ratios, weights, s
<1>4. ASSUME NEW i \in 1..n PROVE Bench!Excluded(ratios[i]) <=> ~(ratios[i] > 0)
  BY <1>1 DEF Bench!Excluded
<1>5. T = used /\ U = (1..n) \ used
  BY <1>1, <1>4 DEF Positive
<1>6. used \subseteq 1..n
  BY DEF Positive
<1>7. \A i \in used : ratios[i] > 0
  BY DEF Positive
<1> HIDE DEF T, U, used
<1>8. IsFiniteSet(used) /\ Cardinality(used) \in Nat
  BY <1>1, <1>6, CountUp
<1>9. Cardinality((1..n) \ used) = n - Cardinality(used)
  <2>1. IsFiniteSet(1..n) /\ Cardinality(1..n) = n
    BY <1>1, FS_Interval
  <2>2. Cardinality((1..n) \ used) = Cardinality(1..n) - Cardinality((1..n) \cap used)
    BY <2>1, FS_Difference
  <2>3. (1..n) \cap used = used
    BY <1>6
  <2> QED
    BY <2>1, <2>2, <2>3
<1>10. s.used = Cardinality(used) /\ s.excluded = (1..n) \ used
  BY <1>2, <1>5, SameCount, Zenon
<1>11. s.used \in Nat /\ s.used = n - Cardinality(s.excluded)
  <2> DEFINE c == Cardinality(used)
             d == Cardinality((1..n) \ used)
  <2>1. c \in Nat /\ d = n - c /\ s.used = c /\ Cardinality(s.excluded) = d
    BY <1>8, <1>9, <1>10, Zenon
  <2> HIDE DEF c, d
  <2>2. c = n - d
    BY <1>1, <2>1
  <2> QED
    BY <2>1, <2>2, Zenon
<1>12. ASSUME s.used > 0
       PROVE  /\ s.means = Bench!Reductions(used, ratios, weights)
              /\ Reducible(n, used, ratios, weights)
  <2>1. used # {}
    <3>1. Cardinality({}) = 0
      BY FS_EmptySet
    <3>2. ~(0 > 0)
      OBVIOUS
    <3> QED
      BY <1>10, <1>12, <3>1, <3>2, Zenon
  <2>2. s.means = Bench!Reductions(used, ratios, weights)
    BY <1>2, <1>5, <2>1, Zenon
  <2>3. NaturalsAt(ratios, n, used)
    BY <1>1 DEF NaturalsAt
  <2>4. Reducible(n, used, ratios, weights)
    BY <1>1, <1>3, <1>6, <1>7, <2>1, <2>3, Zenon DEF Reducible
  <2> QED
    BY <2>2, <2>4
<1> QED
  BY <1>10, <1>11, <1>12, Zenon DEF n, ratios, weights, used, s

(* What is said of each of the three speedups.                              *)
LEMMA EachSpeedupIsInOrder ==
  ASSUME NEW as \in Seq(Agreements), NEW q \in Bench!Quantities
  PROVE  LET s == Bench!SummarizeRatios(Bench!Ratios(q, as), Bench!Weights(as))
         IN Bench!InOrder(s) /\ s.used = Len(as) - Bench!Cardinality(s.excluded)
<1> DEFINE n == Len(as)
           ratios == Bench!Ratios(q, as)
           weights == Bench!Weights(as)
           used == Positive(ratios, n)
           s == Bench!SummarizeRatios(ratios, weights)
<1>1. /\ s.used = Cardinality(used) /\ s.used = n - Cardinality(s.excluded)
      /\ s.used > 0 => /\ s.means = Bench!Reductions(used, ratios, weights)
                       /\ Reducible(n, used, ratios, weights)
  BY TheRatiosAreSummarized
<1> HIDE DEF n, ratios, weights, used, s
<1>2. Bench!InOrder(s)
  <2> SUFFICES ASSUME s.used > 0
               PROVE  LET m == s.means
                      IN /\ 0 < m.min /\ 4 * m.min <= m.p25 /\ m.p25 <= m.median
                         /\ m.median <= m.p75 /\ m.p75 <= 4 * m.max
                         /\ Bench!Between(m.min, m.arithmetic, m.max)
                         /\ Bench!Between(m.min, m.weighted, m.max)
                         /\ m.geometric[1] * Bench!Power(s.used, s.used)
                              <= Bench!Power(m.arithmetic[1], s.used)
    BY DEF Bench!InOrder
  <2>1. /\ s.means = Bench!Reductions(used, ratios, weights)
        /\ Reducible(n, used, ratios, weights)
    BY <1>1
  <2> QED
    BY <1>1, <2>1, TheReductionsAreInOrder, Zenon
<1>3. s.used = n - Bench!Cardinality(s.excluded)
  BY <1>1, SameCount, Zenon
<1> QED
  BY <1>2, <1>3, Zenon DEF n, ratios, weights, s

(* What is excluded lacks a time.                                           *)
LEMMA TheExcludedLackATime ==
  ASSUME NEW as \in Seq(Agreements)
  PROVE  LET n == Len(as)
             out(q) == (1..n) \ Positive(Bench!Ratios(q, as), n)
         IN /\ out("wall") = Bench!Lacking("bfWall", "hhWall", as)
            /\ out("asym") = Bench!Lacking("bfSim", "hhSim", as)
            /\ out("fair") \subseteq out("asym")
            /\ \A i \in Positive(Bench!Ratios("asym", as), n) :
                 Bench!Ratios("fair", as)[i] <= Bench!Ratios("asym", as)[i]
<1> DEFINE n == Len(as)
           fair == Bench!Ratios("fair", as)
           wall == Bench!Ratios("wall", as)
           asym == Bench!Ratios("asym", as)
<1>1. n \in Nat /\ DOMAIN as = 1..n
  BY AgreementsAre
<1>2. ASSUME NEW i \in 1..n
      PROVE  /\ fair[i] = Number(Bench!RatioOf("fair", as[i]))
             /\ wall[i] = Number(Bench!RatioOf("wall", as[i]))
             /\ asym[i] = Number(Bench!RatioOf("asym", as[i]))
             /\ as[i] \in Agreements
  <2>1. "fair" \in Bench!Quantities /\ "wall" \in Bench!Quantities /\ "asym" \in Bench!Quantities
    BY DEF Bench!Quantities
  <2>2. ASSUME NEW q \in Bench!Quantities
        PROVE  Bench!Ratios(q, as)[i] = Number(Bench!RatioOf(q, as[i]))
    BY RatiosAre
  <2>3. as[i] \in Agreements
    BY AgreementsAre
  <2> QED
    BY <2>1, <2>2, <2>3, Zenon
<1> HIDE DEF fair, wall, asym
<1>3. ASSUME NEW i \in 1..n
      PROVE  /\ wall[i] > 0 <=> as[i].bfWall > 0 /\ as[i].hhWall > 0
             /\ asym[i] > 0 <=> as[i].bfSim > 0 /\ as[i].hhSim > 0
             /\ asym[i] > 0 => fair[i] > 0 /\ fair[i] <= asym[i]
  <2>1. as[i] \in Agreements
    BY <1>2
  <2>2. LET a == as[i]
            f == Number(Bench!RatioOf("fair", a))
            w == Number(Bench!RatioOf("wall", a))
            g == Number(Bench!RatioOf("asym", a))
        IN /\ w > 0 <=> a.bfWall > 0 /\ a.hhWall > 0
           /\ g > 0 <=> a.bfSim > 0 /\ a.hhSim > 0
           /\ g > 0 => f > 0 /\ f <= g
    BY <2>1, NumbersAre, Zenon
  <2> QED
    BY <1>2, <2>2, Zenon
<1>4. (1..n) \ Positive(wall, n) = Bench!Lacking("bfWall", "hhWall", as)
  BY <1>1, <1>3 DEF Positive, Bench!Lacking
<1>5. (1..n) \ Positive(asym, n) = Bench!Lacking("bfSim", "hhSim", as)
  BY <1>1, <1>3 DEF Positive, Bench!Lacking
<1>6. (1..n) \ Positive(fair, n) \subseteq (1..n) \ Positive(asym, n)
  BY <1>3 DEF Positive
<1>7. \A i \in Positive(asym, n) : fair[i] <= asym[i]
  BY <1>3 DEF Positive
<1> QED
  BY <1>4, <1>5, <1>6, <1>7, Zenon DEF n, fair, wall, asym

(* With the invariant, the speedups are of the topologies measured.         *)
LEMMA TheSpeedupsAreMeasured == SInv => Bench!SpeedupOfTheMeasured
<1> SUFFICES ASSUME SInv, Bench!Scored PROVE Bench!SpeedupOfTheMeasured
  BY DEF Bench!SpeedupOfTheMeasured
<1> DEFINE as == agreements
           n == Len(as)
           weights == Bench!Weights(as)
           of(q) == Bench!SummarizeRatios(Bench!Ratios(q, as), weights)
           used(q) == Positive(Bench!Ratios(q, as), n)
<1>1. as \in Seq(Agreements) /\ summary.scoring = Bench!Scoring(as)
  BY TheSummaryIs
<1>2. "fair" \in Bench!Quantities /\ "wall" \in Bench!Quantities /\ "asym" \in Bench!Quantities
  BY DEF Bench!Quantities
<1>3. /\ summary.scoring.ratios["fair"] = of("fair")
      /\ summary.scoring.ratios["wall"] = of("wall")
      /\ summary.scoring.ratios["asym"] = of("asym")
  BY <1>1, <1>2 DEF Bench!Scoring
<1>4. ASSUME NEW q \in Bench!Quantities
      PROVE  Bench!InOrder(of(q)) /\ of(q).used = n - Bench!Cardinality(of(q).excluded)
  BY <1>1, EachSpeedupIsInOrder
<1>5. ASSUME NEW q \in Bench!Quantities
      PROVE  /\ of(q).excluded = (1..n) \ used(q)
             /\ of(q).used > 0 =>
                  /\ of(q).means = Bench!Reductions(used(q), Bench!Ratios(q, as), weights)
                  /\ Reducible(n, used(q), Bench!Ratios(q, as), weights)
  BY <1>1, TheRatiosAreSummarized
<1>6. /\ (1..n) \ used("wall") = Bench!Lacking("bfWall", "hhWall", as)
      /\ (1..n) \ used("asym") = Bench!Lacking("bfSim", "hhSim", as)
      /\ (1..n) \ used("fair") \subseteq (1..n) \ used("asym")
      /\ \A i \in used("asym") : Bench!Ratios("fair", as)[i] <= Bench!Ratios("asym", as)[i]
  BY <1>1, TheExcludedLackATime
<1>7. used("fair") \subseteq 1..n /\ used("asym") \subseteq 1..n
  BY DEF Positive
<1>8. ASSUME NEW q \in Bench!Quantities PROVE of(q).used = Cardinality(used(q))
  BY <1>1, TheRatiosAreSummarized
<1> HIDE DEF of, used, weights, n
<1>9. ASSUME of("fair").excluded = of("asym").excluded, of("fair").used > 0
      PROVE  Bench!NeverAbove(of("fair").means, of("asym").means)
  <2>1. used("fair") = used("asym")
    BY <1>2, <1>5, <1>7, <1>9
  <2>2. of("asym").used > 0
    BY <1>2, <1>8, <1>9, <2>1
  <2>3. /\ of("fair").means = Bench!Reductions(used("asym"), Bench!Ratios("fair", as), weights)
        /\ Reducible(n, used("asym"), Bench!Ratios("fair", as), weights)
        /\ of("asym").means = Bench!Reductions(used("asym"), Bench!Ratios("asym", as), weights)
        /\ Reducible(n, used("asym"), Bench!Ratios("asym", as), weights)
    BY <1>2, <1>5, <1>9, <2>1, <2>2, Zenon
  <2>4. Bench!NeverAbove(
          Bench!Reductions(used("asym"), Bench!Ratios("fair", as), weights),
          Bench!Reductions(used("asym"), Bench!Ratios("asym", as), weights))
    BY <1>6, <2>3, TheReductionsFollow
  <2> QED
    BY <2>3, <2>4, Zenon
<1>10. /\ of("wall").excluded = Bench!Lacking("bfWall", "hhWall", as)
       /\ of("asym").excluded = Bench!Lacking("bfSim", "hhSim", as)
       /\ of("fair").excluded \subseteq of("asym").excluded
  BY <1>2, <1>5, <1>6, Zenon
<1>11. \A s \in {of("fair"), of("wall"), of("asym")} :
         Bench!InOrder(s) /\ s.used = n - Bench!Cardinality(s.excluded)
  BY <1>2, <1>4, Zenon
<1>12. n = Len(agreements)
  BY DEF n
<1> QED
  BY <1>3, <1>9, <1>10, <1>11, <1>12, Zenon DEF Bench!SpeedupOfTheMeasured

(* The published speedups are of the topologies where both sides were       *)
(* measured, each reduction of them is a mean of its own numbers, and the   *)
(* ratio said to favour Hammerhead is never the lower one: for any          *)
(* agreements that may be measured and any number of topologies.            *)
THEOREM SpeedupsAreMeasured == ScoresSpec => []SpeedupOfTheMeasured
<1>1. SInv => SpeedupOfTheMeasured
  BY TheSpeedupsAreMeasured DEF SpeedupOfTheMeasured
<1> QED
  BY <1>1, MachinesRunAlone, SummaryInvariance, PTL

(* The means called covered are those of the topologies that were compared, *)
(* and a verdict of Hammerhead about itself moves no score.                 *)
THEOREM MeansAreHonest == ScoresSpec => []HonestMeans
<1>1. SInv => HonestMeans
  BY TheMeansAreHonest DEF HonestMeans
<1> QED
  BY <1>1, MachinesRunAlone, SummaryInvariance, PTL
=============================================================================
