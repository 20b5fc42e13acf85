---------------------------- MODULE WebClientProofs ----------------------------
(***************************************************************************)
(* Proofs about the New device dialog, for any forms and any number of     *)
(* requests for a plan on their way, and about placing a new machine, for  *)
(* any listings, machines and disks.                                       *)
(*                                                                         *)
(* Of the dialog: answers come in any order, so what makes the plan shown  *)
(* the form's is said of the requests: all but the ones that were stopped  *)
(* ask for the form as it is now.                                          *)
(*                                                                         *)
(* Of the placement: browser and server choose a node's disk differently,  *)
(* but from the same disks of the same nodes, and those of a node are all  *)
(* fast or all slow (SameKind).  So each node that would do is offered by  *)
(* both (BothOffer), and what either puts first is no worse than anything  *)
(* the other has (NoWorseThanEither).                                      *)
(***************************************************************************)
EXTENDS WebClient, FiniteSetTheorems, TLAPS

AsksAreForForm == \A a \in asks : a.stop \/ a.form = form

AsksTyped == asks \subseteq Asked

IInv == AsksTyped /\ AsksAreForForm /\ PlanIsForRequest

LEMMA InitIInv == Init => IInv
BY DEF Init, DeviceViewsInit, IInv, AsksTyped, AsksAreForForm, PlanIsForRequest

LEMMA StoppedAsks ==
  ASSUME AsksTyped
  PROVE  Stopped(asks) \subseteq Asked /\ \A a \in Stopped(asks) : a.stop
<1> SUFFICES ASSUME NEW a \in asks
             PROVE  [a EXCEPT !.stop = TRUE] \in Asked /\ [a EXCEPT !.stop = TRUE].stop
  BY DEF Stopped
<1> QED
  BY DEF AsksTyped, Asked

LEMMA DialogIInv ==
  ASSUME IInv, form \in Forms, DialogNext
  PROVE  IInv' /\ form' \in Forms
<1> USE DEF IInv, AsksAreForForm, PlanIsForRequest
<1>1. ASSUME NEW f \in Forms, Edit(f) PROVE IInv' /\ form' \in Forms
  BY <1>1, StoppedAsks DEF Edit, AsksTyped
<1>2. CASE AskPlan
  <2>1. [form |-> form, stop |-> FALSE] \in Asked
    BY DEF Asked
  <2>2. /\ asks' = asks \cup {[form |-> form, stop |-> FALSE]}
        /\ UNCHANGED <<form, plan, planning>>
    BY <1>2 DEF AskPlan
  <2>3. ASSUME NEW a \in asks' PROVE a.stop \/ a.form = form'
    <3>1. CASE a \in asks
      BY <2>2, <3>1
    <3>2. CASE a = [form |-> form, stop |-> FALSE]
      BY <2>2, <3>2
    <3> QED
      BY <2>2, <2>3, <3>1, <3>2
  <2>4. AsksTyped'
    BY <2>1, <2>2 DEF AsksTyped
  <2> QED
    BY <2>2, <2>3, <2>4
<1>3. CASE CreateDevice
  BY <1>3 DEF CreateDevice, AsksTyped
<1>4. CASE CreateAnswer
  BY <1>4, StoppedAsks DEF CreateAnswer, AsksTyped
<1>5. ASSUME NEW a \in asks, NEW ok \in BOOLEAN, PlanArrives(a, ok)
      PROVE  IInv' /\ form' \in Forms
  BY <1>5 DEF PlanArrives, AsksTyped
<1> QED
  BY <1>1, <1>2, <1>3, <1>4, <1>5 DEF DialogNext

LEMMA NextIInv == IInv /\ form \in Forms /\ [Next]_vars => IInv' /\ (form \in Forms)'
<1> SUFFICES ASSUME IInv, form \in Forms, [Next]_vars PROVE IInv' /\ form' \in Forms
  OBVIOUS
<1>1. CASE Planning(DialogNext)
  BY <1>1, DialogIInv DEF Planning, Part
<1>2. CASE UNCHANGED dialogVars
  BY <1>2 DEF dialogVars, IInv, AsksTyped, AsksAreForForm, PlanIsForRequest
<1>3. Planning(DialogNext) \/ UNCHANGED dialogVars
  BY DEF Next, Placing, Listing, Watching, Session, Snapping, Part, vars
<1> QED
  BY <1>1, <1>2, <1>3

\* Without a spinner, the plan shown is the plan of the form shown, whatever
\* order the answers came in (NewDevice.tsx:115-135).
THEOREM SpecPlanIsForRequest == Spec => []PlanIsForRequest
<1>1. Init => IInv /\ form \in Forms
  BY InitIInv DEF Init, DeviceViewsInit
<1>2. IInv => PlanIsForRequest
  BY DEF IInv
<1> QED
  BY <1>1, <1>2, NextIInv, PTL DEF Spec

-----------------------------------------------------------------------------
(* Placement: the best of finitely many.                                   *)

\* A transitive relation that nothing has to itself leaves one element of a
\* finite set with none before it.
LEMMA FiniteMin ==
    ASSUME NEW S, IsFiniteSet(S), S # {}, NEW R,
           \A x \in S : <<x, x>> \notin R,
           \A x, y, z \in S : <<x, y>> \in R /\ <<y, z>> \in R => <<x, z>> \in R
    PROVE  \E x \in S : \A y \in S : <<y, x>> \notin R
<1>. DEFINE Before(x) == {y \in S : <<y, x>> \in R}
            T == {Before(x) : x \in S}
<1>1. T \subseteq FiniteSubsetsOf(S) /\ T # {}
  <2>1. \A x \in S : Before(x) \subseteq S /\ IsFiniteSet(Before(x))
    BY FS_Subset
  <2>. HIDE DEF Before
  <2>. QED BY <2>1 DEF FiniteSubsetsOf
<1>2. PICK b \in T : \A c \in T : ~(<<c, b>> \in StrictSubsetOrdering(S))
  BY <1>1, WFMin, FS_StrictSubsetOrderingWellFounded
<1>3. PICK x \in S : b = Before(x)
  OBVIOUS
<1>4. ASSUME NEW y \in S, <<y, x>> \in R
      PROVE  FALSE
  <2>1. Before(y) \subseteq Before(x)
    BY <1>4
  <2>2. y \in Before(x) /\ y \notin Before(y)
    BY <1>4
  <2>3. <<Before(y), Before(x)>> \in StrictSubsetOrdering(S)
    BY <2>1, <2>2 DEF StrictSubsetOrdering
  <2>. QED BY <1>2, <1>3, <2>3
<1>. QED BY <1>4

\* Comparing fractions by their products.
LEMMA Stretch ==
    ASSUME NEW x \in Nat, NEW y \in Nat, NEW k \in Nat, k > 0
    PROVE  x < y <=> x * k < y * k
OBVIOUS

LEMMA Fractions ==
    ASSUME NEW a \in Nat, NEW b \in Nat, NEW c \in Nat,
           NEW p \in Nat, NEW q \in Nat, NEW r \in Nat,
           p > 0, q > 0, r > 0,
           a * q < b * p, b * r < c * q
    PROVE  a * r < c * p
<1>1. (a * q) * r < (b * p) * r
  <2>1. a * q \in Nat /\ b * p \in Nat
    OBVIOUS
  <2>. QED BY <2>1, Stretch
<1>2. (b * r) * p < (c * q) * p
  <2>1. b * r \in Nat /\ c * q \in Nat
    OBVIOUS
  <2>. QED BY <2>1, Stretch
<1>3. (b * p) * r = (b * r) * p
  OBVIOUS
<1>4. (a * q) * r = (a * r) * q /\ (c * q) * p = (c * p) * q
  OBVIOUS
<1>5. (a * r) * q < (c * p) * q
  <2>1. (a * q) * r \in Nat /\ (b * p) * r \in Nat /\ (c * q) * p \in Nat
    OBVIOUS
  <2>2. (a * q) * r < (c * q) * p
    <3>1. \A x, y, z \in Nat : x < y /\ y < z => x < z
      OBVIOUS
    <3>2. (b * r) * p \in Nat /\ (b * p) * r < (c * q) * p
      BY <1>2, <1>3
    <3>. QED BY <1>1, <2>1, <3>1, <3>2
  <2>. QED BY <2>2, <1>4
<1>6. a * r \in Nat /\ c * p \in Nat
  OBVIOUS
<1>. QED BY <1>5, <1>6, Stretch

TypedCluster(c) ==
    /\ c.up \subseteq Nodes
    /\ c.free \in [Nodes -> Nat]
    /\ c.used \in [Nodes -> [Disks -> Nat]]

\* Of the disks a node may fill, one is least full.
LEMMA LeastFullExists ==
    ASSUME NEW c, TypedCluster(c), NEW size \in Sizes, NEW n \in Nodes,
           NEW pool \in SUBSET {d \in Disks : Holds(c, n, d, size)}, pool # {}
    PROVE  \E d \in pool : \A e \in pool : LessFull(c, n, size, d, e)
<1>. DEFINE weight(d) == c.used[n][d] + size.disk
            cap(d) == Capacity[n][d]
            R == {x \in pool \X pool : weight(x[1]) * cap(x[2]) < weight(x[2]) * cap(x[1])}
<1>1. \A d \in pool : weight(d) \in Nat /\ cap(d) \in Nat /\ cap(d) > 0
  BY PlacementAssumption DEF TypedCluster, Holds
<1>2. IsFiniteSet(pool)
  BY PlacementAssumption, FS_Subset
<1>3. \A d, e \in pool : LessFull(c, n, size, d, e) <=> weight(d) * cap(e) <= weight(e) * cap(d)
  BY DEF LessFull
<1>. HIDE DEF weight, cap
<1>4. \A d, e \in pool : weight(d) * cap(e) \in Nat
  BY <1>1
<1>5. \A d \in pool : <<d, d>> \notin R
  BY <1>4
<1>6. \A d, e, f \in pool : <<d, e>> \in R /\ <<e, f>> \in R => <<d, f>> \in R
  <2>1. SUFFICES ASSUME NEW d \in pool, NEW e \in pool, NEW f \in pool,
                        weight(d) * cap(e) < weight(e) * cap(d),
                        weight(e) * cap(f) < weight(f) * cap(e)
                 PROVE  weight(d) * cap(f) < weight(f) * cap(d)
    OBVIOUS
  <2>. QED BY <1>1, <2>1, Fractions
<1>7. PICK d \in pool : \A e \in pool : <<e, d>> \notin R
  <2>. HIDE DEF R
  <2>. QED BY <1>2, <1>5, <1>6, FiniteMin
<1>8. \A e \in pool : ~(weight(e) * cap(d) < weight(d) * cap(e))
  BY <1>7
<1>9. \A e \in pool : weight(d) * cap(e) <= weight(e) * cap(d)
  BY <1>4, <1>8
<1>. QED BY <1>3, <1>9

\* Of any candidates, there is a first.
LEMMA FirstExists ==
    ASSUME NEW c, TypedCluster(c), NEW slow, NEW cands \in SUBSET Spot, cands # {}
    PROVE  First(c, slow, cands) # {}
<1>. DEFINE quick == {a \in cands : ~IsSlow(a, slow)}
            kind == IF quick # {} THEN quick ELSE cands
            N == {a.node : a \in kind}
            mem(n) == c.free[n]
            R == {x \in N \X N : mem(x[1]) > mem(x[2])}
<1>1. kind # {} /\ kind \subseteq cands
  OBVIOUS
<1>2. N \subseteq Nodes /\ N # {} /\ IsFiniteSet(N)
  <2>1. N \subseteq Nodes
    BY <1>1 DEF Spot
  <2>2. N # {}
    BY <1>1
  <2>. QED BY <2>1, <2>2, PlacementAssumption, FS_Subset
<1>3. \A n \in N : mem(n) \in Nat
  BY <1>2 DEF TypedCluster
<1>4. PICK n \in N : \A m \in N : <<m, n>> \notin R
  <2>. HIDE DEF N, mem
  <2>1. \A m \in N : <<m, m>> \notin R
    BY <1>3
  <2>2. \A l, m, k \in N : <<l, m>> \in R /\ <<m, k>> \in R => <<l, k>> \in R
    <3>1. SUFFICES ASSUME NEW l \in N, NEW m \in N, NEW k \in N,
                          mem(l) > mem(m), mem(m) > mem(k)
                   PROVE  mem(l) > mem(k)
      OBVIOUS
    <3>. QED BY <1>3, <3>1
  <2>. HIDE DEF R
  <2>. QED BY <1>2, <2>1, <2>2, FiniteMin
<1>5. PICK a \in kind : a.node = n
  OBVIOUS
<1>6. \A b \in kind : c.free[a.node] >= c.free[b.node]
  <2>1. SUFFICES ASSUME NEW b \in kind PROVE mem(n) >= mem(b.node)
    BY <1>5
  <2>2. b.node \in N
    OBVIOUS
  <2>. HIDE DEF N, mem
  <2>3. ~(mem(b.node) > mem(n))
    BY <1>4, <2>2
  <2>. QED BY <1>3, <2>2, <2>3
<1>7. ASSUME NEW b \in cands PROVE NoWorse(c, slow, a, b)
  <2>1. IsSlow(a, slow) => IsSlow(b, slow)
    BY <1>5
  <2>2. CASE IsSlow(b, slow) /\ ~IsSlow(a, slow)
    BY <2>2 DEF NoWorse, IsSlow
  <2>3. CASE IsSlow(a, slow) <=> IsSlow(b, slow)
    <3>1. b \in kind
      BY <2>3
    <3>. QED BY <1>6, <2>3, <3>1 DEF NoWorse, IsSlow
  <2>. QED BY <2>1, <2>2, <2>3
<1>. QED BY <1>1, <1>7 DEF First

-----------------------------------------------------------------------------
(* What the dialog and the server choose from.                             *)

Offered(c, size, slow) ==
    UNION {Chosen(c, size, slow, n) : n \in {n \in Nodes : HasRoom(c, size, n)}}

Deployable(c, size, slow) ==
    UNION {Picks(c, size, slow, n) : n \in {n \in Nodes : Eligible(c, size, n)}}

\* A node offers one kind of disk: no slow one while it has a fast one left.
LEMMA OneKind ==
    ASSUME NEW c, NEW size, NEW slow, NEW n,
           NEW d \in Pool(c, size, slow, n), NEW e \in Disks, Holds(c, n, e, size)
    PROVE  <<n, d>> \in slow => <<n, e>> \in slow
BY DEF Pool

LEMMA PoolOfEligible ==
    ASSUME NEW c, NEW size, NEW slow, NEW n, Eligible(c, size, n)
    PROVE  Pool(c, size, slow, n) # {}
BY DEF Pool, Eligible

LEMMA PoolFits ==
    ASSUME NEW c, NEW size, NEW slow, NEW n
    PROVE  Pool(c, size, slow, n) \subseteq {d \in Disks : Holds(c, n, d, size)}
BY DEF Pool

LEMMA ChosenFromPool ==
    ASSUME NEW c, NEW size, NEW slow, NEW n
    PROVE  Chosen(c, size, slow, n) =
             {[node |-> n, storage |-> d] :
                d \in {d \in Pool(c, size, slow, n) :
                         \A e \in Pool(c, size, slow, n) : LessFull(c, n, size, d, e)}}
BY DEF Chosen, Pool

\* Both choose from the same nodes, and from the same disks of them.
LEMMA OfferedSpots ==
    ASSUME NEW c, NEW size, NEW slow,
           NEW a \in Offered(c, size, slow) \cup Deployable(c, size, slow)
    PROVE  /\ a \in Spot /\ a.node \in Nodes /\ Eligible(c, size, a.node)
           /\ a.storage \in Pool(c, size, slow, a.node)
<1>1. ASSUME NEW n \in Nodes, HasRoom(c, size, n) \/ Eligible(c, size, n),
             NEW d \in Pool(c, size, slow, n), a = [node |-> n, storage |-> d]
      PROVE  /\ a \in Spot /\ a.node \in Nodes /\ Eligible(c, size, a.node)
             /\ a.storage \in Pool(c, size, slow, a.node)
  <2>1. d \in Disks /\ Holds(c, n, d, size)
    BY PoolFits
  <2>. QED BY <1>1, <2>1 DEF Spot, HasRoom, Eligible
<1>2. CASE a \in Offered(c, size, slow)
  <2>1. PICK n \in Nodes : HasRoom(c, size, n) /\ a \in Chosen(c, size, slow, n)
    BY <1>2 DEF Offered
  <2>2. PICK d \in Pool(c, size, slow, n) : a = [node |-> n, storage |-> d]
    BY <2>1, ChosenFromPool
  <2>. QED BY <1>1, <2>1, <2>2
<1>3. CASE a \in Deployable(c, size, slow)
  <2>1. PICK n \in Nodes : Eligible(c, size, n) /\ a \in Picks(c, size, slow, n)
    BY <1>3 DEF Deployable
  <2>2. PICK d \in Pool(c, size, slow, n) : a = [node |-> n, storage |-> d]
    BY <2>1 DEF Picks
  <2>. QED BY <1>1, <2>1, <2>2
<1>. QED BY <1>2, <1>3

\* Every node that would do has a spot in both.
LEMMA BothOffer ==
    ASSUME NEW c, TypedCluster(c), NEW size \in Sizes, NEW slow,
           NEW n \in Nodes, Eligible(c, size, n)
    PROVE  /\ \E a \in Offered(c, size, slow) : a.node = n
           /\ \E a \in Deployable(c, size, slow) : a.node = n
<1>. DEFINE pool == Pool(c, size, slow, n)
<1>1. pool # {} /\ pool \in SUBSET {d \in Disks : Holds(c, n, d, size)}
  BY PoolOfEligible, PoolFits
<1>2. PICK d \in pool : \A e \in pool : LessFull(c, n, size, d, e)
  <2>. HIDE DEF pool
  <2>. QED BY <1>1, LeastFullExists
<1>3. [node |-> n, storage |-> d] \in Chosen(c, size, slow, n)
  BY <1>2, ChosenFromPool
<1>4. HasRoom(c, size, n)
  BY DEF Eligible, HasRoom
<1>5. [node |-> n, storage |-> d] \in Offered(c, size, slow)
  BY <1>3, <1>4 DEF Offered
<1>6. PICK e : [node |-> n, storage |-> e] \in Picks(c, size, slow, n)
  BY <1>1 DEF Picks
<1>7. [node |-> n, storage |-> e] \in Deployable(c, size, slow)
  BY <1>6 DEF Deployable
<1>. QED BY <1>5, <1>7

\* Spots of one node are of one kind, whoever offers them.
LEMMA SameKind ==
    ASSUME NEW c, NEW size, NEW slow,
           NEW a \in Offered(c, size, slow) \cup Deployable(c, size, slow),
           NEW b \in Offered(c, size, slow) \cup Deployable(c, size, slow),
           a.node = b.node
    PROVE  IsSlow(a, slow) <=> IsSlow(b, slow)
<1>1. /\ a.storage \in Pool(c, size, slow, a.node)
      /\ b.storage \in Pool(c, size, slow, a.node)
  BY OfferedSpots
<1>2. /\ a.storage \in Disks /\ Holds(c, a.node, a.storage, size)
      /\ b.storage \in Disks /\ Holds(c, a.node, b.storage, size)
  BY <1>1, PoolFits
<1>. QED BY <1>1, <1>2, OneKind DEF IsSlow

\* The first of one are as good as anything the other has.
LEMMA NoWorseThanEither ==
    ASSUME NEW c, TypedCluster(c), NEW size \in Sizes, NEW slow,
           NEW a, a \in First(c, slow, Offered(c, size, slow))
                  \/ a \in First(c, slow, Deployable(c, size, slow)),
           NEW b \in Offered(c, size, slow) \cup Deployable(c, size, slow)
    PROVE  NoWorse(c, slow, a, b)
<1>1. b.node \in Nodes /\ Eligible(c, size, b.node)
  BY OfferedSpots
<1>2. PICK x \in Offered(c, size, slow) : x.node = b.node
  BY <1>1, BothOffer
<1>3. PICK y \in Deployable(c, size, slow) : y.node = b.node
  BY <1>1, BothOffer
<1>4. NoWorse(c, slow, a, x) \/ NoWorse(c, slow, a, y)
  BY DEF First
<1>5. (IsSlow(x, slow) <=> IsSlow(b, slow)) /\ (IsSlow(y, slow) <=> IsSlow(b, slow))
  BY <1>2, <1>3, SameKind
<1>6. \A z : z.node = b.node /\ (IsSlow(z, slow) <=> IsSlow(b, slow)) /\ NoWorse(c, slow, a, z)
             => NoWorse(c, slow, a, b)
  BY DEF NoWorse, IsSlow
<1>. QED BY <1>2, <1>3, <1>4, <1>5, <1>6

LEMMA PlacesAgree ==
    ASSUME NEW c, TypedCluster(c), NEW size \in Sizes, NEW slow
    PROVE  LET here  == Place(c, size, Nodes, slow)
               there == PickDeployNode(c, size, slow)
           IN  /\ here = {} <=> there = {}
               /\ \A a \in here, b \in there :
                     /\ IsSlow(a, slow) <=> IsSlow(b, slow)
                     /\ c.free[a.node] = c.free[b.node]
               /\ \A a \in here \cup there : IsSlow(a, slow) =>
                     \A n \in {n \in Nodes : Eligible(c, size, n)}, d \in Disks :
                        Holds(c, n, d, size) => <<n, d>> \in slow
<1>. DEFINE here == First(c, slow, Offered(c, size, slow))
            there == First(c, slow, Deployable(c, size, slow))
<1>1. here = Place(c, size, Nodes, slow) /\ there = PickDeployNode(c, size, slow)
  BY DEF Place, PickDeployNode, Offered, Deployable
<1>2. here \subseteq Offered(c, size, slow) /\ there \subseteq Deployable(c, size, slow)
  BY DEF First
<1>3. /\ Offered(c, size, slow) \in SUBSET Spot
      /\ Deployable(c, size, slow) \in SUBSET Spot
  BY OfferedSpots
<1>4. here = {} <=> there = {}
  <2>1. Offered(c, size, slow) = {} <=> Deployable(c, size, slow) = {}
    BY OfferedSpots, BothOffer
  <2>. QED BY <1>2, <1>3, <2>1, FirstExists
<1>5. ASSUME NEW a \in here, NEW b \in there
      PROVE  (IsSlow(a, slow) <=> IsSlow(b, slow)) /\ c.free[a.node] = c.free[b.node]
  <2>1. NoWorse(c, slow, a, b) /\ NoWorse(c, slow, b, a)
    BY <1>2, NoWorseThanEither
  <2>2. c.free[a.node] \in Nat /\ c.free[b.node] \in Nat
    BY <1>2, OfferedSpots DEF TypedCluster
  <2>. QED BY <2>1, <2>2 DEF NoWorse, IsSlow
<1>6. ASSUME NEW a \in here \cup there, IsSlow(a, slow),
             NEW n \in Nodes, Eligible(c, size, n),
             NEW d \in Disks, Holds(c, n, d, size), <<n, d>> \notin slow
      PROVE  FALSE
  <2>1. PICK s \in Offered(c, size, slow) : s.node = n
    BY <1>6, BothOffer
  <2>2. ~IsSlow(s, slow)
    BY <1>6, <2>1, OfferedSpots, OneKind DEF IsSlow
  <2>3. NoWorse(c, slow, a, s)
    BY <2>1, NoWorseThanEither
  <2>. QED BY <1>6, <2>2, <2>3 DEF NoWorse, IsSlow
<1>. HIDE DEF here, there
<1>. QED BY <1>1, <1>4, <1>5, <1>6

\* The listings are what the nodes may report.
ListingsTyped == cluster \in Clusters /\ listing \in Clusters

LEMMA NextListings == ListingsTyped /\ [Next]_vars => ListingsTyped'
<1>. SUFFICES ASSUME ListingsTyped, [Next]_vars PROVE ListingsTyped'
  OBVIOUS
<1>1. CASE Placing(PlacementNext)
  BY <1>1 DEF Placing, Part, ListingsTyped, PlacementNext, SlowCacheExpires, OthersMove,
              OthersMake, ListingArrives, Open, TiersArrive, NextIdArrives, Created,
              SubmitFails, Close, Deploy, Submit
<1>2. CASE UNCHANGED pvars
  BY <1>2 DEF pvars, ListingsTyped
<1>3. Placing(PlacementNext) \/ UNCHANGED pvars
  BY DEF Next, Listing, Planning, Watching, Session, Snapping, Part, vars
<1>. QED BY <1>1, <1>2, <1>3

\* place() in the browser and pickDeployNode() in the server, two programs kept
\* in step by hand, give the same answer to the same listing for any cluster,
\* any machine and whatever either knows of its disks: both refuse or neither,
\* and they choose the same kind of disk and a node with as much memory free.
\* Neither takes a spinner while a node that would do has room on a fast disk
\* (src/placement.ts:34-37, server/index.ts:423-428).
THEOREM SpecPlacementsAgree == Spec => []PlacementsAgree
<1>1. Init => ListingsTyped
  BY DEF Init, PlacementInit, ListingsTyped
<1>2. ListingsTyped => PlacementsAgree
  <2>1. SUFFICES ASSUME ListingsTyped PROVE PlacementsAgree
    OBVIOUS
  <2>2. TypedCluster(listing)
    BY <2>1, PlacementAssumption DEF ListingsTyped, TypedCluster
  <2>. QED BY <2>2, PlacesAgree DEF PlacementsAgree, SameAnswer, SpinnersLast
<1>. QED BY <1>1, <1>2, NextListings, PTL DEF Spec
=============================================================================
