-------------------------- MODULE SchedulerProofs --------------------------
(***************************************************************************)
(* Proofs about Scheduler, for any nodes, images, requests and users.      *)
(*                                                                         *)
(* HeadroomKept needs to know what a plan in flight is worth: as long as   *)
(* no load has come to its node since the report it was made from, the     *)
(* node still has the memory it was planned for, and its headroom.  That   *)
(* in turn rests on reports being no more than what is free on a node that *)
(* took on nothing since.  NativeBeforeTranslated is arithmetic on score:  *)
(* no sum of the other terms is worth what a native fit is.                *)
(*                                                                         *)
(* CardAgrees is about a plan and a card that wait for Proxmox each on its *)
(* own.  Until something changes, whichever of the two has its answer is   *)
(* one that planDevice may still give (PreviewsHold), and two such answers *)
(* differ in the storage at most: the scores decide the node, and the      *)
(* order of the lists every tie (PlansAgree).                              *)
(***************************************************************************)
EXTENDS Scheduler, FiniteSetTheorems, TLAPS

ReportOf == [reachable : BOOLEAN, free : Nat]

Device == [node : Nodes, memory : Nat, volume : Volumes \cup {None},
           storage : Int, on : BOOLEAN]

IsCall(c) ==
    /\ c = [kind |-> c.kind, req |-> c.req, seen |-> c.seen, plan |-> c.plan,
            card |-> c.card, disturbed |-> c.disturbed, stale |-> c.stale]
    /\ c.kind \in Kind
    /\ c.req.memory \in Int \cup {None}
    /\ c.stale \in SUBSET Nodes
    /\ c.seen # None => c.seen \in [Nodes -> ReportOf]

CallTypes(calls) ==
    /\ DOMAIN calls = Users /\ calls = [u \in Users |-> calls[u]]
    /\ \A u \in Users : calls[u] # None => IsCall(calls[u])

Types ==
    /\ free \in [Nodes -> Int] /\ other \in [Nodes -> Nat]
    /\ dev \in [Ids -> Device \cup {None}]
    /\ node \in [Nodes -> ReportOf]
    /\ grown \in [Nodes -> BOOLEAN] /\ excused \in [Nodes -> BOOLEAN]
    /\ CallTypes(call)

\* A report counts everything a node carries, unless load came since.
ReportsHold ==
    \A n \in Nodes : ~grown[n] => node[n].free <= AtLeast(0, free[n])

\* What a create in flight read, and then planned, is there unless load came.
SeenHolds(c, memory) ==
    c.seen # None =>
        \A n \in Nodes \ c.stale : c.seen[n].free <= AtLeast(0, memory[n])

PlanHolds(c, memory) ==
    (c.plan # None /\ c.plan.claim = None) =>
        /\ c.plan.node \in Nodes /\ c.plan.need.memory \in 1..64
        /\ c.plan.need.storage \in Int
        /\ c.plan.volume \in Volumes \cup {None}
        /\ \/ c.plan.node \in c.stale
           \/ memory[c.plan.node] >= c.plan.need.memory + Headroom

PlansHold ==
    \A u \in Users : (call[u] # None /\ call[u].kind = "create") =>
        SeenHolds(call[u], free) /\ PlanHolds(call[u], free)

IInv == Types /\ ReportsHold /\ PlansHold /\ HeadroomKept

-----------------------------------------------------------------------------
(* What a plan says.                                                       *)

LEMMA ResourceTypes ==
    ASSUME NEW r, r.memory \in Int \cup {None},
           ResolveFormFactorId(r) \in DOMAIN FormFactors
    PROVE  /\ ResolveResources(r).memory \in 1..64
           /\ ResolveResources(r).storage \in Int
           /\ ResolveResources(r).cpu \in Int
<1>. DEFINE ff == ResolveFormFactorId(r)
            picked == PickProfile(r, ff)
            base == IF picked \in DOMAIN Profiles THEN Profiles[picked]
                                                  ELSE FormFactors[ff]
<1>1. base.cpu \in Int /\ base.memory \in Int /\ base.storage \in Int
  BY RegistryAssumption
<1>. HIDE DEF base
<1>2. ResolveResources(r) =
        [cpu |-> Clamp(base.cpu, 1, 32),
         memory |-> Clamp(IF r.memory # None THEN r.memory ELSE base.memory, 1, 64),
         storage |-> Clamp(base.storage, 2, 512)]
  BY DEF ResolveResources, base
<1>. QED BY <1>1, <1>2 DEF Clamp

\* A plan that is no claim of a phone names a winner among the nodes.
LEMMA NodePlan ==
    ASSUME NEW r, NEW u, NEW seen, NEW vols,
           NEW p \in Plans(r, u, seen, vols), p.ok,
           p.claim = None \/ p.performance # "native"
    PROVE  /\ ResolveFormFactorId(r) \in DOMAIN FormFactors
           /\ p.node \in Winners(r, p.engine, Takers(r, p.engine, seen, vols), seen)
           /\ p.performance = Fit(r, p.engine, p.node, seen).performance
           /\ p.need = ResolveResources(r)
           /\ p.volume = None \/ p.volume \in vols
           /\ p.engine.runtime # "physical-adb"
<1>. DEFINE viable == Viable(r, u, seen, vols)
<1>1. viable # {}
  BY DEF Plans, Refusal
<1>2. PICK e \in Preferred(viable) :
        p \in IF e.runtime = "physical-adb" THEN ClaimPlans(r, u, e)
              ELSE NodePlans(r, e, seen, vols)
  BY <1>1 DEF Plans
<1>3. ASSUME p \in ClaimPlans(r, u, e)
      PROVE  FALSE
  BY <1>3, NoneAssumption DEF ClaimPlans, Plan, Claims, Claimable
<1>4. p \in NodePlans(r, e, seen, vols) /\ e.runtime # "physical-adb"
  BY <1>2, <1>3
<1>5. PICK n \in Winners(r, e, Takers(r, e, seen, vols), seen) :
        \E v \in IF e.runtime = "qemu" THEN LeastFull(r, n, vols) ELSE {None} :
          p = Plan(e, n, Fit(r, e, n, seen).performance, None, v,
                   ResolveResources(r))
  BY <1>4 DEF NodePlans
<1>6. PICK v \in IF e.runtime = "qemu" THEN LeastFull(r, n, vols) ELSE {None} :
        p = Plan(e, n, Fit(r, e, n, seen).performance, None, v,
                 ResolveResources(r))
  BY <1>5
<1>7. /\ p.engine = e /\ p.node = n /\ p.volume = v
      /\ p.need = ResolveResources(r)
      /\ p.performance = Fit(r, e, n, seen).performance
  BY <1>6 DEF Plan
<1>8. v = None \/ v \in vols
  BY DEF LeastFull, SafeVolumes
<1>9. ResolveFormFactorId(r) \in DOMAIN FormFactors
  BY <1>2 DEF Preferred, Viable, Engines
<1>. QED BY <1>4, <1>5, <1>7, <1>8, <1>9

\* Such a plan leaves its node its headroom, by what was seen.
LEMMA PlanFits ==
    ASSUME NEW r, r.memory \in Int \cup {None}, NEW u,
           NEW seen \in [Nodes -> ReportOf], NEW vols \in SUBSET Volumes,
           NEW p \in Plans(r, u, seen, vols), p.ok, p.claim = None
    PROVE  /\ p.node \in Nodes
           /\ p.need.memory \in 1..64 /\ p.need.storage \in Int
           /\ p.volume \in Volumes \cup {None}
           /\ seen[p.node].free >= p.need.memory + Headroom
<1>1. p.node \in Candidates(r, p.engine, seen)
  BY NodePlan DEF Winners, Takers
<1>2. /\ p.node \in Nodes
      /\ seen[p.node].free - Headroom >= ResolveResources(r).memory
  BY <1>1 DEF Candidates
<1>3. ResolveResources(r).memory \in 1..64 /\ ResolveResources(r).storage \in Int
  BY NodePlan, ResourceTypes
<1>4. seen[p.node].free \in Nat
  BY <1>2 DEF ReportOf
<1>. QED BY <1>2, <1>3, <1>4, NodePlan DEF Headroom

-----------------------------------------------------------------------------
(* The score.                                                              *)

LEMMA BusyType == ASSUME NEW n PROVE Busy(n) \in Nat
<1>. DEFINE ds == {d \in Ids : dev[d] # None /\ dev[d].node = n /\ dev[d].on}
            ps == {p \in DOMAIN Phones : Phones[p].node = n}
<1>1. IsFiniteSet(ds) /\ IsFiniteSet(ps)
  BY ClusterAssumption, FS_Subset
<1>2. Cardinality(ds) \in Nat /\ Cardinality(ps) \in Nat
  BY <1>1, FS_CardinalityType
<1>. QED BY <1>2 DEF Busy

\* A translating node scores at most 315 less its devices, a native one at
\* least 460 less its devices.
LEMMA ScoreBounds ==
    ASSUME NEW r, r.memory \in Int \cup {None},
           ResolveFormFactorId(r) \in DOMAIN FormFactors,
           NEW seen \in [Nodes -> ReportOf], NEW n \in Nodes,
           NEW e, e.runtime \notin {"physical-adb", "mock"}
    PROVE  /\ Score(r, e, n, seen) \in Int
           /\ Fit(r, e, n, seen).performance = "poor" =>
                 Score(r, e, n, seen) <= 315
           /\ Fit(r, e, n, seen).performance = "native" =>
                 Score(r, e, n, seen) >= 460 - 25 * Busy(n)
<1>. DEFINE how == Fit(r, e, n, seen).performance
            spare == AtMost(SpareCap, 8 * AtLeast(0, seen[n].free
                                                  - ResolveResources(r).memory))
<1>1. how \in Performance
  BY DEF Fit, FitEngine, Fits, Unfit, Performance
<1>2. Busy(n) \in Nat
  BY BusyType
<1>3. seen[n].free \in Nat /\ ResolveResources(r).memory \in 1..64
  BY ResourceTypes DEF ReportOf
<1>4. spare \in 0..100
  <2>1. \A x, y \in Int : AtMost(100, 8 * AtLeast(0, x - y)) \in 0..100
    BY DEF AtMost, AtLeast
  <2>2. seen[n].free \in Int /\ ResolveResources(r).memory \in Int
    BY <1>3
  <2>3. spare = AtMost(100, 8 * AtLeast(0, seen[n].free
                                           - ResolveResources(r).memory))
    BY DEF SpareCap
  <2>. QED BY ONLY <2>1, <2>2, <2>3
<1>5. how = "native" => Facts[n].opengl
  <2>1. Host(n, seen).opengl = Facts[n].opengl
    BY DEF Host
  <2>. QED BY <2>1 DEF Fit, FitEngine, Fits, Unfit
<1>6. /\ PerformanceScore[how] \in Nat
      /\ how = "poor" => PerformanceScore[how] = 20
      /\ how = "native" => PerformanceScore[how] = 400
  BY <1>1 DEF PerformanceScore, Performance
<1>. HIDE DEF how, spare
<1>7. Score(r, e, n, seen) =
        PerformanceScore[how] + If(Facts[n].opengl, 60) + If(Facts[n].vaapi, 15)
        + If(e.key \in Facts[n].cached, 120) + spare - 25 * Busy(n)
  BY DEF Score, how, spare, OpenglScore, VaapiScore, CachedScore, BusyCost
<1>8. /\ If(Facts[n].opengl, 60) \in {0, 60} /\ If(Facts[n].vaapi, 15) \in {0, 15}
      /\ If(e.key \in Facts[n].cached, 120) \in {0, 120}
      /\ Facts[n].opengl => If(Facts[n].opengl, 60) = 60
  BY DEF If
<1>. QED BY <1>2, <1>4, <1>5, <1>6, <1>7, <1>8 DEF how

LEMMA PoorLoses ==
    ASSUME NEW r, r.memory \in Int \cup {None}, NEW u,
           NEW seen \in [Nodes -> ReportOf], NEW vols \in {Volumes, {}},
           NEW p \in Plans(r, u, seen, vols), p.ok, p.performance = "poor",
           NEW n \in Takers(r, p.engine, seen, Volumes),
           Fit(r, p.engine, n, seen).performance = "native"
    PROVE  Busy(n) > Outscored
<1>. DEFINE e == p.engine
<1>1. /\ ResolveFormFactorId(r) \in DOMAIN FormFactors
      /\ p.node \in Winners(r, e, Takers(r, e, seen, vols), seen)
      /\ Fit(r, e, p.node, seen).performance = "poor"
  BY NodePlan
<1>2. e.runtime = "qemu"
  BY <1>1 DEF Fit, FitEngine, Fits, Unfit
<1>3. vols = Volumes
  <2>1. CASE vols = {}
    BY <1>1, <1>2, <2>1 DEF Winners, Takers, SafeVolumes
  <2>. QED BY <2>1
<1>4. n \in Nodes /\ p.node \in Nodes
  BY <1>1 DEF Winners, Takers, Candidates
<1>5. Score(r, e, p.node, seen) >= Score(r, e, n, seen)
  <2>1. Score(r, e, p.node, seen) \in Int /\ Score(r, e, n, seen) \in Int
    BY <1>1, <1>2, <1>4, ScoreBounds
  <2>2. \/ Score(r, e, p.node, seen) > Score(r, e, n, seen)
        \/ Score(r, e, p.node, seen) = Score(r, e, n, seen)
    BY <1>1, <1>3 DEF Winners
  <2>. QED BY <2>1, <2>2
<1>6. /\ Score(r, e, p.node, seen) \in Int /\ Score(r, e, n, seen) \in Int
      /\ Score(r, e, p.node, seen) <= 315
      /\ Score(r, e, n, seen) >= 460 - 25 * Busy(n)
  BY <1>1, <1>2, <1>4, ScoreBounds
<1>. QED BY <1>5, <1>6, BusyType DEF Outscored

-----------------------------------------------------------------------------
(* The steps of a request.                                                 *)

LEMMA AskIInv ==
    ASSUME IInv, NEW a \in Asks, Ask(a.user, a.req, a.kind)
    PROVE  IInv'
<1>. DEFINE u == a.user
            r == a.req
            early == {n \in Nodes : a.kind = "create" /\ grown[n]}
<1>1. u \in Users /\ r.memory \in Int \cup {None} /\ a.kind \in Kind
  BY AsksAssumption
<1>2. \A n \in Nodes \ early : a.kind = "create" =>
          node[n].free <= AtLeast(0, free[n])
  BY DEF IInv, ReportsHold, Types
<1>3. PICK c : /\ call' = [call EXCEPT ![u] = c]
               /\ \/ c = None
                  \/ c = Asking(r, a.kind, node, None, None)
                  \/ \E p \in Plans(r, u, node, {}) :
                        /\ a.kind = "create" => p.ok
                        /\ \E card : c = Asking(r, a.kind, None, p, card)
  <2>1. CASE call' = [call EXCEPT ![u] = Asking(r, a.kind, node, None, None)]
    BY <2>1
  <2>2. ASSUME NEW p \in Plans(r, u, node, {}),
               call' = [call EXCEPT ![u] =
                   IF a.kind = "preview" THEN Asking(r, a.kind, None, p, Card(r, p))
                   ELSE IF p.ok THEN Asking(r, a.kind, None, p, None) ELSE None]
        PROVE  \E c :
                  /\ call' = [call EXCEPT ![u] = c]
                  /\ \/ c = None
                     \/ /\ a.kind = "create" => p.ok
                        /\ \E card : c = Asking(r, a.kind, None, p, card)
    <3>1. CASE a.kind = "preview"
      BY <2>2, <3>1
    <3>2. CASE a.kind # "preview" /\ p.ok
      BY <2>2, <3>2
    <3>3. CASE a.kind # "preview" /\ ~p.ok
      BY <2>2, <3>3
    <3>. QED BY <3>1, <3>2, <3>3
  <2>. QED BY <2>1, <2>2 DEF Ask
<1>4. node \in [Nodes -> ReportOf] /\ early \in SUBSET Nodes /\ None \notin Users
  BY NoneAssumption DEF IInv, Types, CallTypes
<1>5. c # None => IsCall(c)
  BY <1>1, <1>3, <1>4 DEF IsCall, Asking
<1>6. (c # None /\ a.kind = "create") => (SeenHolds(c, free) /\ PlanHolds(c, free))
  <2>1. CASE c = Asking(r, a.kind, node, None, None)
    BY <2>1, <1>2 DEF SeenHolds, PlanHolds, Asking
  <2>2. ASSUME NEW p \in Plans(r, u, node, {}), NEW card, p.ok,
               a.kind = "create", p.claim = None,
               c = Asking(r, a.kind, None, p, card)
        PROVE  PlanHolds(c, free)
    <3>1. /\ p.node \in Nodes
          /\ p.need.memory \in 1..64 /\ p.need.storage \in Int
          /\ p.volume \in Volumes \cup {None}
          /\ node[p.node].free >= p.need.memory + Headroom
      BY <1>1, <1>4, <2>2, PlanFits
    <3>2. node[p.node].free \in Nat /\ free[p.node] \in Int
      BY <3>1 DEF IInv, Types, CallTypes, ReportOf
    <3>3. p.node \notin early => node[p.node].free <= AtLeast(0, free[p.node])
      BY <1>2, <2>2, <3>1
    <3>. QED BY <2>2, <3>1, <3>2, <3>3 DEF PlanHolds, AtLeast, Headroom, Asking
  <2>. QED BY <1>3, <2>1, <2>2 DEF SeenHolds, PlanHolds, Asking
<1>7. Types'
  <2>1. /\ DOMAIN call' = Users /\ call' = [v \in Users |-> call'[v]]
        /\ \A v \in Users : call'[v] = IF v = u THEN c ELSE call[v]
    BY <1>3 DEF IInv, Types, CallTypes
  <2>2. UNCHANGED <<free, other, dev, node, grown, excused>>
    BY DEF Ask
  <2>3. \A v \in Users : call'[v] # None => IsCall(call'[v])
    BY <1>5, <2>1 DEF IInv, Types, CallTypes
  <2>4. CallTypes(call')
    BY <2>1, <2>3 DEF CallTypes
  <2>. QED BY <2>2, <2>4 DEF IInv, Types
<1>8. PlansHold'
  <2>1. \A v \in Users : call'[v] = IF v = u THEN c ELSE call[v]
    BY <1>3 DEF IInv, Types, CallTypes
  <2>2. c # None => c.kind = a.kind
    BY <1>3 DEF Asking
  <2>3. UNCHANGED free
    BY DEF Ask
  <2>. QED BY <1>6, <2>1, <2>2, <2>3 DEF IInv, PlansHold, SeenHolds, PlanHolds
<1>. QED BY <1>7, <1>8 DEF Ask, IInv, ReportsHold, HeadroomKept

\* Storages and cards are filled in without touching what was planned from.
LEMMA AnswerIInv ==
    ASSUME IInv, NEW u \in Users, Answer(u)
    PROVE  IInv'
<1>. DEFINE c == call[u]
<1>1. IsCall(c) /\ c.seen \in [Nodes -> ReportOf]
  BY DEF Answer, InFlight, IInv, Types, CallTypes, IsCall
<1>2. PICK vols \in {Volumes, {}} : \E p \in Plans(c.req, u, c.seen, vols) :
        call' = [call EXCEPT ![u] =
            IF c.kind = "preview"
              THEN [c EXCEPT !.plan = p, !.disturbed = @ \/ vols = {}]
            ELSE IF p.ok THEN [c EXCEPT !.plan = p, !.seen = None] ELSE None]
  BY DEF Answer
<1>3. PICK p \in Plans(c.req, u, c.seen, vols) : \E d, x :
        /\ call' = [call EXCEPT ![u] = x]
        /\ \/ c.kind = "preview" /\ x = [c EXCEPT !.plan = p, !.disturbed = d]
           \/ /\ c.kind # "preview" /\ p.ok
              /\ x = [c EXCEPT !.plan = p, !.seen = None]
           \/ x = None
  <2>1. PICK p \in Plans(c.req, u, c.seen, vols) :
          call' = [call EXCEPT ![u] =
              IF c.kind = "preview"
                THEN [c EXCEPT !.plan = p, !.disturbed = @ \/ vols = {}]
              ELSE IF p.ok THEN [c EXCEPT !.plan = p, !.seen = None] ELSE None]
    BY <1>2
  <2>2. CASE c.kind = "preview"
    BY <2>1, <2>2
  <2>3. CASE c.kind # "preview" /\ p.ok
    BY <2>1, <2>3
  <2>4. CASE c.kind # "preview" /\ ~p.ok
    BY <2>1, <2>4
  <2>. QED BY <2>2, <2>3, <2>4
<1>4. PICK d, x :
        /\ call' = [call EXCEPT ![u] = x]
        /\ \/ c.kind = "preview" /\ x = [c EXCEPT !.plan = p, !.disturbed = d]
           \/ /\ c.kind # "preview" /\ p.ok
              /\ x = [c EXCEPT !.plan = p, !.seen = None]
           \/ x = None
  BY <1>3
<1>5. /\ DOMAIN call' = Users /\ call' = [v \in Users |-> call'[v]]
      /\ \A v \in Users : v # u => call'[v] = call[v]
      /\ call'[u] = x
  BY <1>4 DEF IInv, Types, CallTypes
<1>6. call'[u] # None => /\ IsCall(call'[u])
                         /\ call'[u].kind = c.kind /\ call'[u].stale = c.stale
  BY <1>1, <1>4, <1>5 DEF IsCall
<1>7. ASSUME c.kind = "create", call'[u] # None
      PROVE  SeenHolds(call'[u], free) /\ PlanHolds(call'[u], free)
  <2>1. p.ok /\ call'[u] = [c EXCEPT !.plan = p, !.seen = None]
    BY <1>4, <1>5, <1>7
  <2>2. call'[u].plan = p /\ call'[u].seen = None /\ call'[u].stale = c.stale
    BY <1>1, <2>1 DEF IsCall
  <2>3. ASSUME p.claim = None
        PROVE  PlanHolds(call'[u], free)
    <3>1. /\ p.node \in Nodes
          /\ p.need.memory \in 1..64 /\ p.need.storage \in Int
          /\ p.volume \in Volumes \cup {None}
          /\ c.seen[p.node].free >= p.need.memory + Headroom
      BY <1>1, <2>1, <2>3, PlanFits DEF IsCall
    <3>2. c.seen[p.node].free \in Nat /\ free[p.node] \in Int
      BY <1>1, <3>1 DEF IInv, Types, CallTypes, ReportOf
    <3>3. p.node \notin c.stale => c.seen[p.node].free <= AtLeast(0, free[p.node])
      BY <1>7, <3>1 DEF Answer, InFlight, IInv, PlansHold, SeenHolds
    <3>. QED BY <2>2, <3>1, <3>2, <3>3 DEF PlanHolds, AtLeast, Headroom
  <2>. QED BY <2>2, <2>3 DEF SeenHolds, PlanHolds
<1>8. UNCHANGED <<free, other, dev, node, grown, excused>>
  BY DEF Answer
<1>9. Types'
  <2>1. CallTypes(call')
    BY <1>5, <1>6 DEF IInv, Types, CallTypes
  <2>. QED BY <2>1, <1>8 DEF IInv, Types
<1>10. PlansHold'
  <2>1. \A v \in Users : v # u => call'[v] = call[v]
    BY <1>5
  <2>2. call'[u] # None /\ call'[u].kind = "create" =>
          SeenHolds(call'[u], free) /\ PlanHolds(call'[u], free)
    BY <1>6, <1>7
  <2>. QED BY <2>1, <2>2, <1>8 DEF IInv, PlansHold
<1>. QED BY <1>8, <1>9, <1>10 DEF IInv, ReportsHold, HeadroomKept

LEMMA AnswerCardIInv ==
    ASSUME IInv, NEW u \in Users, AnswerCard(u)
    PROVE  IInv'
<1>. DEFINE c == call[u]
<1>1. IsCall(c) /\ c.kind = "preview"
  BY DEF AnswerCard, InFlight, IInv, Types, CallTypes
<1>2. PICK card, d : call' = [call EXCEPT ![u] =
                        [c EXCEPT !.card = card, !.disturbed = d]]
  BY DEF AnswerCard
<1>4. /\ DOMAIN call' = Users /\ call' = [v \in Users |-> call'[v]]
      /\ \A v \in Users : v # u => call'[v] = call[v]
      /\ call'[u] = [c EXCEPT !.card = card, !.disturbed = d]
  BY <1>2 DEF IInv, Types, CallTypes
<1>5. IsCall(call'[u]) /\ call'[u].kind = "preview"
  BY <1>1, <1>4 DEF IsCall
<1>6. UNCHANGED <<free, other, dev, node, grown, excused>>
  BY DEF AnswerCard
<1>7. Types'
  <2>1. CallTypes(call')
    BY <1>4, <1>5 DEF IInv, Types, CallTypes
  <2>. QED BY <2>1, <1>6 DEF IInv, Types
<1>8. PlansHold'
  BY <1>4, <1>5, <1>6 DEF IInv, PlansHold
<1>. QED BY <1>6, <1>7, <1>8 DEF IInv, ReportsHold, HeadroomKept

\* A request that ends takes nothing with it.
LEMMA EndIInv ==
    ASSUME IInv, NEW u \in Users, call' = [call EXCEPT ![u] = None],
           UNCHANGED <<free, other, dev, node, grown, excused>>
    PROVE  IInv'
<1>1. \A v \in Users : call'[v] = None \/ call'[v] = call[v]
  BY DEF IInv, Types, CallTypes
<1>2. Types'
  <2>1. CallTypes(call')
    BY <1>1 DEF IInv, Types, CallTypes
  <2>. QED BY <2>1 DEF IInv, Types
<1>. QED BY <1>1, <1>2 DEF IInv, PlansHold, SeenHolds, PlanHolds, ReportsHold,
                           HeadroomKept

-----------------------------------------------------------------------------
(* The steps of devices and nodes.                                         *)

\* A change of the load disturbs the requests in flight; they stay right
\* when every node that lost memory is named.
LEMMA DisturbHolds ==
    ASSUME IInv, NEW calls, NEW load \in SUBSET Nodes,
           \A v \in Users : calls[v] = None \/ calls[v] = call[v],
           call' = Disturb(calls, load),
           free' \in [Nodes -> Int],
           \A n \in Nodes \ load : free'[n] >= free[n]
    PROVE  CallTypes(call') /\ PlansHold'
<1>1. /\ DOMAIN call' = Users /\ call' = [v \in Users |-> call'[v]]
      /\ \A v \in Users : call'[v] =
            IF calls[v] = None THEN None
            ELSE IF calls[v].kind = "preview"
                   THEN [calls[v] EXCEPT !.disturbed = TRUE]
                 ELSE [calls[v] EXCEPT !.stale = @ \cup load]
  BY DEF Disturb
<1>2. ASSUME NEW v \in Users, call'[v] # None
      PROVE  /\ IsCall(call'[v])
             /\ call'[v].kind = "create" => SeenHolds(call'[v], free') /\ PlanHolds(call'[v], free')
  <2>1. calls[v] = call[v] /\ calls[v] # None /\ IsCall(call[v])
    BY <1>1, <1>2 DEF IInv, Types, CallTypes
  <2>2. CASE call[v].kind = "preview"
    <3>1. call'[v] = [call[v] EXCEPT !.disturbed = TRUE]
      BY <1>1, <2>1, <2>2
    <3>2. IsCall(call'[v]) /\ call'[v].kind = "preview"
      BY <2>1, <2>2, <3>1 DEF IsCall
    <3>. QED BY <3>2
  <2>3. CASE call[v].kind # "preview"
    <3>1. call'[v] = [call[v] EXCEPT !.stale = @ \cup load]
      BY <1>1, <2>1, <2>3
    <3>2. /\ IsCall(call'[v])
          /\ call'[v].seen = call[v].seen /\ call'[v].plan = call[v].plan
          /\ call'[v].stale = call[v].stale \cup load
      BY <2>1, <3>1 DEF IsCall
    <3>3. SeenHolds(call[v], free) /\ PlanHolds(call[v], free)
      BY <2>1, <2>3 DEF IInv, PlansHold, IsCall, Kind
    <3>4. \A n \in Nodes \ (call[v].stale \cup load) :
            free'[n] >= free[n] /\ free[n] \in Int /\ free'[n] \in Int
      BY DEF IInv, Types, CallTypes
    <3>5. call'[v].seen # None =>
            \A n \in Nodes \ call'[v].stale :
               call'[v].seen[n].free <= AtLeast(0, free'[n])
      <4>1. SUFFICES ASSUME call[v].seen # None,
                            NEW n \in Nodes \ (call[v].stale \cup load)
                     PROVE  call[v].seen[n].free <= AtLeast(0, free'[n])
        BY <3>2
      <4>2. /\ call[v].seen[n].free <= AtLeast(0, free[n])
            /\ call[v].seen[n].free \in Nat
        BY <2>1, <3>3, <4>1 DEF SeenHolds, IsCall, ReportOf
      <4>. QED BY <3>4, <4>1, <4>2 DEF AtLeast
    <3>6. PlanHolds(call'[v], free')
      BY <3>2, <3>3, <3>4 DEF PlanHolds, Headroom
    <3>. QED BY <3>2, <3>5, <3>6 DEF SeenHolds
  <2>. QED BY <2>2, <2>3
<1>. QED BY <1>1, <1>2 DEF PlansHold, CallTypes

\* What a step that moves memory has to show.
LEMMA MovedIInv ==
    ASSUME IInv, NEW calls, NEW load \in SUBSET Nodes,
           \A v \in Users : calls[v] = None \/ calls[v] = call[v],
           call' = Disturb(calls, load),
           free' \in [Nodes -> Int], other' \in [Nodes -> Nat],
           dev' \in [Ids -> Device \cup {None}],
           grown' \in [Nodes -> BOOLEAN], excused' \in [Nodes -> BOOLEAN],
           node' = node,
           \A n \in Nodes \ load : free'[n] >= free[n],
           \A n \in Nodes : grown'[n] = (grown[n] \/ n \in load),
           HeadroomKept'
    PROVE  IInv'
<1>1. CallTypes(call') /\ PlansHold'
  BY DisturbHolds
<1>2. Types'
  BY <1>1 DEF IInv, Types
<1>3. ReportsHold'
  <2>1. SUFFICES ASSUME NEW n \in Nodes, ~grown'[n]
                 PROVE  node[n].free <= AtLeast(0, free'[n])
    BY DEF ReportsHold
  <2>2. /\ ~grown[n] /\ n \notin load
        /\ free'[n] >= free[n] /\ free[n] \in Int /\ free'[n] \in Int
        /\ node[n].free \in Nat
    BY <2>1 DEF IInv, Types, ReportOf
  <2>3. node[n].free <= AtLeast(0, free[n])
    BY <2>2 DEF IInv, ReportsHold
  <2>. QED BY <2>2, <2>3 DEF AtLeast
<1>. QED BY <1>1, <1>2, <1>3 DEF IInv

LEMMA CreateIInv ==
    ASSUME IInv, NEW u \in Users, Create(u)
    PROVE  IInv'
<1>. DEFINE c == call[u]
            p == c.plan
            others == [call EXCEPT ![u] = None]
<1>1. /\ IsCall(c) /\ PlanHolds(c, free) /\ p # None
      /\ \A v \in Users : others[v] = None \/ others[v] = call[v]
      /\ UNCHANGED <<other, node>>
  BY DEF Create, InFlight, IInv, Types, CallTypes, PlansHold
<1>. HIDE DEF others
<1>2. CASE p.claim # None
  <2>1. call' = Disturb(others, {}) /\ UNCHANGED <<free, dev, grown, excused>>
    BY <1>2 DEF Create, others
  <2>2. \A n \in Nodes : free[n] >= free[n]
    BY DEF IInv, Types
  <2>3. HeadroomKept'
    BY <2>1 DEF IInv, HeadroomKept
  <2>. QED BY <1>1, <2>1, <2>2, <2>3, MovedIInv DEF IInv, Types
<1>3. ASSUME p.claim = None, NEW d \in Ids,
             dev' = [dev EXCEPT ![d] =
                 [node |-> p.node, memory |-> p.need.memory,
                  volume |-> p.volume, storage |-> p.need.storage, on |-> TRUE]],
             free' = [free EXCEPT ![p.node] = @ - p.need.memory],
             grown' = [grown EXCEPT ![p.node] = TRUE],
             excused' = [excused EXCEPT ![p.node] = @ \/ p.node \in c.stale],
             call' = Disturb(others, {p.node})
      PROVE  IInv'
  <2>1. /\ p.node \in Nodes /\ p.need.memory \in 1..64 /\ p.need.storage \in Int
        /\ p.volume \in Volumes \cup {None}
        /\ \/ p.node \in c.stale
           \/ free[p.node] >= p.need.memory + Headroom
    BY <1>1, <1>3 DEF PlanHolds
  <2>2. /\ free \in [Nodes -> Int] /\ dev \in [Ids -> Device \cup {None}]
        /\ grown \in [Nodes -> BOOLEAN] /\ excused \in [Nodes -> BOOLEAN]
    BY DEF IInv, Types
  <2>3. [node |-> p.node, memory |-> p.need.memory, volume |-> p.volume,
         storage |-> p.need.storage, on |-> TRUE] \in Device
    BY <2>1 DEF Device
  <2>4. free' \in [Nodes -> Int] /\ \A n \in Nodes \ {p.node} : free'[n] >= free[n]
    BY <1>3, <2>1, <2>2
  <2>5. dev' \in [Ids -> Device \cup {None}]
    BY <1>3, <2>2, <2>3
  <2>6. /\ grown' \in [Nodes -> BOOLEAN] /\ excused' \in [Nodes -> BOOLEAN]
        /\ \A n \in Nodes : grown'[n] = (grown[n] \/ n \in {p.node})
    <3>1. (excused[p.node] \/ p.node \in c.stale) \in BOOLEAN
      OBVIOUS
    <3>. QED BY <1>3, <2>1, <2>2, <3>1
  <2>7. HeadroomKept'
    <3>1. SUFFICES ASSUME NEW n \in Nodes
                   PROVE  free'[n] >= Headroom \/ excused'[n]
      BY DEF HeadroomKept
    <3>2. CASE n = p.node /\ p.node \in c.stale
      BY <1>3, <2>1, <2>2, <3>2
    <3>4. CASE n = p.node /\ p.node \notin c.stale
      <4>1. free'[n] = free[n] - p.need.memory /\ free[n] \in Int
        BY <1>3, <2>1, <2>2, <3>4
      <4>. QED BY <2>1, <3>4, <4>1 DEF Headroom
    <3>3. CASE n # p.node
      BY <1>3, <2>2, <3>3 DEF IInv, HeadroomKept
    <3>. QED BY <3>2, <3>3, <3>4
  <2>8. other' \in [Nodes -> Nat] /\ node' = node /\ {p.node} \in SUBSET Nodes
    BY <1>1, <2>1 DEF IInv, Types
  <2>9. call' = Disturb(others, {p.node})
    BY <1>3
  <2>. QED BY <1>1, <2>4, <2>5, <2>6, <2>7, <2>8, <2>9, MovedIInv
<1>4. CASE p.claim = None
  <2>1. PICK d \in Ids :
          /\ dev' = [dev EXCEPT ![d] =
                 [node |-> p.node, memory |-> p.need.memory,
                  volume |-> p.volume, storage |-> p.need.storage, on |-> TRUE]]
          /\ free' = [free EXCEPT ![p.node] = @ - p.need.memory]
          /\ grown' = [grown EXCEPT ![p.node] = TRUE]
          /\ excused' = [excused EXCEPT ![p.node] = @ \/ p.node \in c.stale]
          /\ call' = Disturb(others, {p.node})
    BY <1>4 DEF Create, others
  <2>. QED BY <1>3, <1>4, <2>1
<1>. QED BY <1>2, <1>4

LEMMA DeviceIInv ==
    ASSUME IInv, NEW d \in Ids, Stop(d) \/ Start(d) \/ Remove(d)
    PROVE  IInv'
<1>. DEFINE n == dev[d].node
            load == IF Start(d) THEN {n} ELSE {}
<1>1. /\ dev[d] \in Device /\ n \in Nodes /\ dev[d].memory \in Nat
      /\ free \in [Nodes -> Int] /\ dev \in [Ids -> Device \cup {None}]
      /\ grown \in [Nodes -> BOOLEAN] /\ excused \in [Nodes -> BOOLEAN]
      /\ other \in [Nodes -> Nat]
  BY DEF Stop, Start, Remove, IInv, Types, Device
<1>2. \A b \in BOOLEAN : [dev[d] EXCEPT !.on = b] \in Device
  BY <1>1 DEF Device
<1>3. CASE Stop(d)
  <2>1. free' \in [Nodes -> Int] /\ \A m \in Nodes : free'[m] >= free[m]
    BY <1>1, <1>3 DEF Stop
  <2>2. dev' \in [Ids -> Device \cup {None}]
    BY <1>1, <1>2, <1>3 DEF Stop
  <2>3. HeadroomKept'
    BY <1>1, <1>3, <2>1 DEF Stop, IInv, HeadroomKept, Headroom
  <2>4. /\ \A m \in Nodes : grown'[m] = (grown[m] \/ m \in {})
        /\ UNCHANGED <<grown, excused, other, node>> /\ call' = Disturb(call, {})
    BY <1>1, <1>3 DEF Stop
  <2>5. \A v \in Users : call[v] = None \/ call[v] = call[v]
    OBVIOUS
  <2>. QED BY <1>1, <2>1, <2>2, <2>3, <2>4, <2>5, MovedIInv
<1>4. CASE Start(d)
  <2>1. free' \in [Nodes -> Int] /\ \A m \in Nodes \ {n} : free'[m] >= free[m]
    BY <1>1, <1>4 DEF Start
  <2>2. dev' \in [Ids -> Device \cup {None}]
    BY <1>1, <1>2, <1>4 DEF Start
  <2>3. /\ grown' \in [Nodes -> BOOLEAN] /\ excused' \in [Nodes -> BOOLEAN]
        /\ \A m \in Nodes : grown'[m] = (grown[m] \/ m \in {n})
    BY <1>1, <1>4 DEF Start
  <2>4. HeadroomKept'
    BY <1>1, <1>4 DEF Start, IInv, HeadroomKept
  <2>5. UNCHANGED <<other, node>> /\ call' = Disturb(call, {n})
    BY <1>4 DEF Start
  <2>6. \A v \in Users : call[v] = None \/ call[v] = call[v]
    OBVIOUS
  <2>. QED BY <1>1, <2>1, <2>2, <2>3, <2>4, <2>5, <2>6, MovedIInv
<1>5. CASE Remove(d)
  <2>1. \A m \in Nodes : free[m] >= free[m]
    BY <1>1
  <2>2. dev' \in [Ids -> Device \cup {None}]
    BY <1>1, <1>5 DEF Remove
  <2>3. HeadroomKept'
    BY <1>5 DEF Remove, IInv, HeadroomKept
  <2>. QED BY <1>1, <1>5, <2>1, <2>2, <2>3, MovedIInv DEF Remove
<1>. QED BY <1>3, <1>4, <1>5

LEMMA OtherMovesIInv ==
    ASSUME IInv, NEW n \in Nodes, OtherMoves(n)
    PROVE  IInv'
<1>1. PICK m \in Facts[n].load \ {other[n]} :
        /\ other' = [other EXCEPT ![n] = m]
        /\ free' = [free EXCEPT ![n] = @ + other[n] - m]
        /\ grown' = [grown EXCEPT ![n] = @ \/ m > other[n]]
        /\ excused' = [excused EXCEPT ![n] = @ \/ m > other[n]]
        /\ call' = Disturb(call, IF m > other[n] THEN {n} ELSE {})
  BY DEF OtherMoves
<1>. DEFINE load == IF m > other[n] THEN {n} ELSE {}
<1>2. /\ m \in Nat /\ other[n] \in Nat /\ free[n] \in Int
      /\ free \in [Nodes -> Int] /\ other \in [Nodes -> Nat]
      /\ grown \in [Nodes -> BOOLEAN] /\ excused \in [Nodes -> BOOLEAN]
      /\ dev' \in [Ids -> Device \cup {None}] /\ UNCHANGED node
  BY ClusterAssumption DEF OtherMoves, IInv, Types
<1>3. /\ free' \in [Nodes -> Int] /\ other' \in [Nodes -> Nat]
      /\ load \in SUBSET Nodes
      /\ \A k \in Nodes \ load : free'[k] >= free[k]
  BY <1>1, <1>2
<1>4. /\ grown' \in [Nodes -> BOOLEAN] /\ excused' \in [Nodes -> BOOLEAN]
      /\ \A k \in Nodes : grown'[k] = (grown[k] \/ k \in load)
  <2>1. (m > other[n]) \in BOOLEAN
    OBVIOUS
  <2>. QED BY <1>1, <1>2, <2>1
<1>5. HeadroomKept'
  <2>1. SUFFICES ASSUME NEW k \in Nodes
                 PROVE  free'[k] >= Headroom \/ excused'[k]
    BY DEF HeadroomKept
  <2>2. free[k] >= Headroom \/ excused[k]
    BY DEF IInv, HeadroomKept
  <2>3. CASE k # n
    BY <1>1, <1>2, <2>2, <2>3
  <2>4. CASE k = n /\ m > other[n]
    BY <1>1, <1>2, <2>4
  <2>5. CASE k = n /\ ~(m > other[n])
    BY <1>1, <1>2, <2>2, <2>5 DEF Headroom
  <2>. QED BY <2>3, <2>4, <2>5
<1>6. \A v \in Users : call[v] = None \/ call[v] = call[v]
  OBVIOUS
<1>. QED BY <1>1, <1>2, <1>3, <1>4, <1>5, <1>6, MovedIInv

\* A report sets right what the controller thinks of its node.
LEMMA ReportIInv ==
    ASSUME IInv, NEW n \in Nodes, Heartbeat(n) \/ Silence(n)
    PROVE  IInv'
<1>1. /\ node' \in [Nodes -> ReportOf]
      /\ \A m \in Nodes : m # n => node'[m] = node[m]
      /\ node'[n].free = 0 \/ node'[n].free = AtLeast(0, free[n])
  <2>1. AtLeast(0, free[n]) \in Nat
    BY DEF AtLeast, IInv, Types
  <2>2. /\ [reachable |-> TRUE, free |-> AtLeast(0, free[n])] \in ReportOf
        /\ [reachable |-> FALSE, free |-> 0] \in ReportOf
    BY <2>1 DEF ReportOf
  <2>3. node \in [Nodes -> ReportOf]
    BY DEF IInv, Types
  <2>4. CASE Heartbeat(n)
    BY <2>2, <2>3, <2>4 DEF Heartbeat
  <2>5. CASE Silence(n)
    BY <2>2, <2>3, <2>5 DEF Silence
  <2>. QED BY <2>4, <2>5
<1>2. /\ UNCHANGED <<free, other, dev>> /\ call' = Disturb(call, {})
      /\ \A m \in Nodes : m # n => grown'[m] = grown[m] /\ excused'[m] = excused[m]
      /\ grown' \in [Nodes -> BOOLEAN] /\ excused' \in [Nodes -> BOOLEAN]
      /\ excused'[n] = excused[n] \/ free[n] >= Headroom
  <2>1. CASE Heartbeat(n)
    <3>1. (excused[n] /\ free[n] < Headroom) \in BOOLEAN
      OBVIOUS
    <3>2. free[n] \in Int
      BY DEF IInv, Types
    <3>3. /\ grown' = [grown EXCEPT ![n] = FALSE]
          /\ excused' = [excused EXCEPT ![n] = excused[n] /\ free[n] < Headroom]
          /\ UNCHANGED <<free, other, dev>> /\ call' = Disturb(call, {})
      BY <2>1 DEF Heartbeat
    <3>4. grown \in [Nodes -> BOOLEAN] /\ excused \in [Nodes -> BOOLEAN]
      BY DEF IInv, Types
    <3>5. free[n] < Headroom \/ free[n] >= Headroom
      BY <3>2 DEF Headroom
    <3>. QED BY <3>1, <3>3, <3>4, <3>5
  <2>2. CASE Silence(n)
    BY <2>2 DEF Silence, IInv, Types
  <2>. QED BY <2>1, <2>2
<1>3. CallTypes(call') /\ PlansHold'
  <2>1. \A m \in Nodes : free'[m] >= free[m]
    BY <1>2 DEF IInv, Types
  <2>2. free' \in [Nodes -> Int]
    BY <1>2 DEF IInv, Types
  <2>. QED BY <1>2, <2>1, <2>2, DisturbHolds
<1>4. Types'
  BY <1>1, <1>2, <1>3 DEF IInv, Types
<1>5. ReportsHold'
  <2>1. SUFFICES ASSUME NEW m \in Nodes, ~grown'[m]
                 PROVE  node'[m].free <= AtLeast(0, free[m])
    BY <1>2 DEF ReportsHold
  <2>2. CASE m # n
    BY <1>1, <1>2, <2>1, <2>2 DEF IInv, ReportsHold
  <2>3. CASE m = n
    <3>1. AtLeast(0, free[n]) \in Nat
      BY DEF AtLeast, IInv, Types
    <3>. QED BY <1>1, <2>3, <3>1
  <2>. QED BY <2>2, <2>3
<1>6. HeadroomKept'
  BY <1>2 DEF IInv, HeadroomKept
<1>. QED BY <1>3, <1>4, <1>5, <1>6 DEF IInv

LEMMA PhoneMovesIInv ==
    ASSUME IInv, NEW p \in DOMAIN Phones, PhoneMoves(p)
    PROVE  IInv'
<1>1. \A n \in Nodes : free[n] >= free[n]
  BY DEF IInv, Types
<1>2. HeadroomKept'
  BY DEF PhoneMoves, IInv, HeadroomKept
<1>. QED BY <1>1, <1>2, MovedIInv DEF PhoneMoves, IInv, Types

-----------------------------------------------------------------------------
LEMMA InitIInv == Init => IInv
<1>1. SUFFICES ASSUME Init PROVE IInv
  OBVIOUS
<1>2. Types
  BY <1>1, ClusterAssumption DEF Init, Types, CallTypes, ReportOf
<1>3. ReportsHold
  BY <1>1, ClusterAssumption DEF Init, ReportsHold, AtLeast
<1>4. PlansHold /\ HeadroomKept
  BY <1>1, ClusterAssumption DEF Init, PlansHold, HeadroomKept
<1>. QED BY <1>2, <1>3, <1>4 DEF IInv

LEMMA NextIInv == IInv /\ [Next]_vars => IInv'
<1>1. SUFFICES ASSUME IInv, [Next]_vars PROVE IInv'
  OBVIOUS
<1>2. ASSUME NEW a \in Asks, Ask(a.user, a.req, a.kind) PROVE IInv'
  BY <1>1, <1>2, AskIInv
<1>3. ASSUME NEW u \in Users, Answer(u) PROVE IInv'
  BY <1>1, <1>3, AnswerIInv
<1>4. ASSUME NEW u \in Users, AnswerCard(u) PROVE IInv'
  BY <1>1, <1>4, AnswerCardIInv
<1>5. ASSUME NEW u \in Users, Show(u) \/ CreateFails(u) PROVE IInv'
  BY <1>1, <1>5, EndIInv DEF Show, CreateFails
<1>6. ASSUME NEW u \in Users, Create(u) PROVE IInv'
  BY <1>1, <1>6, CreateIInv
<1>7. ASSUME NEW d \in Ids, Stop(d) \/ Start(d) \/ Remove(d) PROVE IInv'
  BY <1>1, <1>7, DeviceIInv
<1>8. ASSUME NEW n \in Nodes, OtherMoves(n) PROVE IInv'
  BY <1>1, <1>8, OtherMovesIInv
<1>9. ASSUME NEW n \in Nodes, Heartbeat(n) \/ Silence(n) PROVE IInv'
  BY <1>1, <1>9, ReportIInv
<1>10. ASSUME NEW p \in DOMAIN Phones, PhoneMoves(p) PROVE IInv'
  BY <1>1, <1>10, PhoneMovesIInv
<1>11. CASE UNCHANGED vars
  BY <1>1, <1>11 DEF vars, IInv, Types, ReportsHold, PlansHold, HeadroomKept
<1>. QED BY <1>1, <1>2, <1>3, <1>4, <1>5, <1>6, <1>7, <1>8, <1>9, <1>10, <1>11
     DEF Next

LEMMA SpecIInv == Spec => []IInv
BY InitIInv, NextIInv, PTL DEF Spec

\* The scheduler keeps every node its headroom, but for load that no report
\* had counted when a device was planned: however many requests, plans and
\* restarts of devices there are.
THEOREM SpecHeadroomKept == Spec => []HeadroomKept
<1>1. IInv => HeadroomKept
  BY DEF IInv
<1>. QED BY <1>1, SpecIInv, PTL

\* A plan comes into being in Ask or in Answer, from what was read in Ask.
LEMMA PlanMade ==
    ASSUME IInv, [Next]_vars, NEW u \in Users,
           call'[u] # None, call'[u].plan # None,
           call[u] = None \/ call[u].plan = None
    PROVE  LET seen == IF call[u] = None THEN node ELSE call[u].seen IN
           /\ seen \in [Nodes -> ReportOf]
           /\ call'[u].req.memory \in Int \cup {None}
           /\ \E vols \in {Volumes, {}} :
                 call'[u].plan \in Plans(call'[u].req, u, seen, vols)
<1>. DEFINE c == call[u]
            x == call'[u]
<1>1. /\ DOMAIN call = Users /\ call = [v \in Users |-> call[v]]
      /\ c # None => IsCall(c)
      /\ node \in [Nodes -> ReportOf]
  BY DEF IInv, Types, CallTypes
<1>2. ASSUME x = c
      PROVE  FALSE
  BY <1>2
<1>3. ASSUME NEW a \in Asks, Ask(a.user, a.req, a.kind), a.user = u
      PROVE  /\ c = None
             /\ x.req = a.req
             /\ x.plan \in Plans(a.req, u, node, {})
  <2>1. PICK y : /\ call' = [call EXCEPT ![u] = y]
                 /\ \/ y = None
                    \/ y = Asking(a.req, a.kind, node, None, None)
                    \/ \E p \in Plans(a.req, u, node, {}) :
                          \E card : y = Asking(a.req, a.kind, None, p, card)
    <3>1. CASE call' = [call EXCEPT ![u] = Asking(a.req, a.kind, node, None, None)]
      BY <3>1
    <3>2. ASSUME NEW p \in Plans(a.req, u, node, {}),
                 call' = [call EXCEPT ![u] =
                     IF a.kind = "preview"
                       THEN Asking(a.req, a.kind, None, p, Card(a.req, p))
                     ELSE IF p.ok THEN Asking(a.req, a.kind, None, p, None)
                     ELSE None]
          PROVE  \E y : /\ call' = [call EXCEPT ![u] = y]
                        /\ \/ y = None
                           \/ \E card : y = Asking(a.req, a.kind, None, p, card)
      <4>1. CASE a.kind = "preview"
        BY <3>2, <4>1
      <4>2. CASE a.kind # "preview" /\ p.ok
        BY <3>2, <4>2
      <4>3. CASE a.kind # "preview" /\ ~p.ok
        BY <3>2, <4>3
      <4>. QED BY <4>1, <4>2, <4>3
    <3>. QED BY <1>3, <3>1, <3>2 DEF Ask
  <2>2. x = y
    BY <1>1, <2>1
  <2>. QED BY <1>3, <2>1, <2>2 DEF Ask, Asking, InFlight
<1>4. ASSUME Answer(u)
      PROVE  /\ c # None /\ c.seen # None
             /\ x.req = c.req
             /\ \E vols \in {Volumes, {}} :
                   x.plan \in Plans(c.req, u, c.seen, vols)
  <2>1. PICK vols \in {Volumes, {}} : \E p \in Plans(c.req, u, c.seen, vols) :
          call' = [call EXCEPT ![u] =
              IF c.kind = "preview"
                THEN [c EXCEPT !.plan = p, !.disturbed = @ \/ vols = {}]
              ELSE IF p.ok THEN [c EXCEPT !.plan = p, !.seen = None] ELSE None]
    BY <1>4 DEF Answer
  <2>2. PICK p \in Plans(c.req, u, c.seen, vols) :
          x = IF c.kind = "preview"
                THEN [c EXCEPT !.plan = p, !.disturbed = @ \/ vols = {}]
              ELSE IF p.ok THEN [c EXCEPT !.plan = p, !.seen = None] ELSE None
    BY <1>1, <2>1
  <2>3. c # None /\ c.seen # None /\ IsCall(c)
    BY <1>1, <1>4 DEF Answer, InFlight
  <2>4. x.plan = p /\ x.req = c.req
    <3>1. CASE c.kind = "preview"
      BY <2>2, <2>3, <3>1 DEF IsCall
    <3>2. CASE c.kind # "preview"
      BY <2>2, <2>3, <3>2 DEF IsCall
    <3>. QED BY <3>1, <3>2
  <2>. QED BY <2>3, <2>4
<1>5. ASSUME AnswerCard(u)
      PROVE  FALSE
  <2>1. PICK card, d : call' = [call EXCEPT ![u] =
                          [c EXCEPT !.card = card, !.disturbed = d]]
    BY <1>5 DEF AnswerCard
  <2>2. x = [c EXCEPT !.card = card, !.disturbed = d]
    BY <1>1, <2>1
  <2>3. c # None /\ IsCall(c)
    BY <1>1, <1>5 DEF AnswerCard, InFlight
  <2>4. x.plan = c.plan
    BY <2>2, <2>3 DEF IsCall
  <2>. QED BY <2>3, <2>4
<1>6. ASSUME NEW calls, NEW load, call' = Disturb(calls, load),
             calls[u] = None \/ calls[u] = c
      PROVE  FALSE
  <2>1. x = IF calls[u] = None THEN None
            ELSE IF calls[u].kind = "preview"
                   THEN [calls[u] EXCEPT !.disturbed = TRUE]
            ELSE [calls[u] EXCEPT !.stale = @ \cup load]
    BY <1>6 DEF Disturb
  <2>2. calls[u] = c /\ c # None /\ IsCall(c)
    BY <1>1, <1>6, <2>1
  <2>3. x.plan = c.plan
    <3>1. CASE c.kind = "preview"
      BY <2>1, <2>2, <3>1 DEF IsCall
    <3>2. CASE c.kind # "preview"
      BY <2>1, <2>2, <3>2 DEF IsCall
    <3>. QED BY <3>1, <3>2
  <2>. QED BY <2>2, <2>3
<1>7. ASSUME NEW v \in Users, v # u,
             \/ \E r, k : Ask(v, r, k)
             \/ Answer(v) \/ AnswerCard(v) \/ Show(v) \/ CreateFails(v)
      PROVE  FALSE
  <2>1. \A w : call' = [call EXCEPT ![v] = w] => x = c
    BY <1>1, <1>7
  <2>. QED BY <1>2, <1>7, <2>1 DEF Ask, Answer, AnswerCard, Show, CreateFails
<1>8. ASSUME Show(u) \/ CreateFails(u)
      PROVE  FALSE
  BY <1>1, <1>8 DEF Show, CreateFails
<1>9. ASSUME NEW v \in Users, Create(v)
      PROVE  FALSE
  <2>1. PICK load : call' = Disturb([call EXCEPT ![v] = None], load)
    BY <1>9 DEF Create
  <2>2. \/ [call EXCEPT ![v] = None][u] = None
        \/ [call EXCEPT ![v] = None][u] = c
    BY <1>1
  <2>. QED BY <1>6, <2>1, <2>2
<1>10. ASSUME \/ \E d \in Ids : Stop(d) \/ Start(d) \/ Remove(d)
              \/ \E n \in Nodes : OtherMoves(n) \/ Heartbeat(n) \/ Silence(n)
              \/ \E p \in DOMAIN Phones : PhoneMoves(p)
       PROVE  FALSE
  <2>1. PICK load : call' = Disturb(call, load)
    BY <1>10 DEF Stop, Start, Remove, OtherMoves, Heartbeat, Silence, PhoneMoves
  <2>. QED BY <1>6, <2>1
<1>11. CASE \E a \in Asks : Ask(a.user, a.req, a.kind) /\ a.user = u
  BY <1>1, <1>3, <1>11, AsksAssumption
<1>12. CASE Answer(u)
  BY <1>1, <1>4, <1>12 DEF IsCall
<1>13. \/ \E a \in Asks : Ask(a.user, a.req, a.kind) /\ a.user = u
       \/ Answer(u)
  <2>1. CASE UNCHANGED vars
    BY <1>2, <2>1 DEF vars
  <2>2. CASE \E a \in Asks : Ask(a.user, a.req, a.kind)
    BY <1>7, <2>2, AsksAssumption
  <2>3. CASE \E v \in Users : Answer(v) \/ AnswerCard(v) \/ Show(v) \/ CreateFails(v)
    BY <1>5, <1>7, <1>8, <2>3
  <2>. QED BY <1>9, <1>10, <2>1, <2>2, <2>3 DEF Next
<1>. QED BY <1>11, <1>12, <1>13

\* A translating node is chosen over a native one only when the native one
\* has more than Outscored devices, whatever is cached or free where.
THEOREM SpecNativeBeforeTranslated == Spec => NativeBeforeTranslated
<1>1. ASSUME IInv, [Next]_vars, NEW u \in Users
      PROVE  NativeFirst(u)
  <2>. DEFINE seen == IF call[u] = None THEN node ELSE call[u].seen
              p == call'[u].plan
  <2>1. SUFFICES ASSUME call'[u] # None, p # None, p.ok,
                        call[u] = None \/ call[u].plan = None,
                        p.performance = "poor",
                        NEW n \in Takers(call'[u].req, p.engine, seen, Volumes),
                        Fit(call'[u].req, p.engine, n, seen).performance = "native"
                 PROVE  Busy(n) > Outscored
    BY DEF NativeFirst
  <2>2. /\ seen \in [Nodes -> ReportOf]
        /\ call'[u].req.memory \in Int \cup {None}
        /\ \E vols \in {Volumes, {}} : p \in Plans(call'[u].req, u, seen, vols)
    BY <1>1, <2>1, PlanMade
  <2>. HIDE DEF seen, p
  <2>. QED BY <2>1, <2>2, PoorLoses
<1>2. IInv /\ [Next]_vars => [\A u \in Users : NativeFirst(u)]_vars
  BY <1>1
<1>. QED BY <1>2, SpecIInv, PTL DEF Spec, NativeBeforeTranslated
-----------------------------------------------------------------------------
(* The plan and its card.                                                  *)

\* While nothing disturbs a preview, both of its plans are made of what there
\* is, and there is one plan to be made of it, but for ties among storages
\* and phones.
Agree(c) ==
    (/\ c.card # None /\ c.plan # None
     /\ ~c.disturbed /\ c.plan.ok /\ c.plan.claim = None)
    => c.card.performance = c.plan.performance

MadeOfThis(u, c) ==
    /\ c.seen = node
    /\ c.plan # None => c.plan \in Plans(c.req, u, node, Volumes)
    /\ c.card # None =>
          \E p \in Plans(c.req, u, node, Volumes) : c.card = Card(c.req, p)

PreviewHolds(u, c) ==
    /\ c.disturbed \in BOOLEAN /\ c.req.image \in DOMAIN Images
    /\ c.kind = "create" => c.card = None
    /\ (c.kind = "preview" /\ ~c.disturbed) =>
          IF c.seen # None THEN MadeOfThis(u, c) ELSE Agree(c)

PreviewsHold == \A u \in Users : call[u] # None => PreviewHolds(u, call[u])

\* What a score is: a whole number, whatever the node reports.
LEMMA ScoreType ==
    ASSUME NEW r, r.memory \in Int \cup {None},
           ResolveFormFactorId(r) \in DOMAIN FormFactors,
           NEW seen \in [Nodes -> ReportOf], NEW n \in Nodes, NEW e
    PROVE  Score(r, e, n, seen) \in Int
<1>. DEFINE how == Fit(r, e, n, seen).performance
            spare == AtMost(SpareCap, 8 * AtLeast(0, seen[n].free
                                                  - ResolveResources(r).memory))
<1>1. how \in Performance
  BY DEF Fit, FitEngine, Fits, Unfit, Performance
<1>2. Busy(n) \in Nat
  BY BusyType
<1>3. seen[n].free \in Int /\ ResolveResources(r).memory \in Int
  BY ResourceTypes DEF ReportOf
<1>4. spare \in Int
  <2>1. \A x, y \in Int : AtMost(100, 8 * AtLeast(0, x - y)) \in Int
    BY DEF AtMost, AtLeast
  <2>. QED BY <1>3, <2>1 DEF SpareCap
<1>5. PerformanceScore[how] \in Int
  BY <1>1 DEF PerformanceScore, Performance
<1>6. /\ If(Facts[n].opengl, 60) \in Int /\ If(Facts[n].vaapi, 15) \in Int
      /\ If(e.key \in Facts[n].cached, 120) \in Int
  BY DEF If
<1>7. Score(r, e, n, seen) =
        PerformanceScore[how] + If(Facts[n].opengl, 60) + If(Facts[n].vaapi, 15)
        + If(e.key \in Facts[n].cached, 120) + spare - 25 * Busy(n)
  BY DEF Score, OpenglScore, VaapiScore, CachedScore, BusyCost
<1>. HIDE DEF how, spare
<1>. QED BY <1>2, <1>4, <1>5, <1>6, <1>7

\* There is one engine to prefer, and one node to win.
LEMMA OnePreferred ==
    ASSUME NEW i \in DOMAIN Images, NEW engines \in SUBSET Images[i].engines,
           NEW e \in Preferred(engines), NEW f \in Preferred(engines)
    PROVE  e = f
<1>1. /\ e \in Images[i].engines /\ f \in Images[i].engines
      /\ Ahead(e, f) /\ Ahead(f, e)
  BY DEF Preferred
<1>2. /\ e.at \in Nat /\ f.at \in Nat /\ e.preference \in Int /\ f.preference \in Int
  BY <1>1, RegistryAssumption DEF Engine
<1>3. e.at = f.at
  BY <1>1, <1>2 DEF Ahead
<1>. QED BY <1>1, <1>3, RegistryAssumption

LEMMA OneWinner ==
    ASSUME NEW r, r.memory \in Int \cup {None},
           ResolveFormFactorId(r) \in DOMAIN FormFactors,
           NEW seen \in [Nodes -> ReportOf], NEW e, NEW cands \in SUBSET Nodes,
           NEW n \in Winners(r, e, cands, seen), NEW m \in Winners(r, e, cands, seen)
    PROVE  n = m
<1>1. n \in Nodes /\ m \in Nodes
  BY DEF Winners
<1>. DEFINE sn == Score(r, e, n, seen)
            sm == Score(r, e, m, seen)
<1>2. sn \in Int /\ sm \in Int
  BY <1>1, ScoreType
<1>3. /\ sn > sm \/ (sn = sm /\ Place[n] <= Place[m])
      /\ sm > sn \/ (sm = sn /\ Place[m] <= Place[n])
  BY DEF Winners
<1>4. Place[n] \in Nat /\ Place[m] \in Nat
  BY <1>1, ClusterAssumption
<1>. HIDE DEF sn, sm
<1>5. Place[n] = Place[m]
  BY <1>2, <1>3, <1>4
<1>. QED BY <1>1, <1>5, ClusterAssumption

\* An engine's performance on a node is never None.
LEMMA CardSays ==
    ASSUME NEW r, NEW p, p.ok
    PROVE  Card(r, p).performance = Fit(r, p.engine, p.node, node).performance
<1>1. Fit(r, p.engine, p.node, node) \in EngineFit
  BY DEF Fit, FitEngine, Fits, Unfit, EngineFit, Performance, Kvm
<1>2. Fit(r, p.engine, p.node, node) # None
  BY <1>1, NoneAssumption
<1>. QED BY <1>2 DEF Card, Report

\* A plan says which engine decided.
LEMMA PlanEngine ==
    ASSUME NEW r, NEW u, NEW seen, NEW vols,
           NEW p \in Plans(r, u, seen, vols), p.ok
    PROVE  /\ p.engine \in Preferred(Viable(r, u, seen, vols))
           /\ p.claim = None <=> p.engine.runtime # "physical-adb"
<1>1. Viable(r, u, seen, vols) # {}
  BY DEF Plans, Refusal
<1>2. PICK e \in Preferred(Viable(r, u, seen, vols)) :
        p \in IF e.runtime = "physical-adb" THEN ClaimPlans(r, u, e)
              ELSE NodePlans(r, e, seen, vols)
  BY <1>1 DEF Plans
<1>3. CASE e.runtime = "physical-adb"
  <2>1. PICK q \in Claims(r, u) :
          p = Plan(e, Phones[q].node, "native", q, None, ResolveResources(r))
    BY <1>2, <1>3 DEF ClaimPlans
  <2>2. q # None
    BY NoneAssumption DEF Claims, Claimable
  <2>. QED BY <1>3, <2>1, <2>2 DEF Plan
<1>4. CASE e.runtime # "physical-adb"
  <2>1. PICK n, v : p = Plan(e, n, Fit(r, e, n, seen).performance, None, v,
                             ResolveResources(r))
    BY <1>2, <1>4 DEF NodePlans
  <2>. QED BY <1>4, <2>1 DEF Plan
<1>. QED BY <1>3, <1>4

\* Two plans made of the same are one, but for the storage.
LEMMA PlansAgree ==
    ASSUME NEW r, r.memory \in Int \cup {None}, r.image \in DOMAIN Images, NEW u,
           NEW seen \in [Nodes -> ReportOf], NEW vols,
           NEW p \in Plans(r, u, seen, vols), NEW q \in Plans(r, u, seen, vols),
           p.ok, p.claim = None
    PROVE  q.ok /\ q.engine = p.engine /\ q.node = p.node
<1>. DEFINE viable == Viable(r, u, seen, vols)
<1>1. viable # {}
  BY DEF Plans, Refusal
<1>2. q.ok
  BY <1>1 DEF Plans, ClaimPlans, NodePlans, Plan
<1>3. viable \in SUBSET Images[r.image].engines
  BY DEF Viable, Engines
<1>4. q.engine = p.engine
  BY <1>2, <1>3, PlanEngine, OnePreferred
<1>5. q.claim = None
  BY <1>2, <1>4, PlanEngine
<1>6. /\ ResolveFormFactorId(r) \in DOMAIN FormFactors
      /\ p.node \in Winners(r, p.engine, Takers(r, p.engine, seen, vols), seen)
      /\ q.node \in Winners(r, p.engine, Takers(r, p.engine, seen, vols), seen)
  BY <1>2, <1>4, <1>5, NodePlan
<1>7. Takers(r, p.engine, seen, vols) \in SUBSET Nodes
  BY DEF Takers, Candidates
<1>8. q.node = p.node
  BY <1>6, <1>7, OneWinner
<1>. QED BY <1>2, <1>4, <1>8

-----------------------------------------------------------------------------
(* The same plans, as long as what they are made of is the same.           *)

LEMMA SameBusy ==
    ASSUME UNCHANGED dev, NEW n
    PROVE  Busy(n)' = Busy(n)
BY DEF Busy

LEMMA SameWinners ==
    ASSUME UNCHANGED dev, NEW r, NEW e, NEW cands, NEW seen
    PROVE  Winners(r, e, cands, seen)' = Winners(r, e, cands, seen)
<1>1. ASSUME NEW n PROVE Score(r, e, n, seen)' = Score(r, e, n, seen)
  BY SameBusy DEF Score, Fit, FitEngine, Host, HostCanAccelerate, SameFamily, Fits, Unfit, ResolveResources
<1>. QED BY <1>1 DEF Winners
LEMMA SameVolumes ==
    ASSUME UNCHANGED used, NEW r, NEW n, NEW vols
    PROVE  /\ SafeVolumes(r, n, vols)' = SafeVolumes(r, n, vols)
           /\ LeastFull(r, n, vols)' = LeastFull(r, n, vols)
<1>1. SafeVolumes(r, n, vols)' = SafeVolumes(r, n, vols)
  BY DEF SafeVolumes, ResolveResources
<1>2. LeastFull(r, n, vols)' = LeastFull(r, n, vols)
  BY <1>1 DEF LeastFull, ResolveResources
<1>. QED BY <1>1, <1>2

LEMMA SameTakers ==
    ASSUME UNCHANGED used, NEW r, NEW e, NEW seen, NEW vols
    PROVE  Takers(r, e, seen, vols)' = Takers(r, e, seen, vols)
BY SameVolumes DEF Takers

LEMMA SameClaims ==
    ASSUME UNCHANGED phone, NEW r, NEW u
    PROVE  /\ Claimable(r, u)' = Claimable(r, u)
           /\ Claims(r, u)' = Claims(r, u)
<1>1. Claimable(r, u)' = Claimable(r, u)
  BY DEF Claimable
<1>2. Claims(r, u)' = Claims(r, u)
  BY <1>1 DEF Claims
<1>. QED BY <1>1, <1>2

LEMMA SameViable ==
    ASSUME UNCHANGED <<used, phone>>, NEW r, NEW u, NEW seen, NEW vols
    PROVE  Viable(r, u, seen, vols)' = Viable(r, u, seen, vols)
BY SameTakers, SameClaims DEF Viable

LEMMA SameNodePlans ==
    ASSUME UNCHANGED <<dev, used>>, NEW r, NEW e, NEW seen, NEW vols
    PROVE  NodePlans(r, e, seen, vols)' = NodePlans(r, e, seen, vols)
BY SameTakers, SameWinners, SameVolumes DEF NodePlans

LEMMA SamePlans ==
    ASSUME UNCHANGED <<dev, used, phone>>, NEW r, NEW u, NEW seen, NEW vols
    PROVE  Plans(r, u, seen, vols)' = Plans(r, u, seen, vols)
<1>1. \A e : ClaimPlans(r, u, e)' = ClaimPlans(r, u, e)
  BY SameClaims DEF ClaimPlans
<1>. QED BY <1>1, SameViable, SameNodePlans DEF Plans

LEMMA SameCard ==
    ASSUME UNCHANGED node, NEW r, NEW p
    PROVE  Card(r, p)' = Card(r, p)
BY DEF Card

LEMMA SamePreview ==
    ASSUME UNCHANGED <<dev, node, used, phone>>, NEW u, NEW c, PreviewHolds(u, c)
    PROVE  PreviewHolds(u, c)'
<1>1. MadeOfThis(u, c)' <=> MadeOfThis(u, c)
  <2>1. Plans(c.req, u, node, Volumes)' = Plans(c.req, u, node, Volumes)
    <3>1. PICK seen : seen = node
      OBVIOUS
    <3>2. Plans(c.req, u, seen, Volumes)' = Plans(c.req, u, seen, Volumes)
      BY SamePlans
    <3>. QED BY <3>1, <3>2
  <2>. QED BY <2>1, SameCard DEF MadeOfThis
<1>. QED BY <1>1 DEF PreviewHolds, Agree

\* Steps of requests leave the other requests as they are.
LEMMA StepPreviews ==
    ASSUME IInv, PreviewsHold, UNCHANGED <<dev, node, used, phone>>,
           NEW u \in Users, NEW x, call' = [call EXCEPT ![u] = x],
           x = None \/ PreviewHolds(u, x)
    PROVE  PreviewsHold'
<1>1. SUFFICES ASSUME NEW v \in Users, call'[v] # None
               PROVE  PreviewHolds(v, call[v])'
  BY DEF PreviewsHold
<1>2. PICK y : y = call'[v]
  OBVIOUS
<1>3. call'[v] = IF v = u THEN x ELSE call[v]
  BY DEF IInv, Types, CallTypes
<1>4. PreviewHolds(v, y)
  BY <1>1, <1>2, <1>3 DEF PreviewsHold
<1>5. PreviewHolds(v, y)'
  BY <1>4, SamePreview
<1>. QED BY <1>2, <1>5 DEF PreviewHolds, MadeOfThis, Agree

LEMMA DisturbPreviews ==
    ASSUME IInv, PreviewsHold, NEW calls, NEW load,
           \A v \in Users : calls[v] = None \/ calls[v] = call[v],
           call' = Disturb(calls, load)
    PROVE  PreviewsHold'
<1>1. SUFFICES ASSUME NEW v \in Users, call'[v] # None
               PROVE  PreviewHolds(v, call[v])'
  BY DEF PreviewsHold
<1>2. call'[v] = IF calls[v] = None THEN None
                 ELSE IF calls[v].kind = "preview"
                        THEN [calls[v] EXCEPT !.disturbed = TRUE]
                      ELSE [calls[v] EXCEPT !.stale = @ \cup load]
  BY DEF Disturb
<1>3. calls[v] = call[v] /\ call[v] # None /\ IsCall(call[v]) /\ PreviewHolds(v, call[v])
  BY <1>1, <1>2 DEF IInv, Types, CallTypes, PreviewsHold
<1>4. CASE call[v].kind = "preview"
  <2>1. call'[v] = [call[v] EXCEPT !.disturbed = TRUE]
    BY <1>2, <1>3, <1>4
  <2>2. /\ call'[v].kind = "preview" /\ call'[v].disturbed = TRUE
        /\ call'[v].req = call[v].req
    BY <1>3, <1>4, <2>1 DEF IsCall
  <2>. QED BY <1>3, <2>2 DEF PreviewHolds
<1>5. CASE call[v].kind = "create"
  <2>1. call'[v] = [call[v] EXCEPT !.stale = @ \cup load]
    BY <1>2, <1>3, <1>5
  <2>2. /\ call'[v].kind = "create" /\ call'[v].disturbed = call[v].disturbed
        /\ call'[v].req = call[v].req /\ call'[v].card = call[v].card
    BY <1>3, <1>5, <2>1 DEF IsCall
  <2>. QED BY <1>3, <1>5, <2>2 DEF PreviewHolds
<1>. QED BY <1>3, <1>4, <1>5 DEF IsCall, Kind

LEMMA AskPreviews ==
    ASSUME IInv, PreviewsHold, NEW a \in Asks, Ask(a.user, a.req, a.kind)
    PROVE  PreviewsHold'
<1>. DEFINE u == a.user
            r == a.req
<1>1. u \in Users /\ a.kind \in Kind /\ r.image \in DOMAIN Images
  BY AsksAssumption DEF Ask
<1>2. CASE call' = [call EXCEPT ![u] = Asking(r, a.kind, node, None, None)]
  <2>. DEFINE x == Asking(r, a.kind, node, None, None)
  <2>1. PreviewHolds(u, x)
    BY <1>1 DEF PreviewHolds, MadeOfThis, Agree, Asking
  <2>. HIDE DEF x
  <2>2. PICK y : y = x
    OBVIOUS
  <2>. QED BY <1>1, <1>2, <2>1, <2>2, StepPreviews DEF Ask, x
<1>3. ASSUME NEW p \in Plans(r, u, node, {}),
             call' = [call EXCEPT ![u] =
                 IF a.kind = "preview" THEN Asking(r, a.kind, None, p, Card(r, p))
                 ELSE IF p.ok THEN Asking(r, a.kind, None, p, None) ELSE None]
      PROVE  PreviewsHold'
  <2>1. PICK x : x = IF a.kind = "preview" THEN Asking(r, a.kind, None, p, Card(r, p))
                     ELSE IF p.ok THEN Asking(r, a.kind, None, p, None) ELSE None
    OBVIOUS
  <2>2. p.ok /\ p.claim = None => Card(r, p).performance = p.performance
    BY CardSays, NodePlan
  <2>3. x = None \/ PreviewHolds(u, x)
    <3>1. CASE a.kind = "preview"
      BY <1>1, <2>1, <2>2, <3>1 DEF PreviewHolds, Agree, Asking
    <3>2. CASE a.kind = "create" /\ p.ok
      BY <1>1, <2>1, <3>2 DEF PreviewHolds, Asking
    <3>. QED BY <1>1, <2>1, <3>1, <3>2 DEF Kind
  <2>. QED BY <1>1, <1>3, <2>1, <2>3, StepPreviews DEF Ask
<1>. QED BY <1>2, <1>3 DEF Ask

LEMMA AnswerPreviews ==
    ASSUME IInv, PreviewsHold, NEW u \in Users, Answer(u)
    PROVE  PreviewsHold'
<1>. DEFINE c == call[u]
<1>1. IsCall(c) /\ PreviewHolds(u, c) /\ c.seen # None
  BY DEF Answer, InFlight, IInv, Types, CallTypes, PreviewsHold
<1>2. PICK vols \in {Volumes, {}} : \E p \in Plans(c.req, u, c.seen, vols) :
        call' = [call EXCEPT ![u] =
            IF c.kind = "preview"
              THEN [c EXCEPT !.plan = p, !.disturbed = @ \/ vols = {}]
            ELSE IF p.ok THEN [c EXCEPT !.plan = p, !.seen = None] ELSE None]
  BY DEF Answer
<1>3. PICK p \in Plans(c.req, u, c.seen, vols) :
        call' = [call EXCEPT ![u] =
            IF c.kind = "preview"
              THEN [c EXCEPT !.plan = p, !.disturbed = @ \/ vols = {}]
            ELSE IF p.ok THEN [c EXCEPT !.plan = p, !.seen = None] ELSE None]
  BY <1>2
<1>4. PICK x : x = IF c.kind = "preview"
                     THEN [c EXCEPT !.plan = p, !.disturbed = @ \/ vols = {}]
                   ELSE IF p.ok THEN [c EXCEPT !.plan = p, !.seen = None] ELSE None
  OBVIOUS
<1>5. x = None \/ PreviewHolds(u, x)
  <2>1. CASE c.kind = "preview"
    <3>1. /\ x.kind = "preview" /\ x.plan = p /\ x.req = c.req
          /\ x.disturbed = (c.disturbed \/ vols = {})
          /\ x.seen = c.seen /\ x.card = c.card
      BY <1>1, <1>4, <2>1 DEF IsCall
    <3>2. ~x.disturbed => ~c.disturbed /\ vols = Volumes
      BY <3>1
    <3>3. ~x.disturbed => MadeOfThis(u, x)
      BY <1>1, <2>1, <3>1, <3>2 DEF PreviewHolds, MadeOfThis
    <3>. QED BY <1>1, <3>1, <3>3 DEF PreviewHolds
  <2>2. CASE c.kind = "create" /\ p.ok
    <3>1. /\ x.kind = "create" /\ x.req = c.req /\ x.card = c.card
          /\ x.disturbed = c.disturbed
      BY <1>1, <1>4, <2>2 DEF IsCall
    <3>. QED BY <1>1, <2>2, <3>1 DEF PreviewHolds
  <2>. QED BY <1>1, <1>4, <2>1, <2>2 DEF IsCall, Kind
<1>6. call' = [call EXCEPT ![u] = x]
  BY <1>3, <1>4
<1>. QED BY <1>5, <1>6, StepPreviews DEF Answer

LEMMA AnswerCardPreviews ==
    ASSUME IInv, PreviewsHold, NEW u \in Users, AnswerCard(u)
    PROVE  PreviewsHold'
<1>. DEFINE c == call[u]
<1>1. IsCall(c) /\ PreviewHolds(u, c) /\ c.seen # None /\ c.kind = "preview"
  BY DEF AnswerCard, InFlight, IInv, Types, CallTypes, PreviewsHold
<1>2. PICK vols \in {Volumes, {}} : \E p \in Plans(c.req, u, c.seen, vols) :
        call' = [call EXCEPT ![u] =
            [c EXCEPT !.card = Card(c.req, p), !.disturbed = @ \/ vols = {}]]
  BY DEF AnswerCard
<1>3. PICK p \in Plans(c.req, u, c.seen, vols) :
        call' = [call EXCEPT ![u] =
            [c EXCEPT !.card = Card(c.req, p), !.disturbed = @ \/ vols = {}]]
  BY <1>2
<1>4. PICK x : x = [c EXCEPT !.card = Card(c.req, p), !.disturbed = @ \/ vols = {}]
  OBVIOUS
<1>5. /\ x.kind = "preview" /\ x.plan = c.plan /\ x.req = c.req
      /\ x.disturbed = (c.disturbed \/ vols = {})
      /\ x.seen = c.seen /\ x.card = Card(c.req, p)
  BY <1>1, <1>4 DEF IsCall
<1>6. ~x.disturbed => ~c.disturbed /\ vols = Volumes
  BY <1>5
<1>7. ~x.disturbed => MadeOfThis(u, x)
  BY <1>1, <1>5, <1>6 DEF PreviewHolds, MadeOfThis
<1>8. PreviewHolds(u, x)
  BY <1>1, <1>5, <1>7 DEF PreviewHolds
<1>9. call' = [call EXCEPT ![u] = x]
  BY <1>3, <1>4
<1>. QED BY <1>8, <1>9, StepPreviews DEF AnswerCard

LEMMA NextPreviews == IInv /\ PreviewsHold /\ [Next]_vars => PreviewsHold'
<1>1. SUFFICES ASSUME IInv, PreviewsHold, [Next]_vars PROVE PreviewsHold'
  OBVIOUS
<1>2. ASSUME NEW u \in Users, Show(u) \/ CreateFails(u) PROVE PreviewsHold'
  BY <1>1, <1>2, StepPreviews DEF Show, CreateFails
<1>3. ASSUME NEW u \in Users, Create(u) PROVE PreviewsHold'
  <2>1. PICK load : call' = Disturb([call EXCEPT ![u] = None], load)
    BY <1>3 DEF Create
  <2>2. \A v \in Users : \/ [call EXCEPT ![u] = None][v] = None
                         \/ [call EXCEPT ![u] = None][v] = call[v]
    BY <1>1 DEF IInv, Types, CallTypes
  <2>. QED BY <1>1, <2>1, <2>2, DisturbPreviews
<1>4. ASSUME \/ \E d \in Ids : Stop(d) \/ Start(d) \/ Remove(d)
             \/ \E n \in Nodes : OtherMoves(n) \/ Heartbeat(n) \/ Silence(n)
             \/ \E p \in DOMAIN Phones : PhoneMoves(p)
      PROVE  PreviewsHold'
  <2>1. PICK load : call' = Disturb(call, load)
    BY <1>4 DEF Stop, Start, Remove, OtherMoves, Heartbeat, Silence, PhoneMoves
  <2>. QED BY <1>1, <2>1, DisturbPreviews
<1>5. CASE UNCHANGED vars
  <2>1. SUFFICES ASSUME NEW v \in Users, call'[v] # None
                 PROVE  PreviewHolds(v, call[v])'
    BY DEF PreviewsHold
  <2>2. PICK y : y = call[v]
    OBVIOUS
  <2>3. PreviewHolds(v, y)
    BY <1>1, <1>5, <2>1, <2>2 DEF vars, PreviewsHold
  <2>4. PreviewHolds(v, y)'
    BY <1>5, <2>3, SamePreview DEF vars
  <2>. QED BY <1>5, <2>2, <2>4 DEF vars, PreviewHolds, MadeOfThis, Agree
<1>. QED BY <1>1, <1>2, <1>3, <1>4, <1>5, AskPreviews, AnswerPreviews,
            AnswerCardPreviews DEF Next

LEMMA PreviewsAgree ==
    ASSUME IInv, PreviewsHold
    PROVE  CardAgrees
<1>1. SUFFICES ASSUME NEW u \in Users, call[u] # None, Agree(call[u]) = FALSE
               PROVE  FALSE
  BY DEF CardAgrees, InFlight, Agree
<1>. DEFINE c == call[u]
<1>2. IsCall(c) /\ PreviewHolds(u, c)
  BY <1>1 DEF IInv, Types, CallTypes, PreviewsHold
<1>3. /\ c.card # None /\ c.plan # None /\ ~c.disturbed
      /\ c.plan.ok /\ c.plan.claim = None
      /\ c.card.performance # c.plan.performance
  BY <1>1 DEF Agree
<1>4. c.kind = "preview" /\ MadeOfThis(u, c)
  BY <1>1, <1>2, <1>3 DEF PreviewHolds, IsCall, Kind
<1>5. PICK q \in Plans(c.req, u, node, Volumes) : c.card = Card(c.req, q)
  BY <1>3, <1>4 DEF MadeOfThis
<1>6. /\ c.plan \in Plans(c.req, u, node, Volumes)
      /\ node \in [Nodes -> ReportOf]
      /\ c.req.memory \in Int \cup {None} /\ c.req.image \in DOMAIN Images
  BY <1>2, <1>3, <1>4 DEF MadeOfThis, IInv, Types, IsCall, PreviewHolds
<1>7. q.ok /\ q.engine = c.plan.engine /\ q.node = c.plan.node
  BY <1>3, <1>6, PlansAgree
<1>8. c.card.performance = Fit(c.req, q.engine, q.node, node).performance
  BY <1>5, <1>7, CardSays
<1>9. c.plan.performance = Fit(c.req, c.plan.engine, c.plan.node, node).performance
  BY <1>3, <1>6, NodePlan
<1>. QED BY <1>3, <1>7, <1>8, <1>9

\* The plan and the card of POST plan are made by two runs of planDevice that
\* each wait for Proxmox (routes.ts:225): unless something changed meanwhile
\* they are about the same engine on the same node, whatever the registry, the
\* nodes and the requests, so the form never shows a plan with a card that
\* calls that very device something else.
THEOREM SpecCardAgrees == Spec => []CardAgrees
<1>1. Init => PreviewsHold
  BY DEF Init, PreviewsHold
<1>2. IInv /\ PreviewsHold => CardAgrees
  BY PreviewsAgree
<1>. QED BY <1>1, <1>2, NextPreviews, SpecIInv, NextIInv, InitIInv, PTL DEF Spec
=============================================================================
