----------------------------- MODULE Scheduler -----------------------------
(***************************************************************************)
(* Where a new Android device goes (server/android/scheduler.ts), for the  *)
(* two handlers that ask (routes.ts): POST devices, which plans and then   *)
(* creates, and POST plan, which answers the form with a plan and a        *)
(* compatibility card.                                                     *)
(*                                                                         *)
(* A plan is made from what the nodes' agents last reported, not from what *)
(* the nodes have; only a plan that gets as far as a VM waits, for         *)
(* Proxmox's list of storages, and it then uses the reports it read        *)
(* before.  Memory and disks are in GB.                                    *)
(***************************************************************************)
EXTENDS Compat, Integers, FiniteSets

CONSTANTS
    Nodes, Place,  \* the nodes, and the order store.listNodes() has them in
    Facts,         \* per node: arch, kvm, opengl, vaapi, cores, runtimes, ram,
                   \* staged images, and what else may run there
    Keys,          \* sources of images
    Images,        \* image id -> [arch, api, physical, formFactors, engines]
    Profiles,      \* profile id -> [formFactor, cpu, memory, storage]
    FormFactors,   \* form factor id -> [cpu, memory, storage, first], first
                   \* being the first profile for it, or None
    Registered,    \* runtimes with an adapter
    Volumes,       \* storages for disks: [node, name, size]
    Phones,        \* physical devices: phone -> [node, arch, api, formFactor]
    Ids,           \* virtual devices there may be at once
    Users,         \* who asks
    Asks,          \* who asks for what: [user, req, kind], kind "preview" or
                   \* "create" for POST plan and POST devices
    None, Away

Headroom == 2

\* at: its place in the image's list of engines.
Engine == [at : Nat, runtime : STRING, preference : Int, requiresKvm : BOOLEAN,
           gpu : {"none", "optional", "preferred", "required"},
           key : Keys \cup {None}]

Kind == {"preview", "create"}

ASSUME ClusterAssumption ==
    /\ Place \in [Nodes -> Nat]
    /\ \A n, m \in Nodes : Place[n] = Place[m] => n = m
    /\ \A n \in Nodes : /\ Facts[n].ram \in Nat /\ Facts[n].ram >= Headroom
                        /\ Facts[n].load \subseteq Nat
    /\ \A v \in Volumes : v.node \in Nodes /\ v.size \in Nat
    /\ \A p \in DOMAIN Phones : Phones[p].node \in Nodes
    /\ IsFiniteSet(Ids) /\ IsFiniteSet(DOMAIN Phones)

ASSUME RegistryAssumption ==
    /\ \A i \in DOMAIN Images :
          /\ Images[i].engines \subseteq Engine
          /\ \A e, f \in Images[i].engines : e.at = f.at => e = f
    /\ \A p \in DOMAIN Profiles :
          /\ Profiles[p].cpu \in Int
          /\ Profiles[p].memory \in Int /\ Profiles[p].storage \in Int
    /\ \A ff \in DOMAIN FormFactors :
          /\ FormFactors[ff].cpu \in Int
          /\ FormFactors[ff].memory \in Int /\ FormFactors[ff].storage \in Int

ASSUME AsksAssumption ==
    \A a \in Asks : /\ a.user \in Users /\ a.kind \in Kind
                    /\ a.req.memory \in Int \cup {None}

ASSUME NoneAssumption ==
    /\ None \notin Users \cup DOMAIN Phones \cup EngineFit
    /\ Away \notin Users \cup {None}

VARIABLES
    free,     \* memory free on each node
    other,    \* memory taken on each node by what is not a device
    dev,      \* virtual devices: None, or node, memory, disk, whether it runs
    node,     \* store.nodes: what each agent last reported
    used,     \* how full each storage is
    phone,    \* physical devices: the user whose it is, None when it is
              \* ready and free, Away when it is neither
    call,     \* each user's request
    grown,    \* history: nodes that took on load since their last report
    excused   \* history: nodes that took on load their report did not count

vars == <<free, other, dev, node, used, phone, call, grown, excused>>

-----------------------------------------------------------------------------
(* The shape of the device asked for.                                      *)

ResolveFormFactorId(r) ==
    IF r.formFactor # None THEN r.formFactor
    ELSE IF r.profile \in DOMAIN Profiles THEN Profiles[r.profile].formFactor
    ELSE IF Images[r.image].formFactors # <<>>
      THEN Images[r.image].formFactors[1]
    ELSE "phone"

\* A profile that is named but unknown is no profile at all.
PickProfile(r, ff) == IF r.profile # None THEN r.profile
                                          ELSE FormFactors[ff].first

Clamp(n, lo, hi) == IF n < lo THEN lo ELSE IF n > hi THEN hi ELSE n

ResolveResources(r) ==
    LET ff == ResolveFormFactorId(r)
        picked == PickProfile(r, ff)
        base == IF picked \in DOMAIN Profiles THEN Profiles[picked]
                                              ELSE FormFactors[ff]
        memory == IF r.memory # None THEN r.memory ELSE base.memory
    IN [cpu |-> Clamp(base.cpu, 1, 32), memory |-> Clamp(memory, 1, 64),
        storage |-> Clamp(base.storage, 2, 512)]

\* The engines to try; none when the shape is refused.
Engines(r) ==
    LET ff == ResolveFormFactorId(r)
        offered == Images[r.image].formFactors
    IN {e \in Images[r.image].engines :
           /\ ff \in DOMAIN FormFactors
           /\ offered = <<>> \/ \E i \in DOMAIN offered : offered[i] = ff
           /\ r.runtime \in {None, e.runtime}}

-----------------------------------------------------------------------------
(* Who could take it: seen is what the nodes had reported when the plan    *)
(* read them.                                                              *)

Host(n, seen) ==
    [reachable |-> seen[n].reachable, arch |-> Facts[n].arch,
     kvm |-> Facts[n].kvm, opengl |-> Facts[n].opengl,
     runtimes |-> Facts[n].runtimes]

Fit(r, e, n, seen) == FitEngine(Images[r.image], e, Host(n, seen))

\* Mutant: a node may be filled to its last byte.
CandidatesToTheLastByte(r, e, seen) ==
    {n \in Nodes : /\ Fit(r, e, n, seen).ok
                   /\ seen[n].free >= ResolveResources(r).memory}

Candidates(r, e, seen) ==
    LET need == ResolveResources(r) IN
    {n \in Nodes :
        /\ r.node \in {None, n}
        /\ Fit(r, e, n, seen).ok
        /\ seen[n].free - Headroom >= need.memory
        /\ Facts[n].cores >= need.cpu}

\* pickStorage: no more than 90 % full with the new disk on it.  vols is
\* what Proxmox listed, nothing when it did not answer.
SafeVolumes(r, n, vols) ==
    LET need == ResolveResources(r).storage IN
    {v \in vols : v.node = n /\ 10 * (used[v] + need) <= 9 * v.size}

LeastFull(r, n, vols) ==
    LET need == ResolveResources(r).storage
        safe == SafeVolumes(r, n, vols)
    IN {v \in safe : \A w \in safe :
           (used[v] + need) * w.size <= (used[w] + need) * v.size}

\* findPhysical.  The node asked for does not count.
Claimable(r, u) ==
    LET img == Images[r.image]
        ff == ResolveFormFactorId(r)
    IN {p \in DOMAIN Phones :
           /\ phone[p] \in {None, u}
           /\ img.physical \/ Phones[p].arch = img.arch
           /\ r.formFactor = None \/ Phones[p].formFactor = ff
           /\ img.api = 0 \/ img.physical \/ Phones[p].api >= img.api}

Levels(r, p) == LET d == Phones[p].api - Images[r.image].api
                IN IF d < 0 THEN -d ELSE d

\* One's own device first, then the closest API level.
Claims(r, u) ==
    {p \in Claimable(r, u) : \A q \in Claimable(r, u) :
        \/ phone[p] = u /\ phone[q] # u
        \/ phone[p] = phone[q] /\ Levels(r, p) <= Levels(r, q)}

-----------------------------------------------------------------------------
(* The score, as the code adds it up.                                      *)

PerformanceScore == [native |-> 400, good |-> 300, fair |-> 150,
                     poor |-> 20, unusable |-> 0]
OpenglScore == 60
VaapiScore == 15
CachedScore == 120
SpareCap == 100
BusyCost == 25

If(b, n) == IF b THEN n ELSE 0
AtMost(n, m) == IF n < m THEN n ELSE m
AtLeast(n, m) == IF n > m THEN n ELSE m

\* Every device of the node that is not stopped, phones included.
Busy(n) == Cardinality({d \in Ids : dev[d] # None /\ dev[d].node = n /\ dev[d].on})
           + Cardinality({p \in DOMAIN Phones : Phones[p].node = n})

Score(r, e, n, seen) ==
    LET need == ResolveResources(r).memory IN
    PerformanceScore[Fit(r, e, n, seen).performance]
    + If(Facts[n].opengl, OpenglScore)
    + If(Facts[n].vaapi, VaapiScore)
    + If(e.key \in Facts[n].cached, CachedScore)
    + AtMost(SpareCap, 8 * AtLeast(0, seen[n].free - need))
    - BusyCost * Busy(n)

\* Mutant: the candidates are sorted the other way round.
WinnersAscending(r, e, cands, seen) ==
    {n \in cands : \A m \in cands : Score(r, e, n, seen) <= Score(r, e, m, seen)}

\* The sort is stable, so the first of the best wins.
Winners(r, e, cands, seen) ==
    {n \in cands : \A m \in cands :
        \/ Score(r, e, n, seen) > Score(r, e, m, seen)
        \/ Score(r, e, n, seen) = Score(r, e, m, seen) /\ Place[n] <= Place[m]}

-----------------------------------------------------------------------------
(* The plan: the most preferred engine that anything can take decides.     *)

\* The sort is stable here too.
Ahead(e, f) ==
    \/ e.preference > f.preference
    \/ e.preference = f.preference /\ e.at <= f.at

Preferred(engines) == {e \in engines : \A f \in engines : Ahead(e, f)}

Takers(r, e, seen, vols) ==
    {n \in Candidates(r, e, seen) :
        e.runtime = "qemu" => SafeVolumes(r, n, vols) # {}}

Viable(r, u, seen, vols) ==
    {e \in Engines(r) :
        /\ e.runtime \in Registered
        /\ IF e.runtime = "physical-adb" THEN Claimable(r, u) # {}
                                         ELSE Takers(r, e, seen, vols) # {}}

Plan(e, n, how, p, v, need) ==
    [ok |-> TRUE, engine |-> e, node |-> n, performance |-> how,
     claim |-> p, volume |-> v, need |-> need]

Refusal == [ok |-> FALSE]

ClaimPlans(r, u, e) ==
    {Plan(e, Phones[p].node, "native", p, None, ResolveResources(r)) :
        p \in Claims(r, u)}

NodePlans(r, e, seen, vols) ==
    LET on(n) == IF e.runtime = "qemu" THEN LeastFull(r, n, vols) ELSE {None}
    IN UNION {{Plan(e, n, Fit(r, e, n, seen).performance, None, v,
                    ResolveResources(r)) : v \in on(n)} :
                 n \in Winners(r, e, Takers(r, e, seen, vols), seen)}

\* planDevice has one answer; which of two equally full storages or equally
\* close phones comes first is the data's order.
Plans(r, u, seen, vols) ==
    LET viable == Viable(r, u, seen, vols) IN
    IF viable = {} THEN {Refusal}
    ELSE UNION {IF e.runtime = "physical-adb" THEN ClaimPlans(r, u, e)
                ELSE NodePlans(r, e, seen, vols) : e \in Preferred(viable)}

\* A plan waits for Proxmox when it comes to a VM some node could run.
AwaitsStorage(r, u, seen) ==
    \E e \in Engines(r) :
        /\ e.runtime = "qemu" /\ "qemu" \in Registered
        /\ Candidates(r, e, seen) # {}
        /\ \A f \in Viable(r, u, seen, {}) : Ahead(e, f)

\* Mutant: the card is made of the first node, wherever the plan goes.
CardOfFirst(r, plan) ==
    LET n == CHOOSE n \in Nodes : \A m \in Nodes : Place[n] <= Place[m]
    IN IF plan.ok THEN Report(plan.engine, Fit(r, plan.engine, n, node), None)
                  ELSE Report(CHOOSE e \in Images[r.image].engines : TRUE, None, None)

\* explain: the report of the node planned for, as it is by then.  A refusal
\* is explained by the most preferred engine on the first node that is up.
Card(r, plan) ==
    LET e == CHOOSE e \in Preferred(Images[r.image].engines) : TRUE
        up == {n \in Nodes : node[n].reachable}
        n == CHOOSE n \in up : \A m \in up : Place[n] <= Place[m]
    IN IF plan.ok
         THEN Report(plan.engine, Fit(r, plan.engine, plan.node, node), None)
       ELSE Report(e, IF up = {} THEN None ELSE Fit(r, e, n, node), None)

-----------------------------------------------------------------------------
(* Requests.  A preview is POST plan, a create POST devices.               *)

InFlight(u) == call[u] # None

\* History: what a preview was disturbed by, and the nodes whose load a
\* create has not counted.
Disturb(calls, load) ==
    [u \in Users |->
        IF calls[u] = None THEN None
        ELSE IF calls[u].kind = "preview" THEN [calls[u] EXCEPT !.disturbed = TRUE]
        ELSE [calls[u] EXCEPT !.stale = @ \cup load]]

Asking(r, kind, seen, plan, card) ==
    [kind |-> kind, req |-> r, seen |-> seen, plan |-> plan, card |-> card,
     disturbed |-> FALSE,
     stale |-> {n \in Nodes : kind = "create" /\ grown[n]}]

Ask(u, r, kind) ==
    /\ ~InFlight(u) /\ r.image \in DOMAIN Images
    /\ \/ /\ AwaitsStorage(r, u, node)
          /\ call' = [call EXCEPT ![u] = Asking(r, kind, node, None, None)]
       \/ /\ ~AwaitsStorage(r, u, node)
          /\ \E p \in Plans(r, u, node, {}) :
                call' = [call EXCEPT ![u] =
                    IF kind = "preview" THEN Asking(r, kind, None, p, Card(r, p))
                    ELSE IF p.ok THEN Asking(r, kind, None, p, None) ELSE None]
    /\ UNCHANGED <<free, other, dev, node, used, phone, grown, excused>>

\* Proxmox answers, or does not: vols is then empty.
Answer(u) ==
    LET c == call[u] IN
    /\ InFlight(u) /\ c.seen # None /\ c.plan = None
    /\ \E vols \in {Volumes, {}} : \E p \in Plans(c.req, u, c.seen, vols) :
          call' = [call EXCEPT ![u] =
              IF c.kind = "preview"
                THEN [c EXCEPT !.plan = p, !.disturbed = @ \/ vols = {}]
              ELSE IF p.ok THEN [c EXCEPT !.plan = p, !.seen = None] ELSE None]
    /\ UNCHANGED <<free, other, dev, node, used, phone, grown, excused>>

\* The second plan of POST plan, the one explain makes, and its card.
AnswerCard(u) ==
    LET c == call[u] IN
    /\ InFlight(u) /\ c.kind = "preview" /\ c.seen # None /\ c.card = None
    /\ \E vols \in {Volumes, {}} : \E p \in Plans(c.req, u, c.seen, vols) :
          call' = [call EXCEPT ![u] =
              [c EXCEPT !.card = Card(c.req, p), !.disturbed = @ \/ vols = {}]]
    /\ UNCHANGED <<free, other, dev, node, used, phone, grown, excused>>

Show(u) ==
    /\ InFlight(u) /\ call[u].plan # None /\ call[u].card # None
    /\ call' = [call EXCEPT ![u] = None]
    /\ UNCHANGED <<free, other, dev, node, used, phone, grown, excused>>

\* The adapter builds what was planned; nothing is looked at again.
Create(u) ==
    /\ InFlight(u) /\ call[u].kind = "create" /\ call[u].plan # None
    /\ LET p == call[u].plan
           others == [call EXCEPT ![u] = None]
       IN IF p.claim # None
            THEN /\ phone' = IF phone[p.claim] \in {None, u}
                               THEN [phone EXCEPT ![p.claim] = u]
                               ELSE phone
                 /\ call' = Disturb(others, {})
                 /\ UNCHANGED <<free, dev, used, grown, excused>>
            ELSE \E d \in Ids :
                 /\ dev[d] = None
                 /\ dev' = [dev EXCEPT ![d] =
                        [node |-> p.node, memory |-> p.need.memory,
                         volume |-> p.volume, storage |-> p.need.storage,
                         on |-> TRUE]]
                 /\ free' = [free EXCEPT ![p.node] = @ - p.need.memory]
                 /\ used' = IF p.volume = None THEN used
                            ELSE [used EXCEPT ![p.volume] = @ + p.need.storage]
                 /\ grown' = [grown EXCEPT ![p.node] = TRUE]
                 /\ excused' = [excused EXCEPT ![p.node] =
                                    @ \/ p.node \in call[u].stale]
                 /\ call' = Disturb(others, {p.node})
                 /\ UNCHANGED phone
    /\ UNCHANGED <<other, node>>

\* The node's agent or Proxmox refuses, or the adapter has no way to boot it.
CreateFails(u) ==
    /\ InFlight(u) /\ call[u].kind = "create" /\ call[u].plan # None
    /\ call' = [call EXCEPT ![u] = None]
    /\ UNCHANGED <<free, other, dev, node, used, phone, grown, excused>>

-----------------------------------------------------------------------------
(* Devices and nodes.                                                      *)

Stop(d) ==
    /\ dev[d] # None /\ dev[d].on
    /\ dev' = [dev EXCEPT ![d].on = FALSE]
    /\ free' = [free EXCEPT ![dev[d].node] = @ + dev[d].memory]
    /\ call' = Disturb(call, {})
    /\ UNCHANGED <<other, node, used, phone, grown, excused>>

\* Starting a stopped device asks no scheduler.
Start(d) ==
    /\ dev[d] # None /\ ~dev[d].on
    /\ dev' = [dev EXCEPT ![d].on = TRUE]
    /\ free' = [free EXCEPT ![dev[d].node] = @ - dev[d].memory]
    /\ grown' = [grown EXCEPT ![dev[d].node] = TRUE]
    /\ excused' = [excused EXCEPT ![dev[d].node] = TRUE]
    /\ call' = Disturb(call, {dev[d].node})
    /\ UNCHANGED <<other, node, used, phone>>

Remove(d) ==
    /\ dev[d] # None /\ ~dev[d].on
    /\ dev' = [dev EXCEPT ![d] = None]
    /\ used' = IF dev[d].volume = None THEN used
               ELSE [used EXCEPT ![dev[d].volume] = @ - dev[d].storage]
    /\ call' = Disturb(call, {})
    /\ UNCHANGED <<free, other, node, phone, grown, excused>>

\* Proxmox's own machines on the node come and go.
OtherMoves(n) ==
    /\ \E m \in Facts[n].load \ {other[n]} :
          /\ other' = [other EXCEPT ![n] = m]
          /\ free' = [free EXCEPT ![n] = @ + other[n] - m]
          /\ grown' = [grown EXCEPT ![n] = @ \/ m > other[n]]
          /\ excused' = [excused EXCEPT ![n] = @ \/ m > other[n]]
          /\ call' = Disturb(call, IF m > other[n] THEN {n} ELSE {})
    /\ UNCHANGED <<dev, node, used, phone>>

\* A heartbeat.  History: from here on the node is held to its headroom
\* again, if it has it.
Heartbeat(n) ==
    /\ node' = [node EXCEPT ![n] =
                   [reachable |-> TRUE, free |-> AtLeast(0, free[n])]]
    /\ grown' = [grown EXCEPT ![n] = FALSE]
    /\ excused' = [excused EXCEPT ![n] = @ /\ free[n] < Headroom]
    /\ call' = Disturb(call, {})
    /\ UNCHANGED <<free, other, dev, used, phone>>

\* No heartbeat for agentStaleMs.  What the record still says of its memory
\* is read by nothing until the next one.
Silence(n) ==
    /\ node[n].reachable
    /\ node' = [node EXCEPT ![n] = [reachable |-> FALSE, free |-> 0]]
    /\ call' = Disturb(call, {})
    /\ UNCHANGED <<free, other, dev, used, phone, grown, excused>>

\* A phone is plugged in or out, taken or released (Reservations).
PhoneMoves(p) ==
    /\ \E to \in (Users \cup {None, Away}) \ {phone[p]} :
          phone' = [phone EXCEPT ![p] = to]
    /\ call' = Disturb(call, {})
    /\ UNCHANGED <<free, other, dev, node, used, grown, excused>>

-----------------------------------------------------------------------------
Init ==
    /\ free = [n \in Nodes |-> Facts[n].ram]
    /\ other = [n \in Nodes |-> 0]
    /\ dev = [d \in Ids |-> None]
    /\ node = [n \in Nodes |-> [reachable |-> FALSE, free |-> 0]]
    /\ used = [v \in Volumes |-> 0]
    /\ phone = [p \in DOMAIN Phones |-> Away]
    /\ call = [u \in Users |-> None]
    /\ grown = [n \in Nodes |-> FALSE]
    /\ excused = [n \in Nodes |-> FALSE]

Next ==
    \/ \E a \in Asks : Ask(a.user, a.req, a.kind)
    \/ \E u \in Users : \/ Answer(u) \/ AnswerCard(u) \/ Show(u)
                        \/ Create(u) \/ CreateFails(u)
    \/ \E d \in Ids : Stop(d) \/ Start(d) \/ Remove(d)
    \/ \E n \in Nodes : OtherMoves(n) \/ Heartbeat(n) \/ Silence(n)
    \/ \E p \in DOMAIN Phones : PhoneMoves(p)

Spec == Init /\ [][Next]_vars

-----------------------------------------------------------------------------
(* Properties.                                                             *)

\* A node keeps its headroom unless it took on load that no report had
\* counted when a plan was made: a second plan in one heartbeat, a stopped
\* device started again, or something that is no device.
HeadroomKept == \A n \in Nodes : free[n] >= Headroom \/ excused[n]

\* A slow, translating node is never chosen over one that runs the image
\* natively and has few devices: cached images, spare memory and a GPU do not
\* make up for it (score).
Outscored == 5

NativeFirst(u) ==
    LET seen == IF call[u] = None THEN node ELSE call[u].seen
        p == call'[u].plan
    IN /\ call'[u] # None /\ p # None /\ p.ok
       /\ call[u] = None \/ call[u].plan = None
       /\ p.performance = "poor"
       => \A n \in Takers(call'[u].req, p.engine, seen, Volumes) :
             Fit(call'[u].req, p.engine, n, seen).performance = "native"
             => Busy(n) > Outscored

NativeBeforeTranslated == [][\A u \in Users : NativeFirst(u)]_vars

\* The form is never shown a plan together with a card that calls the same
\* device unusable, unless something changed while the plan was made; except
\* for a phone, which is offered whatever its node reports of itself.
CardAgrees ==
    \A u \in Users :
        (/\ InFlight(u) /\ call[u].card # None /\ call[u].plan # None
         /\ ~call[u].disturbed /\ call[u].plan.ok
         /\ call[u].plan.claim = None)
        => call[u].card.performance = call[u].plan.performance

=============================================================================
