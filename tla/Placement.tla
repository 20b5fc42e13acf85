------------------------------ MODULE Placement ------------------------------
(***************************************************************************)
(* Where a new machine goes.  The New machine dialog (NewMachine.tsx)      *)
(* places installers and copies of templates itself, with place() of       *)
(* src/placement.ts, on the listing it has; a Windows image is deployed by *)
(* the server, which places it with pickDeployNode (server/index.ts).      *)
(*                                                                         *)
(* The two are kept in step by hand.  Both fill solid state disks first,   *)
(* as far as they know which are: the server probes the nodes and keeps    *)
(* the answer for ten minutes, the dialog asks the server once.            *)
(***************************************************************************)
EXTENDS Integers, FiniteSets

CONSTANTS
    Nodes,
    Disks,      \* names of storages; "local" is one
    Cores,      \* [Nodes -> Nat]
    Capacity,   \* [Nodes -> [Disks -> Nat]], in GB, 0 for none of that name
    Clusters,   \* what the nodes may report
    Sizes,      \* what may be asked for
    Spinners,   \* the storages a probe can tell to be hard disks
    SlowDirs,   \* SLOW_DIRS
    Fallback,   \* SLOW_FALLBACK
    Vmids       \* bound: ids the cluster may hand out

ASSUME PlacementAssumption ==
    /\ IsFiniteSet(Nodes) /\ IsFiniteSet(Disks)
    /\ Cores \in [Nodes -> Nat]
    /\ Capacity \in [Nodes -> [Disks -> Nat]]
    /\ \A c \in Clusters :
          /\ c.up \subseteq Nodes
          /\ c.free \in [Nodes -> Nat]
          /\ c.used \in [Nodes -> [Disks -> Nat]]
    /\ \A s \in Sizes : s.mem \in Nat /\ s.disk \in Nat /\ s.cores \in Nat
    /\ Spinners \cup SlowDirs \cup Fallback \subseteq Nodes \X Disks

HeadroomGb == 2

VARIABLES
    cluster,    \* the nodes
    listing,    \* resources: the dialog's copy of it
    slowCache,  \* the server's: the answer of its last probe, or none
    tiers,      \* slowStorages: the dialog's copy
    wizard,     \* what the dialog is at
    vms         \* ids in use

pvars == <<cluster, listing, slowCache, tiers, wizard, vms>>

Spot == [node : Nodes, storage : Disks]

\* A disk fits if the storage is at most nine tenths full with it.
Holds(c, n, d, size) ==
    Capacity[n][d] > 0 /\ 10 * (c.used[n][d] + size.disk) <= 9 * Capacity[n][d]

-----------------------------------------------------------------------------
(* place: src/placement.ts *)

HasRoom(c, size, n) ==
    n \in c.up /\ Cores[n] >= size.cores /\ c.free[n] - HeadroomGb >= size.mem

\* Fuller, as a fraction, with the disk on it.
LessFull(c, n, size, d, e) ==
    (c.used[n][d] + size.disk) * Capacity[n][e] <= (c.used[n][e] + size.disk) * Capacity[n][d]

\* The least full of the node's fast storages, of all of them if none is fast.
Chosen(c, size, slow, n) ==
    LET fit  == {d \in Disks : Holds(c, n, d, size)}
        fast == {d \in fit : <<n, d>> \notin slow}
        pool == IF fast # {} THEN fast ELSE fit
    IN  {[node |-> n, storage |-> d] :
           d \in {d \in pool : \A e \in pool : LessFull(c, n, size, d, e)}}

IsSlow(spot, slow) == <<spot.node, spot.storage>> \in slow

\* A fast one first, then the one on the node with most memory free.
NoWorse(c, slow, a, b) ==
    IF IsSlow(a, slow) # IsSlow(b, slow) THEN ~IsSlow(a, slow)
    ELSE c.free[a.node] >= c.free[b.node]

First(c, slow, cands) == {a \in cands : \A b \in cands : NoWorse(c, slow, a, b)}

Place(c, size, allowed, slow) ==
    First(c, slow, UNION {Chosen(c, size, slow, n) : n \in {n \in allowed : HasRoom(c, size, n)}})

-----------------------------------------------------------------------------
(* pickDeployNode: server/index.ts *)

Eligible(c, size, n) ==
    /\ n \in c.up
    /\ Cores[n] >= size.cores
    /\ c.free[n] - HeadroomGb >= size.mem
    /\ \E d \in Disks : Holds(c, n, d, size)

Pool(c, size, slow, n) ==
    LET onNode == {d \in Disks : Holds(c, n, d, size)}
        fast   == {d \in onNode : <<n, d>> \notin slow}
    IN  IF fast # {} THEN fast ELSE onNode

\* Mutant: a node that has only spinners left may win by its memory.
PickByMemory(c, size, slow) ==
    LET hosts == {n \in Nodes : Eligible(c, size, n)}
        best  == {n \in hosts : \A m \in hosts : c.free[n] >= c.free[m]}
    IN  UNION {{[node |-> n, storage |-> d] : d \in Pool(c, size, slow, n)} : n \in best}

\* "local" if it is among them, else the first in the listing, which may be any.
Picks(c, size, slow, n) ==
    LET pool == Pool(c, size, slow, n)
    IN  {[node |-> n, storage |-> d] : d \in IF "local" \in pool THEN {"local"} ELSE pool}

PickDeployNode(c, size, slow) ==
    First(c, slow, UNION {Picks(c, size, slow, n) : n \in {n \in Nodes : Eligible(c, size, n)}})

-----------------------------------------------------------------------------
(* getSlowStorages, and what happens around it *)

\* The probe skips a node that does not answer; finding nothing is no answer.
Probe(c) ==
    {LET found == {s \in Spinners : s[1] \in heard}
     IN  IF found = {} THEN Fallback ELSE found \cup SlowDirs : heard \in SUBSET c.up}

SlowStorages == IF slowCache = {} THEN Probe(cluster) ELSE slowCache

\* SLOW_TTL_MS passes, or the server restarts.
SlowCacheExpires ==
    /\ slowCache # {}
    /\ slowCache' = {}
    /\ UNCHANGED <<cluster, listing, tiers, wizard, vms>>

\* Everything else on the cluster: hosts come and go, machines start and grow.
OthersMove ==
    /\ cluster' \in Clusters
    /\ UNCHANGED <<listing, slowCache, tiers, wizard, vms>>

\* Somebody makes a machine, or removes one.
OthersMake ==
    /\ \E i \in Vmids : vms' = IF i \in vms THEN vms \ {i} ELSE vms \cup {i}
    /\ UNCHANGED <<cluster, listing, slowCache, tiers, wizard>>

\* The dashboard's poll.
ListingArrives ==
    /\ listing' = cluster
    /\ UNCHANGED <<cluster, slowCache, tiers, wizard, vms>>

-----------------------------------------------------------------------------
(* The New machine dialog *)

Idle == [at |-> "form"]

Open ==
    /\ wizard.at = "closed"
    /\ wizard' = Idle /\ tiers' = {}
    /\ UNCHANGED <<cluster, listing, slowCache, vms>>

\* fetchStorageTiers: no answer leaves the dialog without tiers.
TiersArrive ==
    /\ wizard.at # "closed"
    /\ \/ tiers' = {} /\ UNCHANGED slowCache
       \/ \E answer \in SlowStorages : tiers' = answer /\ slowCache' = {answer}
    /\ UNCHANGED <<cluster, listing, wizard, vms>>

\* submit, for an installer that the nodes of allowed can see, or a template.
Submit(size, allowed) ==
    /\ wizard.at = "form"
    /\ \E spot \in Place(listing, size, allowed, tiers) :
         wizard' = [at |-> "nextid", spot |-> spot]
    /\ UNCHANGED <<cluster, listing, slowCache, tiers, vms>>

\* /cluster/nextid gives an id that is free now.
NextIdArrives ==
    /\ wizard.at = "nextid"
    /\ \E i \in Vmids \ vms :
         /\ \A j \in Vmids \ vms : i <= j
         /\ wizard' = [at |-> "create", spot |-> wizard.spot, vmid |-> i]
    /\ UNCHANGED <<cluster, listing, slowCache, tiers, vms>>

\* Proxmox creates or clones, unless the id is taken by now; a clone's size and
\* login are sent after it whether it is locked or not.  Then the task is shown.
Created ==
    /\ wizard.at = "create" /\ wizard.vmid \notin vms
    /\ vms' = vms \cup {wizard.vmid}
    /\ wizard' = [at |-> "closed"]
    /\ UNCHANGED <<cluster, listing, slowCache, tiers>>

\* submit, for a Windows image: the server places it, now.
Deploy(size) ==
    /\ wizard.at = "form"
    /\ \E answer \in SlowStorages :
         /\ slowCache' = {answer}
         /\ PickDeployNode(cluster, size, answer) # {}
    /\ wizard' = [at |-> "deploying"]
    /\ UNCHANGED <<cluster, listing, tiers, vms>>

\* A request fails, or is answered with an error: the form is there again.
SubmitFails ==
    /\ wizard.at \in {"nextid", "create"}
    /\ wizard' = Idle
    /\ UNCHANGED <<cluster, listing, slowCache, tiers, vms>>

Close ==
    /\ wizard.at \in {"form", "deploying"}
    /\ wizard' = [at |-> "closed"]
    /\ UNCHANGED <<cluster, listing, slowCache, tiers, vms>>

PlacementInit ==
    /\ cluster \in Clusters
    /\ listing = cluster
    /\ slowCache = {}
    /\ tiers = {}
    /\ wizard = [at |-> "closed"]
    /\ vms = {}

PlacementNext ==
    \/ SlowCacheExpires \/ OthersMove \/ OthersMake \/ ListingArrives
    \/ Open \/ TiersArrive \/ NextIdArrives \/ Created \/ SubmitFails \/ Close
    \/ \E size \in Sizes : Deploy(size) \/ \E allowed \in {Nodes} \cup {{n} : n \in Nodes} : Submit(size, allowed)

PlacementSpec == PlacementInit /\ [][PlacementNext]_pvars

-----------------------------------------------------------------------------
(* Properties *)

KnownSlow == {tiers} \cup slowCache

\* Dialog and server say the same of the same listing: whether a machine fits,
\* on which kind of disk, and on a node with how much memory.
SameAnswer ==
    \A size \in Sizes, slow \in KnownSlow :
        LET here  == Place(listing, size, Nodes, slow)
            there == PickDeployNode(listing, size, slow)
        IN  /\ here = {} <=> there = {}
            /\ \A a \in here, b \in there :
                  /\ IsSlow(a, slow) <=> IsSlow(b, slow)
                  /\ listing.free[a.node] = listing.free[b.node]

\* "A spinner is only chosen when no SSD node has room" (src/placement.ts:34-37,
\* server/index.ts:423-428).
SpinnersLast ==
    \A size \in Sizes, slow \in KnownSlow :
        \A a \in Place(listing, size, Nodes, slow) \cup PickDeployNode(listing, size, slow) :
            IsSlow(a, slow) =>
                \A n \in {n \in Nodes : Eligible(listing, size, n)}, d \in Disks :
                    Holds(listing, n, d, size) => <<n, d>> \in slow

\* The two placements, kept in step by hand, agree and keep spinners for last.
PlacementsAgree == SameAnswer /\ SpinnersLast
=============================================================================
