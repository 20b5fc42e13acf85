------------------------------ MODULE WimDeploy ------------------------------
(***************************************************************************)
(* Deploying a Windows image onto a new VM (server/index.ts): the request  *)
(* handler, the watcher that finalizes a VM when WinPE has powered it off, *)
(* and the periodic scan that finalizes what a restart has orphaned.  Each *)
(* step is one request to Proxmox, so anything may happen between two.     *)
(*                                                                         *)
(* Proxmox, the VM and WinPE are external, modelled as far as server/      *)
(* index.ts relies on them.  A config ISO is named after its VM's id, and  *)
(* its contents are the deploy that it was built for.                      *)
(***************************************************************************)
EXTENDS Naturals, FiniteSets

CONSTANTS
    Deploys,      \* deploy-wim requests
    Scans,        \* runs of the recovery scan; a slow one overlaps the next
    Vmids,        \* VM ids
    MaxMishaps,   \* bound on restarts of the controller and failed requests
    MaxUser,      \* bound on the VMs users start, stop and remove
    None, Idle, NoVm

ASSUME BoundAssumption ==
    /\ Vmids \subseteq Nat
    /\ MaxMishaps \in Nat /\ MaxUser \in Nat

\* owner is the deploy that created the VM; disk and conf are the deploy whose
\* image is on its disk and in the config ISO it was started with; applied and
\* byHand count how often WinPE finished on it and a user started it.
VM == [owner : Deploys, power : {"off", "winpe", "disk"}, cds : BOOLEAN,
       diskFirst : BOOLEAN, disk : Deploys \cup {None}, conf : Deploys \cup {None},
       applied : Nat, byHand : Nat]

\* What both the watcher and the scan do to finalize a VM, in this order.
FinalStep == {"strip", "order", "clean", "boot"}

\* saw is the watcher's sawRunning.
Deploy == [step : {"nextid", "upload", "create", "start", "watch", "end"} \cup FinalStep,
           id : Vmids \cup {None}, saw : BOOLEAN]

\* todo are the VMs the scan has yet to look at.
Scan == [step : {"next", "status"} \cup FinalStep, id : Vmids \cup {None},
         todo : SUBSET Vmids]

ASSUME MarkAssumption ==
    /\ NoVm \notin VM /\ Idle \notin Scan
    /\ None \notin Vmids /\ None \notin Deploys

VARIABLES
    vm,        \* the VMs Proxmox has
    iso,       \* config ISOs in storage, by the VM id in their names
    deploy,    \* deploy-wim requests and their watchers
    scan,      \* recovery scans under way
    mishaps,   \* restarts and failed requests so far
    user,      \* what users have done so far
    removed    \* some VM has been removed, so that an id may be used again

counters == <<mishaps, user, removed>>
vars == <<vm, iso, deploy, scan, counters>>

TypeOK ==
    /\ vm \in [Vmids -> VM \cup {NoVm}]
    /\ iso \in [Vmids -> Deploys \cup {None}]
    /\ deploy \in [Deploys -> Deploy]
    /\ \A d \in Deploys :
         deploy[d].step \notin {"nextid", "end"} => deploy[d].id # None
    /\ scan \in [Scans -> Scan \cup {Idle}]
    /\ \A s \in Scans :
         scan[s] # Idle /\ scan[s].step # "next" => scan[s].id # None
    /\ mishaps \in Nat /\ user \in Nat /\ removed \in BOOLEAN

Init ==
    /\ vm = [v \in Vmids |-> NoVm]
    /\ iso = [v \in Vmids |-> None]
    /\ deploy = [d \in Deploys |-> [step |-> "nextid", id |-> None, saw |-> FALSE]]
    /\ scan = [s \in Scans |-> Idle]
    /\ mishaps = 0 /\ user = 0 /\ removed = FALSE

-----------------------------------------------------------------------------
(* Proxmox and the VM. *)

Exists(v) == vm[v] # NoVm

Off(v) == Exists(v) /\ vm[v].power = "off"

\* A VM that is off and whose ISOs are all there can be started.
Startable(v) == Off(v) /\ (vm[v].cds => iso[v] # None)

\* v is started.  With the CDs attached and first in the boot order it boots
\* WinPE, if somebody hits Enter at the prompt (clearBootPrompt taps it for half
\* a minute, and stops when the controller does); otherwise it boots its disk.
PowerOn(v, hand) ==
    \E p \in {"winpe", "disk"} :
        /\ p = "winpe" => vm[v].cds /\ ~vm[v].diskFirst
        /\ vm' = [vm EXCEPT ![v].power = p,
                            ![v].conf = iso[v],
                            ![v].byHand = @ + hand]

\* WinPE has applied the image its config ISO names, and powers off.
Applied(v) ==
    /\ Exists(v) /\ vm[v].power = "winpe"
    /\ vm' = [vm EXCEPT ![v].power = "off", ![v].disk = vm[v].conf,
                        ![v].applied = @ + 1]
    /\ UNCHANGED <<iso, deploy, scan, counters>>

UserStart(v) ==
    /\ user < MaxUser /\ Startable(v)
    /\ PowerOn(v, 1)
    /\ user' = user + 1
    /\ UNCHANGED <<iso, deploy, scan, mishaps, removed>>

\* By hand, or from inside Windows.
UserStop(v) ==
    /\ user < MaxUser /\ Exists(v) /\ ~Off(v)
    /\ vm' = [vm EXCEPT ![v].power = "off"]
    /\ user' = user + 1
    /\ UNCHANGED <<iso, deploy, scan, mishaps, removed>>

\* The id is free again; the config ISO stays behind.
UserRemove(v) ==
    /\ user < MaxUser /\ Off(v)
    /\ vm' = [vm EXCEPT ![v] = NoVm]
    /\ user' = user + 1
    /\ removed' = TRUE
    /\ UNCHANGED <<iso, deploy, scan, mishaps>>

-----------------------------------------------------------------------------
(* POST /svc/deploy-wim *)

At(d, step) == deploy[d].step = step

Goto(d, step) == deploy' = [deploy EXCEPT ![d].step = step]

\* cluster/nextid names a free id, and reserves nothing.
NextId(d) ==
    /\ At(d, "nextid")
    /\ \E v \in Vmids :
         /\ ~Exists(v)
         /\ \A w \in Vmids : w < v => Exists(w)
         /\ deploy' = [deploy EXCEPT ![d] = [step |-> "upload", id |-> v, saw |-> FALSE]]
    /\ UNCHANGED <<vm, iso, scan, counters>>

\* buildAndUploadConfigIso; an ISO of that name is overwritten.
Upload(d) ==
    /\ At(d, "upload")
    /\ iso' = [iso EXCEPT ![deploy[d].id] = d]
    /\ Goto(d, "create")
    /\ UNCHANGED <<vm, scan, counters>>

\* Proxmox refuses an id that is taken, and the request ends with the error.
CreateVm(d) ==
    /\ At(d, "create")
    /\ LET v == deploy[d].id
       IN  \/ /\ ~Exists(v)
              /\ vm' = [vm EXCEPT ![v] =
                          [owner |-> d, power |-> "off", cds |-> TRUE,
                           diskFirst |-> FALSE, disk |-> None, conf |-> None,
                           applied |-> 0, byHand |-> 0]]
              /\ Goto(d, "start")
           \/ /\ Exists(v)
              /\ Goto(d, "end")
              /\ UNCHANGED vm
    /\ UNCHANGED <<iso, scan, counters>>

\* The answer goes out, and the watcher carries on.
StartVm(d) ==
    /\ At(d, "start")
    /\ LET v == deploy[d].id
       IN  \/ Startable(v) /\ PowerOn(v, 0) /\ Goto(d, "watch")
           \/ ~Startable(v) /\ Goto(d, "end") /\ UNCHANGED vm
    /\ UNCHANGED <<iso, scan, counters>>

-----------------------------------------------------------------------------
(* finalizeWhenDeployed *)

\* Mutant: a VM that is off is started again as it is.
WatchPollRestarts(d) ==
    /\ At(d, "watch") /\ Off(deploy[d].id)
    /\ Goto(d, "boot")
    /\ UNCHANGED <<vm, iso, scan, counters>>

\* A status poll: first the VM must be seen running, then stopped.
WatchPoll(d) ==
    /\ At(d, "watch") /\ Exists(deploy[d].id)
    /\ \/ /\ ~Off(deploy[d].id)
          /\ ~deploy[d].saw
          /\ deploy' = [deploy EXCEPT ![d].saw = TRUE]
       \/ /\ Off(deploy[d].id)
          /\ deploy[d].saw
          /\ Goto(d, "strip")
    /\ UNCHANGED <<vm, iso, scan, counters>>

\* 240 polls were not enough.
WatchExpires(d) ==
    /\ At(d, "watch")
    /\ Goto(d, "end")
    /\ UNCHANGED <<vm, iso, scan, counters>>

\* Mutant: the CDs stay where they are.
StripNot(v) == UNCHANGED vm

\* Delete ide2 and ide3.
Strip(v) == vm' = [vm EXCEPT ![v].cds = FALSE]

\* Boot order ide0.
Order(v) == vm' = [vm EXCEPT ![v].diskFirst = TRUE]

FinalizeStrip(d) ==
    /\ At(d, "strip")
    /\ \/ Exists(deploy[d].id) /\ Strip(deploy[d].id) /\ Goto(d, "order")
       \/ ~Exists(deploy[d].id) /\ Goto(d, "end") /\ UNCHANGED vm
    /\ UNCHANGED <<iso, scan, counters>>

FinalizeOrder(d) ==
    /\ At(d, "order")
    /\ \/ Exists(deploy[d].id) /\ Order(deploy[d].id) /\ Goto(d, "clean")
       \/ ~Exists(deploy[d].id) /\ Goto(d, "end") /\ UNCHANGED vm
    /\ UNCHANGED <<iso, scan, counters>>

\* The config ISO's removal.  A failure is ignored.
FinalizeClean(d) ==
    /\ At(d, "clean")
    /\ \/ iso' = [iso EXCEPT ![deploy[d].id] = None] /\ UNCHANGED mishaps
       \/ mishaps < MaxMishaps /\ mishaps' = mishaps + 1 /\ UNCHANGED iso
    /\ Goto(d, "boot")
    /\ UNCHANGED <<vm, scan, user, removed>>

FinalizeBoot(d) ==
    /\ At(d, "boot")
    /\ LET v == deploy[d].id
       IN  \/ Startable(v) /\ PowerOn(v, 0)
           \/ ~Startable(v) /\ UNCHANGED vm
    /\ Goto(d, "end")
    /\ UNCHANGED <<iso, scan, counters>>

\* A request of the deploy's fails, and that is the end of it.
DeployFails(d) ==
    /\ deploy[d].step \in {"nextid", "upload", "create", "start", "strip", "order", "boot"}
    /\ mishaps < MaxMishaps
    /\ mishaps' = mishaps + 1
    /\ Goto(d, "end")
    /\ UNCHANGED <<vm, iso, scan, user, removed>>

-----------------------------------------------------------------------------
(* recoverOrphanedDeploys *)

ScanAt(s, step) == scan[s] # Idle /\ scan[s].step = step

ScanGoto(s, step) == scan' = [scan EXCEPT ![s].step = step]

\* The rest of the VMs are looked at, whatever came of this one.
ScanOn(s) == ScanGoto(s, "next")

\* Once at start-up and then every three minutes: all the VMs there are.
ScanBegin(s) ==
    /\ scan[s] = Idle
    /\ scan' = [scan EXCEPT ![s] =
                  [step |-> "next", id |-> None, todo |-> {v \in Vmids : Exists(v)}]]
    /\ UNCHANGED <<vm, iso, deploy, counters>>

\* The next VM's config is read; one without the WinPE CD is passed over.
ScanConfig(s) ==
    /\ ScanAt(s, "next")
    /\ \E v \in scan[s].todo :
         scan' = [scan EXCEPT ![s] =
                    [step |-> IF Exists(v) /\ vm[v].cds THEN "status" ELSE "next",
                     id |-> v, todo |-> scan[s].todo \ {v}]]
    /\ UNCHANGED <<vm, iso, deploy, counters>>

ScanEnd(s) ==
    /\ ScanAt(s, "next") /\ scan[s].todo = {}
    /\ scan' = [scan EXCEPT ![s] = Idle]
    /\ UNCHANGED <<vm, iso, deploy, counters>>

\* Mutant: only VMs that are running are finalized.
ScanStatusRunning(s) ==
    /\ ScanAt(s, "status")
    /\ ScanGoto(s, IF Exists(scan[s].id) /\ ~Off(scan[s].id) THEN "strip" ELSE "next")
    /\ UNCHANGED <<vm, iso, deploy, counters>>

\* Only one that is stopped is finalized.
ScanStatus(s) ==
    /\ ScanAt(s, "status")
    /\ ScanGoto(s, IF Off(scan[s].id) THEN "strip" ELSE "next")
    /\ UNCHANGED <<vm, iso, deploy, counters>>

ScanStrip(s) ==
    /\ ScanAt(s, "strip")
    /\ \/ Exists(scan[s].id) /\ Strip(scan[s].id) /\ ScanGoto(s, "order")
       \/ ~Exists(scan[s].id) /\ ScanOn(s) /\ UNCHANGED vm
    /\ UNCHANGED <<iso, deploy, counters>>

ScanOrder(s) ==
    /\ ScanAt(s, "order")
    /\ \/ Exists(scan[s].id) /\ Order(scan[s].id) /\ ScanGoto(s, "clean")
       \/ ~Exists(scan[s].id) /\ ScanOn(s) /\ UNCHANGED vm
    /\ UNCHANGED <<iso, deploy, counters>>

ScanClean(s) ==
    /\ ScanAt(s, "clean")
    /\ \/ iso' = [iso EXCEPT ![scan[s].id] = None] /\ UNCHANGED mishaps
       \/ mishaps < MaxMishaps /\ mishaps' = mishaps + 1 /\ UNCHANGED iso
    /\ ScanGoto(s, "boot")
    /\ UNCHANGED <<vm, deploy, user, removed>>

ScanBoot(s) ==
    /\ ScanAt(s, "boot")
    /\ LET v == scan[s].id
       IN  \/ Startable(v) /\ PowerOn(v, 0)
           \/ ~Startable(v) /\ UNCHANGED vm
    /\ ScanOn(s)
    /\ UNCHANGED <<iso, deploy, counters>>

ScanFails(s) ==
    /\ scan[s] # Idle /\ scan[s].step # "clean"
    /\ mishaps < MaxMishaps
    /\ mishaps' = mishaps + 1
    /\ IF scan[s].step = "next"
       THEN \E v \in scan[s].todo :
              scan' = [scan EXCEPT ![s].todo = @ \ {v}]
       ELSE ScanOn(s)
    /\ UNCHANGED <<vm, iso, deploy, user, removed>>

-----------------------------------------------------------------------------

\* Requests, watchers and scans are lost.
Restart ==
    /\ mishaps < MaxMishaps
    /\ mishaps' = mishaps + 1
    /\ deploy' = [d \in Deploys |->
                    IF At(d, "nextid") THEN deploy[d] ELSE [deploy[d] EXCEPT !.step = "end"]]
    /\ scan' = [s \in Scans |-> Idle]
    /\ UNCHANGED <<vm, iso, user, removed>>

DeployStep(d) ==
    \/ NextId(d) \/ Upload(d) \/ CreateVm(d) \/ StartVm(d)
    \/ WatchPoll(d) \/ WatchExpires(d)
    \/ FinalizeStrip(d) \/ FinalizeOrder(d) \/ FinalizeClean(d) \/ FinalizeBoot(d)

ScanStep(s) ==
    \/ ScanBegin(s) \/ ScanConfig(s) \/ ScanEnd(s) \/ ScanStatus(s)
    \/ ScanStrip(s) \/ ScanOrder(s) \/ ScanClean(s) \/ ScanBoot(s)

Next ==
    \/ \E d \in Deploys : DeployStep(d) \/ DeployFails(d)
    \/ \E s \in Scans : ScanStep(s) \/ ScanFails(s)
    \/ \E v \in Vmids : Applied(v) \/ UserStart(v) \/ UserStop(v) \/ UserRemove(v)
    \/ Restart

Spec == Init /\ [][Next]_vars

\* The scan runs on a timer, and Proxmox answers; a request that was accepted
\* goes on.  Nothing says that WinPE ever finishes, or that a user does anything.
FairSpec ==
    /\ Spec
    /\ \A d \in Deploys : WF_vars(DeployStep(d))
    /\ \A s \in Scans : WF_vars(ScanStep(s))

-----------------------------------------------------------------------------
(* Properties *)

\* The application never images a VM a second time, however the deploy, its
\* watcher and the scans interleave, fail and restart: WinPE finishes more than
\* once only if a user started the VM (index.ts:354-358, 465-488).
ReimagedOnlyByUser ==
    \A v \in Vmids : ~removed /\ Exists(v) => vm[v].applied <= 1 + vm[v].byHand

\* A VM that still boots from the CDs has its config ISO: whoever deletes it has
\* taken the CDs off before (index.ts:356-358, 486-489).
IsoOutlivesCds ==
    \A v \in Vmids : ~removed /\ Exists(v) /\ vm[v].cds => iso[v] # None

\* A VM that is off with the CDs still attached does not stay so, even if the
\* controller lost track of it (index.ts:465-470).
OrphansRecovered ==
    \A v \in Vmids : Off(v) /\ vm[v].cds ~> ~(Off(v) /\ vm[v].cds)

-----------------------------------------------------------------------------
(* What the comments say and the code does not do. *)

\* "reads a tiny per-VM config ISO" (index.ts:270), and "applies the chosen
\* image" (src/api.ts:202-203): the image on a VM is the one asked for with it.
ImagedAsAsked ==
    \A v \in Vmids : Exists(v) => vm[v].disk \in {None, vm[v].owner}
=============================================================================
