--------------------------- MODULE WimDeployProofs ---------------------------
(***************************************************************************)
(* Proofs about WimDeploy, for any requests, scans, VM ids and mishaps.    *)
(*                                                                         *)
(* As long as no VM is removed, what a step found of a VM stays true of    *)
(* it: a deploy that has come as far as starting its VM created it, and    *)
(* from the second step of a finalize on the CDs are off, whoever does the *)
(* finalizing and however many do it at once (Grounded).  So a config ISO  *)
(* goes only when nothing boots from it, and the application's one start   *)
(* of a VM that can still boot WinPE is the one of StartVm.                *)
(***************************************************************************)
EXTENDS WimDeploy, TLAPS

\* From here on a finalize has taken the CDs off.
Stripped == {"order", "clean", "boot"}

\* What a deploy past its creation, and one that is about to create, rely on.
DeployGrounded(d) ==
    LET v == deploy[d].id IN
    /\ deploy[d].step \in {"start", "watch"} \cup FinalStep =>
         Exists(v) /\ vm[v].owner = d
    /\ deploy[d].step \in Stripped => ~vm[v].cds
    /\ At(d, "create") /\ ~Exists(v) => iso[v] # None

\* What a scan that has looked at a VM relies on.
ScanGrounded(s) ==
    LET v == scan[s].id IN
    scan[s] # Idle =>
        /\ scan[s].step # "next" => Exists(v)
        /\ scan[s].step \in Stripped => ~vm[v].cds

Grounded ==
    ~removed => /\ \A d \in Deploys : DeployGrounded(d)
                /\ \A s \in Scans : ScanGrounded(s)

\* v's deploy has yet to start it.
Unstarted(v) == At(vm[v].owner, "start") /\ deploy[vm[v].owner].id = v

\* The runs of WinPE, finished, under way and owed, are at most one more than
\* those that a user began.
Counted(v) ==
    LET m == vm[v] IN
    /\ m.applied <= 1 + m.byHand
    /\ m.power = "winpe" => m.applied <= m.byHand
    /\ Unstarted(v) => m.applied <= m.byHand
    /\ Unstarted(v) /\ m.power = "winpe" => m.applied < m.byHand

RunsCounted == ~removed => \A v \in Vmids : Exists(v) => Counted(v)

IInv == TypeOK /\ Grounded /\ RunsCounted /\ IsoOutlivesCds

-----------------------------------------------------------------------------
(* What the pieces of the actions do. *)

\* A VM stays where it is and whose it is, and gets no CDs.
Kept == \A v \in Vmids :
    /\ Exists(v)' <=> Exists(v)
    /\ Exists(v) => /\ vm'[v].owner = vm[v].owner
                    /\ vm'[v].cds => vm[v].cds

\* Nothing that the count is about happens to a VM.
CountKept == \A v \in Vmids : Exists(v) =>
    /\ vm'[v].applied = vm[v].applied /\ vm'[v].byHand = vm[v].byHand
    /\ vm'[v].power = "winpe" => vm[v].power = "winpe"

VmType == vm \in [Vmids -> VM \cup {NoVm}]

LEMMA VmIsTyped ==
    ASSUME VmType, NEW v \in Vmids, Exists(v)
    PROVE  vm[v] \in VM
BY DEF VmType, Exists

LEMMA PowerOnEffect ==
    ASSUME TypeOK, NEW v \in Vmids, Exists(v), NEW hand \in Nat,
           PowerOn(v, hand)
    PROVE  /\ VmType' /\ Kept
           /\ \A w \in Vmids \ {v} : vm'[w] = vm[w]
           /\ vm'[v].applied = vm[v].applied
           /\ vm'[v].byHand = vm[v].byHand + hand
           /\ vm'[v].power = "winpe" => vm[v].cds
<1>. DEFINE n == vm[v].byHand + hand
<1>1. PICK p \in {"winpe", "disk"} :
        /\ p = "winpe" => vm[v].cds /\ ~vm[v].diskFirst
        /\ vm' = [vm EXCEPT ![v].power = p, ![v].conf = iso[v], ![v].byHand = n]
  BY DEF PowerOn
<1>2. /\ vm \in [Vmids -> VM \cup {NoVm}] /\ vm[v] \in VM
      /\ iso[v] \in Deploys \cup {None} /\ n \in Nat
  BY DEF TypeOK, Exists, VM
<1>. HIDE DEF n
<1>. DEFINE m == [vm[v] EXCEPT !.power = p, !.conf = iso[v], !.byHand = n]
<1>3. vm' = [vm EXCEPT ![v] = m]
  BY <1>1, <1>2
<1>4. /\ m \in VM /\ m.owner = vm[v].owner /\ m.cds = vm[v].cds
      /\ m.applied = vm[v].applied /\ m.byHand = n /\ m.power = p
  BY <1>2 DEF VM
<1>5. vm'[v] = m /\ \A w \in Vmids \ {v} : vm'[w] = vm[w]
  BY <1>2, <1>3
<1>. HIDE DEF m
<1>6. VmType'
  BY <1>2, <1>3, <1>4 DEF VmType
<1>7. Kept
  BY <1>4, <1>5, MarkAssumption DEF Kept, Exists
<1>. QED BY <1>1, <1>4, <1>5, <1>6, <1>7 DEF n

\* Strip and Order, whichever fields they set.
LEMMA StripEffect ==
    ASSUME TypeOK, NEW v \in Vmids, Exists(v), Strip(v)
    PROVE  VmType' /\ Kept /\ CountKept /\ ~vm'[v].cds
<1>. DEFINE m == [vm[v] EXCEPT !.cds = FALSE]
<1>1. /\ vm \in [Vmids -> VM \cup {NoVm}] /\ vm[v] \in VM
      /\ vm' = [vm EXCEPT ![v] = m]
  BY DEF TypeOK, Exists, Strip
<1>2. /\ m \in VM /\ m.owner = vm[v].owner /\ ~m.cds
      /\ m.applied = vm[v].applied /\ m.byHand = vm[v].byHand
      /\ m.power = vm[v].power
  BY <1>1 DEF VM
<1>3. vm'[v] = m /\ \A w \in Vmids \ {v} : vm'[w] = vm[w]
  BY <1>1
<1>. HIDE DEF m
<1>4. VmType'
  BY <1>1, <1>2 DEF VmType
<1>. QED BY <1>2, <1>3, <1>4, MarkAssumption DEF Kept, CountKept, Exists

LEMMA OrderEffect ==
    ASSUME TypeOK, NEW v \in Vmids, Exists(v), Order(v)
    PROVE  VmType' /\ Kept /\ CountKept
<1>. DEFINE m == [vm[v] EXCEPT !.diskFirst = TRUE]
<1>1. /\ vm \in [Vmids -> VM \cup {NoVm}] /\ vm[v] \in VM
      /\ vm' = [vm EXCEPT ![v] = m]
  BY DEF TypeOK, Exists, Order
<1>2. /\ m \in VM /\ m.owner = vm[v].owner /\ m.cds = vm[v].cds
      /\ m.applied = vm[v].applied /\ m.byHand = vm[v].byHand
      /\ m.power = vm[v].power
  BY <1>1 DEF VM
<1>3. vm'[v] = m /\ \A w \in Vmids \ {v} : vm'[w] = vm[w]
  BY <1>1
<1>. HIDE DEF m
<1>4. VmType'
  BY <1>1, <1>2 DEF VmType
<1>. QED BY <1>2, <1>3, <1>4, MarkAssumption DEF Kept, CountKept, Exists

LEMMA UnchangedVm ==
    ASSUME TypeOK, UNCHANGED vm
    PROVE  VmType' /\ Kept /\ CountKept
BY DEF TypeOK, VmType, Kept, CountKept, Exists

DeployType ==
    /\ deploy \in [Deploys -> Deploy]
    /\ \A d \in Deploys :
         deploy[d].step \notin {"nextid", "end"} => deploy[d].id # None

\* Nobody's step but d's changes, to step.
Moves(d, step) ==
    /\ \A e \in Deploys \ {d} : deploy'[e] = deploy[e]
    /\ deploy'[d].step = step /\ deploy'[d].id = deploy[d].id

LEMMA DeployIsTyped ==
    ASSUME DeployType, NEW d \in Deploys
    PROVE  /\ deploy[d] \in Deploy
           /\ deploy[d].step \notin {"nextid", "end"} => deploy[d].id \in Vmids
BY DEF DeployType, Deploy

LEMMA GotoEffect ==
    ASSUME DeployType, NEW d \in Deploys,
           NEW step \in {"create", "start", "watch", "end"} \cup FinalStep,
           deploy[d].step \notin {"nextid", "end"} \/ step = "end",
           Goto(d, step)
    PROVE  DeployType' /\ Moves(d, step)
<1>. DEFINE q == [deploy[d] EXCEPT !.step = step]
<1>1. /\ deploy \in [Deploys -> Deploy] /\ deploy[d] \in Deploy
      /\ deploy' = [deploy EXCEPT ![d] = q]
  BY DEF DeployType, Goto
<1>2. q \in Deploy /\ q.step = step /\ q.id = deploy[d].id
  BY <1>1 DEF Deploy
<1>3. deploy'[d] = q /\ \A e \in Deploys \ {d} : deploy'[e] = deploy[e]
  BY <1>1
<1>. HIDE DEF q
<1>4. deploy' \in [Deploys -> Deploy]
  BY <1>1, <1>2
<1>. QED BY <1>2, <1>3, <1>4 DEF DeployType, Moves

ScanType ==
    /\ scan \in [Scans -> Scan \cup {Idle}]
    /\ \A s \in Scans :
         scan[s] # Idle /\ scan[s].step # "next" => scan[s].id # None

ScanMoves(s, step) ==
    /\ \A t \in Scans \ {s} : scan'[t] = scan[t]
    /\ scan'[s] # Idle /\ scan'[s].step = step /\ scan'[s].id = scan[s].id

LEMMA ScanIsTyped ==
    ASSUME ScanType, NEW s \in Scans, scan[s] # Idle
    PROVE  /\ scan[s] \in Scan
           /\ scan[s].step # "next" => scan[s].id \in Vmids
BY DEF ScanType, Scan

LEMMA ScanGotoEffect ==
    ASSUME ScanType, NEW s \in Scans, scan[s] # Idle, scan[s].step # "next",
           NEW step \in {"next", "status"} \cup FinalStep, ScanGoto(s, step)
    PROVE  ScanType' /\ ScanMoves(s, step)
<1>. DEFINE q == [scan[s] EXCEPT !.step = step]
<1>1. /\ scan \in [Scans -> Scan \cup {Idle}] /\ scan[s] \in Scan
      /\ scan' = [scan EXCEPT ![s] = q]
  BY DEF ScanType, ScanGoto
<1>2. q \in Scan /\ q.step = step /\ q.id = scan[s].id
  BY <1>1 DEF Scan
<1>3. scan'[s] = q /\ \A t \in Scans \ {s} : scan'[t] = scan[t]
  BY <1>1
<1>4. q # Idle /\ q.id # None
  BY <1>2, ScanIsTyped, MarkAssumption
<1>. HIDE DEF q
<1>5. scan' \in [Scans -> Scan \cup {Idle}]
  BY <1>1, <1>2
<1>. QED BY <1>2, <1>3, <1>4, <1>5 DEF ScanType, ScanMoves

-----------------------------------------------------------------------------
(* When the invariant is kept. *)

\* What was relied on stays true while VMs keep their owners and get no CDs,
\* and a config ISO goes only where the CDs are off.
LEMMA GroundedKept ==
    ASSUME IInv, TypeOK', Kept, removed' = removed,
           \A d \in Deploys :
              \/ deploy'[d].step = deploy[d].step /\ deploy'[d].id = deploy[d].id
              \/ deploy'[d].step \in {"nextid", "upload", "end"}
              \/ ~removed => DeployGrounded(d)',
           \A s \in Scans : scan'[s] = scan[s] \/ (~removed => ScanGrounded(s)'),
           \A v \in Vmids : \/ iso'[v] = None => iso[v] = None
                            \/ ~removed => Exists(v) /\ ~vm[v].cds
    PROVE  Grounded' /\ IsoOutlivesCds'
<1>1. ASSUME ~removed, NEW v \in Vmids, Exists(v), vm'[v].cds
      PROVE  iso'[v] # None
  BY <1>1 DEF IInv, IsoOutlivesCds, Kept
<1>2. ASSUME ~removed, NEW d \in Deploys,
             deploy'[d].step = deploy[d].step, deploy'[d].id = deploy[d].id
      PROVE  DeployGrounded(d)'
  <2>1. DeployGrounded(d)
    BY <1>2 DEF IInv, Grounded
  <2>2. deploy[d].step \notin {"nextid", "end"} => deploy[d].id \in Vmids
    BY DeployIsTyped DEF IInv, TypeOK, DeployType
  <2>. QED BY <1>2, <2>1, <2>2 DEF DeployGrounded, Kept, At, Stripped, FinalStep
<1>3. ASSUME ~removed, NEW s \in Scans, scan'[s] = scan[s]
      PROVE  ScanGrounded(s)'
  <2>1. ScanGrounded(s)
    BY <1>3 DEF IInv, Grounded
  <2>2. scan[s] # Idle /\ scan[s].step # "next" => scan[s].id \in Vmids
    BY ScanIsTyped DEF IInv, TypeOK, ScanType
  <2>. QED BY <1>3, <2>1, <2>2 DEF ScanGrounded, Kept, Stripped
<1>4. ASSUME NEW d \in Deploys, deploy'[d].step \in {"nextid", "upload", "end"}
      PROVE  DeployGrounded(d)'
  BY <1>4 DEF DeployGrounded, At, FinalStep, Stripped
<1>. QED BY <1>1, <1>2, <1>3, <1>4 DEF Grounded, IsoOutlivesCds, Kept

\* The count stands still as long as VMs do, and nobody comes to owe a start.
LEMMA RunsCountedKept ==
    ASSUME IInv, Kept, CountKept, removed' = removed,
           \A d \in Deploys : deploy'[d].step = "start" =>
              deploy[d].step = "start" /\ deploy'[d].id = deploy[d].id
    PROVE  RunsCounted'
<1>1. SUFFICES ASSUME ~removed, NEW v \in Vmids, Exists(v)
               PROVE  Counted(v)'
  BY DEF RunsCounted, Kept
<1>2. Counted(v) /\ vm[v].owner \in Deploys
  BY <1>1, VmIsTyped DEF IInv, RunsCounted, TypeOK, VmType, VM
<1>3. Unstarted(v)' => Unstarted(v)
  BY <1>1, <1>2 DEF Unstarted, At, Kept
<1>. QED BY <1>1, <1>2, <1>3 DEF Counted, CountKept

-----------------------------------------------------------------------------
(* Proxmox and its users. *)

LEMMA AppliedIInv ==
    ASSUME IInv, NEW v \in Vmids, Applied(v)
    PROVE  IInv'
<1>. DEFINE n == vm[v].applied + 1
            m == [vm[v] EXCEPT !.power = "off", !.disk = vm[v].conf, !.applied = n]
<1>1. /\ TypeOK /\ Exists(v) /\ vm[v].power = "winpe" /\ vm' = [vm EXCEPT ![v] = m]
      /\ UNCHANGED <<iso, deploy, scan, counters>>
  BY DEF Applied, IInv, TypeOK
<1>2. vm \in [Vmids -> VM \cup {NoVm}] /\ vm[v] \in VM /\ n \in Nat
  BY <1>1 DEF TypeOK, Exists, VM
<1>. HIDE DEF n
<1>3. /\ m \in VM /\ m.owner = vm[v].owner /\ m.cds = vm[v].cds
      /\ m.applied = n /\ m.byHand = vm[v].byHand /\ m.power = "off"
  BY <1>2 DEF VM
<1>4. vm'[v] = m /\ \A w \in Vmids \ {v} : vm'[w] = vm[w]
  BY <1>1, <1>2
<1>. HIDE DEF m
<1>5. Kept
  BY <1>1, <1>3, <1>4, MarkAssumption DEF Kept, Exists
<1>6. TypeOK'
  BY <1>1, <1>2, <1>3 DEF TypeOK, counters
<1>7. Grounded' /\ IsoOutlivesCds'
  BY <1>1, <1>5, <1>6, GroundedKept DEF counters
<1>8. RunsCounted'
  <2>1. SUFFICES ASSUME ~removed, NEW w \in Vmids, Exists(w)
                 PROVE  Counted(w)'
    BY <1>1, <1>5 DEF RunsCounted, Kept, counters
  <2>2. Counted(w) /\ (Unstarted(w)' => Unstarted(w))
    BY <1>1, <1>5, <2>1 DEF IInv, RunsCounted, Unstarted, At, Kept
  <2>3. CASE w # v
    BY <1>4, <2>2, <2>3 DEF Counted
  <2>4. CASE w = v
    <3>1. vm[v].applied \in Nat /\ vm[v].byHand \in Nat
      BY <1>2 DEF VM
    <3>. QED BY <1>1, <1>3, <1>4, <2>2, <2>4, <3>1 DEF Counted, n
  <2>. QED BY <2>3, <2>4
<1>. QED BY <1>6, <1>7, <1>8 DEF IInv

\* A start makes a run of WinPE only where the CDs are on, and then only one
\* that a user began, or that was owed.
LEMMA PowerOnCounted ==
    ASSUME IInv, NEW v \in Vmids, Exists(v), vm[v].power # "winpe",
           NEW hand \in {0, 1}, PowerOn(v, hand), removed' = removed,
           \/ hand = 1 /\ UNCHANGED deploy
           \/ hand = 0 /\ (~removed => ~vm[v].cds /\ vm[v].owner \in Deploys)
                /\ \A d \in Deploys : deploy'[d].step = "start" =>
                     deploy[d].step = "start" /\ deploy'[d].id = deploy[d].id
           \/ hand = 0 /\ (~removed => Unstarted(v)) /\ Moves(vm[v].owner, "watch")
                /\ vm[v].owner \in Deploys
    PROVE  RunsCounted'
<1>1. /\ Kept
      /\ \A w \in Vmids \ {v} : vm'[w] = vm[w]
      /\ vm'[v].applied = vm[v].applied
      /\ vm'[v].byHand = vm[v].byHand + hand
      /\ vm'[v].power = "winpe" => vm[v].cds
  BY PowerOnEffect DEF IInv
<1>2. SUFFICES ASSUME ~removed, NEW w \in Vmids, Exists(w)
               PROVE  Counted(w)'
  BY <1>1 DEF RunsCounted, Kept
<1>3. /\ Counted(w) /\ vm[w].owner \in Deploys
      /\ vm[w].applied \in Nat /\ vm[w].byHand \in Nat
      /\ vm'[w].owner = vm[w].owner
  BY <1>1, <1>2, VmIsTyped DEF IInv, RunsCounted, TypeOK, VmType, VM, Kept
<1>4. Unstarted(w)' => Unstarted(w)
  BY <1>2, <1>3 DEF Unstarted, At, Moves
<1>5. CASE w # v
  BY <1>1, <1>3, <1>4, <1>5 DEF Counted
<1>6. CASE w = v /\ hand = 1
  BY <1>1, <1>3, <1>4, <1>6 DEF Counted
<1>7. CASE w = v /\ hand = 0 /\ ~vm[v].cds
  BY <1>1, <1>2, <1>3, <1>4, <1>7 DEF Counted
<1>8. CASE w = v /\ hand = 0 /\ Unstarted(v) /\ Moves(vm[v].owner, "watch")
  <2>1. ~Unstarted(w)'
    BY <1>3, <1>8 DEF Unstarted, At, Moves
  <2>. QED BY <1>1, <1>3, <1>8, <2>1 DEF Counted
<1>. QED BY <1>2, <1>5, <1>6, <1>7, <1>8

LEMMA UserStartIInv ==
    ASSUME IInv, NEW v \in Vmids, UserStart(v)
    PROVE  IInv'
<1>1. /\ TypeOK /\ Exists(v) /\ vm[v].power = "off" /\ PowerOn(v, 1)
      /\ user' = user + 1 /\ UNCHANGED <<iso, deploy, scan, mishaps, removed>>
  BY DEF UserStart, Startable, Off, IInv
<1>2. VmType' /\ Kept
  BY <1>1, PowerOnEffect
<1>3. TypeOK'
  BY <1>1, <1>2 DEF TypeOK, VmType
<1>4. Grounded' /\ IsoOutlivesCds'
  BY <1>1, <1>2, <1>3, GroundedKept
<1>5. RunsCounted'
  BY <1>1, PowerOnCounted
<1>. QED BY <1>3, <1>4, <1>5 DEF IInv

LEMMA UserStopIInv ==
    ASSUME IInv, NEW v \in Vmids, UserStop(v)
    PROVE  IInv'
<1>. DEFINE m == [vm[v] EXCEPT !.power = "off"]
<1>1. /\ TypeOK /\ Exists(v) /\ vm' = [vm EXCEPT ![v] = m]
      /\ user' = user + 1 /\ UNCHANGED <<iso, deploy, scan, mishaps, removed>>
  BY DEF UserStop, IInv
<1>2. vm \in [Vmids -> VM \cup {NoVm}] /\ vm[v] \in VM
  BY <1>1 DEF TypeOK, Exists
<1>3. /\ m \in VM /\ m.owner = vm[v].owner /\ m.cds = vm[v].cds
      /\ m.applied = vm[v].applied /\ m.byHand = vm[v].byHand /\ m.power = "off"
  BY <1>2 DEF VM
<1>4. vm'[v] = m /\ \A w \in Vmids \ {v} : vm'[w] = vm[w]
  BY <1>1, <1>2
<1>. HIDE DEF m
<1>5. Kept /\ CountKept
  BY <1>1, <1>3, <1>4, MarkAssumption DEF Kept, CountKept, Exists
<1>6. TypeOK'
  BY <1>1, <1>2, <1>3 DEF TypeOK
<1>7. Grounded' /\ IsoOutlivesCds'
  BY <1>1, <1>5, <1>6, GroundedKept
<1>8. RunsCounted'
  BY <1>1, <1>5, RunsCountedKept
<1>. QED BY <1>6, <1>7, <1>8 DEF IInv

\* From a removal on, the invariant says no more than the types.
LEMMA UserRemoveIInv ==
    ASSUME IInv, NEW v \in Vmids, UserRemove(v)
    PROVE  IInv'
<1>1. TypeOK' /\ removed'
  BY DEF UserRemove, IInv, TypeOK
<1>. QED BY <1>1 DEF IInv, Grounded, RunsCounted, IsoOutlivesCds

-----------------------------------------------------------------------------
(* A deploy. *)

\* Steps at which nothing is relied on, or the same as before.
LEMMA DeployOnIInv ==
    ASSUME IInv, NEW d \in Deploys,
           NEW step \in {"create", "start", "watch", "end"} \cup FinalStep,
           deploy[d].step \notin {"nextid", "end"} \/ step = "end",
           step # "start", Goto(d, step),
           VmType', Kept, CountKept, iso' \in [Vmids -> Deploys \cup {None}],
           UNCHANGED <<scan, user, removed>>, mishaps' \in Nat,
           step = "end" \/ (~removed => DeployGrounded(d)'),
           \A v \in Vmids : \/ iso'[v] = None => iso[v] = None
                            \/ ~removed => Exists(v) /\ ~vm[v].cds
    PROVE  IInv'
<1>1. DeployType' /\ Moves(d, step)
  BY GotoEffect DEF IInv, TypeOK, DeployType
<1>2. TypeOK'
  BY <1>1 DEF IInv, TypeOK, DeployType, VmType
<1>3. Grounded' /\ IsoOutlivesCds'
  BY <1>1, <1>2, GroundedKept DEF Moves
<1>4. RunsCounted'
  BY <1>1, RunsCountedKept DEF Moves
<1>. QED BY <1>2, <1>3, <1>4 DEF IInv

LEMMA NextIdIInv ==
    ASSUME IInv, NEW d \in Deploys, NextId(d)
    PROVE  IInv'
<1>1. PICK v \in Vmids :
        /\ deploy' = [deploy EXCEPT ![d] = [step |-> "upload", id |-> v, saw |-> FALSE]]
        /\ UNCHANGED <<vm, iso, scan, counters>>
  BY DEF NextId
<1>2. [step |-> "upload", id |-> v, saw |-> FALSE] \in Deploy /\ v # None
  BY MarkAssumption DEF Deploy
<1>3. /\ deploy \in [Deploys -> Deploy] /\ deploy'[d].step = "upload" /\ deploy'[d].id = v
      /\ \A e \in Deploys \ {d} : deploy'[e] = deploy[e]
  BY <1>1 DEF IInv, TypeOK
<1>4. TypeOK'
  BY <1>1, <1>2, <1>3 DEF IInv, TypeOK, counters
<1>5. Kept /\ CountKept
  BY <1>1, UnchangedVm DEF IInv
<1>6. Grounded' /\ IsoOutlivesCds'
  BY <1>1, <1>3, <1>4, <1>5, GroundedKept DEF counters
<1>7. RunsCounted'
  BY <1>1, <1>3, <1>5, RunsCountedKept DEF counters
<1>. QED BY <1>4, <1>6, <1>7 DEF IInv

LEMMA UploadIInv ==
    ASSUME IInv, NEW d \in Deploys, Upload(d)
    PROVE  IInv'
<1>. DEFINE v == deploy[d].id
<1>1. /\ deploy[d].step = "upload" /\ iso' = [iso EXCEPT ![v] = d]
      /\ Goto(d, "create") /\ UNCHANGED <<vm, scan, counters>>
  BY DEF Upload, At
<1>2. v \in Vmids /\ iso \in [Vmids -> Deploys \cup {None}]
  BY <1>1, DeployIsTyped DEF IInv, TypeOK, DeployType
<1>3. VmType' /\ Kept /\ CountKept
  BY <1>1, UnchangedVm DEF IInv
<1>4. Moves(d, "create")
  BY <1>1, GotoEffect DEF IInv, TypeOK, DeployType
<1>5. DeployGrounded(d)'
  BY <1>1, <1>2, <1>4, MarkAssumption DEF DeployGrounded, Moves, At, FinalStep, Stripped
<1>6. \A w \in Vmids : iso'[w] = None => iso[w] = None
  BY <1>1, <1>2, MarkAssumption
<1>7. iso' \in [Vmids -> Deploys \cup {None}] /\ mishaps' \in Nat
      /\ UNCHANGED <<user, removed>>
  BY <1>1, <1>2 DEF IInv, TypeOK, counters
<1>. QED BY <1>1, <1>3, <1>5, <1>6, <1>7, DeployOnIInv

\* The one step that brings a VM, and a start that is owed, into being.
LEMMA CreateVmIInv ==
    ASSUME IInv, NEW d \in Deploys, CreateVm(d)
    PROVE  IInv'
<1>. DEFINE v == deploy[d].id
            m == [owner |-> d, power |-> "off", cds |-> TRUE,
                  diskFirst |-> FALSE, disk |-> None, conf |-> None,
                  applied |-> 0, byHand |-> 0]
<1>1. /\ TypeOK /\ deploy[d].step = "create" /\ v \in Vmids
      /\ UNCHANGED <<iso, scan, counters>>
  BY DeployIsTyped DEF CreateVm, At, IInv, TypeOK, DeployType
<1>2. CASE Exists(v) /\ Goto(d, "end") /\ UNCHANGED vm
  <2>1. VmType' /\ Kept /\ CountKept
    BY <1>1, <1>2, UnchangedVm
  <2>2. /\ iso' \in [Vmids -> Deploys \cup {None}] /\ mishaps' \in Nat
        /\ UNCHANGED <<user, removed>>
    BY <1>1 DEF TypeOK, counters
  <2>. QED BY <1>1, <1>2, <2>1, <2>2, DeployOnIInv
<1>3. CASE ~Exists(v) /\ vm' = [vm EXCEPT ![v] = m] /\ Goto(d, "start")
  <2>1. m \in VM /\ vm \in [Vmids -> VM \cup {NoVm}]
    BY <1>1 DEF VM, TypeOK
  <2>2. m.owner = d /\ m.power = "off" /\ m.applied = 0 /\ m.byHand = 0
    OBVIOUS
  <2>. HIDE DEF m
  <2>3. /\ vm'[v] = m /\ m # NoVm
        /\ \A w \in Vmids \ {v} : vm'[w] = vm[w]
    BY <1>1, <1>3, <2>1, MarkAssumption DEF Exists
  <2>4. DeployType' /\ Moves(d, "start")
    BY <1>1, <1>3, GotoEffect DEF TypeOK, DeployType
  <2>5. TypeOK'
    BY <1>1, <1>3, <2>1, <2>4 DEF TypeOK, DeployType, counters
  <2>6. ASSUME ~removed, NEW e \in Deploys
        PROVE  DeployGrounded(e)'
    <3>1. CASE e = d
      BY <1>1, <2>2, <2>3, <2>4, <3>1
      DEF DeployGrounded, Moves, At, FinalStep, Stripped, Exists
    <3>2. CASE e # d
      <4>1. DeployGrounded(e) /\ deploy'[e] = deploy[e]
        BY <2>4, <2>6, <3>2 DEF IInv, Grounded, Moves
      <4>2. deploy[e].step \notin {"nextid", "end"} => deploy[e].id \in Vmids
        BY <1>1, DeployIsTyped DEF TypeOK, DeployType
      <4>3. CASE deploy[e].id = v
        BY <1>1, <1>3, <2>3, <4>1, <4>3
        DEF DeployGrounded, At, FinalStep, Stripped, Exists
      <4>4. CASE deploy[e].id # v
        BY <1>1, <2>3, <4>1, <4>2, <4>4
        DEF DeployGrounded, At, FinalStep, Stripped, Exists
      <4>. QED BY <4>3, <4>4
    <3>. QED BY <3>1, <3>2
  <2>7. ASSUME ~removed, NEW s \in Scans
        PROVE  ScanGrounded(s)'
    <3>1. ScanGrounded(s) /\ (scan[s] # Idle /\ scan[s].step # "next"
                                => scan[s].id \in Vmids)
      BY <1>1, <2>7, ScanIsTyped DEF IInv, Grounded, TypeOK, ScanType
    <3>2. CASE scan[s] # Idle /\ scan[s].step # "next"
      <4>1. scan[s].id \in Vmids \ {v}
        BY <1>3, <3>1, <3>2 DEF ScanGrounded
      <4>. QED BY <1>1, <2>3, <3>1, <4>1 DEF ScanGrounded, Exists
    <3>3. CASE scan[s] = Idle \/ scan[s].step = "next"
      BY <1>1, <3>3 DEF ScanGrounded, Stripped
    <3>. QED BY <3>2, <3>3
  <2>8. IsoOutlivesCds'
    <3>1. ~removed => iso[v] # None
      BY <1>1, <1>3 DEF IInv, Grounded, DeployGrounded, At
    <3>. QED BY <1>1, <2>3, <3>1 DEF IInv, IsoOutlivesCds, counters, Exists
  <2>9. ASSUME ~removed, NEW w \in Vmids, Exists(w)'
        PROVE  Counted(w)'
    <3>1. CASE w = v
      BY <2>2, <2>3, <3>1 DEF Counted
    <3>2. CASE w # v
      <4>1. Counted(w) /\ vm'[w] = vm[w] /\ vm[w].owner \in Deploys
        BY <1>1, <2>3, <2>9, <3>2, VmIsTyped
        DEF IInv, RunsCounted, TypeOK, VmType, Exists, VM
      <4>2. Unstarted(w)' => Unstarted(w)
        BY <2>4, <3>2, <4>1 DEF Unstarted, At, Moves
      <4>. QED BY <4>1, <4>2 DEF Counted
    <3>. QED BY <3>1, <3>2
  <2>. QED BY <1>1, <2>5, <2>6, <2>7, <2>8, <2>9 DEF IInv, Grounded, RunsCounted, counters
<1>. QED BY <1>2, <1>3 DEF CreateVm

LEMMA StartVmIInv ==
    ASSUME IInv, NEW d \in Deploys, StartVm(d)
    PROVE  IInv'
<1>. DEFINE v == deploy[d].id
<1>1. /\ TypeOK /\ deploy[d].step = "start" /\ v \in Vmids
      /\ UNCHANGED <<iso, scan, counters>>
  BY DeployIsTyped DEF StartVm, At, IInv, TypeOK, DeployType
<1>2. /\ iso' \in [Vmids -> Deploys \cup {None}] /\ mishaps' \in Nat
      /\ UNCHANGED <<user, removed>>
  BY <1>1 DEF TypeOK, counters
<1>3. CASE Goto(d, "end") /\ UNCHANGED vm
  <2>1. VmType' /\ Kept /\ CountKept
    BY <1>1, <1>3, UnchangedVm
  <2>. QED BY <1>1, <1>2, <1>3, <2>1, DeployOnIInv
<1>4. CASE Startable(v) /\ PowerOn(v, 0) /\ Goto(d, "watch")
  <2>1. Exists(v) /\ vm[v].power = "off"
    BY <1>4 DEF Startable, Off
  <2>2. VmType' /\ Kept
    BY <1>1, <1>4, <2>1, PowerOnEffect
  <2>3. DeployType' /\ Moves(d, "watch")
    BY <1>1, <1>4, GotoEffect DEF TypeOK, DeployType
  <2>4. TypeOK'
    BY <1>1, <2>2, <2>3 DEF TypeOK, VmType, DeployType, counters
  <2>5. ~removed => vm[v].owner = d
    BY <1>1 DEF IInv, Grounded, DeployGrounded
  <2>6. ~removed => DeployGrounded(d)'
    BY <1>1, <2>1, <2>2, <2>3, <2>5
    DEF DeployGrounded, Moves, Kept, At, FinalStep, Stripped
  <2>7. Grounded' /\ IsoOutlivesCds'
    BY <1>1, <1>2, <2>2, <2>3, <2>4, <2>6, GroundedKept DEF Moves
  <2>8. RunsCounted'
    <3>1. CASE removed
      BY <1>2, <3>1 DEF RunsCounted
    <3>2. CASE ~removed
      <4>1. vm[v].owner = d /\ Unstarted(v)
        BY <1>1, <2>5, <3>2 DEF Unstarted, At
      <4>. QED BY <1>1, <1>2, <1>4, <2>1, <2>3, <4>1, PowerOnCounted
    <3>. QED BY <3>1, <3>2
  <2>. QED BY <2>4, <2>7, <2>8 DEF IInv
<1>. QED BY <1>3, <1>4 DEF StartVm

LEMMA WatchIInv ==
    ASSUME IInv, NEW d \in Deploys, WatchPoll(d) \/ WatchExpires(d)
    PROVE  IInv'
<1>. DEFINE v == deploy[d].id
<1>1. /\ TypeOK /\ deploy[d].step = "watch" /\ v \in Vmids
      /\ UNCHANGED <<vm, iso, scan, counters>>
      /\ iso' \in [Vmids -> Deploys \cup {None}] /\ mishaps' \in Nat
      /\ UNCHANGED <<user, removed>>
  BY DeployIsTyped DEF WatchPoll, WatchExpires, At, IInv, TypeOK, DeployType, counters
<1>2. VmType' /\ Kept /\ CountKept
  BY <1>1, UnchangedVm
<1>3. CASE Goto(d, "end")
  BY <1>1, <1>2, <1>3, DeployOnIInv
<1>4. CASE Goto(d, "strip")
  <2>1. Moves(d, "strip")
    BY <1>1, <1>4, GotoEffect DEF TypeOK, DeployType, FinalStep
  <2>2. ~removed => DeployGrounded(d)'
    BY <1>1, <1>2, <2>1
    DEF IInv, Grounded, DeployGrounded, Moves, Kept, At, FinalStep, Stripped
  <2>. QED BY <1>1, <1>2, <1>4, <2>2, DeployOnIInv DEF FinalStep
<1>5. CASE deploy' = [deploy EXCEPT ![d].saw = TRUE]
  <2>1. /\ deploy \in [Deploys -> Deploy] /\ deploy[d] \in Deploy
        /\ [deploy[d] EXCEPT !.saw = TRUE] \in Deploy
    BY <1>1 DEF TypeOK, Deploy
  <2>2. DeployType' /\ Moves(d, "watch")
    BY <1>1, <1>5, <2>1 DEF TypeOK, DeployType, Moves, Deploy
  <2>3. TypeOK'
    BY <1>1, <2>2 DEF TypeOK, DeployType, counters
  <2>4. Grounded' /\ IsoOutlivesCds'
    BY <1>1, <1>2, <2>2, <2>3, GroundedKept DEF Moves
  <2>5. RunsCounted'
    BY <1>1, <1>2, <2>2, RunsCountedKept DEF Moves
  <2>. QED BY <2>3, <2>4, <2>5 DEF IInv
<1>. QED BY <1>3, <1>4, <1>5 DEF WatchPoll, WatchExpires

\* A finalize has its VM before it, and does not put the CDs back.
LEMMA FinalizeIInv ==
    ASSUME IInv, NEW d \in Deploys, FinalizeStrip(d) \/ FinalizeOrder(d)
    PROVE  IInv'
<1>1. PICK v \in Vmids : v = deploy[d].id
  BY DeployIsTyped DEF FinalizeStrip, FinalizeOrder, At, IInv, TypeOK, DeployType
<1>2. /\ TypeOK /\ deploy[d].step \in {"strip", "order"}
      /\ UNCHANGED <<iso, scan, counters>>
      /\ iso' \in [Vmids -> Deploys \cup {None}] /\ mishaps' \in Nat
      /\ UNCHANGED <<user, removed>>
  BY DEF FinalizeStrip, FinalizeOrder, At, IInv, TypeOK, counters
<1>3. CASE Goto(d, "end") /\ UNCHANGED vm
  BY <1>2, <1>3, UnchangedVm, DeployOnIInv
<1>4. CASE Exists(v) /\ Strip(v) /\ Goto(d, "order")
  <2>1. VmType' /\ Kept /\ CountKept /\ ~vm'[v].cds
    BY <1>2, <1>4, StripEffect
  <2>2. Moves(d, "order")
    BY <1>2, <1>4, GotoEffect DEF TypeOK, DeployType, FinalStep
  <2>3. ~removed => DeployGrounded(d)'
    BY <1>1, <1>2, <2>1, <2>2
    DEF IInv, Grounded, DeployGrounded, Moves, Kept, At, FinalStep, Stripped
  <2>. QED BY <1>2, <1>4, <2>1, <2>3, DeployOnIInv DEF FinalStep
<1>5. CASE At(d, "order") /\ Exists(v) /\ Order(v) /\ Goto(d, "clean")
  <2>1. VmType' /\ Kept /\ CountKept
    BY <1>2, <1>5, OrderEffect
  <2>2. Moves(d, "clean")
    BY <1>2, <1>5, GotoEffect DEF TypeOK, DeployType, FinalStep
  <2>3. ~removed => DeployGrounded(d)'
    BY <1>1, <1>2, <1>5, <2>1, <2>2
    DEF IInv, Grounded, DeployGrounded, Moves, Kept, At, FinalStep, Stripped
  <2>. QED BY <1>2, <1>5, <2>1, <2>3, DeployOnIInv DEF FinalStep
<1>. QED BY <1>1, <1>3, <1>4, <1>5 DEF FinalizeStrip, FinalizeOrder

LEMMA FinalizeCleanIInv ==
    ASSUME IInv, NEW d \in Deploys, FinalizeClean(d)
    PROVE  IInv'
<1>1. PICK v \in Vmids : v = deploy[d].id
  BY DeployIsTyped DEF FinalizeClean, At, IInv, TypeOK, DeployType
<1>2. /\ TypeOK /\ deploy[d].step = "clean" /\ Goto(d, "boot")
      /\ UNCHANGED <<vm, scan, user, removed>>
      /\ iso' = iso \/ iso' = [iso EXCEPT ![v] = None]
      /\ mishaps' \in Nat
  BY <1>1 DEF FinalizeClean, At, IInv, TypeOK
<1>3. VmType' /\ Kept /\ CountKept
  BY <1>2, UnchangedVm
<1>4. Moves(d, "boot")
  BY <1>2, GotoEffect DEF TypeOK, DeployType, FinalStep
<1>5. ~removed => DeployGrounded(d)'
  BY <1>1, <1>2, <1>3, <1>4
  DEF IInv, Grounded, DeployGrounded, Moves, Kept, At, FinalStep, Stripped
<1>6. ~removed => Exists(v) /\ ~vm[v].cds
  BY <1>1, <1>2 DEF IInv, Grounded, DeployGrounded, FinalStep, Stripped
<1>7. /\ iso' \in [Vmids -> Deploys \cup {None}]
      /\ \A w \in Vmids : (iso'[w] = None => iso[w] = None) \/ w = v
  BY <1>2 DEF TypeOK
<1>. QED BY <1>2, <1>3, <1>5, <1>6, <1>7, DeployOnIInv DEF FinalStep

LEMMA FinalizeBootIInv ==
    ASSUME IInv, NEW d \in Deploys, FinalizeBoot(d)
    PROVE  IInv'
<1>1. PICK v \in Vmids : v = deploy[d].id
  BY DeployIsTyped DEF FinalizeBoot, At, IInv, TypeOK, DeployType
<1>2. /\ TypeOK /\ deploy[d].step = "boot" /\ Goto(d, "end")
      /\ UNCHANGED <<iso, scan, counters>>
      /\ iso' \in [Vmids -> Deploys \cup {None}] /\ mishaps' \in Nat
      /\ UNCHANGED <<user, removed>>
  BY DEF FinalizeBoot, At, IInv, TypeOK, counters
<1>3. CASE UNCHANGED vm
  BY <1>2, <1>3, UnchangedVm, DeployOnIInv
<1>4. CASE Startable(v) /\ PowerOn(v, 0)
  <2>1. Exists(v) /\ vm[v].power = "off"
    BY <1>4 DEF Startable, Off
  <2>2. VmType' /\ Kept
    BY <1>2, <1>4, <2>1, PowerOnEffect
  <2>3. DeployType' /\ Moves(d, "end")
    BY <1>2, GotoEffect DEF TypeOK, DeployType
  <2>4. TypeOK'
    BY <1>2, <2>2, <2>3 DEF TypeOK, VmType, DeployType, counters
  <2>5. Grounded' /\ IsoOutlivesCds'
    BY <1>2, <2>2, <2>3, <2>4, GroundedKept DEF Moves
  <2>6. ~removed => ~vm[v].cds
    BY <1>1, <1>2 DEF IInv, Grounded, DeployGrounded, Stripped
  <2>7. vm[v].owner \in Deploys
    BY <1>2, <2>1, VmIsTyped DEF TypeOK, VmType, VM
  <2>8. RunsCounted'
    BY <1>2, <1>4, <2>1, <2>3, <2>6, <2>7, PowerOnCounted DEF Moves
  <2>. QED BY <2>4, <2>5, <2>8 DEF IInv
<1>. QED BY <1>1, <1>3, <1>4 DEF FinalizeBoot

LEMMA DeployFailsIInv ==
    ASSUME IInv, NEW d \in Deploys, DeployFails(d)
    PROVE  IInv'
<1>1. /\ TypeOK /\ Goto(d, "end") /\ UNCHANGED <<vm, iso, scan, user, removed>>
      /\ iso' \in [Vmids -> Deploys \cup {None}] /\ mishaps' \in Nat
  BY DEF DeployFails, IInv, TypeOK
<1>. QED BY <1>1, UnchangedVm, DeployOnIInv

-----------------------------------------------------------------------------
(* A scan. *)

\* A scan goes on, with what it now relies on.
LEMMA ScanOnIInv ==
    ASSUME IInv, NEW s \in Scans, ScanType',
           \A t \in Scans \ {s} : scan'[t] = scan[t],
           ~removed => ScanGrounded(s)',
           VmType', Kept, CountKept, iso' \in [Vmids -> Deploys \cup {None}],
           UNCHANGED <<deploy, user, removed>>, mishaps' \in Nat,
           \A v \in Vmids : \/ iso'[v] = None => iso[v] = None
                            \/ ~removed => Exists(v) /\ ~vm[v].cds
    PROVE  IInv'
<1>1. TypeOK'
  BY DEF IInv, TypeOK, ScanType, VmType
<1>2. Grounded' /\ IsoOutlivesCds'
  BY <1>1, GroundedKept
<1>3. RunsCounted'
  BY RunsCountedKept
<1>. QED BY <1>1, <1>2, <1>3 DEF IInv

\* From one VM to the next, nothing is touched.
LEMMA ScanNextIInv ==
    ASSUME IInv, NEW s \in Scans, ScanBegin(s) \/ ScanConfig(s) \/ ScanEnd(s)
    PROVE  IInv'
<1>1. /\ TypeOK /\ UNCHANGED <<vm, iso, deploy, counters>>
      /\ iso' \in [Vmids -> Deploys \cup {None}] /\ mishaps' \in Nat
      /\ UNCHANGED <<user, removed>>
      /\ scan \in [Scans -> Scan \cup {Idle}]
  BY DEF ScanBegin, ScanConfig, ScanEnd, IInv, TypeOK, counters
<1>2. VmType' /\ Kept /\ CountKept
  BY <1>1, UnchangedVm
<1>3. CASE ScanBegin(s)
  <2>1. [step |-> "next", id |-> None, todo |-> {v \in Vmids : Exists(v)}] \in Scan
    BY DEF Scan
  <2>2. ScanType' /\ scan'[s].step = "next" /\ \A t \in Scans \ {s} : scan'[t] = scan[t]
    BY <1>1, <1>3, <2>1 DEF ScanBegin, ScanType, TypeOK
  <2>3. ScanGrounded(s)'
    BY <2>2 DEF ScanGrounded, Stripped
  <2>. QED BY <1>1, <1>2, <2>2, <2>3, ScanOnIInv
<1>4. CASE ScanConfig(s)
  <2>1. scan[s] \in Scan
    BY <1>4, ScanIsTyped DEF ScanConfig, ScanAt, IInv, TypeOK, ScanType
  <2>2. PICK v \in scan[s].todo :
          scan' = [scan EXCEPT ![s] =
                    [step |-> IF Exists(v) /\ vm[v].cds THEN "status" ELSE "next",
                     id |-> v, todo |-> scan[s].todo \ {v}]]
    BY <1>4 DEF ScanConfig
  <2>. DEFINE step == IF Exists(v) /\ vm[v].cds THEN "status" ELSE "next"
              q == [step |-> step, id |-> v, todo |-> scan[s].todo \ {v}]
  <2>3. v \in Vmids /\ v # None
    BY <2>1, MarkAssumption DEF Scan
  <2>4. q \in Scan /\ q.step = step /\ q.id = v /\ q # Idle
    BY <2>1, <2>3, MarkAssumption DEF Scan
  <2>5. scan'[s] = q /\ \A t \in Scans \ {s} : scan'[t] = scan[t]
    BY <1>1, <2>2
  <2>. HIDE DEF q
  <2>6. ScanType'
    <3>1. scan' = [scan EXCEPT ![s] = q]
      BY <2>2 DEF q
    <3>. QED BY <1>1, <2>3, <2>4, <2>5, <3>1 DEF ScanType, TypeOK
  <2>7. ScanGrounded(s)'
    BY <1>1, <2>4, <2>5 DEF ScanGrounded, Stripped, Exists
  <2>. QED BY <1>1, <1>2, <2>5, <2>6, <2>7, ScanOnIInv
<1>5. CASE ScanEnd(s)
  <2>1. ScanType' /\ scan'[s] = Idle /\ \A t \in Scans \ {s} : scan'[t] = scan[t]
    BY <1>1, <1>5 DEF ScanEnd, ScanType, TypeOK
  <2>2. ScanGrounded(s)'
    BY <2>1 DEF ScanGrounded
  <2>. QED BY <1>1, <1>2, <2>1, <2>2, ScanOnIInv
<1>. QED BY <1>3, <1>4, <1>5

\* What a step of a scan at a VM starts from.
LEMMA ScanThere ==
    ASSUME IInv, NEW s \in Scans, scan[s] # Idle, scan[s].step # "next",
           NEW step \in {"next", "status"} \cup FinalStep, ScanGoto(s, step)
    PROVE  /\ scan[s].id \in Vmids /\ (~removed => ScanGrounded(s))
           /\ ScanType' /\ ScanMoves(s, step)
           /\ \A t \in Scans \ {s} : scan'[t] = scan[t]
           /\ step = "next" => ScanGrounded(s)'
<1>1. scan[s].id \in Vmids /\ ScanType' /\ ScanMoves(s, step)
  BY ScanIsTyped, ScanGotoEffect DEF IInv, TypeOK, ScanType
<1>. QED BY <1>1 DEF IInv, Grounded, ScanGrounded, ScanMoves, Stripped

LEMMA ScanStepIInv ==
    ASSUME IInv, NEW s \in Scans,
           ScanStatus(s) \/ ScanStrip(s) \/ ScanOrder(s) \/ ScanClean(s)
    PROVE  IInv'
<1>1. /\ TypeOK /\ scan[s] # Idle /\ scan[s].step # "next"
      /\ UNCHANGED <<deploy, user, removed>>
  BY DEF ScanStatus, ScanStrip, ScanOrder, ScanClean, ScanAt, IInv, counters
<1>2. PICK v : v = scan[s].id
  OBVIOUS
<1>3. CASE UNCHANGED <<vm, iso, mishaps>> /\ ScanGoto(s, "next")
  BY <1>1, <1>3, ScanThere, UnchangedVm, ScanOnIInv DEF TypeOK
<1>4. CASE Off(v) /\ UNCHANGED <<vm, iso, mishaps>> /\ ScanGoto(s, "strip")
  <2>1. ScanMoves(s, "strip") /\ Exists(v)
    BY <1>1, <1>4, ScanThere DEF FinalStep, Off
  <2>2. ScanGrounded(s)'
    BY <1>2, <1>4, <2>1 DEF ScanGrounded, ScanMoves, Stripped, Exists
  <2>. QED BY <1>1, <1>4, <2>2, ScanThere, UnchangedVm, ScanOnIInv DEF FinalStep, TypeOK
<1>5. CASE Exists(v) /\ Strip(v) /\ UNCHANGED <<iso, mishaps>> /\ ScanGoto(s, "order")
  <2>1. v \in Vmids /\ ScanMoves(s, "order")
    BY <1>1, <1>2, <1>5, ScanThere DEF FinalStep
  <2>2. VmType' /\ Kept /\ CountKept /\ ~vm'[v].cds
    BY <1>1, <1>5, <2>1, StripEffect
  <2>3. ScanGrounded(s)'
    BY <1>2, <1>5, <2>1, <2>2 DEF ScanGrounded, ScanMoves, Kept
  <2>. QED BY <1>1, <1>5, <2>2, <2>3, ScanThere, ScanOnIInv DEF FinalStep, TypeOK
<1>6. CASE /\ scan[s].step = "order"
           /\ Exists(v) /\ Order(v) /\ UNCHANGED <<iso, mishaps>> /\ ScanGoto(s, "clean")
  <2>1. v \in Vmids /\ ScanMoves(s, "clean") /\ (~removed => ScanGrounded(s))
    BY <1>1, <1>2, <1>6, ScanThere DEF FinalStep
  <2>2. VmType' /\ Kept /\ CountKept
    BY <1>1, <1>6, <2>1, OrderEffect
  <2>3. ~removed => ScanGrounded(s)'
    BY <1>1, <1>2, <1>6, <2>1, <2>2 DEF ScanGrounded, ScanMoves, Kept, Stripped
  <2>. QED BY <1>1, <1>6, <2>2, <2>3, ScanThere, ScanOnIInv DEF FinalStep, TypeOK
<1>7. CASE /\ scan[s].step = "clean" /\ UNCHANGED vm /\ ScanGoto(s, "boot")
           /\ iso' = iso \/ iso' = [iso EXCEPT ![v] = None]
           /\ mishaps' \in Nat
  <2>1. v \in Vmids /\ ScanMoves(s, "boot") /\ (~removed => ScanGrounded(s))
    BY <1>1, <1>2, <1>7, ScanThere DEF FinalStep
  <2>2. ~removed => Exists(v) /\ ~vm[v].cds
    BY <1>1, <1>2, <1>7, <2>1 DEF ScanGrounded, Stripped
  <2>3. ~removed => ScanGrounded(s)'
    BY <1>2, <1>7, <2>1, <2>2 DEF ScanGrounded, ScanMoves, Exists
  <2>4. /\ iso' \in [Vmids -> Deploys \cup {None}]
        /\ \A w \in Vmids : (iso'[w] = None => iso[w] = None) \/ w = v
    BY <1>1, <1>7 DEF TypeOK
  <2>5. \A w \in Vmids : \/ iso'[w] = None => iso[w] = None
                         \/ ~removed => Exists(w) /\ ~vm[w].cds
    BY <2>2, <2>4
  <2>6. ScanType' /\ \A t \in Scans \ {s} : scan'[t] = scan[t]
    BY <1>1, <1>7, ScanThere DEF FinalStep
  <2>7. VmType' /\ Kept /\ CountKept
    BY <1>1, <1>7, UnchangedVm
  <2>. QED BY <1>1, <1>7, <2>3, <2>4, <2>5, <2>6, <2>7, ScanOnIInv
<1>8. CASE ScanStatus(s)
  BY <1>2, <1>3, <1>4, <1>8 DEF ScanStatus, counters
<1>9. CASE ScanStrip(s)
  BY <1>2, <1>3, <1>5, <1>9 DEF ScanStrip, ScanOn, counters
<1>10. CASE ScanOrder(s)
  BY <1>2, <1>3, <1>6, <1>10 DEF ScanOrder, ScanOn, ScanAt, counters
<1>11. CASE ScanClean(s)
  BY <1>1, <1>2, <1>7, <1>11 DEF ScanClean, ScanAt, TypeOK
<1>. QED BY <1>8, <1>9, <1>10, <1>11

LEMMA ScanBootIInv ==
    ASSUME IInv, NEW s \in Scans, ScanBoot(s)
    PROVE  IInv'
<1>1. /\ TypeOK /\ scan[s] # Idle /\ scan[s].step = "boot" /\ ScanGoto(s, "next")
      /\ UNCHANGED <<iso, deploy, mishaps, user, removed>>
      /\ iso' \in [Vmids -> Deploys \cup {None}] /\ mishaps' \in Nat
  BY DEF ScanBoot, ScanAt, ScanOn, IInv, TypeOK, counters
<1>2. PICK v \in Vmids : v = scan[s].id
  BY <1>1, ScanThere
<1>3. /\ ScanType' /\ ScanGrounded(s)' /\ (~removed => ScanGrounded(s))
      /\ \A t \in Scans \ {s} : scan'[t] = scan[t]
  BY <1>1, ScanThere
<1>4. CASE UNCHANGED vm
  BY <1>1, <1>3, <1>4, UnchangedVm, ScanOnIInv
<1>5. CASE Startable(v) /\ PowerOn(v, 0)
  <2>1. Exists(v) /\ vm[v].power = "off"
    BY <1>5 DEF Startable, Off
  <2>2. VmType' /\ Kept
    BY <1>1, <1>5, <2>1, PowerOnEffect
  <2>3. TypeOK'
    BY <1>1, <1>3, <2>2 DEF TypeOK, VmType, ScanType
  <2>4. Grounded' /\ IsoOutlivesCds'
    BY <1>1, <1>3, <2>2, <2>3, GroundedKept
  <2>5. ~removed => ~vm[v].cds
    BY <1>1, <1>2, <1>3 DEF ScanGrounded, Stripped
  <2>6. vm[v].owner \in Deploys
    BY <1>1, <2>1, VmIsTyped DEF TypeOK, VmType, VM
  <2>7. RunsCounted'
    BY <1>1, <1>5, <2>1, <2>5, <2>6, PowerOnCounted
  <2>. QED BY <2>3, <2>4, <2>7 DEF IInv
<1>. QED BY <1>2, <1>4, <1>5 DEF ScanBoot

LEMMA ScanFailsIInv ==
    ASSUME IInv, NEW s \in Scans, ScanFails(s)
    PROVE  IInv'
<1>1. /\ TypeOK /\ scan[s] # Idle /\ UNCHANGED <<vm, iso, deploy, user, removed>>
      /\ iso' \in [Vmids -> Deploys \cup {None}] /\ mishaps' \in Nat
  BY DEF ScanFails, IInv, TypeOK
<1>2. VmType' /\ Kept /\ CountKept
  BY <1>1, UnchangedVm
<1>3. CASE scan[s].step # "next"
  BY <1>1, <1>2, <1>3, ScanThere, ScanOnIInv DEF ScanFails, ScanOn
<1>4. CASE scan[s].step = "next"
  <2>1. PICK v : scan' = [scan EXCEPT ![s].todo = @ \ {v}]
    BY <1>4 DEF ScanFails
  <2>. DEFINE q == [scan[s] EXCEPT !.todo = @ \ {v}]
  <2>2. scan[s] \in Scan /\ scan \in [Scans -> Scan \cup {Idle}]
    BY <1>1, ScanIsTyped DEF TypeOK, ScanType
  <2>3. q \in Scan /\ q.step = "next"
    BY <1>4, <2>2 DEF Scan
  <2>4. /\ scan' = [scan EXCEPT ![s] = q] /\ scan'[s] = q
        /\ \A t \in Scans \ {s} : scan'[t] = scan[t]
    BY <2>1, <2>2
  <2>. HIDE DEF q
  <2>5. ScanType' /\ ScanGrounded(s)'
    BY <1>1, <2>2, <2>3, <2>4 DEF ScanType, ScanGrounded, Stripped, TypeOK
  <2>. QED BY <1>1, <1>2, <2>4, <2>5, ScanOnIInv
<1>. QED BY <1>3, <1>4

-----------------------------------------------------------------------------

\* What is lost relied on something, what is left does not.
LEMMA RestartIInv ==
    ASSUME IInv, Restart
    PROVE  IInv'
<1>1. /\ TypeOK /\ mishaps' \in Nat /\ UNCHANGED <<vm, iso, user, removed>>
      /\ deploy' = [d \in Deploys |->
           IF At(d, "nextid") THEN deploy[d] ELSE [deploy[d] EXCEPT !.step = "end"]]
      /\ scan' = [s \in Scans |-> Idle]
  BY DEF Restart, IInv, TypeOK
<1>2. ASSUME NEW d \in Deploys
      PROVE  deploy'[d] \in Deploy /\ deploy'[d].step \in {"nextid", "end"}
  <2>1. deploy[d] \in Deploy
    BY <1>1 DEF TypeOK
  <2>2. [deploy[d] EXCEPT !.step = "end"] \in Deploy
    BY <2>1 DEF Deploy
  <2>. QED BY <1>1, <2>1, <2>2 DEF At, Deploy
<1>3. TypeOK'
  <2>1. DOMAIN deploy' = Deploys /\ deploy' = [d \in Deploys |-> deploy'[d]]
    BY <1>1
  <2>2. deploy' \in [Deploys -> Deploy]
    BY <1>2, <2>1
  <2>. QED BY <1>1, <1>2, <2>2 DEF TypeOK
<1>4. Kept /\ CountKept
  BY <1>1, UnchangedVm
<1>5. \A s \in Scans : ScanGrounded(s)'
  BY <1>1 DEF ScanGrounded
<1>6. Grounded' /\ IsoOutlivesCds'
  BY <1>1, <1>2, <1>3, <1>4, <1>5, GroundedKept
<1>7. RunsCounted'
  BY <1>1, <1>2, <1>4, RunsCountedKept
<1>. QED BY <1>3, <1>6, <1>7 DEF IInv

LEMMA InitIInv == Init => IInv
<1>1. SUFFICES ASSUME Init PROVE IInv
  OBVIOUS
<1>2. TypeOK
  BY <1>1 DEF Init, TypeOK, Deploy
<1>3. \A v \in Vmids : ~Exists(v)
  BY <1>1 DEF Init, Exists
<1>4. Grounded
  BY <1>1 DEF Init, Grounded, DeployGrounded, ScanGrounded, At, FinalStep, Stripped
<1>. QED BY <1>2, <1>3, <1>4 DEF IInv, RunsCounted, IsoOutlivesCds

LEMMA NextIInv == IInv /\ [Next]_vars => IInv'
<1>1. SUFFICES ASSUME IInv, [Next]_vars PROVE IInv'
  OBVIOUS
<1>2. ASSUME NEW d \in Deploys, DeployStep(d) \/ DeployFails(d) PROVE IInv'
  BY <1>1, <1>2, NextIdIInv, UploadIInv, CreateVmIInv, StartVmIInv, WatchIInv,
     FinalizeIInv, FinalizeCleanIInv, FinalizeBootIInv, DeployFailsIInv
  DEF DeployStep
<1>3. ASSUME NEW s \in Scans, ScanStep(s) \/ ScanFails(s) PROVE IInv'
  BY <1>1, <1>3, ScanNextIInv, ScanStepIInv, ScanBootIInv, ScanFailsIInv
  DEF ScanStep
<1>4. ASSUME NEW v \in Vmids,
             Applied(v) \/ UserStart(v) \/ UserStop(v) \/ UserRemove(v)
      PROVE  IInv'
  BY <1>1, <1>4, AppliedIInv, UserStartIInv, UserStopIInv, UserRemoveIInv
<1>5. CASE Restart
  BY <1>1, <1>5, RestartIInv
<1>6. CASE UNCHANGED vars
  BY <1>1, <1>6
  DEF vars, counters, IInv, TypeOK, Grounded, DeployGrounded, ScanGrounded,
      RunsCounted, Counted, Unstarted, IsoOutlivesCds, Exists, At
<1>. QED BY <1>1, <1>2, <1>3, <1>4, <1>5, <1>6 DEF Next

LEMMA SpecIInv == Spec => []IInv
BY InitIInv, NextIInv, PTL DEF Spec

\* VMs, config ISOs, deploys and scans keep their shapes; a deploy or a scan
\* that is at a VM names one.
THEOREM SpecTypeOK == Spec => []TypeOK
<1>1. IInv => TypeOK
  BY DEF IInv
<1>. QED BY <1>1, SpecIInv, PTL

\* The application never images a VM a second time, however many deploys and
\* scans finalize it, fail and restart at once (index.ts:354-358, 465-488).
THEOREM SpecReimagedOnlyByUser == Spec => []ReimagedOnlyByUser
<1>1. IInv => ReimagedOnlyByUser
  BY DEF IInv, RunsCounted, Counted, ReimagedOnlyByUser
<1>. QED BY <1>1, SpecIInv, PTL

\* A VM that still boots from the CDs has its config ISO
\* (index.ts:356-358, 486-489).
THEOREM SpecIsoOutlivesCds == Spec => []IsoOutlivesCds
<1>1. IInv => IsoOutlivesCds
  BY DEF IInv
<1>. QED BY <1>1, SpecIInv, PTL
=============================================================================
