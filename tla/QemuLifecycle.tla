----------------------------- MODULE QemuLifecycle -----------------------------
(***************************************************************************)
(* Android VMs: the QEMU adapter (server/android/runtime/qemu.ts), its     *)
(* small Proxmox client (pve.ts) and the watcher's polls of such devices   *)
(* (runtime/index.ts), over a Proxmox that hands out VM ids without        *)
(* reserving them, answers before its tasks have run, and whose answers    *)
(* may be lost.                                                            *)
(*                                                                         *)
(* Every await of a handler is a point where the others may run: a request *)
(* takes effect in one step (Request), its answer is acted upon in another *)
(* (Reply).  A handler goes on with the record it read when it began.      *)
(***************************************************************************)
EXTENDS Naturals, FiniteSets

CONSTANTS
    Ids,        \* device ids, given out at random and never twice
    Templated,  \* the devices cloned from a template; the rest start as an
                \* installer image
    Vmids,      \* VM ids
    Calls,      \* lifecycle requests in flight
    Polls,      \* watcher polls in flight
    Asks,       \* bound: the requests <<op, device>> each call may be
    InFlight,   \* bound: calls and polls at a time
    Watched,    \* bound: the devices that are polled
    None,       \* no VM, or not known yet
    NoRecord,   \* not in the store
    Idle        \* no call, or no poll

ASSUME VmidAssumption == Vmids \subseteq Nat /\ None \notin Vmids

Power == {"off", "starting", "on", "up", "stopping", "halting", "deleting"}

\* vm.status is "running" for all but these.
NotRunning == {"off", "starting", "deleting"}

Vm == [dev : Ids, power : Power]

\* The states pollOne acts on.
Active == {"provisioning", "booting", "ready", "offline"}

\* text: whether statusText is the one of a poll that found nothing to attach.
Record == [state : Active \cup {"stopped", "error", "deleting"}, vmid : Vmids,
           serial : BOOLEAN, waiting : BOOLEAN]

Steps == {"nextid", "make", "config", "start", "shutdown", "stop", "reboot",
          "rollback", "delete"}

\* A handler, its next Proxmox request and whether Proxmox has done it; vmid,
\* and for a reboot serial, are what the record said when it began.
Call == [op : {"create", "start", "stop", "reboot", "reset", "destroy"}, dev : Ids,
         step : Steps, vmid : Vmids \cup {None}, serial : BOOLEAN, force : BOOLEAN,
         done : BOOLEAN]

\* A poll and the record it began with; once it is answered, what it is going
\* to patch: serial None leaves it, nothing is what returns early.
Asking == [dev : Ids, rec : {r \in Record : r.state \in Active}]

Answered == [dev : Ids, state : Active \cup {"stopped", "error"},
             serial : BOOLEAN \cup {None}, waiting : BOOLEAN]

Nothing == [dev : Ids, nothing : {TRUE}]

Poll == Asking \cup Answered \cup Nothing

ASSUME MarkAssumption ==
    None \notin Vm /\ NoRecord \notin Record /\ Idle \notin Call /\ Idle \notin Poll

VARIABLES
    vm,        \* Proxmox: the VMs
    rec,       \* the store
    used,      \* device ids given out
    late,      \* devices created more than bootTimeoutMs ago
    call,      \* lifecycle requests in flight
    poll,      \* polls in flight
    lost       \* history: devices whose VM Proxmox has deleted

vars == <<vm, rec, used, late, call, poll, lost>>

TypeOK ==
    /\ vm \in [Vmids -> Vm \cup {None}]
    /\ rec \in [Ids -> Record \cup {NoRecord}]
    /\ used \subseteq Ids
    /\ late \subseteq Ids
    /\ call \in [Calls -> Call \cup {Idle}]
    /\ poll \in [Polls -> Poll \cup {Idle}]
    /\ lost \subseteq Ids

Init ==
    /\ vm = [v \in Vmids |-> None]
    /\ rec = [d \in Ids |-> NoRecord]
    /\ used = {}
    /\ late = {}
    /\ call = [c \in Calls |-> Idle]
    /\ poll = [p \in Polls |-> Idle]
    /\ lost = {}

InState(d, states) == rec[d] # NoRecord /\ rec[d].state \in states

\* patchDevice: nothing happens to a device that is no longer there.
Patch(d, state, serial, waiting) ==
    rec' = IF rec[d] = NoRecord THEN rec
           ELSE [rec EXCEPT ![d] = [state |-> state, vmid |-> rec[d].vmid,
                                    serial |-> serial, waiting |-> waiting]]

\* Fewer than InFlight calls and polls are under way.
Room ==
    Cardinality({c \in Calls : call[c] # Idle}) + Cardinality({p \in Polls : poll[p] # Idle})
        < InFlight

-----------------------------------------------------------------------------
(* The handlers, up to their first request. *)

Begin(c, op, d, step, vmid, serial, force) ==
    /\ Room /\ call[c] = Idle
    /\ <<op, d>> \in Asks[c]
    /\ call' = [call EXCEPT ![c] =
                  [op |-> op, dev |-> d, step |-> step, vmid |-> vmid,
                   serial |-> serial, force |-> force, done |-> FALSE]]
    /\ UNCHANGED <<vm, late, poll, lost>>

Create(c, d) ==
    /\ d \notin used
    /\ used' = used \cup {d}
    /\ Begin(c, "create", d, "nextid", None, FALSE, FALSE)
    /\ UNCHANGED rec

\* The first request of each operation; reset begins with a stop.
FirstStep(op) ==
    CASE op = "start"           -> "start"
      [] op \in {"stop", "reset"} -> "shutdown"
      [] op = "reboot"          -> "reboot"

Operate(c, op, d) ==
    /\ op \in {"start", "stop", "reboot", "reset"}
    /\ rec[d] # NoRecord
    /\ Begin(c, op, d, FirstStep(op), rec[d].vmid,
             op = "reboot" /\ rec[d].serial, FALSE)
    /\ UNCHANGED <<rec, used>>

\* RuntimeManager.destroy marks the record first.
Destroy(c, d, force) ==
    /\ rec[d] # NoRecord
    /\ Patch(d, "deleting", rec[d].serial, FALSE)
    /\ Begin(c, "destroy", d, "stop", rec[d].vmid, FALSE, force)
    /\ UNCHANGED used

-----------------------------------------------------------------------------
(* Proxmox. *)

\* The VM a request leaves behind.  Starting, stopping and deleting are tasks,
\* answered before they run; a task that cannot run is accepted and fails.
\* There is no snapshot to roll back to: nothing ever takes one.
Accepted(step, m) ==
    LET To(power) == [dev |-> m.dev, power |-> power]
    IN  CASE step = "start" /\ m.power = "off"                  -> To("starting")
          [] step = "shutdown" /\ m.power \in {"on", "up"}        -> To("stopping")
          [] step = "stop" /\ m.power \in {"on", "up", "stopping"} -> To("halting")
          [] step = "reboot" /\ m.power = "up"                    -> To("on")
          [] step = "delete" /\ m.power = "off"                   -> To("deleting")
          [] OTHER                                               -> m

\* The smallest id not in use, which is not thereby reserved.
NextVmid(v) == vm[v] = None /\ \A w \in Vmids : vm[w] = None => v <= w

Done(c) == call' = [call EXCEPT ![c] = [call[c] EXCEPT !.done = TRUE]]

\* Mutant: "already exists" is taken for success, as "already running" is.
MakeAnyway(c) ==
    LET v == call[c].vmid
    IN  /\ call[c].step = "make"
        /\ vm' = IF vm[v] = None
                 THEN [vm EXCEPT ![v] = [dev |-> call[c].dev, power |-> "off"]] ELSE vm
        /\ Done(c)

\* Creating or cloning is refused when somebody was faster.
Make(c) ==
    LET v == call[c].vmid
    IN  /\ call[c].step = "make" /\ vm[v] = None
        /\ vm' = [vm EXCEPT ![v] = [dev |-> call[c].dev, power |-> "off"]]
        /\ Done(c)

\* A VM that is running is not deleted.
Serve(c) ==
    LET v == call[c].vmid
    IN  /\ call[c].step \notin {"nextid", "make"}
        /\ vm[v] # None
        /\ call[c].step = "delete" => vm[v].power = "off"
        /\ vm' = [vm EXCEPT ![v] = Accepted(call[c].step, vm[v])]
        /\ Done(c)

\* A request reaches Proxmox and is done (pveWrite).
Request(c) ==
    /\ call[c] # Idle /\ ~call[c].done
    /\ Make(c) \/ Serve(c)
    /\ UNCHANGED <<rec, used, late, poll, lost>>

\* A task runs, or fails; the guest boots; somebody shuts it down from inside,
\* or its node goes.  A shutdown that takes longer than a minute is given up.
\* An installer's VM has no Android to come up.
Becomes(m) ==
    CASE m.power = "off"      -> {}
      [] m.power = "starting" -> {"on", "off"}
      [] m.power = "on"       -> {"off"} \cup {b \in {"up"} : m.dev \in Templated}
      [] m.power = "stopping" -> {"off", "on"}
      [] OTHER                -> {"off"}

VmMoves(v) ==
    /\ vm[v] # None
    /\ \E power \in Becomes(vm[v]) :
         vm' = [vm EXCEPT ![v] = [dev |-> vm[v].dev, power |-> power]]
    /\ UNCHANGED <<rec, used, late, call, poll, lost>>

VmGoes(v) ==
    /\ vm[v] # None /\ vm[v].power = "deleting"
    /\ vm' = [vm EXCEPT ![v] = None]
    /\ lost' = lost \cup {vm[v].dev}
    /\ UNCHANGED <<rec, used, late, call, poll>>

-----------------------------------------------------------------------------
(* The handlers, once a request has been answered. *)

End(c) == call' = [call EXCEPT ![c] = Idle]

Then(c, step) == call' = [call EXCEPT ![c] = [call[c] EXCEPT !.step = step, !.done = FALSE]]

Succeeded(c, step) == call[c].step = step /\ call[c].done

\* A request may be refused, or not arrive, or be done and its answer be lost.
Failed(c, step) == call[c].step = step

\* nextid answers with an id.
Numbered(c) ==
    /\ call[c].step = "nextid"
    /\ \E v \in Vmids :
         /\ NextVmid(v)
         /\ call' = [call EXCEPT ![c] = [call[c] EXCEPT !.step = "make", !.vmid = v]]

\* The VM is there, and configured: the record is stored and it is started.
StoreDevice(c) ==
    /\ rec' = [rec EXCEPT ![call[c].dev] =
                 [state |-> "provisioning", vmid |-> call[c].vmid,
                  serial |-> FALSE, waiting |-> FALSE]]
    /\ Then(c, "start")

\* create throws when a step fails: what has been made stays as it is.
CreateReply(c) ==
    \/ Numbered(c) /\ UNCHANGED rec
    \/ /\ Succeeded(c, "make")
       /\ IF call[c].dev \in Templated THEN Then(c, "config") /\ UNCHANGED rec
                                       ELSE StoreDevice(c)
    \/ Succeeded(c, "config") /\ StoreDevice(c)
    \/ \E step \in {"nextid", "make", "config"} :
         Failed(c, step) /\ End(c) /\ UNCHANGED rec

StartReply(c) ==
    LET d == call[c].dev
    IN  \/ Succeeded(c, "start") /\ Patch(d, "booting", rec[d].serial, FALSE) /\ End(c)
        \/ Failed(c, "start") /\ UNCHANGED rec /\ End(c)

\* The serial goes even when the disconnect before it failed; reset goes on
\* to roll back, whether it could be stopped or not.
StopReply(c) ==
    LET Onward == IF call[c].op = "reset" THEN Then(c, "rollback") ELSE End(c)
    IN  \/ /\ Succeeded(c, "shutdown") \/ Succeeded(c, "stop")
           /\ Patch(call[c].dev, "stopped", FALSE, FALSE)
           /\ Onward
        \/ Failed(c, "shutdown") /\ Then(c, "stop") /\ UNCHANGED rec
        \/ Failed(c, "stop") /\ Onward /\ UNCHANGED rec

RebootReply(c) ==
    \/ /\ Succeeded(c, "reboot")
       /\ Patch(call[c].dev, "booting", call[c].serial, FALSE) /\ End(c)
    \/ Failed(c, "reboot") /\ UNCHANGED rec /\ End(c)

RollbackReply(c) ==
    LET d == call[c].dev
    IN  \/ Succeeded(c, "rollback") /\ Patch(d, "booting", rec[d].serial, FALSE) /\ Then(c, "start")
        \/ Failed(c, "rollback") /\ UNCHANGED rec /\ End(c)

\* Mutant: a removal that failed leaves the record as it is.
DeleteGivesUp(c) ==
    LET d == call[c].dev
    IN  \/ /\ Succeeded(c, "delete") \/ (Failed(c, "delete") /\ call[c].force)
           /\ rec' = [rec EXCEPT ![d] = NoRecord] /\ End(c)
        \/ Failed(c, "delete") /\ ~call[c].force /\ UNCHANGED rec /\ End(c)

\* The record goes once the VM is being deleted, or by force.
DeleteReply(c) ==
    LET d == call[c].dev
    IN  \/ /\ Succeeded(c, "delete") \/ (Failed(c, "delete") /\ call[c].force)
           /\ rec' = [rec EXCEPT ![d] = NoRecord] /\ End(c)
        \/ /\ Failed(c, "delete") /\ ~call[c].force
           /\ Patch(d, "error", rec[d].serial, FALSE) /\ End(c)

\* How the stop before a removal ends is ignored; three seconds later the VM
\* is deleted.
DestroyReply(c) ==
    \/ call[c].step = "stop" /\ Then(c, "delete") /\ UNCHANGED rec
    \/ DeleteReply(c)

Reply(c) ==
    /\ call[c] # Idle
    /\ \/ CreateReply(c)
       \/ call[c].op = "destroy" /\ DestroyReply(c)
       \/ /\ call[c].op # "destroy"
          /\ StartReply(c) \/ StopReply(c) \/ RebootReply(c) \/ RollbackReply(c)
    /\ UNCHANGED <<vm, used, late, poll, lost>>

-----------------------------------------------------------------------------
(* pollOne. *)

\* Mutant: a device that is ready is not polled any more.
PollStartUnready(p, d) ==
    /\ Room /\ poll[p] = Idle
    /\ d \in Watched
    /\ InState(d, Active \ {"ready"})
    /\ poll' = [poll EXCEPT ![p] = [dev |-> d, rec |-> rec[d]]]
    /\ UNCHANGED <<vm, rec, used, late, call, lost>>

PollStart(p, d) ==
    /\ Room /\ poll[p] = Idle
    /\ d \in Watched
    /\ InState(d, Active)
    /\ poll' = [poll EXCEPT ![p] = [dev |-> d, rec |-> rec[d]]]
    /\ UNCHANGED <<vm, rec, used, late, call, lost>>

Status(d, state, serial, waiting) ==
    [dev |-> d, state |-> state, serial |-> serial, waiting |-> waiting]

\* pollOne's early return: the same state, the same text, nothing about ADB.
Waiting(d, r) ==
    IF r.state = "booting" /\ r.waiting THEN [dev |-> d, nothing |-> TRUE]
                                         ELSE Status(d, "booting", None, TRUE)

\* AdbBackedAdapter.status: a guest that is up says so over a working agent;
\* what adb knows is merged over what the record said when the poll began.
AdbStatus(d, r, m) ==
    {Status(d, "booting", TRUE, FALSE),
     Status(d, IF r.state = "ready" THEN "offline" ELSE r.state, TRUE, FALSE)}
        \cup {s \in {Status(d, "ready", TRUE, FALSE)} : m.power = "up"}

\* QemuAdapter.status, of a record r of device d and the VM m as it is now.
\* ADB is not asked of an installer, and attaches once the guest has an
\* address; an agent may fail to answer at any time.
Statuses(d, r, m) ==
    {Status(d, "error", None, FALSE)} \cup
    IF m = None THEN {}
    ELSE IF m.power \in NotRunning THEN {Status(d, "stopped", r.serial, FALSE)}
    ELSE IF d \notin Templated THEN {Waiting(d, r)}
    ELSE IF r.serial THEN AdbStatus(d, r, m)
    ELSE {Waiting(d, r)}
            \cup {s \in {Status(d, "booting", TRUE, FALSE)} : m.power = "up"}

PollAnswer(p) ==
    /\ poll[p] \in Asking
    /\ LET q == poll[p]
       IN  \E s \in Statuses(q.dev, q.rec, vm[q.rec.vmid]) : poll' = [poll EXCEPT ![p] = s]
    /\ UNCHANGED <<vm, rec, used, late, call, lost>>

\* Mutant: the timeout never fires.
NeverTooLate(d, state) == FALSE

\* The boot timeout, counted from the device's creation, spares installers.
TooLate(d, state) ==
    state \in {"booting", "provisioning"} /\ d \in late /\ d \in Templated

\* The status is merged into the record as it is now.
PollPatch(p) ==
    /\ poll[p] \in Answered
    /\ LET q == poll[p]
           expired == TooLate(q.dev, q.state)
       IN  Patch(q.dev, IF expired THEN "error" ELSE q.state,
                 IF q.serial = None THEN rec[q.dev].serial ELSE q.serial,
                 q.waiting /\ ~expired)
    /\ poll' = [poll EXCEPT ![p] = Idle]
    /\ UNCHANGED <<vm, used, late, call, lost>>

PollReturns(p) ==
    /\ poll[p] \in Nothing
    /\ poll' = [poll EXCEPT ![p] = Idle]
    /\ UNCHANGED <<vm, rec, used, late, call, lost>>

-----------------------------------------------------------------------------

\* bootTimeoutMs passes.
Expire(d) ==
    /\ d \in Watched
    /\ d \in used \ late
    /\ late' = late \cup {d}
    /\ UNCHANGED <<vm, rec, used, call, poll, lost>>

UserRequest ==
    \E c \in Calls, d \in Ids :
        \/ Create(c, d)
        \/ \E op \in {"start", "stop", "reboot", "reset"} : Operate(c, op, d)
        \/ \E force \in BOOLEAN : Destroy(c, d, force)

CallStep(c) == Request(c) \/ Reply(c)

Next ==
    \/ UserRequest
    \/ \E c \in Calls : CallStep(c)
    \/ \E p \in Polls, d \in Ids : PollStart(p, d)
    \/ \E p \in Polls : PollAnswer(p) \/ PollPatch(p) \/ PollReturns(p)
    \/ \E v \in Vmids : VmMoves(v) \/ VmGoes(v)
    \/ \E d \in Ids : Expire(d)

Spec == Init /\ [][Next]_vars

\* Requests are answered or fail, the watcher polls every five seconds, and
\* time passes.  Nothing is asked of the guest.
FairSpec ==
    /\ Spec
    /\ \A c \in Calls : WF_vars(CallStep(c))
    /\ \A p \in Polls, d \in Watched : SF_vars(PollStart(p, d))
    /\ \A p \in Polls : WF_vars(PollAnswer(p) \/ PollPatch(p) \/ PollReturns(p))
    /\ \A d \in Watched : WF_vars(Expire(d))

-----------------------------------------------------------------------------
(* Properties *)

\* v is d's VM, unless Proxmox has deleted it: then v may be anybody's.
Owns(d, v) == d \in lost \/ (vm[v] # None /\ vm[v].dev = d)

\* Although Proxmox reserves no id between nextid and the VM's creation
\* (qemu.ts:69-92), two devices never share a VM: a record names the VM that
\* was made for it, until that VM has been deleted.
RecordsOwnVms == \A d \in Ids : rec[d] # NoRecord => Owns(d, rec[d].vmid)

\* The request of call c changes another device's VM, though c's own was not
\* lost.  The retry of a removal that did delete the VM, its answer lost, may
\* meet whoever was given the id since (qemu.ts:210-218).
Trespass(c) ==
    \E v \in Vmids :
        /\ vm[v] # None /\ vm'[v] # vm[v]
        /\ vm[v].dev # call[c].dev /\ call[c].dev \notin lost

\* No operation on one device stops, starts or deletes another's VM
\* (qemu.ts:171-218), whatever else is in flight.
NoTrespass == [][ \A c \in Calls : Request(c) => ~Trespass(c) ]_vars

\* A device that has ADB attached does not boot for ever: it is ready, or it
\* fails, is stopped or removed (runtime/index.ts:150-164).
AttachedSettles ==
    \A d \in Watched :
        InState(d, {"booting"}) /\ rec[d].serial ~> ~(InState(d, {"booting"}) /\ rec[d].serial)

\* A removal ends, in the record's going or in an error that can be retried
\* (runtime/index.ts:207-228).
RemovalEnds ==
    \A d \in Watched : InState(d, {"deleting"}) ~> ~InState(d, {"deleting"})

\* A device shown as ready whose VM does not run does not stay ready
\* (qemu.ts:225-233).
Running(d) == InState(d, {"ready"}) /\ vm[rec[d].vmid] # None
              /\ vm[rec[d].vmid].power \notin NotRunning

LossIsNoticed ==
    \A d \in Watched :
        InState(d, {"ready"}) /\ ~Running(d) ~> ~InState(d, {"ready"}) \/ Running(d)

-----------------------------------------------------------------------------
(* What the documentation says and the code does not do. *)

\* "a device that never boots must not sit 'booting' forever with nobody told
\* why" (runtime/index.ts:150-151), for a VM made from a template.
BootingEnds ==
    \A d \in Templated : InState(d, {"booting"}) ~> ~InState(d, {"booting"})
=============================================================================
