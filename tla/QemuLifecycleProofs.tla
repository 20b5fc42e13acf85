------------------------- MODULE QemuLifecycleProofs -------------------------
(***************************************************************************)
(* Proofs about QemuLifecycle, for any devices, VM ids and calls.          *)
(*                                                                         *)
(* The property of the records is not inductive alone: a record gets its   *)
(* VM id from a call that has made a VM under it.  So the calls that have  *)
(* made their VM, or were told of it by a record, own it as well; from     *)
(* that follows also that no request disturbs another device's VM.         *)
(***************************************************************************)
EXTENDS QemuLifecycle, TLAPS

\* The VM of the call's id has been made for its device.
Made(k) == k.step \notin {"nextid", "make"} \/ (k.step = "make" /\ k.done)

Fields == {"op", "dev", "step", "vmid", "serial", "force", "done"}

CallsOwnVms ==
    \A c \in Calls :
        call[c] # Idle =>
            /\ call[c].step # "nextid" => call[c].vmid \in Vmids
            /\ call[c].step = "nextid" => ~call[c].done
            /\ Made(call[c]) => Owns(call[c].dev, call[c].vmid)

\* What the proof needs of the types; a poll's patch keeps the VM id.
Shapes ==
    /\ vm \in [Vmids -> Vm \cup {None}]
    /\ DOMAIN rec = Ids
    /\ \A d \in Ids : rec[d] # NoRecord => rec[d].vmid \in Vmids
    /\ DOMAIN call = Calls
    /\ \A c \in Calls : call[c] # Idle =>
         /\ call[c].dev \in Ids
         /\ DOMAIN call[c] = Fields

IInv == Shapes /\ CallsOwnVms /\ RecordsOwnVms

\* Each operation has its steps, so a call that goes on after an answer has
\* made its VM, or has yet to make it.
CallsKept ==
    \A c \in Calls :
        call'[c] # Idle =>
            /\ call'[c].dev \in Ids
            /\ DOMAIN call'[c] = Fields
            /\ call'[c].step # "nextid" => call'[c].vmid \in Vmids
            /\ call'[c].step = "nextid" => ~call'[c].done
            /\ Made(call'[c]) => Owns(call'[c].dev, call'[c].vmid)

LEMMA InitIInv == Init => IInv
BY VmidAssumption DEF Init, IInv, Shapes, CallsOwnVms, RecordsOwnVms

\* A step that leaves the VMs alone keeps the invariant if every new record
\* and call owns the VM it names.
LEMMA VmsKept ==
    ASSUME IInv, UNCHANGED <<vm, lost>>,
           DOMAIN rec' = Ids, DOMAIN call' = Calls, CallsKept,
           \A d \in Ids : rec'[d] # NoRecord =>
               rec'[d].vmid \in Vmids /\ Owns(d, rec'[d].vmid)
    PROVE  IInv'
BY DEF IInv, Shapes, CallsOwnVms, RecordsOwnVms, CallsKept, Owns

\* A patch leaves the VM ids on record as they are.
LEMMA PatchKeeps ==
    ASSUME IInv, NEW d \in Ids, NEW state, NEW serial, NEW waiting,
           Patch(d, state, serial, waiting)
    PROVE  /\ DOMAIN rec' = Ids
           /\ \A e \in Ids : rec'[e] # NoRecord =>
                rec'[e].vmid \in Vmids /\ Owns(e, rec'[e].vmid)
<1>1. CASE rec[d] = NoRecord
  BY <1>1 DEF Patch, IInv, Shapes, RecordsOwnVms
<1>2. CASE rec[d] # NoRecord
  <2>1. rec' = [rec EXCEPT ![d] = [state |-> state, vmid |-> rec[d].vmid,
                                   serial |-> serial, waiting |-> waiting]]
    BY <1>2 DEF Patch
  <2>. QED BY <1>2, <2>1 DEF IInv, Shapes, RecordsOwnVms
<1>. QED BY <1>1, <1>2

LEMMA RecKeeps ==
    ASSUME IInv, UNCHANGED rec
    PROVE  /\ DOMAIN rec' = Ids
           /\ \A e \in Ids : rec'[e] # NoRecord =>
                rec'[e].vmid \in Vmids /\ Owns(e, rec'[e].vmid)
BY DEF IInv, Shapes, RecordsOwnVms

\* A handler that begins with a record's VM owns it; one that has yet to be
\* numbered need not.
LEMMA BeginKeeps ==
    ASSUME IInv, NEW c \in Calls, NEW op, NEW d \in Ids, NEW step, NEW vmid,
           NEW serial, NEW force, Begin(c, op, d, step, vmid, serial, force),
           step = "nextid" \/ (step # "make" /\ vmid \in Vmids /\ Owns(d, vmid))
    PROVE  DOMAIN call' = Calls /\ CallsKept
<1>1. call' = [call EXCEPT ![c] =
                 [op |-> op, dev |-> d, step |-> step, vmid |-> vmid,
                  serial |-> serial, force |-> force, done |-> FALSE]]
  BY DEF Begin
<1>. QED BY <1>1 DEF IInv, Shapes, CallsOwnVms, CallsKept, Made, Fields

LEMMA CreateIInv ==
    ASSUME IInv, NEW c \in Calls, NEW d \in Ids, Create(c, d)
    PROVE  IInv'
<1>1. DOMAIN call' = Calls /\ CallsKept
  BY BeginKeeps DEF Create
<1>. QED BY <1>1, RecKeeps, VmsKept DEF Create, Begin

LEMMA OperateIInv ==
    ASSUME IInv, NEW c \in Calls, NEW op, NEW d \in Ids, Operate(c, op, d)
    PROVE  IInv'
<1>1. FirstStep(op) \in {"start", "shutdown", "reboot"}
  BY DEF Operate, FirstStep
<1>2. rec[d].vmid \in Vmids /\ Owns(d, rec[d].vmid)
  BY DEF Operate, IInv, Shapes, RecordsOwnVms
<1>3. DOMAIN call' = Calls /\ CallsKept
  BY <1>1, <1>2, BeginKeeps DEF Operate
<1>. QED BY <1>3, RecKeeps, VmsKept DEF Operate, Begin

LEMMA DestroyIInv ==
    ASSUME IInv, NEW c \in Calls, NEW d \in Ids, NEW force, Destroy(c, d, force)
    PROVE  IInv'
<1>1. rec[d].vmid \in Vmids /\ Owns(d, rec[d].vmid)
  BY DEF Destroy, IInv, Shapes, RecordsOwnVms
<1>2. DOMAIN call' = Calls /\ CallsKept
  BY <1>1, BeginKeeps DEF Destroy
<1>3. /\ DOMAIN rec' = Ids
      /\ \A e \in Ids : rec'[e] # NoRecord =>
           rec'[e].vmid \in Vmids /\ Owns(e, rec'[e].vmid)
  BY PatchKeeps DEF Destroy
<1>. QED BY <1>2, <1>3, VmsKept DEF Destroy, Begin

\* Owns, after a step.
OwnsThen(d, v) == d \in lost' \/ (vm'[v] # None /\ vm'[v].dev = d)

\* A request that is done keeps the invariant if nobody loses a VM by it and
\* its own call has one.
LEMMA DoneKeeps ==
    ASSUME IInv, NEW c \in Calls, call[c] # Idle, call[c].step # "nextid",
           call[c].vmid \in Vmids,
           UNCHANGED <<rec, lost>>, Done(c),
           vm' \in [Vmids -> Vm \cup {None}],
           \A d \in Ids, w \in Vmids : Owns(d, w) => OwnsThen(d, w),
           OwnsThen(call[c].dev, call[c].vmid)
    PROVE  IInv'
<1>. DEFINE k == call[c]
<1>1. k.dev \in Ids
  BY DEF IInv, Shapes
<1>2. /\ DOMAIN call' = Calls /\ DOMAIN call'[c] = Fields
      /\ call'[c].dev = k.dev /\ call'[c].step = k.step /\ call'[c].vmid = k.vmid
      /\ \A b \in Calls \ {c} : call'[b] = call[b]
  BY DEF Done, IInv, Shapes, Fields
<1>3. Shapes'
  BY <1>1, <1>2 DEF IInv, Shapes
<1>4. ASSUME NEW b \in Calls, call'[b] # Idle
      PROVE  /\ call'[b].step # "nextid" => call'[b].vmid \in Vmids
             /\ call'[b].step = "nextid" => ~call'[b].done
             /\ Made(call'[b]) => OwnsThen(call'[b].dev, call'[b].vmid)
  <2>1. CASE b = c
    BY <1>2, <2>1
  <2>2. CASE b # c
    BY <1>2, <1>4, <2>2 DEF IInv, Shapes, CallsOwnVms, Made
  <2>. QED BY <2>1, <2>2
<1>5. CallsOwnVms'
  BY <1>4 DEF CallsOwnVms, Owns, OwnsThen
<1>6. RecordsOwnVms'
  BY DEF IInv, Shapes, RecordsOwnVms, Owns, OwnsThen
<1>. QED BY <1>3, <1>5, <1>6 DEF IInv

\* Proxmox makes a VM only under an id that is free, and never gives one to
\* another device.
LEMMA RequestIInv ==
    ASSUME IInv, NEW c \in Calls, Request(c)
    PROVE  IInv'
<1>. DEFINE k == call[c]
            v == k.vmid
<1>0. k # Idle /\ ~k.done /\ k.dev \in Ids /\ UNCHANGED <<rec, lost>>
  BY DEF Request, IInv, Shapes
<1>1. CASE Make(c)
  <2>1. v \in Vmids /\ vm[v] = None /\ k.step = "make" /\ Done(c)
        /\ vm' = [vm EXCEPT ![v] = [dev |-> k.dev, power |-> "off"]]
    BY <1>0, <1>1 DEF Make, IInv, CallsOwnVms
  <2>2. vm'[v] = [dev |-> k.dev, power |-> "off"] /\ vm'[v] \in Vm /\ vm'[v] # None
    BY <1>0, <2>1, MarkAssumption DEF IInv, Shapes, Vm, Power
  <2>3. \A d \in Ids, w \in Vmids : Owns(d, w) => OwnsThen(d, w)
    BY <1>0, <2>1, <2>2 DEF Owns, OwnsThen, IInv, Shapes
  <2>4. vm' \in [Vmids -> Vm \cup {None}]
    BY <2>1, <2>2 DEF IInv, Shapes
  <2>5. OwnsThen(k.dev, v)
    BY <2>2 DEF OwnsThen
  <2>. QED BY <1>0, <2>1, <2>3, <2>4, <2>5, DoneKeeps
<1>2. CASE Serve(c)
  <2>1. v \in Vmids /\ vm[v] # None /\ k.step \notin {"nextid", "make"} /\ Done(c)
        /\ vm' = [vm EXCEPT ![v] = Accepted(k.step, vm[v])]
    BY <1>0, <1>2 DEF Serve, IInv, CallsOwnVms
  <2>2. Accepted(k.step, vm[v]) \in Vm /\ Accepted(k.step, vm[v]).dev = vm[v].dev
    <3>1. vm[v] \in Vm
      BY <2>1 DEF IInv, Shapes
    <3>. QED BY <3>1 DEF Accepted, Vm, Power
  <2>3. vm' \in [Vmids -> Vm \cup {None}] /\ vm'[v] # None /\ vm'[v].dev = vm[v].dev
    BY <2>1, <2>2, MarkAssumption DEF IInv, Shapes
  <2>4. \A d \in Ids, w \in Vmids : Owns(d, w) => OwnsThen(d, w)
    BY <1>0, <2>1, <2>3 DEF Owns, OwnsThen, IInv, Shapes
  <2>5. Owns(k.dev, v)
    BY <1>0, <2>1 DEF IInv, CallsOwnVms, Made
  <2>6. OwnsThen(k.dev, v)
    BY <1>0, <2>1, <2>4, <2>5
  <2>. QED BY <1>0, <2>1, <2>3, <2>4, <2>6, DoneKeeps
<1>. QED BY <1>1, <1>2 DEF Request

-----------------------------------------------------------------------------

\* A VM that moves stays its device's, and one that goes is counted as lost.
LEMMA VmMovesIInv ==
    ASSUME IInv, NEW v \in Vmids, VmMoves(v)
    PROVE  IInv'
<1>1. PICK power \in Becomes(vm[v]) :
        vm' = [vm EXCEPT ![v] = [dev |-> vm[v].dev, power |-> power]]
  BY DEF VmMoves
<1>2. vm[v] \in Vm /\ UNCHANGED <<rec, call, lost>>
  BY DEF VmMoves, IInv, Shapes
<1>3. [dev |-> vm[v].dev, power |-> power] \in Vm
  BY <1>2 DEF Becomes, Vm, Power
<1>4. \A d \in Ids, w \in Vmids : Owns(d, w) => OwnsThen(d, w)
  BY <1>1, <1>2, <1>3, MarkAssumption DEF Owns, OwnsThen, IInv, Shapes
<1>5. vm' \in [Vmids -> Vm \cup {None}]
  BY <1>1, <1>3 DEF IInv, Shapes
<1>6. Shapes'
  BY <1>2, <1>5 DEF IInv, Shapes
<1>7. CallsOwnVms'
  BY <1>2, <1>4 DEF IInv, Shapes, CallsOwnVms, Made, Owns, OwnsThen
<1>8. RecordsOwnVms'
  BY <1>2, <1>4 DEF IInv, Shapes, RecordsOwnVms, Owns, OwnsThen
<1>. QED BY <1>6, <1>7, <1>8 DEF IInv

LEMMA VmGoesIInv ==
    ASSUME IInv, NEW v \in Vmids, VmGoes(v)
    PROVE  IInv'
<1>1. vm' = [vm EXCEPT ![v] = None] /\ lost' = lost \cup {vm[v].dev}
      /\ UNCHANGED <<rec, call>>
  BY DEF VmGoes
<1>2. \A d \in Ids, w \in Vmids : Owns(d, w) => OwnsThen(d, w)
  BY <1>1 DEF Owns, OwnsThen, IInv, Shapes
<1>3. Shapes'
  BY <1>1 DEF IInv, Shapes
<1>4. CallsOwnVms' /\ RecordsOwnVms'
  BY <1>1, <1>2 DEF IInv, Shapes, CallsOwnVms, RecordsOwnVms, Made, Owns, OwnsThen
<1>. QED BY <1>3, <1>4 DEF IInv

-----------------------------------------------------------------------------

\* A call that ends, or goes on to a step that follows the VM's making.
LEMMA EndKeeps ==
    ASSUME IInv, NEW c \in Calls, End(c)
    PROVE  DOMAIN call' = Calls /\ CallsKept
BY DEF End, IInv, Shapes, CallsOwnVms, CallsKept

LEMMA ThenKeeps ==
    ASSUME IInv, NEW c \in Calls, call[c] # Idle, NEW step, Then(c, step),
           Made(call[c]), step \notin {"nextid", "make"}
    PROVE  DOMAIN call' = Calls /\ CallsKept
<1>. DEFINE k == call[c]
<1>1. k.dev \in Ids /\ k.vmid \in Vmids /\ Owns(k.dev, k.vmid)
  BY DEF IInv, Shapes, CallsOwnVms, Made
<1>2. /\ DOMAIN call' = Calls /\ DOMAIN call'[c] = Fields
      /\ call'[c].dev = k.dev /\ call'[c].step = step /\ call'[c].vmid = k.vmid
      /\ \A b \in Calls \ {c} : call'[b] = call[b]
  BY DEF Then, IInv, Shapes, Fields
<1>. QED BY <1>1, <1>2 DEF IInv, Shapes, CallsOwnVms, CallsKept

LEMMA NumberedKeeps ==
    ASSUME IInv, NEW c \in Calls, call[c] # Idle, Numbered(c)
    PROVE  DOMAIN call' = Calls /\ CallsKept
<1>. DEFINE k == call[c]
<1>1. PICK v \in Vmids :
        call' = [call EXCEPT ![c] = [k EXCEPT !.step = "make", !.vmid = v]]
  BY DEF Numbered
<1>2. k.dev \in Ids /\ k.step = "nextid" /\ ~k.done
  BY DEF IInv, Shapes, CallsOwnVms, Numbered
<1>3. /\ DOMAIN call' = Calls /\ DOMAIN call'[c] = Fields
      /\ call'[c].dev = k.dev /\ call'[c].step = "make" /\ call'[c].vmid = v
      /\ call'[c].done = k.done
      /\ \A b \in Calls \ {c} : call'[b] = call[b]
  BY <1>1 DEF IInv, Shapes, Fields
<1>. QED BY <1>2, <1>3 DEF IInv, Shapes, CallsOwnVms, CallsKept, Made

\* A record that is stored names the VM of a call that owns it.
LEMMA StoreDeviceIInv ==
    ASSUME IInv, NEW c \in Calls, call[c] # Idle, Made(call[c]), StoreDevice(c),
           call[c].step # "nextid", UNCHANGED <<vm, lost>>
    PROVE  IInv'
<1>. DEFINE k == call[c]
            r == [state |-> "provisioning", vmid |-> k.vmid,
                  serial |-> FALSE, waiting |-> FALSE]
<1>1. k.dev \in Ids /\ k.vmid \in Vmids /\ Owns(k.dev, k.vmid)
  BY DEF IInv, Shapes, CallsOwnVms
<1>2. rec' = [rec EXCEPT ![k.dev] = r] /\ DOMAIN rec = Ids
  BY DEF StoreDevice, IInv, Shapes
<1>3. DOMAIN call' = Calls /\ CallsKept
  BY ThenKeeps DEF StoreDevice
<1>4. ASSUME NEW d \in Ids, rec'[d] # NoRecord
      PROVE  rec'[d].vmid \in Vmids /\ Owns(d, rec'[d].vmid)
  <2>1. CASE d = k.dev
    <3>1. rec'[d].vmid = k.vmid
      BY <1>2, <2>1
    <3>. QED BY <1>1, <2>1, <3>1
  <2>2. CASE d # k.dev
    <3>1. rec'[d] = rec[d]
      BY <1>2, <2>2
    <3>. QED BY <1>4, <3>1 DEF IInv, Shapes, RecordsOwnVms
  <2>. QED BY <2>1, <2>2
<1>5. DOMAIN rec' = Ids
  BY <1>2
<1>. QED BY <1>3, <1>4, <1>5, VmsKept

\* The other answers: the calls are kept, and so are the records' VM ids.
LEMMA CreateReplyIInv ==
    ASSUME IInv, NEW c \in Calls, call[c] # Idle, CreateReply(c),
           UNCHANGED <<vm, lost>>
    PROVE  IInv'
<1>1. CASE Numbered(c) /\ UNCHANGED rec
  BY <1>1, NumberedKeeps, RecKeeps, VmsKept
<1>2. CASE Succeeded(c, "make") /\ Then(c, "config") /\ UNCHANGED rec
  <2>1. Made(call[c])
    BY <1>2 DEF Succeeded, Made
  <2>. QED BY <1>2, <2>1, ThenKeeps, RecKeeps, VmsKept
<1>3. CASE Succeeded(c, "make") /\ StoreDevice(c)
  BY <1>3, StoreDeviceIInv DEF Succeeded, Made
<1>4. CASE Succeeded(c, "config") /\ StoreDevice(c)
  BY <1>4, StoreDeviceIInv DEF Succeeded, Made
<1>5. CASE End(c) /\ UNCHANGED rec
  BY <1>5, EndKeeps, RecKeeps, VmsKept
<1>. QED BY <1>1, <1>2, <1>3, <1>4, <1>5 DEF CreateReply

LEMMA PatchAndGo ==
    ASSUME IInv, NEW c \in Calls, call[c] # Idle, UNCHANGED <<vm, lost>>,
           \/ UNCHANGED rec
           \/ \E d \in Ids : \E state, serial, waiting : Patch(d, state, serial, waiting)
           \/ rec' = [rec EXCEPT ![call[c].dev] = NoRecord],
           \/ End(c)
           \/ Made(call[c]) /\ \E step : step \notin {"nextid", "make"} /\ Then(c, step)
    PROVE  IInv'
<1>1. DOMAIN call' = Calls /\ CallsKept
  BY EndKeeps, ThenKeeps
<1>2. /\ DOMAIN rec' = Ids
      /\ \A e \in Ids : rec'[e] # NoRecord =>
           rec'[e].vmid \in Vmids /\ Owns(e, rec'[e].vmid)
  <2>1. CASE rec' = [rec EXCEPT ![call[c].dev] = NoRecord]
    BY <2>1 DEF IInv, Shapes, RecordsOwnVms
  <2>. QED BY <2>1, RecKeeps, PatchKeeps
<1>. QED BY <1>1, <1>2, VmsKept

LEMMA ReplyIInv ==
    ASSUME IInv, NEW c \in Calls, Reply(c)
    PROVE  IInv'
<1>. DEFINE k == call[c]
<1>1. k # Idle /\ k.dev \in Ids /\ UNCHANGED <<vm, lost>>
  BY DEF Reply, IInv, Shapes
<1>2. CASE CreateReply(c)
  BY <1>1, <1>2, CreateReplyIInv
<1>3. CASE DestroyReply(c)
  <2>1. CASE k.step = "stop" /\ Then(c, "delete") /\ UNCHANGED rec
    <3>1. Made(k)
      BY <2>1 DEF Made
    <3>. QED BY <1>1, <2>1, <3>1, PatchAndGo
  <2>2. CASE DeleteReply(c)
    BY <1>1, <2>2, PatchAndGo DEF DeleteReply
  <2>. QED BY <1>3, <2>1, <2>2 DEF DestroyReply
<1>4. CASE StartReply(c)
  BY <1>1, <1>4, PatchAndGo DEF StartReply
<1>5. CASE StopReply(c)
  <2>1. Made(k)
    BY <1>5 DEF StopReply, Succeeded, Failed, Made
  <2>2. End(c) \/ Then(c, "rollback") \/ Then(c, "stop")
    BY <1>5 DEF StopReply
  <2>3. UNCHANGED rec \/ Patch(k.dev, "stopped", FALSE, FALSE)
    BY <1>5 DEF StopReply
  <2>. QED BY <1>1, <2>1, <2>2, <2>3, PatchAndGo
<1>6. CASE RebootReply(c)
  BY <1>1, <1>6, PatchAndGo DEF RebootReply
<1>7. CASE RollbackReply(c)
  <2>1. Made(k)
    BY <1>7 DEF RollbackReply, Succeeded, Failed, Made
  <2>. QED BY <1>1, <1>7, <2>1, PatchAndGo DEF RollbackReply
<1>. QED BY <1>2, <1>3, <1>4, <1>5, <1>6, <1>7 DEF Reply

-----------------------------------------------------------------------------

\* A poll patches at most, and keeps the VM id it finds.
LEMMA PollPatchIInv ==
    ASSUME IInv, NEW p \in Polls, PollPatch(p)
    PROVE  IInv'
<1>. DEFINE d == poll[p].dev
<1>1. \E state, serial, waiting : Patch(d, state, serial, waiting)
  BY DEF PollPatch
<1>2. UNCHANGED <<vm, lost, call>>
  BY DEF PollPatch
<1>3. d \in Ids
  BY DEF PollPatch, Answered
<1>4. CallsKept /\ DOMAIN call' = Calls
  BY <1>2 DEF IInv, Shapes, CallsOwnVms, CallsKept
<1>. QED BY <1>1, <1>2, <1>3, <1>4, PatchKeeps, VmsKept

LEMMA NextIInv == IInv /\ [Next]_vars => IInv'
<1>. SUFFICES ASSUME IInv, [Next]_vars PROVE IInv'
  OBVIOUS
<1>1. CASE UserRequest
  BY <1>1, CreateIInv, OperateIInv, DestroyIInv DEF UserRequest
<1>2. ASSUME NEW c \in Calls, CallStep(c)
      PROVE  IInv'
  BY <1>2, RequestIInv, ReplyIInv DEF CallStep
<1>3. ASSUME UNCHANGED <<vm, rec, call, lost>>
      PROVE  IInv'
  BY <1>3 DEF IInv, Shapes, CallsOwnVms, RecordsOwnVms, Owns
<1>4. ASSUME NEW p \in Polls, NEW d \in Ids, PollStart(p, d)
      PROVE  IInv'
  BY <1>3, <1>4 DEF PollStart
<1>5. ASSUME NEW p \in Polls, PollAnswer(p) \/ PollPatch(p) \/ PollReturns(p)
      PROVE  IInv'
  BY <1>3, <1>5, PollPatchIInv DEF PollAnswer, PollReturns
<1>6. ASSUME NEW v \in Vmids, VmMoves(v) \/ VmGoes(v)
      PROVE  IInv'
  BY <1>6, VmMovesIInv, VmGoesIInv
<1>7. ASSUME NEW d \in Ids, Expire(d)
      PROVE  IInv'
  BY <1>3, <1>7 DEF Expire
<1>8. CASE UNCHANGED vars
  BY <1>3, <1>8 DEF vars
<1>. QED BY <1>1, <1>2, <1>4, <1>5, <1>6, <1>7, <1>8 DEF Next

-----------------------------------------------------------------------------
(* Types.  The VMs' is part of Shapes already; what the others need beyond  *)
(* themselves is that a call with a VM to work on has an id (CallsOwnVms).  *)

RecTyped == rec \in [Ids -> Record \cup {NoRecord}]

CallTyped == call \in [Calls -> Call \cup {Idle}]

PollTyped == poll \in [Polls -> Poll \cup {Idle}]

SetsTyped == used \subseteq Ids /\ late \subseteq Ids /\ lost \subseteq Ids

Typed == RecTyped /\ CallTyped /\ PollTyped /\ SetsTyped

LEMMA RecordIsTyped ==
    ASSUME RecTyped, NEW d \in Ids, rec[d] # NoRecord
    PROVE  /\ rec[d] \in Record /\ rec[d].vmid \in Vmids
           /\ rec[d].serial \in BOOLEAN /\ rec[d].waiting \in BOOLEAN
BY DEF RecTyped, Record

LEMMA CallIsTyped ==
    ASSUME CallTyped, NEW c \in Calls, call[c] # Idle
    PROVE  call[c] \in Call /\ call[c].dev \in Ids /\ call[c].serial \in BOOLEAN
BY DEF CallTyped, Call

LEMMA PatchTypes ==
    ASSUME RecTyped, NEW d \in Ids,
           NEW state \in Active \cup {"stopped", "error", "deleting"},
           NEW serial, rec[d] # NoRecord => serial \in BOOLEAN,
           NEW waiting \in BOOLEAN, Patch(d, state, serial, waiting)
    PROVE  RecTyped'
<1>1. CASE rec[d] = NoRecord
  BY <1>1 DEF Patch, RecTyped
<1>2. CASE rec[d] # NoRecord
  <2>. DEFINE r == [state |-> state, vmid |-> rec[d].vmid,
                    serial |-> serial, waiting |-> waiting]
  <2>1. r \in Record
    BY <1>2, RecordIsTyped DEF Record
  <2>2. rec' = [rec EXCEPT ![d] = r]
    BY <1>2 DEF Patch
  <2>. HIDE DEF r
  <2>. QED BY <2>1, <2>2 DEF RecTyped
<1>. QED BY <1>1, <1>2

\* A patch that keeps the serial it finds.
LEMMA PatchSerialTypes ==
    ASSUME RecTyped, NEW d \in Ids,
           NEW state \in Active \cup {"stopped", "error", "deleting"},
           Patch(d, state, rec[d].serial, FALSE)
    PROVE  RecTyped'
<1>1. rec[d] # NoRecord => rec[d].serial \in BOOLEAN
  BY RecordIsTyped
<1>. QED BY <1>1, PatchTypes

LEMMA CallTypes ==
    ASSUME CallTyped, NEW c \in Calls, NEW x \in Call \cup {Idle},
           call' = [call EXCEPT ![c] = x]
    PROVE  CallTyped'
BY DEF CallTyped

LEMMA BeginTypes ==
    ASSUME CallTyped, NEW c \in Calls, NEW d \in Ids,
           NEW op \in {"create", "start", "stop", "reboot", "reset", "destroy"},
           NEW step \in Steps, NEW vmid \in Vmids \cup {None},
           NEW serial \in BOOLEAN, NEW force \in BOOLEAN,
           Begin(c, op, d, step, vmid, serial, force)
    PROVE  CallTyped' /\ UNCHANGED <<vm, late, poll, lost>>
<1>1. [op |-> op, dev |-> d, step |-> step, vmid |-> vmid,
       serial |-> serial, force |-> force, done |-> FALSE] \in Call
  BY DEF Call
<1>. QED BY <1>1, CallTypes DEF Begin

LEMMA EndTypes ==
    ASSUME CallTyped, NEW c \in Calls, End(c)
    PROVE  CallTyped'
BY CallTypes DEF End

LEMMA ThenTypes ==
    ASSUME CallTyped, NEW c \in Calls, call[c] # Idle, NEW step \in Steps, Then(c, step)
    PROVE  CallTyped'
<1>1. [call[c] EXCEPT !.step = step, !.done = FALSE] \in Call
  BY CallIsTyped DEF Call
<1>. QED BY <1>1, CallTypes DEF Then

LEMMA NumberedTypes ==
    ASSUME CallTyped, NEW c \in Calls, call[c] # Idle, Numbered(c)
    PROVE  CallTyped'
<1>1. PICK v \in Vmids :
        call' = [call EXCEPT ![c] = [call[c] EXCEPT !.step = "make", !.vmid = v]]
  BY DEF Numbered
<1>2. [call[c] EXCEPT !.step = "make", !.vmid = v] \in Call
  BY CallIsTyped DEF Call, Steps
<1>. QED BY <1>1, <1>2, CallTypes

LEMMA UserRequestTypes ==
    ASSUME Typed, UserRequest
    PROVE  Typed'
<1>0. PICK c \in Calls, d \in Ids :
        \/ Create(c, d)
        \/ \E op \in {"start", "stop", "reboot", "reset"} : Operate(c, op, d)
        \/ \E force \in BOOLEAN : Destroy(c, d, force)
  BY DEF UserRequest
<1>1. CASE Create(c, d)
  <2>1. CallTyped' /\ UNCHANGED <<vm, late, poll, lost>>
    BY <1>1, BeginTypes DEF Create, Typed, Steps
  <2>. QED BY <1>1, <2>1 DEF Create, Typed, RecTyped, PollTyped, SetsTyped
<1>2. ASSUME NEW op \in {"start", "stop", "reboot", "reset"}, Operate(c, op, d)
      PROVE  Typed'
  <2>. DEFINE serial == op = "reboot" /\ rec[d].serial
  <2>1. rec[d] # NoRecord /\ rec[d].vmid \in Vmids
    BY <1>2, RecordIsTyped DEF Operate, Typed
  <2>2. serial \in BOOLEAN
    OBVIOUS
  <2>3. FirstStep(op) \in Steps
    BY DEF FirstStep, Steps
  <2>4. Begin(c, op, d, FirstStep(op), rec[d].vmid, serial, FALSE)
    BY <1>2 DEF Operate
  <2>. HIDE DEF serial
  <2>5. CallTyped' /\ UNCHANGED <<vm, late, poll, lost>>
    BY <2>1, <2>2, <2>3, <2>4, BeginTypes DEF Typed
  <2>. QED BY <1>2, <2>5 DEF Operate, Typed, RecTyped, PollTyped, SetsTyped
<1>3. ASSUME NEW force \in BOOLEAN, Destroy(c, d, force)
      PROVE  Typed'
  <2>1. rec[d].vmid \in Vmids
    BY <1>3, RecordIsTyped DEF Destroy, Typed
  <2>2. RecTyped'
    BY <1>3, PatchSerialTypes DEF Destroy, Typed
  <2>3. CallTyped' /\ UNCHANGED <<vm, late, poll, lost>>
    BY <1>3, <2>1, BeginTypes DEF Destroy, Typed, Steps
  <2>. QED BY <1>3, <2>2, <2>3 DEF Destroy, Typed, PollTyped, SetsTyped
<1>. QED BY <1>0, <1>1, <1>2, <1>3

LEMMA RequestTypes ==
    ASSUME Typed, NEW c \in Calls, Request(c)
    PROVE  Typed'
<1>1. call[c] # Idle /\ Done(c)
  BY DEF Request, Make, Serve
<1>2. [call[c] EXCEPT !.done = TRUE] \in Call
  BY <1>1, CallIsTyped DEF Typed, Call
<1>3. CallTyped'
  BY <1>1, <1>2, CallTypes DEF Typed, Done
<1>. QED BY <1>3 DEF Request, Typed, RecTyped, PollTyped, SetsTyped

\* The records and calls that the answers to requests leave.
LEMMA CreateReplyTypes ==
    ASSUME IInv, Typed, NEW c \in Calls, call[c] # Idle, CreateReply(c)
    PROVE  RecTyped' /\ CallTyped'
<1>. DEFINE k == call[c]
<1>0. k.dev \in Ids
  BY CallIsTyped DEF Typed
<1>1. CASE Numbered(c) /\ UNCHANGED rec
  BY <1>1, NumberedTypes DEF Typed, RecTyped
<1>2. CASE Then(c, "config") /\ UNCHANGED rec
  BY <1>2, ThenTypes DEF Typed, RecTyped, Steps
<1>3. ASSUME StoreDevice(c), k.step \in {"make", "config"}
      PROVE  RecTyped' /\ CallTyped'
  <2>. DEFINE r == [state |-> "provisioning", vmid |-> k.vmid,
                    serial |-> FALSE, waiting |-> FALSE]
  <2>1. k.vmid \in Vmids
    BY <1>3 DEF IInv, CallsOwnVms
  <2>2. r \in Record
    BY <2>1 DEF Record, Active
  <2>3. rec' = [rec EXCEPT ![k.dev] = r]
    BY <1>3 DEF StoreDevice
  <2>4. CallTyped'
    BY <1>3, ThenTypes DEF StoreDevice, Typed, Steps
  <2>. HIDE DEF r
  <2>. QED BY <1>0, <2>2, <2>3, <2>4 DEF Typed, RecTyped
<1>4. CASE End(c) /\ UNCHANGED rec
  BY <1>4, EndTypes DEF Typed, RecTyped
<1>. QED BY <1>1, <1>2, <1>3, <1>4 DEF CreateReply, Succeeded

LEMMA DestroyReplyTypes ==
    ASSUME Typed, NEW c \in Calls, call[c] # Idle, DestroyReply(c)
    PROVE  RecTyped' /\ CallTyped'
<1>. DEFINE d == call[c].dev
<1>0. d \in Ids
  BY CallIsTyped DEF Typed
<1>1. CASE Then(c, "delete") /\ UNCHANGED rec
  BY <1>1, ThenTypes DEF Typed, RecTyped, Steps
<1>2. CASE rec' = [rec EXCEPT ![d] = NoRecord] /\ End(c)
  BY <1>0, <1>2, EndTypes DEF Typed, RecTyped
<1>3. CASE Patch(d, "error", rec[d].serial, FALSE) /\ End(c)
  BY <1>0, <1>3, PatchSerialTypes, EndTypes DEF Typed
<1>. QED BY <1>1, <1>2, <1>3 DEF DestroyReply, DeleteReply

LEMMA OperateReplyTypes ==
    ASSUME Typed, NEW c \in Calls, call[c] # Idle,
           StartReply(c) \/ StopReply(c) \/ RebootReply(c) \/ RollbackReply(c)
    PROVE  RecTyped' /\ CallTyped'
<1>. DEFINE d == call[c].dev
<1>0. d \in Ids /\ call[c].serial \in BOOLEAN
  BY CallIsTyped DEF Typed
<1>1. ASSUME \/ End(c) \/ Then(c, "rollback") \/ Then(c, "stop") \/ Then(c, "start")
      PROVE  CallTyped'
  BY <1>1, EndTypes, ThenTypes DEF Typed, Steps
<1>2. ASSUME \/ UNCHANGED rec
             \/ Patch(d, "booting", rec[d].serial, FALSE)
             \/ Patch(d, "stopped", FALSE, FALSE)
             \/ Patch(d, "booting", call[c].serial, FALSE)
      PROVE  RecTyped'
  <2>1. CASE UNCHANGED rec
    BY <2>1 DEF Typed, RecTyped
  <2>2. CASE Patch(d, "booting", rec[d].serial, FALSE)
    BY <1>0, <2>2, PatchSerialTypes DEF Typed, Active
  <2>3. CASE Patch(d, "stopped", FALSE, FALSE)
    BY <1>0, <2>3, PatchTypes DEF Typed
  <2>4. CASE Patch(d, "booting", call[c].serial, FALSE)
    BY <1>0, <2>4, PatchTypes DEF Typed, Active
  <2>. QED BY <1>2, <2>1, <2>2, <2>3, <2>4
<1>3. CASE StartReply(c)
  BY <1>1, <1>2, <1>3 DEF StartReply
<1>4. CASE StopReply(c)
  BY <1>1, <1>2, <1>4 DEF StopReply
<1>5. CASE RebootReply(c)
  BY <1>1, <1>2, <1>5 DEF RebootReply
<1>6. CASE RollbackReply(c)
  BY <1>1, <1>2, <1>6 DEF RollbackReply
<1>. QED BY <1>3, <1>4, <1>5, <1>6

LEMMA ReplyTypes ==
    ASSUME IInv, Typed, NEW c \in Calls, Reply(c)
    PROVE  Typed'
<1>1. call[c] # Idle /\ UNCHANGED <<vm, used, late, poll, lost>>
  BY DEF Reply
<1>2. RecTyped' /\ CallTyped'
  BY <1>1, CreateReplyTypes, DestroyReplyTypes, OperateReplyTypes DEF Reply
<1>. QED BY <1>1, <1>2 DEF Typed, PollTyped, SetsTyped

-----------------------------------------------------------------------------
(* The polls. *)

LEMMA PollTypes ==
    ASSUME PollTyped, NEW p \in Polls, NEW x \in Poll \cup {Idle},
           poll' = [poll EXCEPT ![p] = x]
    PROVE  PollTyped'
BY DEF PollTyped

LEMMA StatusIsAnswer ==
    ASSUME NEW d \in Ids, NEW state \in Active \cup {"stopped", "error"},
           NEW serial \in BOOLEAN \cup {None}, NEW waiting \in BOOLEAN
    PROVE  Status(d, state, serial, waiting) \in Answered
BY DEF Status, Answered

LEMMA StatusesTypes ==
    ASSUME NEW d \in Ids, NEW r \in Record, r.state \in Active,
           NEW m, NEW s \in Statuses(d, r, m)
    PROVE  s \in Answered \cup Nothing
<1>0. r.serial \in BOOLEAN
  BY DEF Record
<1>1. CASE s = Status(d, "error", None, FALSE)
  BY <1>1, StatusIsAnswer
<1>2. CASE s = Status(d, "stopped", r.serial, FALSE)
  BY <1>0, <1>2, StatusIsAnswer
<1>3. CASE s = Waiting(d, r)
  <2>1. CASE s = [dev |-> d, nothing |-> TRUE]
    BY <2>1 DEF Nothing
  <2>2. CASE s = Status(d, "booting", None, TRUE)
    BY <2>2, StatusIsAnswer DEF Active
  <2>. QED BY <1>3, <2>1, <2>2 DEF Waiting
<1>4. CASE s = Status(d, "booting", TRUE, FALSE)
  BY <1>4, StatusIsAnswer DEF Active
<1>5. CASE s \in AdbStatus(d, r, m)
  <2>1. CASE s = Status(d, IF r.state = "ready" THEN "offline" ELSE r.state, TRUE, FALSE)
    BY <1>5, <2>1, StatusIsAnswer DEF Active
  <2>2. CASE s = Status(d, "ready", TRUE, FALSE)
    BY <2>2, StatusIsAnswer DEF Active
  <2>. QED BY <1>4, <1>5, <2>1, <2>2 DEF AdbStatus
<1>. QED BY <1>1, <1>2, <1>3, <1>4, <1>5 DEF Statuses

LEMMA PollStartTypes ==
    ASSUME Typed, NEW p \in Polls, NEW d \in Ids, PollStart(p, d)
    PROVE  Typed'
<1>1. rec[d] \in Record /\ rec[d].state \in Active
  BY RecordIsTyped DEF PollStart, InState, Typed
<1>2. [dev |-> d, rec |-> rec[d]] \in Poll
  BY <1>1 DEF Poll, Asking
<1>3. PollTyped'
  BY <1>2, PollTypes DEF PollStart, Typed
<1>. QED BY <1>3 DEF PollStart, Typed, RecTyped, CallTyped, SetsTyped

LEMMA PollAnswerTypes ==
    ASSUME Typed, NEW p \in Polls, PollAnswer(p)
    PROVE  Typed'
<1>. DEFINE q == poll[p]
<1>1. q.dev \in Ids /\ q.rec \in Record /\ q.rec.state \in Active
  BY DEF PollAnswer, Asking
<1>2. PICK s \in Statuses(q.dev, q.rec, vm[q.rec.vmid]) : poll' = [poll EXCEPT ![p] = s]
  BY DEF PollAnswer
<1>3. s \in Poll
  BY <1>1, <1>2, StatusesTypes DEF Poll
<1>4. PollTyped'
  BY <1>2, <1>3, PollTypes DEF Typed
<1>. QED BY <1>4 DEF PollAnswer, Typed, RecTyped, CallTyped, SetsTyped

LEMMA PollPatchTypes ==
    ASSUME Typed, NEW p \in Polls, PollPatch(p)
    PROVE  Typed'
<1>. DEFINE q == poll[p]
            expired == TooLate(q.dev, q.state)
            state == IF expired THEN "error" ELSE q.state
            serial == IF q.serial = None THEN rec[q.dev].serial ELSE q.serial
            waiting == q.waiting /\ ~expired
<1>1. /\ q.dev \in Ids /\ q.serial \in BOOLEAN \cup {None}
      /\ q.state \in Active \cup {"stopped", "error"}
  BY DEF PollPatch, Answered
<1>2. waiting \in BOOLEAN
  OBVIOUS
<1>3. rec[q.dev] # NoRecord => serial \in BOOLEAN
  BY <1>1, RecordIsTyped DEF Typed
<1>4. state \in Active \cup {"stopped", "error", "deleting"}
  BY <1>1
<1>5. Patch(q.dev, state, serial, waiting)
  BY DEF PollPatch
<1>6. RecTyped'
  <2>. HIDE DEF state, serial, waiting
  <2>. QED BY <1>1, <1>2, <1>3, <1>4, <1>5, PatchTypes DEF Typed
<1>7. PollTyped'
  BY PollTypes DEF PollPatch, Typed
<1>. QED BY <1>6, <1>7 DEF PollPatch, Typed, CallTyped, SetsTyped

LEMMA NextTyped == IInv /\ Typed /\ [Next]_vars => Typed'
<1>. SUFFICES ASSUME IInv, Typed, [Next]_vars PROVE Typed'
  OBVIOUS
<1>1. CASE UserRequest
  BY <1>1, UserRequestTypes
<1>2. ASSUME NEW c \in Calls, CallStep(c)
      PROVE  Typed'
  BY <1>2, RequestTypes, ReplyTypes DEF CallStep
<1>3. ASSUME NEW p \in Polls, NEW d \in Ids, PollStart(p, d)
      PROVE  Typed'
  BY <1>3, PollStartTypes
<1>4. ASSUME NEW p \in Polls, PollAnswer(p) \/ PollPatch(p) \/ PollReturns(p)
      PROVE  Typed'
  <2>1. CASE PollReturns(p)
    BY <2>1, PollTypes DEF PollReturns, Typed, RecTyped, CallTyped, SetsTyped
  <2>. QED BY <1>4, <2>1, PollAnswerTypes, PollPatchTypes
<1>5. ASSUME NEW v \in Vmids, VmMoves(v)
      PROVE  Typed'
  BY <1>5 DEF VmMoves, Typed, RecTyped, CallTyped, PollTyped, SetsTyped
<1>6. ASSUME NEW v \in Vmids, VmGoes(v)
      PROVE  Typed'
  <2>1. vm[v].dev \in Ids
    BY <1>6 DEF VmGoes, IInv, Shapes, Vm
  <2>. QED BY <1>6, <2>1 DEF VmGoes, Typed, RecTyped, CallTyped, PollTyped, SetsTyped
<1>7. ASSUME NEW d \in Ids, Expire(d)
      PROVE  Typed'
  BY <1>7 DEF Expire, Typed, RecTyped, CallTyped, PollTyped, SetsTyped
<1>8. CASE UNCHANGED vars
  BY <1>8 DEF vars, Typed, RecTyped, CallTyped, PollTyped, SetsTyped
<1>. QED BY <1>1, <1>2, <1>3, <1>4, <1>5, <1>6, <1>7, <1>8 DEF Next

-----------------------------------------------------------------------------

\* VMs, records, calls and polls keep their shapes: no late answer of a poll
\* makes a record that the code could not read (store.ts:119, types.ts).
THEOREM SpecTypeOK == Spec => []TypeOK
<1>1. Init => Typed
  BY DEF Init, Typed, RecTyped, CallTyped, PollTyped, SetsTyped
<1>2. IInv /\ Typed => TypeOK
  BY DEF IInv, Shapes, Typed, RecTyped, CallTyped, PollTyped, SetsTyped, TypeOK
<1>. QED BY InitIInv, NextIInv, NextTyped, <1>1, <1>2, PTL DEF Spec

\* A record names the VM that was made for it, however the requests
\* interleave and whatever Proxmox hands out (qemu.ts:61-151).
THEOREM SpecRecordsOwnVms == Spec => []RecordsOwnVms
<1>1. IInv => RecordsOwnVms
  BY DEF IInv
<1>. QED BY InitIInv, NextIInv, <1>1, PTL DEF Spec

\* No request changes the VM of another device, unless the requester's own VM
\* has been deleted (qemu.ts:171-218).
THEOREM SpecNoTrespass == Spec => NoTrespass
<1>1. ASSUME IInv, NEW c \in Calls, Request(c), NEW v \in Vmids,
             vm[v] # None, vm'[v] # vm[v], call[c].dev \notin lost
      PROVE  vm[v].dev = call[c].dev
  <2>1. call[c].vmid = v
    <3>1. vm' = [vm EXCEPT ![call[c].vmid] = vm'[call[c].vmid]]
      BY <1>1 DEF Request, Make, Serve, IInv, Shapes, CallsOwnVms
    <3>. QED BY <1>1, <3>1 DEF IInv, Shapes
  <2>2. CASE Make(c)
    BY <1>1, <2>1, <2>2 DEF Make
  <2>3. CASE Serve(c)
    <3>1. Owns(call[c].dev, v)
      BY <1>1, <2>1, <2>3 DEF Serve, Request, IInv, CallsOwnVms, Made
    <3>. QED BY <1>1, <3>1 DEF Owns
  <2>. QED BY <1>1, <2>2, <2>3 DEF Request
<1>2. IInv /\ [Next]_vars => [ \A c \in Calls : Request(c) => ~Trespass(c) ]_vars
  BY <1>1 DEF Trespass
<1>. QED BY InitIInv, NextIInv, <1>2, PTL DEF Spec, NoTrespass
=============================================================================
