----------------------------- MODULE AvdLifecycle -----------------------------
(***************************************************************************)
(* An AVD device's life as the controller records it: the lifecycle        *)
(* handlers (server/android/routes.ts, runtime/avd.ts) and the watcher's   *)
(* polls (runtime/index.ts, runtime/adb-base.ts), all talking to one       *)
(* node's agent, which is AgentEmulators.                                  *)
(*                                                                         *)
(* A handler or a poll works on the record it read when it began; what it  *)
(* writes after an await is merged into whatever the record is by then.    *)
(* A call to the agent may fail or time out at any moment, while the agent *)
(* carries on with it.                                                     *)
(***************************************************************************)
EXTENDS AgentEmulators

CONSTANTS
    Calls,        \* lifecycle requests in flight
    Polls,        \* watcher polls in flight
    BootTimeout,  \* bootTimeoutMs
    MaxTime,      \* bound on the clock; no device is created so late that
                  \* its boot timeout would fall beyond it
    MaxRestarts,  \* bound on the controller's restarts
    NoRecord      \* not in the store

ASSUME LimitAssumption ==
    BootTimeout \in Nat /\ MaxTime \in Nat /\ MaxRestarts \in Nat

\* The states pollOne acts on.
Active == {"provisioning", "booting", "ready", "offline"}

State == Active \cup {"stopped", "error", "deleting"}

Record == [state : State, serial : PortOrNone, created : Nat]

\* A call's next or outstanding agent request is step, served as job; serial
\* is what the record said when the call began.
Call == [op : {"start", "stop", "reset", "destroy"}, dev : Avds,
         step : {"start", "stop", "delete"}, job : Jobs \cup {None},
         serial : PortOrNone]

\* before and serial are what the record said when the poll began.
Poll == [dev : Avds, before : Active, serial : Ports,
         answer : {"none", "booted", "starting", "silent"}]

ASSUME MarkAssumption ==
    /\ NoRecord \notin Record
    /\ Idle \notin Call /\ Idle \notin Poll /\ None \notin Jobs

VARIABLES
    now,       \* Date.now()
    rec,       \* the store
    used,      \* ids that have been given out
    call,      \* lifecycle requests in flight
    poll,      \* polls in flight
    asked,     \* history: when a device not yet starting was last asked to
    restarts   \* how often the controller has been restarted

cvars == <<now, rec, used, call, poll, asked, restarts>>
vars == <<avars, cvars>>

TypeOK ==
    /\ AgentTypeOK
    /\ now \in Nat
    /\ rec \in [Avds -> Record \cup {NoRecord}]
    /\ used \subseteq Avds
    /\ \A d \in Avds : rec[d] # NoRecord => d \in used
    /\ call \in [Calls -> Call \cup {Idle}]
    /\ poll \in [Polls -> Poll \cup {Idle}]
    /\ asked \in [Avds -> Nat]
    /\ restarts \in Nat

Init ==
    /\ AgentInit
    /\ now = 0
    /\ rec = [d \in Avds |-> NoRecord]
    /\ used = {}
    /\ call = [c \in Calls |-> Idle]
    /\ poll = [p \in Polls |-> Idle]
    /\ asked = [d \in Avds |-> 0]
    /\ restarts = 0

InState(d, states) == rec[d] # NoRecord /\ rec[d].state \in states

\* patchDevice: nothing happens to a device that is no longer there.
Patch(d, new) ==
    rec' = IF rec[d] = NoRecord THEN rec ELSE [rec EXCEPT ![d] = new]

-----------------------------------------------------------------------------
(* The lifecycle handlers, up to their first agent request. *)

BeginCall(c, op, d, step, serial) ==
    /\ call[c] = Idle
    /\ call' = [call EXCEPT ![c] =
                  [op |-> op, dev |-> d, step |-> step, job |-> None, serial |-> serial]]
    /\ asked' = IF op \in {"start", "reset"} /\ ~InState(d, {"booting", "provisioning"})
                THEN [asked EXCEPT ![d] = now]
                ELSE asked

\* AvdAdapter.create: the AVD is there, the record is stored, then start.
Create(c, d) ==
    /\ d \notin used /\ now + BootTimeout < MaxTime
    /\ CreateAvd(d)
    /\ used' = used \cup {d}
    /\ rec' = [rec EXCEPT ![d] =
                 [state |-> "provisioning", serial |-> None, created |-> now]]
    /\ BeginCall(c, "start", d, "start", None)
    /\ UNCHANGED <<now, poll, restarts>>

Start(c, d) ==
    /\ rec[d] # NoRecord
    /\ BeginCall(c, "start", d, "start", rec[d].serial)
    /\ UNCHANGED <<avars, now, rec, used, poll, restarts>>

\* reset begins with a stop.
StopOrReset(c, op, d) ==
    /\ op \in {"stop", "reset"}
    /\ rec[d] # NoRecord
    /\ BeginCall(c, op, d, "stop", rec[d].serial)
    /\ UNCHANGED <<avars, now, rec, used, poll, restarts>>

\* RuntimeManager.destroy marks the record first.
Destroy(c, d) ==
    /\ rec[d] # NoRecord
    /\ rec' = [rec EXCEPT ![d].state = "deleting"]
    /\ BeginCall(c, "destroy", d, "stop", rec[d].serial)
    /\ UNCHANGED <<avars, now, used, poll, restarts>>

\* adb reboot, sent to the serial on record.  The state is left to the polls.
Reboot(d) ==
    /\ rec[d] # NoRecord /\ rec[d].serial # None
    /\ AdbReboot(rec[d].serial)
    /\ UNCHANGED cvars

-----------------------------------------------------------------------------
(* The handlers' agent requests. *)

Sent(c) == call[c] # Idle /\ call[c].job # None

Send(c, j) ==
    /\ call[c] # Idle /\ call[c].job = None
    /\ Submit(j, call[c].step, call[c].dev)
    /\ call' = [call EXCEPT ![c].job = j]
    /\ UNCHANGED <<now, rec, used, poll, asked, restarts>>

End(c) == call' = [call EXCEPT ![c] = Idle]

Then(c, step) == call' = [call EXCEPT ![c].step = step, ![c].job = None]

\* startAvd answered with port p: start records the port, reset does not.
Started(c, p) ==
    /\ LET d == call[c].dev
       IN  Patch(d, IF call[c].op = "start"
                    THEN [rec[d] EXCEPT !.state = "booting", !.serial = p]
                    ELSE [rec[d] EXCEPT !.state = "booting"])
    /\ End(c)

\* stopAvd has been answered, or has failed, which stop and destroy ignore.
Stopped(c) ==
    LET d == call[c].dev
    IN  /\ IF call[c].op = "destroy"
           THEN UNCHANGED rec
           ELSE Patch(d, [rec[d] EXCEPT !.state = "stopped", !.serial = call[c].serial])
        /\ CASE call[c].op = "stop"    -> End(c)
             [] call[c].op = "reset"   -> Then(c, "start")
             [] call[c].op = "destroy" -> Then(c, "delete")

\* deleteAvd likewise; the record goes.
Deleted(c) ==
    /\ rec' = [rec EXCEPT ![call[c].dev] = NoRecord]
    /\ End(c)

\* The agent's answer arrives.
Reply(c) ==
    /\ Sent(c)
    /\ Collect(call[c].job)
    /\ LET p == job[call[c].job].port
       IN  CASE call[c].step = "start" /\ p # None -> Started(c, p)
             [] call[c].step = "start" /\ p = None -> End(c) /\ UNCHANGED rec
             [] call[c].step = "stop"   -> Stopped(c)
             [] call[c].step = "delete" -> Deleted(c)
    /\ UNCHANGED <<now, used, poll, asked, restarts>>

\* The agent cannot be reached, or takes too long and carries on unattended.
\* create and start and reset give up and leave the record as it is.
CallFails(c) ==
    /\ call[c] # Idle
    /\ Sent(c) \/ ~alive
    /\ CASE call[c].step = "start"  -> End(c) /\ UNCHANGED rec
         [] call[c].step = "stop"   -> Stopped(c)
         [] call[c].step = "delete" -> Deleted(c)
    /\ UNCHANGED <<avars, now, used, poll, asked, restarts>>

\* The agent finishes a request nobody waits for any more.
Unattended(j) ==
    /\ \A c \in Calls : call[c] # Idle => call[c].job # j
    /\ Collect(j)
    /\ UNCHANGED cvars

-----------------------------------------------------------------------------
(* pollOne. *)

\* Mutant: a device that has gone offline is not polled any more.
PollStartOnline(p, d) ==
    /\ poll[p] = Idle
    /\ rec[d] # NoRecord /\ rec[d].state \in Active \ {"offline"} /\ rec[d].serial # None
    /\ poll' = [poll EXCEPT ![p] = [dev |-> d, before |-> rec[d].state,
                                    serial |-> rec[d].serial, answer |-> "none"]]
    /\ UNCHANGED <<avars, now, rec, used, call, asked, restarts>>

\* With no serial on record the status is the record's own, and pollOne
\* returns early; so only a device with a serial has a poll to speak of.
PollStart(p, d) ==
    /\ poll[p] = Idle
    /\ rec[d] # NoRecord /\ rec[d].state \in Active /\ rec[d].serial # None
    /\ poll' = [poll EXCEPT ![p] = [dev |-> d, before |-> rec[d].state,
                                    serial |-> rec[d].serial, answer |-> "none"]]
    /\ UNCHANGED <<avars, now, rec, used, call, asked, restarts>>

\* getprop sys.boot_completed, asked of the serial.  adb answers at once when
\* nothing runs there; an emulator is only sure to answer once it has booted.
PollAnswer(p) ==
    /\ poll[p] # Idle /\ poll[p].answer = "none"
    /\ LET there == {a \in Avds : emu[a] = poll[p].serial}
       IN  \E ans \in {"booted", "starting", "silent"} :
             /\ (ans = "booted") = (alive /\ there \cap up # {})
             /\ ans = "silent" => ~alive \/ there # {}
             /\ ans = "starting" => alive
             /\ poll' = [poll EXCEPT ![p].answer = ans]
    /\ UNCHANGED <<avars, now, rec, used, call, asked, restarts>>

\* Mutant: silence changes nothing, whatever the device was.
PolledStateQuiet(q) ==
    CASE q.answer = "booted"   -> "ready"
      [] q.answer = "starting" -> "booting"
      [] q.answer = "silent"   -> q.before

\* AdbBackedAdapter.status
PolledState(q) ==
    CASE q.answer = "booted"   -> "ready"
      [] q.answer = "starting" -> "booting"
      [] q.answer = "silent"   -> IF q.before = "ready" THEN "offline" ELSE q.before

\* Mutant: the timeout never fires.
NeverLate(d, state) == FALSE

\* The boot timeout, counted from the device's creation.
TooLate(d, state) ==
    state \in {"booting", "provisioning"} /\ now - rec[d].created > BootTimeout

\* Mutant: the poll stores the record it has instead of patching the store's.
PollPut(p) ==
    /\ poll[p] # Idle /\ poll[p].answer # "none"
    /\ LET d == poll[p].dev
           state == PolledState(poll[p])
       IN  rec' = [rec EXCEPT ![d] = [state |-> state, serial |-> poll[p].serial,
                                      created |-> now]]
    /\ poll' = [poll EXCEPT ![p] = Idle]
    /\ UNCHANGED <<avars, now, used, call, asked, restarts>>

\* The answer is in: the state and the serial polled are merged into the
\* record as it is now, and a device still booting may time out.
PollPatch(p) ==
    /\ poll[p] # Idle /\ poll[p].answer # "none"
    /\ LET d == poll[p].dev
           state == PolledState(poll[p])
       IN  Patch(d, [rec[d] EXCEPT
                       !.state = IF TooLate(d, state) THEN "error" ELSE state,
                       !.serial = poll[p].serial])
    /\ poll' = [poll EXCEPT ![p] = Idle]
    /\ UNCHANGED <<avars, now, used, call, asked, restarts>>

-----------------------------------------------------------------------------

Clock ==
    /\ now < MaxTime
    /\ now' = now + 1
    /\ UNCHANGED <<avars, rec, used, call, poll, asked, restarts>>

\* The controller restarts with its registry flushed; the requests it had
\* sent go on at the agent.
Restart ==
    /\ restarts < MaxRestarts
    /\ restarts' = restarts + 1
    /\ call' = [c \in Calls |-> Idle]
    /\ poll' = [p \in Polls |-> Idle]
    /\ UNCHANGED <<avars, now, rec, used, asked>>

UserRequest ==
    \E c \in Calls, d \in Avds :
        \/ Create(c, d) \/ Start(c, d) \/ Destroy(c, d)
        \/ \E op \in {"stop", "reset"} : StopOrReset(c, op, d)

CallStep(c) == (\E j \in Jobs : Send(c, j)) \/ Reply(c) \/ CallFails(c)

PollStep(p) == (\E d \in Avds : PollStart(p, d)) \/ PollAnswer(p) \/ PollPatch(p)

AgentStep ==
    \/ (\E j \in Jobs : JobStep(j)) /\ UNCHANGED cvars
    \/ Environment /\ UNCHANGED cvars
    \/ \E j \in Jobs : Unattended(j)

Next ==
    \/ UserRequest
    \/ \E d \in Avds : Reboot(d)
    \/ \E c \in Calls : CallStep(c)
    \/ \E p \in Polls : PollStep(p)
    \/ AgentStep
    \/ Clock
    \/ Restart

Spec == Init /\ [][Next]_vars

\* The watcher polls every five seconds and every call it makes has a timeout;
\* systemd restarts the agent, whose handlers all end.
FairSpec ==
    /\ Spec
    /\ \A c \in Calls : WF_vars(CallStep(c))
    /\ \A p \in Polls, d \in Avds : WF_vars(PollStart(p, d))
    /\ \A p \in Polls : WF_vars(PollAnswer(p)) /\ WF_vars(PollPatch(p))
    /\ \A j \in Jobs : WF_vars(JobStep(j) /\ UNCHANGED cvars) /\ WF_vars(Unattended(j))
    /\ WF_vars(AgentStart /\ UNCHANGED cvars)
    /\ WF_vars(Clock)

-----------------------------------------------------------------------------
(* Properties *)

\* A device that has been removed stays removed, whatever was still in flight
\* for it: polls, starts and stops only patch (store.ts:119).
GoneStaysGone ==
    [][ \A d \in Avds : d \in used /\ rec[d] = NoRecord => rec'[d] = NoRecord ]_vars

\* A device that was told its serial does not boot for ever: it becomes ready,
\* or fails, or is stopped or removed (runtime/index.ts:150-164).
BootEnds ==
    \A d \in Avds :
        InState(d, {"booting", "provisioning"}) /\ rec[d].serial # None
            ~> ~InState(d, {"booting", "provisioning"})

\* A device shown as ready whose emulator has gone does not stay ready
\* (adb-base.ts:59-77).
LossIsNoticed ==
    \A d \in Avds :
        InState(d, {"ready"}) /\ emu[d] = None
            ~> ~InState(d, {"ready"}) \/ emu[d] # None

\* Booted, on the serial the record names, behind an agent that answers.
Answering(d) == alive /\ d \in up /\ rec[d] # NoRecord /\ rec[d].serial = emu[d]

\* A device that went offline comes back by itself once it answers
\* (runtime/index.ts:111-112).
OfflineRecovers ==
    \A d \in Avds :
        InState(d, {"offline"}) /\ Answering(d)
            ~> ~InState(d, {"offline"}) \/ ~Answering(d)

-----------------------------------------------------------------------------
(* What the documentation says and the code does not do. *)

\* "it never sits 'booting' forever" (docs/android/architecture.md:263),
\* whether or not the device was ever told its serial.
NeverBootsForever ==
    \A d \in Avds :
        InState(d, {"booting", "provisioning"})
            ~> ~InState(d, {"booting", "provisioning"})

\* "How long to wait for Android to finish booting before calling it failed"
\* (config.ts:49): a device does not fail sooner after it was started.
FailsOnlyAfterTimeout ==
    [][ \A p \in Polls, d \in Avds :
          (/\ PollPatch(p) /\ InState(d, {"booting"}) /\ InState(d, {"error"})'
           /\ \A c \in Calls : call[c] = Idle)
            => now - asked[d] > BootTimeout ]_vars
=============================================================================
