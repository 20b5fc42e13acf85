------------------------------ MODULE AvdProofs ------------------------------
(***************************************************************************)
(* Proofs about the agent's emulators and the AVD lifecycle above them,    *)
(* for any AVDs, ports and concurrent requests, calls and polls.           *)
(*                                                                         *)
(* Of the agent: no strengthening is needed; PortsApart, together with the *)
(* types, is inductive, because a port enters the picture only in Spawn,   *)
(* which looks at both adb's list and the map, or is copied from an        *)
(* emulator to its own map entry in StartLook.                             *)
(*                                                                         *)
(* Of the lifecycle: whatever the controller does, it makes of the agent   *)
(* the requests that the agent is specified for, so that the lifecycle     *)
(* implements the agent's specification and has its properties too.        *)
(***************************************************************************)
EXTENDS AvdLifecycle, TLAPS

IInv == AgentTypeOK /\ PortsApart

LEMMA AgentInitIInv == AgentInit => IInv
BY DEF AgentInit, IInv, AgentTypeOK, PortsApart, PortOrNone

\* Moving a job, or ending it, keeps the jobs well formed.
LEMMA JobTypes ==
    ASSUME IInv, NEW j \in Jobs, job[j] # Idle,
           NEW stage \in {"look", "spawn", "kill", "reap", "remove", "done"},
           NEW p \in PortOrNone
    PROVE  /\ job[j] \in Job
           /\ Move(j, stage) => job' \in [Jobs -> Job \cup {Idle}]
           /\ Done(j, p) => job' \in [Jobs -> Job \cup {Idle}]
<1>1. job[j] \in Job
  BY DEF IInv, AgentTypeOK
<1>2. ASSUME Move(j, stage)
      PROVE  job' \in [Jobs -> Job \cup {Idle}]
  <2>1. [job[j] EXCEPT !.stage = stage] \in Job
    BY <1>1 DEF Job
  <2>. QED BY <1>2, <2>1 DEF Move, IInv, AgentTypeOK
<1>3. ASSUME Done(j, p)
      PROVE  job' \in [Jobs -> Job \cup {Idle}]
  <2>1. [job[j] EXCEPT !.stage = "done", !.port = p] \in Job
    BY <1>1 DEF Job
  <2>. QED BY <1>3, <2>1 DEF Done, IInv, AgentTypeOK
<1>. QED BY <1>1, <1>2, <1>3

\* Emulators that end, and map entries that go, free their ports.
LEMMA ClearingIInv ==
    ASSUME IInv,
           emu' \in [Avds -> PortOrNone], known' \in [Avds -> PortOrNone],
           \A a \in Avds : emu'[a] = emu[a] \/ emu'[a] = None,
           \A a \in Avds : known'[a] = known[a] \/ known'[a] = None,
           up' \subseteq {a \in Avds : emu'[a] # None},
           job' \in [Jobs -> Job \cup {Idle}],
           alive' \in BOOLEAN, files' \subseteq Avds
    PROVE  IInv'
BY DEF IInv, AgentTypeOK, PortsApart

LEMMA StartLookIInv ==
    ASSUME IInv, NEW j \in Jobs, StartLook(j)
    PROVE  IInv'
<1>. DEFINE a == job[j].avd
<1>1. job[j] # Idle /\ job[j] \in Job /\ a \in Avds
  BY DEF StartLook, At, IInv, AgentTypeOK, Job
<1>2. CASE known[a] # None /\ Done(j, known[a]) /\ UNCHANGED known
  <2>1. job' \in [Jobs -> Job \cup {Idle}]
    BY <1>1, <1>2, JobTypes DEF IInv, AgentTypeOK
  <2>. QED BY <1>2, <2>1, ClearingIInv DEF StartLook, IInv, AgentTypeOK
<1>3. ASSUME known[a] = None, NEW p \in Found(a), p # None,
             known' = [known EXCEPT ![a] = p], Done(j, p)
      PROVE  IInv'
  <2>1. p = emu[a] /\ p \in PortOrNone
    BY <1>1, <1>3 DEF Found, IInv, AgentTypeOK
  <2>2. job' \in [Jobs -> Job \cup {Idle}]
    BY <1>1, <1>3, <2>1, JobTypes
  <2>3. AgentTypeOK'
    BY <1>1, <1>3, <2>1, <2>2 DEF StartLook, IInv, AgentTypeOK
  <2>4. PortsApart'
    BY <1>1, <1>3, <2>1 DEF StartLook, IInv, AgentTypeOK, PortsApart
  <2>. QED BY <2>3, <2>4 DEF IInv
<1>4. CASE Move(j, "spawn") /\ UNCHANGED known
  <2>1. job' \in [Jobs -> Job \cup {Idle}]
    BY <1>1, <1>4, JobTypes DEF PortOrNone
  <2>. QED BY <1>4, <2>1, ClearingIInv DEF StartLook, IInv, AgentTypeOK
<1>. QED BY <1>2, <1>3, <1>4 DEF StartLook

LEMMA SpawnIInv ==
    ASSUME IInv, NEW j \in Jobs, Spawn(j)
    PROVE  IInv'
<1>. DEFINE a == job[j].avd
<1>1. job[j] # Idle /\ job[j] \in Job /\ a \in Avds
  BY DEF Spawn, At, IInv, AgentTypeOK, Job
<1>2. CASE Done(j, None) /\ UNCHANGED <<emu, known>>
  <2>1. job' \in [Jobs -> Job \cup {Idle}]
    BY <1>1, <1>2, JobTypes DEF PortOrNone
  <2>. QED BY <1>2, <2>1, ClearingIInv DEF Spawn, IInv, AgentTypeOK
<1>3. ASSUME NEW p \in FreePorts,
             known' = [known EXCEPT ![a] = p],
             emu' = IF a \in files /\ emu[a] = None THEN [emu EXCEPT ![a] = p] ELSE emu,
             Done(j, p)
      PROVE  IInv'
  <2>1. /\ p \in PortOrNone /\ p # None
        /\ \A b \in Avds : emu[b] # p /\ known[b] # p
    BY PortAssumption DEF FreePorts, PortsInUse, PortOrNone
  <2>2. job' \in [Jobs -> Job \cup {Idle}]
    BY <1>1, <1>3, <2>1, JobTypes
  <2>3. AgentTypeOK'
    BY <1>1, <1>3, <2>1, <2>2 DEF Spawn, IInv, AgentTypeOK
  <2>4. PortsApart'
    BY <1>1, <1>3, <2>1 DEF IInv, AgentTypeOK, PortsApart
  <2>. QED BY <2>3, <2>4 DEF IInv
<1>. QED BY <1>2, <1>3 DEF Spawn

LEMMA StopKillIInv ==
    ASSUME IInv, NEW j \in Jobs, StopKill(j)
    PROVE  IInv'
<1>1. job[j] # Idle
  BY DEF StopKill, At
<1>2. job' \in [Jobs -> Job \cup {Idle}]
  BY <1>1, JobTypes DEF StopKill, PortOrNone
<1>3. PICK dead \in SUBSET Avds :
        /\ emu' = [b \in Avds |-> IF b \in dead THEN None ELSE emu[b]]
        /\ up' = up \ dead
  BY DEF StopKill
<1>4. /\ emu' \in [Avds -> PortOrNone]
      /\ \A a \in Avds : emu'[a] = emu[a] \/ emu'[a] = None
      /\ up' \subseteq {a \in Avds : emu'[a] # None}
  BY <1>3 DEF IInv, AgentTypeOK, PortOrNone
<1>5. /\ known' \in [Avds -> PortOrNone]
      /\ \A a \in Avds : known'[a] = known[a] \/ known'[a] = None
  BY DEF StopKill, IInv, AgentTypeOK, PortOrNone
<1>6. alive' \in BOOLEAN /\ files' \subseteq Avds
  BY DEF StopKill, IInv, AgentTypeOK
<1>. QED BY <1>2, <1>4, <1>5, <1>6, ClearingIInv

LEMMA StopReapIInv ==
    ASSUME IInv, NEW j \in Jobs, StopReap(j)
    PROVE  IInv'
<1>1. job[j] # Idle
  BY DEF StopReap, At
<1>2. job' \in [Jobs -> Job \cup {Idle}]
  BY <1>1, JobTypes DEF StopReap, PortOrNone
<1>3. /\ emu' \in [Avds -> PortOrNone]
      /\ \A a \in Avds : emu'[a] = emu[a] \/ emu'[a] = None
      /\ up' \subseteq {a \in Avds : emu'[a] # None}
  BY DEF StopReap, IInv, AgentTypeOK, PortOrNone
<1>. QED BY <1>2, <1>3, ClearingIInv DEF StopReap, IInv, AgentTypeOK

LEMMA RemoveIInv ==
    ASSUME IInv, NEW j \in Jobs, Remove(j)
    PROVE  IInv'
<1>1. job' \in [Jobs -> Job \cup {Idle}]
  BY JobTypes DEF Remove, At, PortOrNone
<1>. QED BY <1>1, ClearingIInv DEF Remove, IInv, AgentTypeOK

LEMMA RequestsIInv ==
    ASSUME IInv, Requests
    PROVE  IInv'
<1>1. ASSUME NEW a \in Avds, CreateAvd(a)
      PROVE  IInv'
  BY <1>1, ClearingIInv DEF CreateAvd, IInv, AgentTypeOK
<1>2. ASSUME NEW j \in Jobs, NEW a \in Avds, NEW op \in {"start", "stop", "delete"},
             Submit(j, op, a)
      PROVE  IInv'
  <2>1. [op |-> op, avd |-> a, port |-> None,
         stage |-> IF op = "start" THEN "look" ELSE "kill"] \in Job
    BY DEF Job, PortOrNone
  <2>2. job' \in [Jobs -> Job \cup {Idle}]
    BY <1>2, <2>1 DEF Submit, IInv, AgentTypeOK
  <2>. QED BY <1>2, <2>2, ClearingIInv DEF Submit, IInv, AgentTypeOK
<1>3. ASSUME NEW j \in Jobs, Collect(j)
      PROVE  IInv'
  BY <1>3, ClearingIInv DEF Collect, IInv, AgentTypeOK
<1>4. ASSUME NEW p \in Ports, AdbReboot(p)
      PROVE  IInv'
  BY <1>4, ClearingIInv DEF AdbReboot, IInv, AgentTypeOK
<1>. QED BY <1>1, <1>2, <1>3, <1>4 DEF Requests

LEMMA EnvironmentIInv ==
    ASSUME IInv, Environment
    PROVE  IInv'
<1>1. ASSUME NEW a \in Avds, Boot(a)
      PROVE  IInv'
  BY <1>1 DEF Boot, IInv, AgentTypeOK, PortsApart
<1>2. ASSUME NEW a \in Avds, Crash(a)
      PROVE  IInv'
  BY <1>2, ClearingIInv DEF Crash, IInv, AgentTypeOK, PortOrNone
<1>3. CASE AgentExit
  BY <1>3, ClearingIInv DEF AgentExit, IInv, AgentTypeOK, PortOrNone
<1>4. CASE AgentStart
  BY <1>4 DEF AgentStart, IInv, AgentTypeOK, PortsApart
<1>5. CASE NodeReboot
  BY <1>5, ClearingIInv DEF NodeReboot, IInv, AgentTypeOK, PortOrNone
<1>. QED BY <1>1, <1>2, <1>3, <1>4, <1>5 DEF Environment

LEMMA AgentNextIInv == IInv /\ [AgentNext]_avars => IInv'
<1>. SUFFICES ASSUME IInv, [AgentNext]_avars PROVE IInv'
  OBVIOUS
<1>1. CASE Requests
  BY <1>1, RequestsIInv
<1>2. CASE Environment
  BY <1>2, EnvironmentIInv
<1>3. CASE \E j \in Jobs : JobStep(j)
  BY <1>3, StartLookIInv, SpawnIInv, StopKillIInv, StopReapIInv, RemoveIInv DEF JobStep
<1>4. CASE UNCHANGED avars
  BY <1>4 DEF avars, IInv, AgentTypeOK, PortsApart
<1>. QED BY <1>1, <1>2, <1>3, <1>4 DEF AgentNext

LEMMA Invariance == AgentSpec => []IInv
BY AgentInitIInv, AgentNextIInv, PTL DEF AgentSpec

-----------------------------------------------------------------------------

\* The agent's bookkeeping is well formed, and only running emulators are up.
THEOREM AgentTypeCorrect == AgentSpec => []AgentTypeOK
BY Invariance, PTL DEF IInv

\* However starts, stops, deletes, crashes and agent restarts interleave, no
\* two AVDs are ever on one port or mapped to one (mjs:469-475).
THEOREM NoPortTwice == AgentSpec => []PortsApart
BY Invariance, PTL DEF IInv

\* Therefore "emu kill", aimed by port, only ever ends the emulator of the AVD
\* that was to be stopped (mjs:503-517).
THEOREM StopsSpareOthers == AgentSpec => StopsOnlyItsOwn
<1>1. ASSUME IInv, NEW j \in Jobs, NEW a \in Avds,
             StopKill(j) \/ StopReap(j), emu[a] # None, emu'[a] = None
      PROVE  a = job[j].avd
  <2>1. job[j] \in Job /\ job[j].avd \in Avds
    BY <1>1 DEF StopKill, StopReap, At, IInv, AgentTypeOK, Job
  <2>2. CASE StopReap(j)
    BY <1>1, <2>1, <2>2 DEF StopReap, IInv, AgentTypeOK
  <2>3. CASE StopKill(j)
    <3>1. PICK p \in IF known[job[j].avd] # None THEN {known[job[j].avd]}
                                                 ELSE Found(job[j].avd) :
            \E dead \in SUBSET {b \in Avds : p # None /\ emu[b] = p} :
              emu' = [b \in Avds |-> IF b \in dead THEN None ELSE emu[b]]
      BY <2>3 DEF StopKill
    <3>2. p # None /\ emu[a] = p
      BY <1>1, <3>1
    <3>3. p = known[job[j].avd] \/ p = emu[job[j].avd]
      BY <3>1, <3>2 DEF Found
    <3>. QED BY <1>1, <2>1, <3>2, <3>3 DEF IInv, PortsApart
  <2>. QED BY <1>1, <2>2, <2>3
<1>2. IInv /\ [AgentNext]_avars =>
        [ \A j \in Jobs, a \in Avds :
            (StopKill(j) \/ StopReap(j)) /\ emu[a] # None /\ emu'[a] = None
              => a = job[j].avd ]_avars
  BY <1>1
<1>. QED BY <1>2, Invariance, PTL DEF AgentSpec, StopsOnlyItsOwn

-----------------------------------------------------------------------------
(* The lifecycle's types. *)

CallType == call \in [Calls -> Call \cup {Idle}]

\* The strengthening the types need: a start's only request is a start, so
\* that what Stopped does next is always one of the three cases it has.
StepsFit ==
    \A c \in Calls : call[c] # Idle /\ call[c].op = "start" => call[c].step = "start"

PollType == poll \in [Polls -> Poll \cup {Idle}]

RecType ==
    /\ rec \in [Avds -> Record \cup {NoRecord}] /\ used \subseteq Avds
    /\ \A d \in Avds : rec[d] # NoRecord => d \in used

LEMMA CallIsTyped ==
    ASSUME CallType, NEW c \in Calls, call[c] # Idle
    PROVE  /\ call[c] \in Call
           /\ call[c].dev \in Avds /\ call[c].step \in {"start", "stop", "delete"}
           /\ call[c].op \in {"start", "stop", "reset", "destroy"}
           /\ call[c].job \in Jobs \cup {None} /\ call[c].serial \in PortOrNone
BY DEF CallType, Call

LEMMA RecIsTyped ==
    ASSUME RecType, NEW d \in Avds, rec[d] # NoRecord
    PROVE  /\ rec[d] \in Record /\ d \in used
           /\ rec[d].state \in State /\ rec[d].serial \in PortOrNone
           /\ rec[d].created \in Nat
BY DEF RecType, Record

\* What a call can become.
LEMMA CallMoves ==
    ASSUME CallType, NEW c \in Calls
    PROVE  /\ End(c) => CallType'
           /\ call[c] # Idle =>
                \A step \in {"start", "stop", "delete"} : Then(c, step) => CallType'
           /\ call[c] # Idle =>
                \A j \in Jobs : call' = [call EXCEPT ![c].job = j] => CallType'
           /\ \A op \in {"start", "stop", "reset", "destroy"}, d \in Avds,
                 step \in {"start", "stop", "delete"}, serial \in PortOrNone :
                BeginCall(c, op, d, step, serial) => CallType'
<1>1. End(c) => CallType'
  BY DEF End, CallType
<1>2. ASSUME call[c] # Idle, NEW step \in {"start", "stop", "delete"}, Then(c, step)
      PROVE  CallType'
  <2>1. [call[c] EXCEPT !.step = step, !.job = None] \in Call
    BY <1>2, CallIsTyped DEF Call
  <2>. QED BY <1>2, <2>1 DEF Then, CallType
<1>3. ASSUME call[c] # Idle, NEW j \in Jobs, call' = [call EXCEPT ![c].job = j]
      PROVE  CallType'
  <2>1. [call[c] EXCEPT !.job = j] \in Call
    BY <1>3, CallIsTyped DEF Call
  <2>. QED BY <1>3, <2>1 DEF CallType
<1>4. ASSUME NEW op \in {"start", "stop", "reset", "destroy"}, NEW d \in Avds,
             NEW step \in {"start", "stop", "delete"}, NEW serial \in PortOrNone,
             BeginCall(c, op, d, step, serial)
      PROVE  CallType'
  <2>1. [op |-> op, dev |-> d, step |-> step, job |-> None, serial |-> serial] \in Call
    BY <1>4 DEF Call
  <2>. QED BY <1>4, <2>1 DEF BeginCall, CallType
<1>. QED BY <1>1, <1>2, <1>3, <1>4

\* What a patch makes of the records: nothing of one that is not there.
LEMMA PatchKeeps ==
    ASSUME RecType, UNCHANGED used, NEW d \in Avds, NEW new,
           rec[d] # NoRecord => new \in Record, Patch(d, new)
    PROVE  /\ RecType'
           /\ \A e \in Avds : rec[e] = NoRecord => rec'[e] = NoRecord
BY DEF Patch, RecType

LEMMA Restated ==
    ASSUME NEW r \in Record, NEW s \in State, NEW p \in PortOrNone
    PROVE  /\ [r EXCEPT !.state = s] \in Record
           /\ [r EXCEPT !.state = s, !.serial = p] \in Record
BY DEF Record

\* A device that is gone does not come back.
Gone == \A d \in Avds : d \in used /\ rec[d] = NoRecord => rec'[d] = NoRecord

CountersType == now \in Nat /\ asked \in [Avds -> Nat] /\ restarts \in Nat

CInv == IInv /\ StepsFit /\ CallType /\ PollType /\ RecType /\ CountersType

\* What a step of the lifecycle does.
Lawful == /\ [AgentNext]_avars
          /\ CallType' /\ StepsFit' /\ PollType' /\ RecType' /\ CountersType'
          /\ Gone

LEMMA CInvTypes == CInv <=> PortsApart /\ TypeOK /\ StepsFit
BY DEF CInv, IInv, TypeOK, CallType, PollType, RecType, CountersType

LEMMA InitCInv == Init => CInv
<1>1. Init => IInv
  BY AgentInitIInv DEF Init
<1>. QED BY <1>1 DEF Init, CInv, StepsFit, CallType, PollType, RecType, CountersType

LEMMA AskedIsTyped ==
    ASSUME CountersType, NEW c, NEW op, NEW d \in Avds, NEW step, NEW serial,
           BeginCall(c, op, d, step, serial)
    PROVE  asked' \in [Avds -> Nat]
BY DEF BeginCall, CountersType

LEMMA FitMoves ==
    ASSUME CallType, StepsFit, NEW c \in Calls
    PROVE  /\ End(c) => StepsFit'
           /\ call[c] # Idle /\ call[c].op # "start" =>
                \A step \in {"start", "delete"} : Then(c, step) => StepsFit'
           /\ call[c] # Idle =>
                \A j \in Jobs : call' = [call EXCEPT ![c].job = j] => StepsFit'
           /\ \A op, d, step, serial :
                (op = "start" => step = "start") /\ BeginCall(c, op, d, step, serial)
                  => StepsFit'
<1>1. End(c) => StepsFit'
  BY DEF End, StepsFit, CallType
<1>2. ASSUME call[c] # Idle, call[c].op # "start",
             NEW step \in {"start", "delete"}, Then(c, step)
      PROVE  StepsFit'
  BY <1>2, CallIsTyped DEF Then, StepsFit, CallType, Call
<1>3. ASSUME call[c] # Idle, NEW j \in Jobs, call' = [call EXCEPT ![c].job = j]
      PROVE  StepsFit'
  BY <1>3, CallIsTyped DEF StepsFit, CallType, Call
<1>4. ASSUME NEW op, NEW d, NEW step, NEW serial,
             op = "start" => step = "start", BeginCall(c, op, d, step, serial)
      PROVE  StepsFit'
  BY <1>4 DEF BeginCall, StepsFit, CallType
<1>. QED BY <1>1, <1>2, <1>3, <1>4

LEMMA UserRequestLawful ==
    ASSUME CInv, UserRequest
    PROVE  Lawful
<1>. PICK c \in Calls, d \in Avds :
       \/ Create(c, d) \/ Start(c, d) \/ Destroy(c, d)
       \/ \E op \in {"stop", "reset"} : StopOrReset(c, op, d)
  BY DEF UserRequest
<1>1. CASE Create(c, d)
  <2>1. [state |-> "provisioning", serial |-> None, created |-> now] \in Record
    BY DEF Record, State, Active, PortOrNone, CInv, CountersType
  <2>2. RecType' /\ Gone
    BY <1>1, <2>1 DEF Create, CInv, RecType, Gone
  <2>3. AgentNext
    BY <1>1 DEF Create, AgentNext, Requests
  <2>4. CallType' /\ StepsFit'
    BY <1>1, CallMoves, FitMoves DEF Create, CInv, PortOrNone
  <2>5. CountersType' /\ PollType'
    BY <1>1, AskedIsTyped DEF Create, CInv, CountersType, PollType
  <2>. QED BY <2>2, <2>3, <2>4, <2>5 DEF Lawful
<1>2. ASSUME rec[d] # NoRecord, NEW op \in {"start", "stop", "reset", "destroy"},
             NEW step \in {"start", "stop", "delete"}, op = "start" => step = "start",
             BeginCall(c, op, d, step, rec[d].serial),
             RecType' /\ Gone,
             UNCHANGED <<avars, now, used, poll, restarts>>
      PROVE  Lawful
  <2>1. rec[d].serial \in PortOrNone
    BY <1>2, RecIsTyped DEF CInv
  <2>2. CallType' /\ StepsFit'
    BY <1>2, <2>1, CallMoves, FitMoves DEF CInv
  <2>3. CountersType' /\ PollType'
    BY <1>2, AskedIsTyped DEF CInv, CountersType, PollType
  <2>. QED BY <1>2, <2>2, <2>3 DEF Lawful
<1>3. CASE Start(c, d)
  <2>1. RecType' /\ Gone
    BY <1>3 DEF Start, CInv, RecType, Gone
  <2>. QED BY <1>2, <1>3, <2>1 DEF Start
<1>4. ASSUME NEW op \in {"stop", "reset"}, StopOrReset(c, op, d)
      PROVE  Lawful
  <2>1. RecType' /\ Gone
    BY <1>4 DEF StopOrReset, CInv, RecType, Gone
  <2>. QED BY <1>2, <1>4, <2>1 DEF StopOrReset
<1>5. CASE Destroy(c, d)
  <2>1. rec[d] \in Record
    BY <1>5, RecIsTyped DEF Destroy, CInv
  <2>2. [rec[d] EXCEPT !.state = "deleting"] \in Record
    BY <2>1 DEF Record, State
  <2>3. RecType' /\ Gone
    BY <1>5, <2>2 DEF Destroy, CInv, RecType, Gone
  <2>. QED BY <1>2, <1>5, <2>3 DEF Destroy
<1>. QED BY <1>1, <1>3, <1>4, <1>5

\* What the end of a stop does to the controller's state, in the handlers that
\* begin with one.
LEMMA StoppedKeeps ==
    ASSUME CInv, NEW c \in Calls, call[c] # Idle, call[c].step = "stop",
           Stopped(c), UNCHANGED used
    PROVE  CallType' /\ StepsFit' /\ RecType' /\ Gone
<1>. DEFINE d == call[c].dev
<1>1. /\ d \in Avds /\ call[c].serial \in PortOrNone
      /\ call[c].op \in {"stop", "reset", "destroy"}
  BY CallIsTyped DEF CInv, StepsFit
<1>2. RecType' /\ Gone
  <2>1. CASE UNCHANGED rec
    BY <2>1 DEF CInv, RecType, Gone
  <2>2. CASE Patch(d, [rec[d] EXCEPT !.state = "stopped", !.serial = call[c].serial])
    <3>1. rec[d] # NoRecord =>
            [rec[d] EXCEPT !.state = "stopped", !.serial = call[c].serial] \in Record
      BY <1>1, RecIsTyped, Restated DEF CInv, State
    <3>. QED BY <1>1, <2>2, <3>1, PatchKeeps DEF CInv, Gone
  <2>. QED BY <2>1, <2>2 DEF Stopped
<1>3. CallType' /\ StepsFit'
  BY <1>1, CallMoves, FitMoves DEF Stopped, CInv
<1>. QED BY <1>2, <1>3

LEMMA DeletedKeeps ==
    ASSUME CInv, NEW c \in Calls, Deleted(c), UNCHANGED used
    PROVE  CallType' /\ StepsFit' /\ RecType' /\ Gone
<1>1. RecType' /\ Gone
  BY DEF Deleted, CInv, RecType, Gone
<1>. QED BY <1>1, CallMoves, FitMoves DEF Deleted, CInv

LEMMA StartedKeeps ==
    ASSUME CInv, NEW c \in Calls, call[c] # Idle, NEW p \in PortOrNone,
           Started(c, p), UNCHANGED used
    PROVE  CallType' /\ StepsFit' /\ RecType' /\ Gone
<1>. DEFINE d == call[c].dev
            new == IF call[c].op = "start"
                   THEN [rec[d] EXCEPT !.state = "booting", !.serial = p]
                   ELSE [rec[d] EXCEPT !.state = "booting"]
<1>1. d \in Avds
  BY CallIsTyped DEF CInv
<1>2. rec[d] # NoRecord => new \in Record
  BY <1>1, RecIsTyped, Restated DEF CInv, State, Active
<1>3. Patch(d, new) /\ End(c)
  BY DEF Started
<1>4. RecType' /\ Gone
  BY <1>1, <1>2, <1>3, PatchKeeps DEF CInv, Gone
<1>. QED BY <1>3, <1>4, CallMoves, FitMoves DEF CInv

LEMMA CallStepLawful ==
    ASSUME CInv, NEW c \in Calls, CallStep(c)
    PROVE  Lawful
<1>1. ASSUME NEW j \in Jobs, Send(c, j)
      PROVE  Lawful
  <2>1. call[c].step \in {"start", "stop", "delete"} /\ call[c].dev \in Avds
    BY <1>1, CallIsTyped DEF Send, CInv
  <2>2. AgentNext
    BY <1>1, <2>1 DEF Send, AgentNext, Requests
  <2>3. CallType' /\ StepsFit'
    BY <1>1, CallMoves, FitMoves DEF Send, CInv
  <2>. QED BY <1>1, <2>2, <2>3
         DEF Send, Lawful, CInv, PollType, RecType, CountersType, Gone
<1>2. CASE Reply(c)
  <2>1. call[c] # Idle /\ call[c].job \in Jobs /\ call[c].step \in {"start", "stop", "delete"}
    BY <1>2, CallIsTyped DEF Reply, Sent, CInv
  <2>2. AgentNext
    BY <1>2, <2>1 DEF Reply, AgentNext, Requests
  <2>. DEFINE p == job[call[c].job].port
  <2>3. p \in PortOrNone
    BY <1>2, <2>1 DEF Reply, Collect, At, CInv, IInv, AgentTypeOK, Job
  <2>4. CallType' /\ StepsFit' /\ RecType' /\ Gone
    <3>1. CASE call[c].step = "start" /\ p # None
      BY <1>2, <2>1, <2>3, <3>1, StartedKeeps DEF Reply
    <3>2. CASE call[c].step = "start" /\ p = None
      BY <1>2, <3>2, CallMoves, FitMoves DEF Reply, CInv, RecType, Gone
    <3>3. CASE call[c].step = "stop"
      BY <1>2, <2>1, <3>3, StoppedKeeps DEF Reply
    <3>4. CASE call[c].step = "delete"
      BY <1>2, <2>1, <3>4, DeletedKeeps DEF Reply
    <3>. QED BY <2>1, <3>1, <3>2, <3>3, <3>4
  <2>. QED BY <1>2, <2>2, <2>4 DEF Reply, Lawful, CInv, PollType, CountersType
<1>3. CASE CallFails(c)
  <2>1. call[c] # Idle /\ call[c].step \in {"start", "stop", "delete"}
    BY <1>3, CallIsTyped DEF CallFails, CInv
  <2>2. CallType' /\ StepsFit' /\ RecType' /\ Gone
    <3>1. CASE call[c].step = "start"
      BY <1>3, <3>1, CallMoves, FitMoves DEF CallFails, CInv, RecType, Gone
    <3>2. CASE call[c].step = "stop"
      BY <1>3, <2>1, <3>2, StoppedKeeps DEF CallFails
    <3>3. CASE call[c].step = "delete"
      BY <1>3, <2>1, <3>3, DeletedKeeps DEF CallFails
    <3>. QED BY <2>1, <3>1, <3>2, <3>3
  <2>. QED BY <1>3, <2>2 DEF CallFails, Lawful, CInv, PollType, CountersType
<1>. QED BY <1>1, <1>2, <1>3 DEF CallStep

LEMMA PollStepLawful ==
    ASSUME CInv, NEW p \in Polls, PollStep(p)
    PROVE  Lawful
<1>1. ASSUME NEW d \in Avds, PollStart(p, d)
      PROVE  Lawful
  <2>1. rec[d].serial \in Ports /\ rec[d].state \in Active
    BY <1>1, RecIsTyped DEF PollStart, CInv, PortOrNone
  <2>2. [dev |-> d, before |-> rec[d].state, serial |-> rec[d].serial,
         answer |-> "none"] \in Poll
    BY <2>1 DEF Poll
  <2>3. PollType'
    BY <1>1, <2>2 DEF PollStart, CInv, PollType
  <2>. QED BY <1>1, <2>3
         DEF PollStart, Lawful, CInv, CallType, StepsFit, RecType, CountersType, Gone
<1>2. CASE PollAnswer(p)
  <2>1. PICK ans \in {"booted", "starting", "silent"} :
          poll' = [poll EXCEPT ![p].answer = ans]
    BY <1>2 DEF PollAnswer
  <2>2. poll[p] \in Poll
    BY <1>2 DEF PollAnswer, CInv, PollType
  <2>3. [poll[p] EXCEPT !.answer = ans] \in Poll
    BY <2>2 DEF Poll
  <2>4. PollType'
    BY <2>1, <2>3 DEF CInv, PollType
  <2>. QED BY <1>2, <2>4
         DEF PollAnswer, Lawful, CInv, CallType, StepsFit, RecType, CountersType, Gone
<1>3. CASE PollPatch(p)
  <2>. DEFINE d == poll[p].dev
              state == PolledState(poll[p])
              entry == IF TooLate(d, state) THEN "error" ELSE state
  <2>1. /\ poll[p] \in Poll /\ d \in Avds /\ poll[p].serial \in PortOrNone
        /\ poll[p].before \in Active
        /\ poll[p].answer \in {"booted", "starting", "silent"}
    BY <1>3 DEF PollPatch, CInv, PollType, Poll, PortOrNone
  <2>2. entry \in State
    BY <2>1 DEF PolledState, State, Active
  <2>3. Patch(d, [rec[d] EXCEPT !.state = entry, !.serial = poll[p].serial])
    BY <1>3 DEF PollPatch
  <2>. HIDE DEF entry
  <2>4. RecType' /\ Gone
    BY <1>3, <2>1, <2>2, <2>3, RecIsTyped, Restated, PatchKeeps
       DEF PollPatch, CInv, Gone
  <2>5. PollType'
    BY <1>3 DEF PollPatch, CInv, PollType
  <2>. QED BY <1>3, <2>4, <2>5
         DEF PollPatch, Lawful, CInv, CallType, StepsFit, CountersType
<1>. QED BY <1>1, <1>2, <1>3 DEF PollStep

\* The steps that are the agent's, and those of neither.
LEMMA OtherStepsLawful ==
    ASSUME CInv,
           AgentStep \/ Clock \/ Restart \/ (\E d \in Avds : Reboot(d)) \/ UNCHANGED vars
    PROVE  Lawful
<1>1. ASSUME AgentNext, UNCHANGED cvars
      PROVE  Lawful
  BY <1>1 DEF cvars, Lawful, CInv, CallType, StepsFit, PollType, RecType, CountersType, Gone
<1>2. CASE AgentStep
  BY <1>1, <1>2 DEF AgentStep, Unattended, AgentNext, Requests
<1>3. CASE Clock
  BY <1>3 DEF Clock, Lawful, CInv, CallType, StepsFit, PollType, RecType, CountersType, Gone
<1>4. CASE Restart
  BY <1>4 DEF Restart, Lawful, CInv, CallType, StepsFit, PollType, RecType, CountersType, Gone
<1>5. ASSUME NEW d \in Avds, Reboot(d)
      PROVE  Lawful
  <2>1. rec[d].serial \in Ports
    BY <1>5, RecIsTyped DEF Reboot, CInv, PortOrNone
  <2>. QED BY <1>1, <1>5, <2>1 DEF Reboot, AgentNext, Requests
<1>6. CASE UNCHANGED vars
  BY <1>6 DEF vars, cvars, Lawful, CInv, CallType, StepsFit, PollType, RecType,
              CountersType, Gone
<1>. QED BY <1>2, <1>3, <1>4, <1>5, <1>6

LEMMA NextLawful == CInv /\ [Next]_vars => Lawful
BY UserRequestLawful, CallStepLawful, PollStepLawful, OtherStepsLawful DEF Next

LEMMA NextCInv == CInv /\ [Next]_vars => CInv'
BY NextLawful, AgentNextIInv DEF CInv, Lawful

LEMMA CInvariance == Spec => []CInv
BY InitCInv, NextCInv, PTL DEF Spec

-----------------------------------------------------------------------------

\* The controller's records, calls and polls are well formed.
THEOREM SpecTypeOK == Spec => []TypeOK
BY CInvariance, CInvTypes, PTL

\* However a removal interleaves with the polls, starts and stops that read the
\* device before it, and with the controller's and the agent's restarts, none
\* of them brings a removed device back (store.ts:119).
THEOREM SpecGoneStaysGone == Spec => GoneStaysGone
<1>1. CInv /\ [Next]_vars =>
        [ \A d \in Avds : d \in used /\ rec[d] = NoRecord => rec'[d] = NoRecord ]_vars
  BY NextLawful DEF Lawful, Gone
<1>. QED BY <1>1, CInvariance, PTL DEF Spec, GoneStaysGone

\* The lifecycle handlers, failing, timing out, restarted and sending whatever
\* they recorded earlier, make of the agent only requests it is specified for:
\* every step is a step of the agent or leaves it alone.
THEOREM LifecycleUsesTheAgent == Spec => AgentSpec
<1>1. Init => AgentInit
  BY DEF Init
<1>2. CInv /\ [Next]_vars => [AgentNext]_avars
  BY NextLawful DEF Lawful
<1>. QED BY <1>1, <1>2, CInvariance, PTL DEF Spec, AgentSpec

\* Therefore what is proved of the agent holds under the whole lifecycle: no
\* port is given twice, and a stop ends no other device's emulator.
THEOREM PortsApartUnderLifecycle == Spec => []PortsApart /\ StopsOnlyItsOwn
BY LifecycleUsesTheAgent, NoPortTwice, StopsSpareOthers, PTL
=============================================================================
