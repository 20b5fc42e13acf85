---------------------------- MODULE AgentEmulators ----------------------------
(***************************************************************************)
(* The emulators of one node, as its agent runs them                       *)
(* (agent/proxbox-android-agent.mjs): which ports they get, and how they   *)
(* are started, adopted, stopped and deleted.                              *)
(*                                                                         *)
(* The agent is one thread, but every handler awaits adb or pgrep several  *)
(* times, so requests interleave between the steps below.  Emulators are   *)
(* detached: they outlive an agent restart, and the in-memory map does not.*)
(* adb, avdmanager and the emulator itself are external: an emulator dies  *)
(* at once if its AVD has no files, or is locked by a running one; a       *)
(* console may stay silent or ignore "emu kill" until Android is up.       *)
(***************************************************************************)
EXTENDS Integers

CONSTANTS
    Avds,     \* AVD names, one per device
    Jobs,     \* requests the agent may be serving at once
    Ports,    \* console ports, 5554 to 5680
    None,     \* no port
    Idle      \* no request

ASSUME PortAssumption == Ports \subseteq Nat /\ None \notin Ports

PortOrNone == Ports \cup {None}

Job == [op : {"start", "stop", "delete"}, avd : Avds,
        stage : {"look", "spawn", "kill", "reap", "remove", "done"},
        port : PortOrNone]

ASSUME IdleAssumption == Idle \notin Job

VARIABLES
    alive,   \* the agent process is up
    files,   \* AVDs that exist on disk
    emu,     \* the port of each AVD's emulator process, None if not running
    up,      \* AVDs whose Android has booted
    known,   \* the agent's emulators map: the port it believes an AVD has
    job      \* the requests it is serving

avars == <<alive, files, emu, up, known, job>>

AgentTypeOK ==
    /\ alive \in BOOLEAN
    /\ files \subseteq Avds
    /\ emu \in [Avds -> PortOrNone]
    /\ up \subseteq {a \in Avds : emu[a] # None}
    /\ known \in [Avds -> PortOrNone]
    /\ job \in [Jobs -> Job \cup {Idle}]

AgentInit ==
    /\ alive = TRUE
    /\ files = {}
    /\ emu = [a \in Avds |-> None]
    /\ up = {}
    /\ known = [a \in Avds |-> None]
    /\ job = [j \in Jobs |-> Idle]

At(j, stage) == job[j] # Idle /\ job[j].stage = stage

Move(j, stage) == job' = [job EXCEPT ![j].stage = stage]

Done(j, p) == job' = [job EXCEPT ![j].stage = "done", ![j].port = p]

\* Where a's emulator runs, as its console tells (findEmulatorSerial).
Found(a) == {emu[a]} \cup (IF a \in up THEN {} ELSE {None})

\* A request arrives.
Submit(j, op, a) ==
    /\ alive /\ job[j] = Idle
    /\ job' = [job EXCEPT ![j] =
                 [op |-> op, avd |-> a, port |-> None,
                  stage |-> IF op = "start" THEN "look" ELSE "kill"]]
    /\ UNCHANGED <<alive, files, emu, up, known>>

\* The response has been sent.
Collect(j) ==
    /\ At(j, "done")
    /\ job' = [job EXCEPT ![j] = Idle]
    /\ UNCHANGED <<alive, files, emu, up, known>>

\* createAvd: avdmanager create avd --force.
CreateAvd(a) ==
    /\ alive
    /\ files' = files \cup {a}
    /\ UNCHANGED <<alive, emu, up, known, job>>

\* adb reboot, sent to a port: whatever runs there goes down, and boots again.
AdbReboot(p) ==
    /\ alive
    /\ up' = up \ {a \in Avds : emu[a] = p}
    /\ UNCHANGED <<alive, files, emu, known, job>>

-----------------------------------------------------------------------------
(* startAvd *)

\* In the map already: answer from it.  Running already: adopt it.
StartLook(j) ==
    /\ At(j, "look")
    /\ LET a == job[j].avd
       IN  \/ /\ known[a] # None
              /\ Done(j, known[a])
              /\ UNCHANGED known
           \/ /\ known[a] = None
              /\ \E p \in Found(a) :
                   \/ /\ p # None
                      /\ known' = [known EXCEPT ![a] = p]
                      /\ Done(j, p)
                   \/ /\ p = None
                      /\ Move(j, "spawn")
                      /\ UNCHANGED known
    /\ UNCHANGED <<alive, files, emu, up>>

PortsInUse == {emu[a] : a \in Avds} \cup {known[a] : a \in Avds}

\* Mutant: only adb is asked which ports are taken, not the map.
PortsListed == Ports \ {emu[a] : a \in Avds}

\* Mutant: the search runs past the last port.
PortsPastEnd == (Ports \cup {p + 1 : p \in Ports}) \ PortsInUse

\* freeEmulatorPort's candidates: not listed by adb, not in the map.  The list is
\* taken to be current when the map is read.
FreePorts == Ports \ PortsInUse

\* The lowest free port goes to the new emulator.
Spawn(j) ==
    /\ At(j, "spawn")
    /\ LET a == job[j].avd
       IN  \/ /\ FreePorts = {}
              /\ Done(j, None)
              /\ UNCHANGED <<emu, known>>
           \/ \E p \in FreePorts :
                /\ \A q \in FreePorts : p <= q
                /\ known' = [known EXCEPT ![a] = p]
                /\ emu' = IF a \in files /\ emu[a] = None
                          THEN [emu EXCEPT ![a] = p]
                          ELSE emu
                /\ Done(j, p)
    /\ UNCHANGED <<alive, files, up>>

-----------------------------------------------------------------------------
(* stopAvd and deleteAvd *)

\* "emu kill" to the port the map names, or the one found; whoever runs
\* there dies, unless its console ignores it.
StopKill(j) ==
    /\ At(j, "kill")
    /\ LET a == job[j].avd
       IN  /\ \E p \in IF known[a] # None THEN {known[a]} ELSE Found(a) :
                LET there == {b \in Avds : p # None /\ emu[b] = p}
                IN  \E dead \in SUBSET there :
                      /\ there \cap up \subseteq dead
                      /\ emu' = [b \in Avds |-> IF b \in dead THEN None ELSE emu[b]]
                      /\ up' = up \ dead
           /\ known' = [known EXCEPT ![a] = None]
    /\ Move(j, "reap")
    /\ UNCHANGED <<alive, files>>

\* Whatever of the AVD is still in the process table is killed.
StopReap(j) ==
    /\ At(j, "reap")
    /\ emu' = [emu EXCEPT ![job[j].avd] = None]
    /\ up' = up \ {job[j].avd}
    /\ Move(j, IF job[j].op = "delete" THEN "remove" ELSE "done")
    /\ UNCHANGED <<alive, files, known>>

\* avdmanager delete, which refuses while an emulator holds the AVD; its exit
\* code is not looked at.
Remove(j) ==
    /\ At(j, "remove")
    /\ files' = IF emu[job[j].avd] = None THEN files \ {job[j].avd} ELSE files
    /\ Move(j, "done")
    /\ UNCHANGED <<alive, emu, up, known>>

JobStep(j) == StartLook(j) \/ Spawn(j) \/ StopKill(j) \/ StopReap(j) \/ Remove(j)

-----------------------------------------------------------------------------
(* What happens to emulators, the agent and the node. *)

Boot(a) ==
    /\ emu[a] # None /\ a \notin up
    /\ up' = up \cup {a}
    /\ UNCHANGED <<alive, files, emu, known, job>>

Crash(a) ==
    /\ emu[a] # None
    /\ emu' = [emu EXCEPT ![a] = None]
    /\ up' = up \ {a}
    /\ UNCHANGED <<alive, files, known, job>>

\* The agent's process ends; systemd leaves the emulators alone.
AgentExit ==
    /\ alive
    /\ alive' = FALSE
    /\ known' = [a \in Avds |-> None]
    /\ job' = [j \in Jobs |-> Idle]
    /\ UNCHANGED <<files, emu, up>>

AgentStart ==
    /\ ~alive
    /\ alive' = TRUE
    /\ UNCHANGED <<files, emu, up, known, job>>

NodeReboot ==
    /\ alive' = FALSE
    /\ known' = [a \in Avds |-> None]
    /\ job' = [j \in Jobs |-> Idle]
    /\ emu' = [a \in Avds |-> None]
    /\ up' = {}
    /\ UNCHANGED files

Environment ==
    \/ \E a \in Avds : Boot(a) \/ Crash(a)
    \/ AgentExit \/ AgentStart \/ NodeReboot

\* Any requests in any order.
Requests ==
    \/ \E a \in Avds : CreateAvd(a)
    \/ \E j \in Jobs, a \in Avds :
         Submit(j, "start", a) \/ Submit(j, "stop", a) \/ Submit(j, "delete", a)
    \/ \E j \in Jobs : Collect(j)
    \/ \E p \in Ports : AdbReboot(p)

AgentNext == Requests \/ Environment \/ \E j \in Jobs : JobStep(j)

AgentSpec == AgentInit /\ [][AgentNext]_avars

-----------------------------------------------------------------------------
(* Properties *)

\* No port is given twice: not to two emulators, not to an emulator and to
\* another AVD's map entry, which a stop would aim at (mjs:469-475, :504).
PortsApart ==
    \A a, b \in Avds :
        a # b => /\ emu[a] # None => emu[b] # emu[a] /\ known[b] # emu[a]
                 /\ known[a] # None => known[b] # known[a]

\* A stop or a delete only ends its own AVD's emulator (mjs:503-517).
StopsOnlyItsOwn ==
    [][ \A j \in Jobs, a \in Avds :
          (StopKill(j) \/ StopReap(j)) /\ emu[a] # None /\ emu'[a] = None
            => a = job[j].avd ]_avars
=============================================================================
