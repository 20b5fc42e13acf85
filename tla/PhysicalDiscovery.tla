--------------------------- MODULE PhysicalDiscovery ---------------------------
(***************************************************************************)
(* Real devices in the registry: what the agents report of adb, how        *)
(* reconcilePhysical (server/android/nodes.ts) turns reports into records, *)
(* and what the watcher's polls (runtime/index.ts, runtime/physical.ts)    *)
(* make of them afterwards.  Who holds a device is Reservations' business. *)
(*                                                                         *)
(* A report is the list as adb had it when the agent asked; it is          *)
(* processed some time later.  A device is its serial, from which its      *)
(* record's id is derived, so two nodes that see it (one after the other,  *)
(* or over TCP both at once) share one record.                             *)
(*                                                                         *)
(* Time is left out: a node may go stale whenever it likes, and a record   *)
(* may or may not be older than the boot timeout.  So are emulators and    *)
(* VMs, whose serials reconcilePhysical passes over.                       *)
(***************************************************************************)

CONSTANTS
    Nodes,
    Serials,    \* devices
    Beats,      \* heartbeats on their way
    Polls,      \* polls awaiting adb
    Idle,
    NoRecord

\* What adb says of a device: not listed, usable, or waiting for its prompt.
Adb == {"absent", "device", "unauthorized"}

List == [Serials -> Adb]

Beat == [node : Nodes, list : List]

\* The states a physical device gets into, and those pollOne acts on.
State == {"ready", "booting", "offline", "error"}
Active == State \ {"error"}

Record == [node : Nodes, state : State]

\* A poll that asks adb: what the record said when it began; what it learnt.
Asking == [dev : Serials, node : Nodes, before : Active]
Answered == [dev : Serials, state : Active]

ASSUME MarkAssumption ==
    /\ Idle \notin Beat /\ Idle \notin Asking /\ Idle \notin Answered /\ Idle \notin List
    /\ NoRecord \notin Record

VARIABLES
    adb,     \* what adb on each node says now
    up,      \* devices whose Android has booted
    beat,    \* heartbeats in flight
    known,   \* the list in each node's record; Idle if there is none, or it is stale
    rec,     \* the device records
    poll     \* polls in flight

vars == <<adb, up, beat, known, rec, poll>>

TypeOK ==
    /\ adb \in [Nodes -> List]
    /\ up \subseteq Serials
    /\ beat \in [Beats -> Beat \cup {Idle}]
    /\ known \in [Nodes -> List \cup {Idle}]
    /\ rec \in [Serials -> Record \cup {NoRecord}]
    /\ poll \in [Polls -> Asking \cup Answered \cup {Idle}]

Init ==
    /\ adb = [n \in Nodes |-> [s \in Serials |-> "absent"]]
    /\ up = Serials
    /\ beat = [b \in Beats |-> Idle]
    /\ known = [n \in Nodes |-> Idle]
    /\ rec = [s \in Serials |-> NoRecord]
    /\ poll = [p \in Polls |-> Idle]

InState(s, states) == rec[s] # NoRecord /\ rec[s].state \in states

-----------------------------------------------------------------------------
(* The devices. *)

\* Plugged in, unplugged, moved, asked for permission and given it, ...
AdbChanges(n, s) ==
    /\ \E a \in Adb : adb' = [adb EXCEPT ![n][s] = a]
    /\ UNCHANGED <<up, beat, known, rec, poll>>

\* By its own button, or by a reboot request.
Reboot(s) ==
    /\ up' = up \ {s}
    /\ UNCHANGED <<adb, beat, known, rec, poll>>

Booted(s) ==
    /\ up' = up \cup {s}
    /\ UNCHANGED <<adb, beat, known, rec, poll>>

-----------------------------------------------------------------------------
(* Heartbeats. *)

\* The agent has its list.
BeatSent(b, n) ==
    /\ beat[b] = Idle
    /\ beat' = [beat EXCEPT ![b] = [node |-> n, list |-> adb[n]]]
    /\ UNCHANGED <<adb, up, known, rec, poll>>

BeatLost(b) ==
    /\ beat[b] # Idle
    /\ beat' = [beat EXCEPT ![b] = Idle]
    /\ UNCHANGED <<adb, up, known, rec, poll>>

\* deviceFromReport: a new record, whatever there was before.
Discovered(n, a) == [node |-> n, state |-> IF a = "device" THEN "ready" ELSE "offline"]

\* Mutant: a device that has gone offline is left to the polls.
OnlineStays(r) == r

\* updateFromReport, of a device that is usable.
Online(r) == [r EXCEPT !.state = IF @ = "offline" THEN "ready" ELSE @]

Offline(r) == [r EXCEPT !.state = "offline"]

\* The records that count as node n's.
Registered(s, n) == rec[s] # NoRecord /\ rec[s].node = n

\* What becomes of s's record when n reports it as a.
Reconciled(s, n, a) ==
    CASE a # "absent" /\ ~Registered(s, n)       -> Discovered(n, a)
      [] a = "device" /\ Registered(s, n)        -> Online(rec[s])
      [] a # "device" /\ Registered(s, n)        -> Offline(rec[s])
      [] a = "absent" /\ ~Registered(s, n)       -> rec[s]

\* Mutant: a report that lists nothing is taken for a failure of adb.
BeatArrivesEmptyIgnored(b) ==
    /\ beat[b] # Idle
    /\ LET n == beat[b].node
       IN  IF \A s \in Serials : beat[b].list[s] = "absent"
           THEN UNCHANGED <<known, rec>>
           ELSE /\ known' = [known EXCEPT ![n] = beat[b].list]
                /\ rec' = [s \in Serials |-> Reconciled(s, n, beat[b].list[s])]
    /\ beat' = [beat EXCEPT ![b] = Idle]
    /\ UNCHANGED <<adb, up, poll>>

\* recordHeartbeat
BeatArrives(b) ==
    /\ beat[b] # Idle
    /\ LET n == beat[b].node
       IN  /\ known' = [known EXCEPT ![n] = beat[b].list]
           /\ rec' = [s \in Serials |-> Reconciled(s, n, beat[b].list[s])]
    /\ beat' = [beat EXCEPT ![b] = Idle]
    /\ UNCHANGED <<adb, up, poll>>

\* agentStaleMs have passed since the node's last heartbeat.
Stale(n) ==
    /\ known[n] # Idle
    /\ known' = [known EXCEPT ![n] = Idle]
    /\ UNCHANGED <<adb, up, beat, rec, poll>>

-----------------------------------------------------------------------------
(* pollOne *)

\* Mutant: the prompt is taken for any other way of not being there.
VerdictPromptless(s, n) == "offline"

\* What PhysicalAdbAdapter.status says without asking adb.
Verdict(s, n) ==
    IF known[n] # Idle /\ known[n][s] = "unauthorized" THEN "error" ELSE "offline"

Listed(s, n) == known[n] # Idle /\ known[n][s] = "device"

\* The node is stale, or its last heartbeat does not have the device usable.
PollKnows(s) ==
    /\ InState(s, Active)
    /\ ~Listed(s, rec[s].node)
    /\ rec' = [rec EXCEPT ![s].state = Verdict(s, rec[s].node)]
    /\ UNCHANGED <<adb, up, beat, known, poll>>

PollAsks(p, s) ==
    /\ poll[p] = Idle
    /\ InState(s, Active)
    /\ Listed(s, rec[s].node)
    /\ poll' = [poll EXCEPT ![p] = [dev |-> s, node |-> rec[s].node, before |-> rec[s].state]]
    /\ UNCHANGED <<adb, up, beat, known, rec>>

\* An agent that does not answer: a device that was ready is offline.
Silent(before) == IF before = "ready" THEN "offline" ELSE before

\* getprop sys.boot_completed, by AdbBackedAdapter.status.  adb fails at once
\* for a device that it does not have, which reads as "still booting".
PollAnswer(p) ==
    /\ poll[p] \in Asking
    /\ LET q == poll[p]
           booted == q.dev \in up /\ adb[q.node][q.dev] = "device"
       IN  \E state \in {IF booted THEN "ready" ELSE "booting", Silent(q.before)} :
             poll' = [poll EXCEPT ![p] = [dev |-> q.dev, state |-> state]]
    /\ UNCHANGED <<adb, up, beat, known, rec>>

\* Patched into whatever the record is by now; a device that is booting and
\* was discovered longer than the boot timeout ago fails.
PollPatch(p) ==
    /\ poll[p] \in Answered
    /\ LET q == poll[p]
       IN  \E state \in {q.state} \cup (IF q.state = "booting" THEN {"error"} ELSE {}) :
             rec' = IF rec[q.dev] = NoRecord THEN rec
                    ELSE [rec EXCEPT ![q.dev].state = state]
    /\ poll' = [poll EXCEPT ![p] = Idle]
    /\ UNCHANGED <<adb, up, beat, known>>

-----------------------------------------------------------------------------

\* A DELETE request: only the record goes; nothing is awaited on the way.
Destroy(s) ==
    /\ rec[s] # NoRecord
    /\ rec' = [rec EXCEPT ![s] = NoRecord]
    /\ UNCHANGED <<adb, up, beat, known, poll>>

BeatStep(b) == (\E n \in Nodes : BeatSent(b, n)) \/ BeatLost(b) \/ BeatArrives(b)

PollStep(p) == (\E s \in Serials : PollAsks(p, s)) \/ PollAnswer(p) \/ PollPatch(p)

Next ==
    \/ \E n \in Nodes, s \in Serials : AdbChanges(n, s)
    \/ \E s \in Serials : Reboot(s) \/ Booted(s)
    \/ \E b \in Beats : BeatStep(b)
    \/ \E n \in Nodes : Stale(n)
    \/ \E s \in Serials : PollKnows(s)
    \/ \E p \in Polls : PollStep(p)
    \/ \E s \in Serials : Destroy(s)

Spec == Init /\ [][Next]_vars

Fresh(s) == rec[s] # NoRecord /\ known[rec[s].node] # Idle

\* Every node's agent reports and is heard now and then.  A heartbeat is good
\* for 60 seconds and the watcher polls every five, so polls do not keep
\* missing the times when the node is not stale; and every call a poll makes
\* ends.
FairSpec ==
    /\ Spec
    /\ \A b \in Beats, n \in Nodes : SF_vars(BeatSent(b, n))
    /\ \A b \in Beats, n \in Nodes : SF_vars(BeatArrives(b) /\ beat[b].node = n)
    /\ \A s \in Serials : SF_vars(PollKnows(s) /\ Fresh(s))
    /\ \A p \in Polls : WF_vars(PollAnswer(p)) /\ WF_vars(PollPatch(p))

-----------------------------------------------------------------------------
(* Properties *)

Gone(s) == \A n \in Nodes : adb[n][s] = "absent"

\* s is on one node, and adb says a of it.
Only(s, a) ==
    \E n \in Nodes : adb[n][s] = a /\ \A m \in Nodes \ {n} : adb[m][s] = "absent"

\* "if the agent no longer lists the serial, the device is offline"
\* (docs/android/runtimes.md:190): a device that is gone does not stay ready,
\* whatever late reports and late polls still say.
UnplugIsNoticed ==
    \A s \in Serials :
        InState(s, {"ready"}) /\ Gone(s) ~> ~InState(s, {"ready"}) \/ ~Gone(s)

\* "offline has to be able to become ready again by itself"
\* (runtime/index.ts:112), on whichever node the device turns up.
ReturnIsNoticed ==
    \A s \in Serials :
        InState(s, {"offline"}) /\ Only(s, "device")
            ~> ~InState(s, {"offline"}) \/ ~Only(s, "device")

\* A device showing its prompt "reports as `error` ... not as offline"
\* (docs/android/runtimes.md:187), however it got there.
PromptIsShown ==
    \A s \in Serials :
        rec[s] # NoRecord /\ Only(s, "unauthorized")
            ~> InState(s, {"error"}) \/ rec[s] = NoRecord \/ ~Only(s, "unauthorized")

-----------------------------------------------------------------------------
(* What the documentation says and the code does not do. *)

\* "somebody has to tap Allow on it once" (physical.ts:112): a device that has
\* been allowed does not stay failed.
AllowedIsUsable ==
    \A s \in Serials :
        InState(s, {"error"}) /\ Only(s, "device") ~> ~InState(s, {"error"}) \/ ~Only(s, "device")
=============================================================================
