----------------------------- MODULE AndroidStore -----------------------------
(***************************************************************************)
(* The device registry's persistence (server/android/store.ts): two maps   *)
(* served from memory, loaded on first use, written back 250 ms after the  *)
(* first change of a burst, each file by write-to-temp-then-rename.        *)
(*                                                                         *)
(* The controller is one thread: a flush runs to its end before the next   *)
(* call, but the process may die between any two of its file operations.   *)
(***************************************************************************)

CONSTANTS
    DeviceIds,   \* ids a device record may have
    NodeIds,     \* names a node record may have
    Values,      \* what a record may say
    None,        \* no record under this id
    Torn,        \* a file whose write was cut short
    Absent       \* no file

Tables == {"devices", "nodes"}

Ids(t) == IF t = "devices" THEN DeviceIds ELSE NodeIds

\* The rows of one table: a JavaScript Map, total with None for "no entry".
Rows(t) == [Ids(t) -> Values \cup {None}]

Empty(t) == [i \in Ids(t) |-> None]

AllRows == Rows("devices") \cup Rows("nodes")

ASSUME NoneAssumption == None \notin Values
ASSUME MarkAssumption ==
    /\ Torn # Absent
    /\ Torn \notin AllRows
    /\ Absent \notin AllRows

VARIABLES
    mem,      \* this.devices and this.nodes
    loaded,   \* this.loaded
    dirty,    \* this.dirty
    timer,    \* this.flushTimer is armed
    jobs,     \* tables the flush in progress has still to write
    stage,    \* what the flush in progress does next to the first of them
    tmp,      \* <file>.tmp
    disk,     \* devices.json and nodes.json
    failed    \* the last write of the table was given up with a log line

vars == <<mem, loaded, dirty, timer, jobs, stage, tmp, disk, failed>>

TypeOK ==
    /\ mem \in [Tables -> AllRows]
    /\ \A t \in Tables : mem[t] \in Rows(t)
    /\ loaded \in BOOLEAN
    /\ dirty \subseteq Tables
    /\ timer \in BOOLEAN
    /\ jobs \subseteq Tables
    /\ stage \in {"write", "rename"}
    /\ tmp \in [Tables -> AllRows \cup {Torn, Absent}]
    /\ disk \in [Tables -> AllRows \cup {Torn, Absent}]
    /\ \A t \in Tables : disk[t] \in Rows(t) \cup {Torn, Absent}
    /\ failed \in [Tables -> BOOLEAN]

Init ==
    /\ mem = [t \in Tables |-> Empty(t)]
    /\ loaded = FALSE
    /\ dirty = {}
    /\ timer = FALSE
    /\ jobs = {}
    /\ stage = "write"
    /\ tmp = [t \in Tables |-> Absent]
    /\ disk = [t \in Tables |-> Absent]
    /\ failed = [t \in Tables |-> FALSE]

-----------------------------------------------------------------------------
(* Reading: load() runs once, before the first access. *)

\* No file, or one that does not parse: the table starts empty.
ReadFile(t) == IF disk[t] \in {Absent, Torn} THEN Empty(t) ELSE disk[t]

Current == IF loaded THEN mem ELSE [t \in Tables |-> ReadFile(t)]

\* No call runs while flush() holds the thread.
ThreadFree == jobs = {}

Read ==
    /\ ThreadFree
    /\ loaded' = TRUE
    /\ mem' = Current
    /\ UNCHANGED <<dirty, timer, jobs, stage, tmp, disk, failed>>

-----------------------------------------------------------------------------
(* Writing: change memory, then markDirty. *)

\* Mutant: returns on an armed timer before adding the mark.
MarkDirtyUnlessArmed(t) ==
    /\ dirty' = IF timer THEN dirty ELSE dirty \cup {t}
    /\ timer' = TRUE

MarkDirty(t) ==
    /\ dirty' = dirty \cup {t}
    /\ timer' = TRUE

\* Mutant: writes without calling load() first.
StoreUnloaded(t, i, v) ==
    /\ ThreadFree
    /\ loaded' = TRUE
    /\ mem' = [mem EXCEPT ![t][i] = v]
    /\ MarkDirty(t)
    /\ UNCHANGED <<jobs, stage, tmp, disk, failed>>

\* putDevice, putNode, patchDevice and deleteDevice: one entry of one table.
Store(t, i, v) ==
    /\ ThreadFree
    /\ loaded' = TRUE
    /\ mem' = [Current EXCEPT ![t][i] = v]
    /\ MarkDirty(t)
    /\ UNCHANGED <<jobs, stage, tmp, disk, failed>>

Put(t, i) == \E v \in Values : Store(t, i, v)

PatchDevice(i) ==
    /\ Current["devices"][i] # None
    /\ Put("devices", i)

DeleteDevice(i) ==
    /\ Current["devices"][i] # None
    /\ Store("devices", i, None)

-----------------------------------------------------------------------------
(* flush(): clear the marks, then write each table in turn. *)

\* Mutant: an "else if" that skips nodes.json when devices.json is written.
FlushStartOneTable ==
    /\ ThreadFree
    /\ timer
    /\ timer' = FALSE
    /\ jobs' = IF "devices" \in dirty THEN {"devices"} ELSE dirty
    /\ dirty' = {}
    /\ stage' = "write"
    /\ UNCHANGED <<mem, loaded, tmp, disk, failed>>

FlushStart ==
    /\ ThreadFree
    /\ timer
    /\ timer' = FALSE
    /\ jobs' = dirty
    /\ dirty' = {}
    /\ stage' = "write"
    /\ UNCHANGED <<mem, loaded, tmp, disk, failed>>

\* devices.json is written before nodes.json.
NextJob(t) == t \in jobs /\ (t = "nodes" => "devices" \notin jobs)

\* Mutant: truncates and writes the registry file itself.
WriteInPlace(t) ==
    /\ NextJob(t) /\ stage = "write"
    /\ disk' = [disk EXCEPT ![t] = Torn]
    /\ tmp' = [tmp EXCEPT ![t] = mem[t]]
    /\ stage' = "rename"
    /\ UNCHANGED <<mem, loaded, dirty, timer, jobs, failed>>

WriteTmp(t) ==
    /\ NextJob(t) /\ stage = "write"
    /\ tmp' = [tmp EXCEPT ![t] = mem[t]]
    /\ stage' = "rename"
    /\ UNCHANGED <<mem, loaded, dirty, timer, jobs, disk, failed>>

Rename(t) ==
    /\ NextJob(t) /\ stage = "rename"
    /\ disk' = [disk EXCEPT ![t] = tmp[t]]
    /\ tmp' = [tmp EXCEPT ![t] = Absent]
    /\ jobs' = jobs \ {t}
    /\ stage' = "write"
    /\ failed' = [failed EXCEPT ![t] = FALSE]
    /\ UNCHANGED <<mem, loaded, dirty, timer>>

\* mkdir, write or rename throws: logged, and on to the next table.
WriteFails(t) ==
    /\ NextJob(t)
    /\ tmp' \in {tmp, [tmp EXCEPT ![t] = Torn]}
    /\ jobs' = jobs \ {t}
    /\ stage' = "write"
    /\ failed' = [failed EXCEPT ![t] = TRUE]
    /\ UNCHANGED <<mem, loaded, dirty, timer, disk>>

\* The process ends and is started again.  No signal handler calls flush(),
\* so an orderly stop is no different from a crash.
Restart ==
    /\ mem' = [t \in Tables |-> Empty(t)]
    /\ loaded' = FALSE
    /\ dirty' = {}
    /\ timer' = FALSE
    /\ jobs' = {}
    /\ stage' = "write"
    /\ \/ UNCHANGED tmp
       \/ \E t \in Tables : NextJob(t) /\ stage = "write"
                            /\ tmp' = [tmp EXCEPT ![t] = Torn]
    /\ failed' = [t \in Tables |-> FALSE]
    /\ UNCHANGED disk

-----------------------------------------------------------------------------

Mutate ==
    \/ \E t \in Tables : \E i \in Ids(t) : Put(t, i)
    \/ \E i \in DeviceIds : PatchDevice(i) \/ DeleteDevice(i)

WriteStep == \E t \in Tables : WriteTmp(t) \/ Rename(t)

Next ==
    \/ Read
    \/ Mutate
    \/ FlushStart
    \/ WriteStep
    \/ \E t \in Tables : WriteFails(t)
    \/ Restart

Spec == Init /\ [][Next]_vars

\* The 250 ms timer fires, and a flush that has begun goes on.
FairSpec == Spec /\ WF_vars(FlushStart) /\ WF_vars(WriteStep)

-----------------------------------------------------------------------------
(* Properties *)

\* Whatever has not reached its file is still going to: the table is marked
\* and the timer armed, or the flush in progress has it on its list, or its
\* last write failed.  (flush() forgets the marks before it writes, so this
\* is the argument that nothing is forgotten with them.)
UnwrittenIsDue ==
    loaded => \A t \in Tables :
        mem[t] # ReadFile(t) =>
            \/ t \in dirty /\ timer
            \/ t \in jobs
            \/ failed[t]

\* "a crash mid-write cannot leave a half-parsed registry behind"
\* (store.ts:16): whatever file operation the process dies in, both
\* registry files parse.
FilesWhole == \A t \in Tables : disk[t] # Torn

\* A change that no write error hits reaches the disk, or is overtaken by a
\* restart: no interleaving of bursts and flushes leaves it behind.
EventuallyDurable ==
    \A t \in Tables :
        (loaded /\ mem[t] # ReadFile(t) /\ ~failed[t])
            ~> (~loaded \/ mem[t] = ReadFile(t) \/ failed[t])

\* The store implements the durable map: between a load and a crash the
\* working copy is the memory, otherwise what load() would read.
Durable == INSTANCE DurableMap WITH
    Contents <- Rows,
    working <- Current,
    durable <- [t \in Tables |-> ReadFile(t)]

ImplementsDurableMap == Durable!Spec
=============================================================================
