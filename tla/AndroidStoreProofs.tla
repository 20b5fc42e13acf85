--------------------------- MODULE AndroidStoreProofs ---------------------------
(***************************************************************************)
(* Proofs about AndroidStore for any sets of ids and values.               *)
(*                                                                         *)
(* IInv strengthens TypeOK with the flush's own bookkeeping (FlushInv):    *)
(* marks and timer exist only once the store is loaded, a mark means an    *)
(* armed timer, and the temporary file that is about to be renamed holds   *)
(* the table as it is in memory, which no call can change in the meantime. *)
(***************************************************************************)
EXTENDS AndroidStore, TLAPS

FlushInv ==
    /\ ~loaded => dirty = {} /\ jobs = {} /\ ~timer
    /\ dirty # {} => timer
    /\ \A t \in Tables : NextJob(t) /\ stage = "rename" => tmp[t] = mem[t]

IInv == TypeOK /\ FlushInv /\ FilesWhole /\ UnwrittenIsDue

LEMMA EmptyType == \A t \in Tables : Empty(t) \in Rows(t)
BY DEF Empty, Rows

LEMMA RowsInAll == \A t \in Tables : Rows(t) \subseteq AllRows
BY DEF AllRows, Tables

\* What load() reads is a table, whatever the file holds.
LEMMA CurrentType ==
    ASSUME TypeOK
    PROVE  /\ \A t \in Tables : ReadFile(t) \in Rows(t)
           /\ \A t \in Tables : Current[t] \in Rows(t)
           /\ Current \in [Tables -> AllRows]
<1>1. \A t \in Tables : ReadFile(t) \in Rows(t)
  BY EmptyType DEF TypeOK, ReadFile
<1>2. \A t \in Tables : Current[t] \in Rows(t)
  BY <1>1 DEF TypeOK, Current
<1>3. Current \in [Tables -> AllRows]
  <2>1. CASE loaded
    BY <2>1 DEF Current, TypeOK
  <2>2. CASE ~loaded
    BY <2>2, <1>1, RowsInAll DEF Current
  <2>. QED BY <2>1, <2>2
<1>. QED BY <1>1, <1>2, <1>3

\* A table in memory is never one of the marks a file may carry.
LEMMA RowsAreNoMark ==
    ASSUME NEW t \in Tables, NEW r \in Rows(t)
    PROVE  r # Torn /\ r # Absent
BY MarkAssumption, RowsInAll

-----------------------------------------------------------------------------

LEMMA InitIInv == Init => IInv
<1>. SUFFICES ASSUME Init PROVE IInv
  OBVIOUS
<1>1. TypeOK
  BY EmptyType, RowsInAll DEF Init, TypeOK
<1>2. FlushInv /\ UnwrittenIsDue
  BY DEF Init, FlushInv, UnwrittenIsDue, NextJob
<1>3. FilesWhole
  BY MarkAssumption DEF Init, FilesWhole
<1>. QED BY <1>1, <1>2, <1>3 DEF IInv

\* load(): nothing is marked, and memory becomes what the files hold.
LEMMA ReadIInv == IInv /\ Read => IInv'
<1>. SUFFICES ASSUME IInv, Read PROVE IInv'
  OBVIOUS
<1>. USE DEF IInv, Read
<1>1. TypeOK'
  BY CurrentType DEF TypeOK
<1>2. FlushInv'
  BY DEF FlushInv, ThreadFree, NextJob
<1>3. FilesWhole'
  BY DEF FilesWhole
<1>4. UnwrittenIsDue'
  BY DEF UnwrittenIsDue, Current, ReadFile, ThreadFree, TypeOK
<1>. QED BY <1>1, <1>2, <1>3, <1>4

\* One entry changes: the table it is in is marked and the timer armed.
LEMMA StoreIInv ==
    ASSUME IInv, NEW t \in Tables, NEW i \in Ids(t),
           NEW v \in Values \cup {None}, Store(t, i, v)
    PROVE  IInv'
<1>. USE DEF IInv, Store, MarkDirty
<1>1. \A u \in Tables : mem'[u] \in Rows(u)
  BY CurrentType DEF Rows
<1>2. DOMAIN mem' = Tables /\ mem' \in [Tables -> AllRows]
  <2>1. mem' = [u \in Tables |-> IF u = t THEN [Current[t] EXCEPT ![i] = v]
                                          ELSE Current[u]]
    BY CurrentType
  <2>. QED BY <2>1, <1>1, RowsInAll
<1>3. TypeOK'
  BY <1>1, <1>2 DEF TypeOK
<1>4. FlushInv'
  BY DEF FlushInv, ThreadFree, NextJob
<1>5. FilesWhole'
  BY DEF FilesWhole
<1>6. UnwrittenIsDue'
  <2>. SUFFICES ASSUME NEW u \in Tables, mem'[u] # ReadFile(u)'
                PROVE  (u \in dirty' /\ timer') \/ u \in jobs' \/ failed'[u]
    BY DEF UnwrittenIsDue
  <2>1. CASE u = t
    BY <2>1
  <2>2. CASE u # t
    <3>1. mem'[u] = Current[u] /\ ReadFile(u)' = ReadFile(u)
      BY <2>2, CurrentType DEF ReadFile
    <3>2. loaded /\ mem[u] # ReadFile(u)
      BY <3>1 DEF Current
    <3>. QED BY <3>2 DEF UnwrittenIsDue
  <2>. QED BY <2>1, <2>2
<1>. QED BY <1>3, <1>4, <1>5, <1>6

\* The marks are cleared, and the same tables are on the flush's list.
LEMMA FlushStartIInv == IInv /\ FlushStart => IInv'
<1>. SUFFICES ASSUME IInv, FlushStart PROVE IInv'
  OBVIOUS
<1>. USE DEF IInv, FlushStart
<1>1. TypeOK'
  BY DEF TypeOK
<1>2. FlushInv'
  BY DEF FlushInv
<1>3. FilesWhole'
  BY DEF FilesWhole
<1>4. UnwrittenIsDue'
  BY DEF UnwrittenIsDue, ReadFile, ThreadFree
<1>. QED BY <1>1, <1>2, <1>3, <1>4

LEMMA WriteTmpIInv ==
    ASSUME IInv, NEW t \in Tables, WriteTmp(t)
    PROVE  IInv'
<1>. USE DEF IInv, WriteTmp
<1>1. TypeOK'
  BY DEF TypeOK
<1>2. FlushInv'
  BY DEF FlushInv, NextJob, TypeOK, Tables
<1>3. FilesWhole'
  BY DEF FilesWhole
<1>4. UnwrittenIsDue'
  BY DEF UnwrittenIsDue, ReadFile
<1>. QED BY <1>1, <1>2, <1>3, <1>4

\* The file becomes what memory holds: the only step that empties the list
\* by success.
LEMMA RenameIInv ==
    ASSUME IInv, NEW t \in Tables, Rename(t)
    PROVE  IInv'
<1>. USE DEF IInv, Rename
<1>1. tmp[t] = mem[t] /\ mem[t] \in Rows(t)
  BY DEF FlushInv, TypeOK
<1>2. TypeOK'
  BY <1>1 DEF TypeOK
<1>3. FlushInv'
  BY DEF FlushInv
<1>4. FilesWhole'
  BY <1>1, RowsAreNoMark DEF FilesWhole, TypeOK
<1>5. UnwrittenIsDue'
  <2>. SUFFICES ASSUME NEW u \in Tables, loaded', mem'[u] # ReadFile(u)'
                PROVE  (u \in dirty' /\ timer') \/ u \in jobs' \/ failed'[u]
    BY DEF UnwrittenIsDue
  <2>1. u # t
    BY <1>1, RowsAreNoMark DEF ReadFile, TypeOK
  <2>2. ReadFile(u)' = ReadFile(u)
    BY <2>1 DEF ReadFile, TypeOK
  <2>. QED BY <2>1, <2>2 DEF UnwrittenIsDue, TypeOK
<1>. QED BY <1>2, <1>3, <1>4, <1>5

LEMMA WriteFailsIInv ==
    ASSUME IInv, NEW t \in Tables, WriteFails(t)
    PROVE  IInv'
<1>. USE DEF IInv, WriteFails
<1>1. TypeOK'
  BY DEF TypeOK
<1>2. FlushInv'
  BY DEF FlushInv
<1>3. FilesWhole'
  BY DEF FilesWhole
<1>4. UnwrittenIsDue'
  BY DEF UnwrittenIsDue, ReadFile, TypeOK
<1>. QED BY <1>1, <1>2, <1>3, <1>4

LEMMA RestartIInv == IInv /\ Restart => IInv'
<1>. SUFFICES ASSUME IInv, Restart PROVE IInv'
  OBVIOUS
<1>. USE DEF IInv, Restart
<1>1. TypeOK'
  BY EmptyType, RowsInAll DEF TypeOK
<1>2. FlushInv'
  BY DEF FlushInv, NextJob
<1>3. FilesWhole'
  BY DEF FilesWhole
<1>4. UnwrittenIsDue'
  BY DEF UnwrittenIsDue
<1>. QED BY <1>1, <1>2, <1>3, <1>4

LEMMA NextIInv == IInv /\ [Next]_vars => IInv'
<1>. SUFFICES ASSUME IInv, [Next]_vars PROVE IInv'
  OBVIOUS
<1>1. CASE Read
  BY <1>1, ReadIInv
<1>2. CASE Mutate
  <2>1. \A t \in Tables : \A i \in Ids(t) : Put(t, i) => IInv'
    BY StoreIInv DEF Put
  <2>2. \A i \in DeviceIds : PatchDevice(i) \/ DeleteDevice(i) => IInv'
    <3>1. "devices" \in Tables /\ Ids("devices") = DeviceIds
      BY DEF Tables, Ids
    <3>. QED BY <2>1, <3>1, StoreIInv DEF PatchDevice, DeleteDevice
  <2>. QED BY <1>2, <2>1, <2>2 DEF Mutate
<1>3. CASE FlushStart
  BY <1>3, FlushStartIInv
<1>4. CASE WriteStep
  BY <1>4, WriteTmpIInv, RenameIInv DEF WriteStep
<1>5. CASE \E t \in Tables : WriteFails(t)
  BY <1>5, WriteFailsIInv
<1>6. CASE Restart
  BY <1>6, RestartIInv
<1>7. CASE UNCHANGED vars
  BY <1>7 DEF IInv, vars, TypeOK, FlushInv, FilesWhole, UnwrittenIsDue,
              NextJob, ReadFile
<1>. QED BY <1>1, <1>2, <1>3, <1>4, <1>5, <1>6, <1>7 DEF Next

\* Every variable of the store keeps the type the code gives it.
THEOREM TypeCorrect == Spec => []TypeOK
<1>1. IInv => TypeOK
  BY DEF IInv
<1>. QED BY InitIInv, NextIInv, <1>1, PTL DEF Spec

\* A change that is not on disk yet is marked with the timer armed, or on
\* the flush's list, or its write has failed (store.ts:63-91).
THEOREM NothingForgotten == Spec => []UnwrittenIsDue
<1>1. IInv => UnwrittenIsDue
  BY DEF IInv
<1>. QED BY InitIInv, NextIInv, <1>1, PTL DEF Spec

\* No crash, wherever it falls, leaves a half-written registry file.
THEOREM WholeFiles == Spec => []FilesWhole
<1>1. IInv => FilesWhole
  BY DEF IInv
<1>. QED BY InitIInv, NextIInv, <1>1, PTL DEF Spec

-----------------------------------------------------------------------------
(* The store implements the durable map.                                   *)

Files == [t \in Tables |-> ReadFile(t)]

LEMMA InitRefines == Init => Durable!Init
BY EmptyType DEF Init, Durable!Init, Current, ReadFile

\* Changing an entry is a change of its table, load() included.
LEMMA StoreRefines ==
    ASSUME IInv, NEW t \in Tables, NEW i \in Ids(t),
           NEW v \in Values \cup {None}, Store(t, i, v)
    PROVE  Durable!Change(t)
<1>1. Files' = Files
  BY DEF Store, Files, ReadFile
<1>2. [Current[t] EXCEPT ![i] = v] \in Rows(t)
  BY CurrentType DEF IInv, Rows
<1>3. Current' = [Current EXCEPT ![t] = [Current[t] EXCEPT ![i] = v]]
  BY CurrentType DEF Store, Current, IInv
<1>. QED BY <1>1, <1>2, <1>3 DEF Durable!Change, Files

\* The rename is the moment a table becomes durable, as it is in memory.
LEMMA RenameRefines ==
    ASSUME IInv, NEW t \in Tables, Rename(t)
    PROVE  Durable!Sync(t)
<1>1. loaded /\ tmp[t] = mem[t] /\ mem[t] \in Rows(t)
  BY DEF IInv, FlushInv, TypeOK, Rename, NextJob
<1>2. Current' = Current /\ Current = mem
  BY <1>1 DEF Rename, Current
<1>3. ReadFile(t)' = mem[t]
  BY <1>1, RowsAreNoMark DEF Rename, ReadFile, IInv, TypeOK
<1>4. \A u \in Tables \ {t} : ReadFile(u)' = ReadFile(u)
  BY DEF Rename, ReadFile, IInv, TypeOK
<1>5. Files' = [Files EXCEPT ![t] = mem[t]]
  BY <1>3, <1>4 DEF Files
<1>. QED BY <1>2, <1>5 DEF Durable!Sync, Files

\* A restart is the abstract crash, wherever it falls.
LEMMA RestartRefines == Restart => Durable!Crash
<1>. SUFFICES ASSUME Restart PROVE Durable!Crash
  OBVIOUS
<1>1. Files' = Files
  BY DEF Restart, Files, ReadFile
<1>2. Current' = Files'
  BY DEF Restart, Current, Files
<1>. QED BY <1>1, <1>2 DEF Durable!Crash, Files

\* Every other step changes nothing a caller could see after a crash or now.
LEMMA StutterRefines ==
    ASSUME IInv, \/ Read
                 \/ FlushStart
                 \/ \E t \in Tables : WriteTmp(t) \/ WriteFails(t)
                 \/ UNCHANGED vars
    PROVE  UNCHANGED Durable!vars
<1>1. Files' = Files
  BY DEF Read, FlushStart, WriteTmp, WriteFails, vars, Files, ReadFile
<1>2. Current' = Current
  BY DEF Read, FlushStart, WriteTmp, WriteFails, vars, Current, ReadFile
<1>. QED BY <1>1, <1>2 DEF Durable!vars, Files

LEMMA NextRefines == IInv /\ [Next]_vars => [Durable!Next]_(Durable!vars)
<1>. SUFFICES ASSUME IInv, [Next]_vars PROVE [Durable!Next]_(Durable!vars)
  OBVIOUS
<1>1. CASE Mutate
  <2>1. \A t \in Tables : \A i \in Ids(t) : Put(t, i) => Durable!Next
    BY StoreRefines DEF Put, Durable!Next
  <2>2. \A i \in DeviceIds : PatchDevice(i) \/ DeleteDevice(i) => Durable!Next
    <3>1. "devices" \in Tables /\ Ids("devices") = DeviceIds
      BY DEF Tables, Ids
    <3>. QED BY <2>1, <3>1, StoreRefines DEF PatchDevice, DeleteDevice, Durable!Next
  <2>. QED BY <1>1, <2>1, <2>2 DEF Mutate
<1>2. CASE \E t \in Tables : Rename(t)
  BY <1>2, RenameRefines DEF Durable!Next
<1>3. CASE Restart
  BY <1>3, RestartRefines DEF Durable!Next
<1>4. CASE Read \/ FlushStart \/ (\E t \in Tables : WriteTmp(t) \/ WriteFails(t))
           \/ UNCHANGED vars
  BY <1>4, StutterRefines
<1>. QED BY <1>1, <1>2, <1>3, <1>4 DEF Next, WriteStep

\* With its timers, temporary files, lazy load and crashes, the store is a
\* durable map: after a restart each table is whole, and is what it was in
\* memory at some earlier moment.
THEOREM Refinement == Spec => ImplementsDurableMap
BY InitIInv, NextIInv, InitRefines, NextRefines, PTL
   DEF Spec, ImplementsDurableMap, Durable!Spec
=============================================================================
