------------------------------ MODULE DurableMap ------------------------------
(***************************************************************************)
(* What a file-backed registry promises its callers, with none of the      *)
(* timers and temporary files that provide it: every table has a working   *)
(* copy and a durable one; the durable copy of a table only ever becomes   *)
(* the table's whole current contents; a crash puts the working copies     *)
(* back to the durable ones.                                               *)
(***************************************************************************)

CONSTANTS Tables, Contents(_)

VARIABLES working, durable

vars == <<working, durable>>

TypeOK ==
    /\ DOMAIN working = Tables
    /\ DOMAIN durable = Tables
    /\ \A t \in Tables : working[t] \in Contents(t) /\ durable[t] \in Contents(t)

Init ==
    /\ DOMAIN durable = Tables
    /\ \A t \in Tables : durable[t] \in Contents(t)
    /\ working = durable

\* A caller changes one table.
Change(t) ==
    /\ \E c \in Contents(t) : working' = [working EXCEPT ![t] = c]
    /\ UNCHANGED durable

\* One table reaches the disk, whole.
Sync(t) ==
    /\ durable' = [durable EXCEPT ![t] = working[t]]
    /\ UNCHANGED working

\* The process dies; whatever was not durable is gone.
Crash ==
    /\ working' = durable
    /\ UNCHANGED durable

Next == (\E t \in Tables : Change(t) \/ Sync(t)) \/ Crash

Spec == Init /\ [][Next]_vars
=============================================================================
