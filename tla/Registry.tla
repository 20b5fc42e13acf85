------------------------------- MODULE Registry -------------------------------
(***************************************************************************)
(* The catalogue of the Android subsystem (server/android/registry.ts): a  *)
(* shipped file under a lab's own overlay file, read through a cache of    *)
(* five seconds.                                                           *)
(*                                                                         *)
(* Every operation here is synchronous: what interleaves are whole calls,  *)
(* the cache's age, hands on the overlay file, and restarts, into a new    *)
(* release of the application among them.                                  *)
(***************************************************************************)
EXTENDS Integers

CONSTANTS
    Rows,        \* ids of hardware profiles and images
    Versions,    \* what a saved row may say
    Releases,    \* of the application
    Shipped,     \* [Releases -> [Files -> [Rows -> Versions or Absent]]]
    Unreadable,  \* an overlay file that is not JSON
    Absent       \* no such row; no cache

\* Form factors and networks are loaded alike, and nothing saves them.
Files == {"hardware-profiles", "images"}

Table == [Rows -> Versions \cup {Absent}]

ASSUME ShippedAssumption == Shipped \in [Releases -> [Files -> Table]]

ASSUME AbsentAssumption ==
    Absent \notin Versions /\ Unreadable \notin Table
    /\ Absent \notin [rows : Table, fresh : BOOLEAN]

VARIABLES
    release,  \* the release that runs
    overlay,  \* the state dir: the overlay files
    cache,    \* caches
    edited    \* history: files edited by hand since they were last read

rvars == <<release, overlay, cache, edited>>

RegistryTypeOK ==
    /\ release \in Releases
    /\ overlay \in [Files -> Table \cup {Unreadable}]
    /\ cache \in [Files -> [rows : Table, fresh : BOOLEAN] \cup {Absent}]
    /\ edited \subseteq Files

RegistryInit ==
    /\ release \in Releases
    /\ overlay = [f \in Files |-> [i \in Rows |-> Absent]]
    /\ cache = [f \in Files |-> Absent]
    /\ edited = {}

\* merge: an overlay row replaces a shipped one with its id.
Merge(base, over) == [i \in Rows |-> IF over[i] # Absent THEN over[i] ELSE base[i]]

\* readJson of an overlay file: one that cannot be read counts as empty.
Overlay(f) == IF overlay[f] = Unreadable THEN [i \in Rows |-> Absent] ELSE overlay[f]

Current(f) == Merge(Shipped[release][f], Overlay(f))

-----------------------------------------------------------------------------

\* load
Load(f) ==
    /\ cache[f] # Absent => ~cache[f].fresh
    /\ cache' = [cache EXCEPT ![f] = [rows |-> Current(f), fresh |-> TRUE]]
    /\ edited' = edited \ {f}
    /\ UNCHANGED <<release, overlay>>

\* Mutant: the cache is left to expire by itself.
WriteOverlayCached(f, rows) ==
    /\ overlay' = [overlay EXCEPT ![f] = rows]
    /\ UNCHANGED <<release, cache, edited>>

\* writeOverlay renames a whole new file into place; then the cache goes.
WriteOverlay(f, rows) ==
    /\ overlay' = [overlay EXCEPT ![f] = rows]
    /\ cache' = [cache EXCEPT ![f] = Absent]
    /\ UNCHANGED <<release, edited>>

\* saveHardwareProfile refuses the ids that are shipped, saveImage does not.
Save(f, i, v) ==
    /\ f = "hardware-profiles" => Shipped[release][f][i] = Absent
    /\ WriteOverlay(f, [Overlay(f) EXCEPT ![i] = v])

\* deleteHardwareProfile, deleteImage: only rows of the overlay.
Delete(f, i) ==
    /\ Overlay(f)[i] # Absent
    /\ WriteOverlay(f, [Overlay(f) EXCEPT ![i] = Absent])

Age(f) ==
    /\ cache[f] # Absent /\ cache[f].fresh
    /\ cache' = [cache EXCEPT ![f].fresh = FALSE]
    /\ UNCHANGED <<release, overlay, edited>>

\* Somebody edits the file: one row of it, or badly.
EditByHand(f) ==
    /\ \/ overlay' = [overlay EXCEPT ![f] = Unreadable]
       \/ \E i \in Rows, v \in Versions : overlay' = [overlay EXCEPT ![f] = [Overlay(f) EXCEPT ![i] = v]]
    /\ edited' = edited \cup {f}
    /\ UNCHANGED <<release, cache>>

\* A restart, perhaps after an update.
RegistryRestart ==
    /\ release' \in Releases
    /\ cache' = [f \in Files |-> Absent]
    /\ UNCHANGED <<overlay, edited>>

ApiCall(f) == \E i \in Rows : Delete(f, i) \/ \E v \in Versions : Save(f, i, v)

RegistryNext ==
    \/ \E f \in Files : Load(f) \/ ApiCall(f) \/ Age(f) \/ EditByHand(f)
    \/ RegistryRestart

RegistrySpec == RegistryInit /\ [][RegistryNext]_rvars

-----------------------------------------------------------------------------
(* Properties *)

\* What the catalogue serves from its cache is what the files say: a row that
\* was saved, replaced or deleted shows at once (registry.ts:73-75), whatever
\* was cached before; only an edit by hand may take five seconds to show.
ServedIsCurrent ==
    \A f \in Files \ edited :
        cache[f] # Absent /\ cache[f].fresh => cache[f].rows = Current(f)
=============================================================================
