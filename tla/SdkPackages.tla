------------------------------ MODULE SdkPackages ------------------------------
(***************************************************************************)
(* How a node comes by an Android system image (ensureSdkPackage and its   *)
(* helpers in agent/proxbox-android-agent.mjs), for one package: fetch a   *)
(* zip with curl, resuming what is there; unzip it; remove the zip.  The   *)
(* package counts as installed once source.properties is on the disk.      *)
(*                                                                         *)
(* Every create and every install of the package share the one zip and the *)
(* one directory, and nothing keeps them apart.  The agent runs curl and   *)
(* unzip as children that outlive it (KillMode=process).                   *)
(***************************************************************************)
EXTENDS Naturals

CONSTANTS
    Ensures,     \* calls of ensureSdkPackage, each with a child process
    MaxCrashes   \* bound: how often the agent dies

ASSUME MaxCrashesAssumption == MaxCrashes \in Nat

VARIABLES
    ensure,    \* what each call is at
    child,     \* the process it has started
    zip,       \* the file in the temporary directory
    marked,    \* source.properties is there
    crashes    \* deaths of the agent

svars == <<ensure, child, zip, marked, crashes>>

SdkTypeOK ==
    /\ ensure \in [Ensures -> {"idle", "fetch", "unpack"}]
    /\ child \in [Ensures -> {"none", "curl", "unzip", "unzip garbled"}]
    /\ zip \in {"none", "partial", "whole", "garbled"}
    /\ marked \in BOOLEAN
    /\ crashes \in 0..MaxCrashes

SdkInit ==
    /\ ensure = [e \in Ensures |-> "idle"]
    /\ child = [e \in Ensures |-> "none"]
    /\ zip = "none"
    /\ marked = FALSE
    /\ crashes = 0

Fetching == \E e \in Ensures : child[e] = "curl"

Unzips(e) == child[e] \in {"unzip", "unzip garbled"}

-----------------------------------------------------------------------------

\* A call that does not find source.properties looks the URL up, or throws.
Ensure(e) ==
    /\ ensure[e] = "idle" /\ child[e] = "none"
    /\ ~marked
    /\ ensure' = [ensure EXCEPT ![e] = "fetch"]
    /\ UNCHANGED <<child, zip, marked, crashes>>

\* curl -C - appends to what there is; two at once garble it.
Curl(e) ==
    /\ ensure[e] = "fetch" /\ child[e] = "none"
    /\ child' = [child EXCEPT ![e] = "curl"]
    /\ zip' = CASE zip = "none"                -> "partial"
                [] zip = "partial" /\ Fetching -> "garbled"
                [] OTHER                       -> zip
    /\ UNCHANGED <<ensure, marked, crashes>>

Exit(e) == child' = [child EXCEPT ![e] = "none"]

\* If the call is still there it goes on; a child left behind goes alone.
GoesOn(e, stage) ==
    ensure' = IF ensure[e] = "idle" THEN ensure ELSE [ensure EXCEPT ![e] = stage]

Curled(e) ==
    /\ child[e] = "curl"
    /\ zip' = IF zip = "partial" THEN "whole" ELSE zip
    /\ Exit(e) /\ GoesOn(e, "unpack")
    /\ UNCHANGED <<marked, crashes>>

\* A stalled download is tried again, or given up; one that is killed after
\* fifteen minutes counts as done: run() makes no exit code into 0.
CurlStalls(e) ==
    /\ child[e] = "curl"
    /\ Exit(e)
    /\ \E stage \in {"fetch", "idle", "unpack"} : GoesOn(e, stage)
    /\ UNCHANGED <<zip, marked, crashes>>

\* unzip -o overwrites whatever is there.
Unzip(e) ==
    /\ ensure[e] = "unpack" /\ child[e] = "none"
    /\ zip \in {"whole", "garbled"}
    /\ child' = [child EXCEPT ![e] = IF zip = "whole" THEN "unzip" ELSE "unzip garbled"]
    /\ UNCHANGED <<ensure, zip, marked, crashes>>

\* source.properties is unpacked, among the rest.
Marks(e) ==
    /\ Unzips(e) /\ ~marked
    /\ marked' = TRUE
    /\ UNCHANGED <<ensure, child, zip, crashes>>

\* Mutant: a zip that could not be unpacked stays for the next attempt.
KeepsBroken(e) ==
    zip' = IF ensure[e] = "idle" \/ zip = "garbled" THEN zip ELSE "none"

\* The call removes the zip in any case; then it answers or throws.
CleansUp(e) == zip' = IF ensure[e] = "idle" THEN zip ELSE "none"

\* Not an archive, or not there at all.
UnzipRefuses(e) ==
    /\ ensure[e] = "unpack" /\ child[e] = "none"
    /\ zip \in {"none", "partial"}
    /\ CleansUp(e) /\ GoesOn(e, "idle")
    /\ UNCHANGED <<child, marked, crashes>>

Unzipped(e) ==
    /\ child[e] = "unzip" /\ marked
    /\ CleansUp(e) /\ Exit(e) /\ GoesOn(e, "idle")
    /\ UNCHANGED <<marked, crashes>>

\* A full disk, a garbled archive, or fifteen minutes are over, which counts
\* as success again; the files stay as they are.
UnzipStops(e) ==
    /\ Unzips(e)
    /\ CleansUp(e) /\ Exit(e) /\ GoesOn(e, "idle")
    /\ UNCHANGED <<marked, crashes>>

\* The agent dies, its children do not.
SdkCrash ==
    /\ crashes < MaxCrashes
    /\ crashes' = crashes + 1
    /\ ensure' = [e \in Ensures |-> "idle"]
    /\ UNCHANGED <<child, zip, marked>>

EnsureStep(e) ==
    \/ Ensure(e) \/ Curl(e) \/ Curled(e) \/ CurlStalls(e)
    \/ Unzip(e) \/ Marks(e) \/ UnzipRefuses(e) \/ Unzipped(e) \/ UnzipStops(e)

SdkNext == SdkCrash \/ \E e \in Ensures : EnsureStep(e)

SdkSpec == SdkInit /\ [][SdkNext]_svars

-----------------------------------------------------------------------------
(* Properties *)

\* A download that went wrong is not in the way of the next one: once somebody
\* has asked, and as long as somebody asks again, the package comes to be
\* installed (agent 343-371).
PackageArrives == (\E e \in Ensures : ensure[e] # "idle") ~> marked
=============================================================================
