------------------------------ MODULE Catalogues ------------------------------
(***************************************************************************)
(* The three libraries together: the Android catalogue of the controller,  *)
(* the Windows images of the server, the system images of a node.  They    *)
(* share nothing, so one moves while the others rest, whichever it is.     *)
(***************************************************************************)
EXTENDS Registry, WimLibrary, SdkPackages, TLC

CONSTANTS custom, builtin, r1, r2

\* The second release ships a row that the lab may have made already.
MCShipped ==
    LET rows(old, new) == custom :> new @@ builtin :> old
        both(t) == "hardware-profiles" :> t @@ "images" :> t
    IN  r1 :> both(rows(1, Absent)) @@ r2 :> both(rows(2, 1))

VARIABLE subject   \* the library that moves

vars == <<rvars, wvars, svars, subject>>

Init ==
    /\ subject \in {"registry", "wims", "packages"}
    /\ RegistryInit
    /\ WimInit
    /\ SdkInit

Next ==
    /\ UNCHANGED subject
    /\ \/ subject = "registry" /\ RegistryNext /\ UNCHANGED <<wvars, svars>>
       \/ subject = "wims" /\ WimNext /\ UNCHANGED <<rvars, svars>>
       \/ subject = "packages" /\ SdkNext /\ UNCHANGED <<rvars, wvars>>

\* Somebody asks for the list now and then, and some walk gets to its end
\* between two restarts; lists age.
WimFairness ==
    LET Alone(A) == subject = "wims" /\ A /\ UNCHANGED <<rvars, svars, subject>>
    IN  /\ WF_vars(Alone(\E w \in Walks : Walk(w)))
        /\ SF_vars(Alone(\E w \in Walks : Listed(w)))
        /\ WF_vars(Alone(Aged))

\* Somebody asks for the package now and then; children end, and what is tried
\* for ever succeeds some time: a download with nobody else's in between, one of
\* what is already there, and the unpacking of a whole zip.
SdkFairness ==
    LET Alone(A) == subject = "packages" /\ A /\ UNCHANGED <<rvars, wvars, subject>>
    IN  /\ \A e \in Ensures : WF_vars(Alone(EnsureStep(e)))
        /\ SF_vars(Alone(\E e \in Ensures : zip = "partial" /\ Curled(e)))
        /\ SF_vars(Alone(\E e \in Ensures : zip \in {"whole", "garbled"} /\ Curled(e)))
        /\ SF_vars(Alone(\E e \in Ensures : zip = "whole" /\ Unzip(e)))
        /\ SF_vars(Alone(\E e \in Ensures : child[e] = "unzip" /\ Marks(e)))

Spec == Init /\ [][Next]_vars /\ WimFairness /\ SdkFairness

-----------------------------------------------------------------------------

\* Both caches are dropped by the calls that change what they hold: a catalogue
\* row shows as it was saved, an image is listed as soon as it is published
\* (registry.ts:73-75, server/index.ts:566), except where something else came
\* in between: a hand on the file, a walk that was already under way.
CachesAreCurrent == ServedIsCurrent /\ ListIsCurrent
=============================================================================
