------------------------------ MODULE WebClient ------------------------------
(***************************************************************************)
(* The browser's parts together: the New machine dialog with the placement *)
(* it shares with the server, the views of the devices, the session, the   *)
(* snapshots of a machine.  They share nothing but the page, so one moves  *)
(* while the others rest, whichever it is.                                 *)
(***************************************************************************)
EXTENDS Placement, DeviceViews, MachineViews, TLC

CONSTANTS n1, n2   \* two nodes

\* The larger node has two disks, one of them named as on the other.
MCCores == n1 :> 8 @@ n2 :> 16

MCCapacity == n1 :> [d \in Disks |-> IF d = "local" THEN 100 ELSE 0]
              @@ n2 :> [d \in Disks |-> 100]

MCSpinners == {<<n1, "local">>, <<n2, "big">>}

MCSlowDirs == {<<n1, "local">>}

MCClusters ==
    {[up   |-> up,
      free |-> n1 :> f1 @@ n2 :> 12,
      used |-> n1 :> [d \in Disks |-> u1] @@ n2 :> [d \in Disks |-> IF d = "local" THEN u2 ELSE 40]] :
        up \in {{n1, n2}, {n2}}, f1 \in {8, 16}, u1 \in {30, 85}, u2 \in {10, 85}}

MCSizes == {[mem |-> 8, disk |-> 20, cores |-> 4], [mem |-> 4, disk |-> 5, cores |-> 12]}

VARIABLE subject   \* the part that moves

vars == <<pvars, panelVars, dialogVars, screenVars, sessionVars, snapVars, subject>>

\* Part s makes step A, and what the others hold stays.
Part(s, A, others) == subject = s /\ A /\ UNCHANGED <<subject, others>>

Placing(A)  == Part("placement", A, <<panelVars, dialogVars, screenVars, sessionVars, snapVars>>)
Listing(A)  == Part("panel", A, <<pvars, dialogVars, screenVars, sessionVars, snapVars>>)
Planning(A) == Part("dialog", A, <<pvars, panelVars, screenVars, sessionVars, snapVars>>)
Watching(A) == Part("screen", A, <<pvars, panelVars, dialogVars, sessionVars, snapVars>>)
Session(A)  == Part("session", A, <<pvars, panelVars, dialogVars, screenVars, snapVars>>)
Snapping(A) == Part("snapshots", A, <<pvars, panelVars, dialogVars, screenVars, sessionVars>>)

\* A part that rests need not start in more than one state.
AtRest ==
    /\ subject # "placement" => cluster = CHOOSE c \in Clusters : TRUE
    /\ subject # "panel" => device = "ready"
    /\ subject # "dialog" => form = CHOOSE f \in Forms : TRUE
    /\ subject # "screen" => ~ready

Init ==
    /\ subject \in {"placement", "panel", "dialog", "screen", "session", "snapshots"}
    /\ PlacementInit
    /\ DeviceViewsInit
    /\ MachineViewsInit
    /\ AtRest

Next ==
    \/ Placing(PlacementNext)
    \/ Listing(PanelNext)
    \/ Planning(DialogNext)
    \/ Watching(ScreenNext)
    \/ Session(SessionNext)
    \/ Snapping(SnapNext)

\* The timers fire; an answer that was asked for again and again comes some time.
Fairness ==
    /\ WF_vars(Listing(PollList))
    /\ WF_vars(Listing(\E l \in loads : l.device # "gone" /\ (ListArrives(l) \/ ListFails(l))))
    /\ SF_vars(Listing(\E l \in loads : l.device = "gone" /\ ~l.stop /\ ListArrives(l)))
    /\ WF_vars(Watching(OpenStream))
    /\ WF_vars(Watching(StreamStep))
    /\ WF_vars(Watching(NextStill))
    /\ WF_vars(Watching(StillPaints))
    /\ WF_vars(Session(Ask("dashboard")))
    /\ SF_vars(Session(\E r \in requests : r.by = "dashboard" /\ Refusal(r)))
    /\ WF_vars(Snapping(TaskEnds))
    /\ WF_vars(Snapping(TaskSeen))
    /\ WF_vars(Snapping(\E found \in reading : SnapsArrive(found) \/ SnapsFail(found)))

Spec == Init /\ [][Next]_vars /\ Fairness
=============================================================================
