------------------------------ MODULE MachineViews ------------------------------
(***************************************************************************)
(* The browser's session (api.ts, App.tsx, Dashboard.tsx, and isSignedIn   *)
(* of server/index.ts), and one machine's snapshots as its card lists them *)
(* while Proxmox works on one (MachineCard.tsx, TaskLog.tsx).              *)
(***************************************************************************)
EXTENDS FiniteSets

CONSTANTS
    Views   \* what asks the server: "dashboard", and the panels it opens

ASSUME ViewsAssumption == "dashboard" \in Views

-----------------------------------------------------------------------------
(* The session *)

VARIABLES
    ticket,    \* the cookie, which the tabs share: "none", "good" or "old"
    stored,    \* the tab's sessionStorage names a user
    page,      \* App: "login" or "dashboard"
    proxmox,   \* Proxmox answers the server
    requests   \* on their way back

\* stop: the effect that asked has been torn down.
Request == [by : Views, refused : BOOLEAN, stop : BOOLEAN]

sessionVars == <<ticket, stored, page, proxmox, requests>>

\* isSignedIn: no answer from Proxmox counts as no.
IsSignedIn == ticket = "good" /\ proxmox

ClearSession == ticket' = "none" /\ stored' = FALSE

\* What is left of the views that by holds for once they are gone.
TornDown(views, set) == {[r EXCEPT !.stop = r.stop \/ r.by \in views] : r \in set}

Expires ==
    /\ ticket = "good" /\ ticket' = "old"
    /\ UNCHANGED <<stored, page, proxmox, requests>>

ProxmoxMoves ==
    /\ proxmox' = ~proxmox
    /\ UNCHANGED <<ticket, stored, page, requests>>

Login ==
    /\ page = "login" /\ proxmox
    /\ ticket' = "good" /\ stored' = TRUE /\ page' = "dashboard"
    /\ UNCHANGED <<proxmox, requests>>

\* Another tab signs in, or out.
OtherTab ==
    /\ ticket' \in {"none", "good"} \ {ticket}
    /\ UNCHANGED <<stored, page, proxmox, requests>>

\* restoreSession: there is a cookie, and it need not be good.
Reload ==
    /\ page' = IF stored /\ ticket # "none" THEN "dashboard" ELSE "login"
    /\ requests' = {}
    /\ UNCHANGED <<ticket, stored, proxmox>>

\* A view asks: every five seconds the dashboard, others when they like.
Ask(by) ==
    /\ page = "dashboard"
    /\ requests' = requests \cup {[by |-> by, refused |-> ~IsSignedIn, stop |-> FALSE]}
    /\ UNCHANGED <<ticket, stored, page, proxmox>>

\* A view is closed, or its effect is set up again, as refresh does.
Teardown(by) ==
    /\ page = "dashboard"
    /\ requests' = TornDown({by}, requests)
    /\ UNCHANGED <<ticket, stored, page, proxmox>>

\* Data, or an error that is shown as one; or no answer at all.
Answered(r) ==
    /\ requests' = requests \ {r}
    /\ UNCHANGED <<ticket, stored, page, proxmox>>

\* Mutant: the dashboard shows a lost session as any other error.
RefusalShown(r) ==
    /\ r.refused
    /\ ClearSession
    /\ requests' = requests \ {r}
    /\ UNCHANGED <<page, proxmox>>

\* A 401 clears the session, whichever one it was asked in.  The dashboard then
\* signs out, even one that is gone; another view tells it, or is stopped, or
\* keeps it to itself.
Refusal(r) ==
    /\ r.refused
    /\ ClearSession
    /\ \/ /\ r.by = "dashboard" \/ ~r.stop
          /\ page' = "login" /\ requests' = TornDown(Views, requests \ {r})
       \/ /\ r.by # "dashboard"
          /\ UNCHANGED page /\ requests' = requests \ {r}
    /\ UNCHANGED proxmox

SignOut ==
    /\ page = "dashboard"
    /\ ClearSession /\ page' = "login"
    /\ requests' = TornDown(Views, requests)
    /\ UNCHANGED proxmox

SessionNext ==
    \/ Expires \/ ProxmoxMoves \/ Login \/ OtherTab \/ Reload \/ SignOut
    \/ \E by \in Views : Ask(by) \/ Teardown(by)
    \/ \E r \in requests : Answered(r) \/ Refusal(r)

-----------------------------------------------------------------------------
(* A snapshot is taken or deleted, in a task *)

VARIABLES
    snap,      \* it is there
    task,      \* the task: whether it makes the snapshot, and how far it is
    tray,      \* the task's card: "none", "polling", "done"
    open,      \* showSnaps: the list is open
    reading,   \* answers of loadSnaps on their way back: what they found
    listed     \* what the list shows; "nothing" after an error

snapVars == <<snap, task, tray, open, reading, listed>>

Found(there) == IF there THEN "with" ELSE "without"

NoTask == [makes |-> FALSE, at |-> "none"]

\* takeSnap, deleteSnap, once Proxmox has said that it begins.
BeginTask ==
    /\ task.at \notin {"running"} /\ tray = "none"
    /\ task' = [makes |-> ~snap, at |-> "running"]
    /\ tray' = "polling"
    /\ UNCHANGED <<snap, open, reading, listed>>

TaskEnds ==
    /\ task.at = "running"
    /\ \E at \in {"ok", "failed"} :
         /\ task' = [task EXCEPT !.at = at]
         /\ snap' = IF at = "ok" THEN task.makes ELSE snap
    /\ UNCHANGED <<tray, open, reading, listed>>

\* loadSnaps: the list is open, and asks.
LoadSnaps == reading' = IF open' THEN reading \cup {Found(snap)} ELSE reading

\* Mutant: the list is read again a while after the task has begun.
TaskSeenBlind ==
    /\ tray = "polling"
    /\ tray' = "done"
    /\ UNCHANGED <<snap, task, open, listed>>
    /\ LoadSnaps

\* TaskLog's poll finds the task stopped, and onDone bumps refreshTick.
TaskSeen ==
    /\ tray = "polling" /\ task.at # "running"
    /\ tray' = "done"
    /\ UNCHANGED <<snap, task, open, listed>>
    /\ LoadSnaps

\* The task's card is dismissed: nobody waits for the task any more.
Dismiss ==
    /\ tray # "none"
    /\ tray' = "none"
    /\ UNCHANGED <<snap, task, open, reading, listed>>

\* The list is opened and closed; what is being read still arrives.
ToggleSnaps ==
    /\ open' = ~open
    /\ UNCHANGED <<snap, task, tray, listed>>
    /\ LoadSnaps

\* In any order.
SnapsArrive(found) ==
    /\ reading' = reading \ {found}
    /\ listed' = found
    /\ UNCHANGED <<snap, task, tray, open>>

SnapsFail(found) ==
    /\ reading' = reading \ {found}
    /\ listed' = "nothing"
    /\ UNCHANGED <<snap, task, tray, open>>

SnapNext ==
    \/ BeginTask \/ TaskEnds \/ TaskSeen \/ Dismiss \/ ToggleSnaps
    \/ \E found \in reading : SnapsArrive(found) \/ SnapsFail(found)

-----------------------------------------------------------------------------

MachineViewsInit ==
    /\ ticket = "none" /\ stored = FALSE /\ page = "login"
    /\ proxmox = TRUE /\ requests = {}
    /\ snap = FALSE /\ task = NoTask /\ tray = "none"
    /\ open = FALSE /\ reading = {} /\ listed = "without"

-----------------------------------------------------------------------------
(* Properties *)

\* "Session expired - please log in again" (api.ts:1-5): a dashboard without a
\* good session comes to the login page, unless another tab signs in, although
\* any of its requests may be the one that takes the session away, and its
\* effects come and go (Dashboard.tsx:29-43).
LostSessionIsNoticed ==
    page = "dashboard" /\ ticket # "good" ~> page = "login" \/ ticket = "good"

\* "Tying the reload to actual completion" (MachineCard.tsx:78-82): once a task
\* has begun, an open list comes to show what it did, at least for a moment,
\* unless the task or the reading of the list fails or its card is dismissed.
SnapshotIsListed ==
    task.at = "running" /\ tray = "polling" /\ open ~>
        \/ task.at # "running" /\ listed = Found(snap)
        \/ task.at = "failed" \/ tray = "none" \/ ~open \/ listed = "nothing"
=============================================================================
