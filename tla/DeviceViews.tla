------------------------------ MODULE DeviceViews ------------------------------
(***************************************************************************)
(* The browser's view of the devices: the panel that polls for the list    *)
(* (DevicesPanel.tsx), the dialog that shows the scheduler's plan while    *)
(* the form is edited (NewDevice.tsx), and the screen of one device        *)
(* (DeviceScreen.tsx, DeviceVideo.tsx).                                    *)
(*                                                                         *)
(* Nothing here waits for an answer before it asks again, and answers come *)
(* in any order.  What is asked by an effect that React has torn down is   *)
(* told so by its stop flag.                                               *)
(***************************************************************************)
EXTENDS Naturals

CONSTANTS
    Forms,     \* what the New device form may say
    NoPlan,    \* none has arrived
    MaxWorld   \* bound: changes of the device, while the panel is open

ASSUME NoPlanAssumption == NoPlan \notin [form : Forms, ok : BOOLEAN]

ASSUME MaxWorldAssumption == MaxWorld \in Nat

States == {"booting", "ready", "gone"}

-----------------------------------------------------------------------------
(* The panel: one device, and the list *)

VARIABLES
    device,   \* the device itself
    changes,  \* how often it has changed
    loads,    \* polls that are on their way back
    shown     \* the device as the list has it

Load == [device : States, stop : BOOLEAN]

panelVars == <<device, changes, loads, shown>>

DeviceMoves ==
    /\ changes < MaxWorld /\ device # "gone"
    /\ changes' = changes + 1
    /\ device' \in States \ {device}
    /\ UNCHANGED <<loads, shown>>

\* load, every POLL_MS, whether or not the last one has been answered.
PollList ==
    /\ loads' = loads \cup {[device |-> device, stop |-> FALSE]}
    /\ UNCHANGED <<device, changes, shown>>

\* refresh restarts the effect: the polls under way are stopped.
RefreshList ==
    /\ loads' = {[l EXCEPT !.stop = TRUE] : l \in loads} \cup {[device |-> device, stop |-> FALSE]}
    /\ UNCHANGED <<device, changes, shown>>

\* Mutant: the answer is merged into the list, and nothing ever leaves it.
ListMerges(l) ==
    /\ loads' = loads \ {l}
    /\ shown' = IF l.stop \/ l.device = "gone" THEN shown ELSE l.device
    /\ UNCHANGED <<device, changes>>

\* An answer, perhaps older than the last one; an error changes nothing.
ListArrives(l) ==
    /\ loads' = loads \ {l}
    /\ shown' = IF l.stop THEN shown ELSE l.device
    /\ UNCHANGED <<device, changes>>

ListFails(l) ==
    /\ loads' = loads \ {l}
    /\ UNCHANGED <<device, changes, shown>>

PanelNext ==
    \/ DeviceMoves \/ PollList \/ RefreshList
    \/ \E l \in loads : ListArrives(l) \/ ListFails(l)

-----------------------------------------------------------------------------
(* The New device dialog *)

VARIABLES
    form,      \* the request the form says; its own corrections count as edits
    due,       \* the timer of 350 ms runs
    asks,      \* requests for a plan on their way back
    plan,      \* what is shown
    planning,  \* the spinner
    busy       \* the create request is out; "closed" once it has succeeded

Asked == [form : Forms, stop : BOOLEAN]

dialogVars == <<form, due, asks, plan, planning, busy>>

Stopped(set) == {[a EXCEPT !.stop = TRUE] : a \in set}

\* Mutant: an edit does not stop the request for a plan that is under way.
EditUnstopped(f) ==
    /\ busy # "closed" /\ f # form
    /\ form' = f
    /\ due' = TRUE /\ planning' = TRUE
    /\ UNCHANGED <<asks, plan, busy>>

\* The request changes: the effect is torn down and set up again.
Edit(f) ==
    /\ busy # "closed" /\ f # form
    /\ form' = f
    /\ due' = TRUE /\ planning' = TRUE
    /\ asks' = Stopped(asks)
    /\ UNCHANGED <<plan, busy>>

AskPlan ==
    /\ due
    /\ due' = FALSE
    /\ asks' = asks \cup {[form |-> form, stop |-> FALSE]}
    /\ UNCHANGED <<form, plan, planning, busy>>

\* A plan, or a refusal; an error is shown as one.
PlanArrives(a, ok) ==
    /\ asks' = asks \ {a}
    /\ IF a.stop THEN UNCHANGED <<plan, planning>>
       ELSE plan' = [form |-> a.form, ok |-> ok] /\ planning' = FALSE
    /\ UNCHANGED <<form, due, busy>>

\* The button wants a plan that is ok, not the one of this form; the server
\* plans again.
CreateDevice ==
    /\ busy = "no" /\ plan # NoPlan /\ plan.ok
    /\ busy' = "yes"
    /\ UNCHANGED <<form, due, asks, plan, planning>>

\* Created, and the dialog closes; or not, and it says why.
CreateAnswer ==
    /\ busy = "yes"
    /\ \/ /\ busy' = "closed"
          /\ due' = FALSE /\ asks' = Stopped(asks)
       \/ busy' = "no" /\ UNCHANGED <<due, asks>>
    /\ UNCHANGED <<form, plan, planning>>

DialogNext ==
    \/ \E f \in Forms : Edit(f)
    \/ AskPlan \/ CreateDevice \/ CreateAnswer
    \/ \E a \in asks, ok \in BOOLEAN : PlanArrives(a, ok)

-----------------------------------------------------------------------------
(* The screen of the device *)

VARIABLES
    ready,     \* the device is ready, as the list has it
    live,      \* neither paused nor given up
    mode,      \* video, or stills
    stream,    \* DeviceVideo: its request, and what the decoder has had
    picture,   \* there is a picture on the screen
    stills,    \* whether the last image that was asked for has painted
    calling,   \* calls of handle() and del() on their way back
    label,     \* busy: what the buttons say is going on
    forceDel   \* the next removal skips the teardown

screenVars == <<ready, live, mode, stream, picture, stills, calling, label, forceDel>>

\* A tap, swipe or key, without a label; a rotation, a shell command, an
\* installation; a removal.
Calls == {"input", "labelled", "delete"}

Showing == ready /\ live /\ mode = "video"

\* What is mounted follows from the rest: DeviceVideo closes its stream and its
\* decoder when it goes.
Mounted == stream' = IF Showing' THEN stream ELSE "off"

ListUpdates ==
    /\ ready' = ~ready
    /\ picture' = FALSE
    /\ UNCHANGED <<live, mode, stills, calling, label, forceDel>>
    /\ Mounted

Pause ==
    /\ live' = ~live
    /\ picture' = (picture /\ mode = "stills")
    /\ UNCHANGED <<ready, mode, stills, calling, label, forceDel>>
    /\ Mounted

\* Mutant: a stream that breaks is left at that.
StayBroken ==
    /\ stream' = "broken"
    /\ UNCHANGED <<ready, live, mode, picture, stills, calling, label, forceDel>>

DropToStills ==
    /\ mode' = "stills" /\ picture' = FALSE /\ stills' = "loading"
    /\ stream' = "off"
    /\ UNCHANGED <<ready, live, calling, label, forceDel>>

\* The effect of DeviceVideo: without WebCodecs there is no video.
OpenStream ==
    /\ Showing /\ stream = "off"
    /\ \/ DropToStills
       \/ /\ stream' = "asked"
          /\ UNCHANGED <<ready, live, mode, picture, stills, calling, label, forceDel>>

\* pump and drain: a decoder is made when an SPS has been seen and a frame
\* comes, and makes a picture from a key frame on.
StreamMoves ==
    \/ stream = "asked" /\ stream' = "open" /\ UNCHANGED picture
    \/ stream = "open" /\ stream' = "configured" /\ UNCHANGED picture
    \/ stream = "configured" /\ stream' = "configured" /\ picture' = TRUE

StreamStep ==
    /\ StreamMoves
    /\ UNCHANGED <<ready, live, mode, stills, calling, label, forceDel>>

\* The stream comes to its end, at the server or the device: pump returns, and
\* the last picture stays.
StreamEnds ==
    /\ stream \in {"open", "configured", "undecodable"}
    /\ stream' = "ended"
    /\ UNCHANGED <<ready, live, mode, picture, stills, calling, label, forceDel>>

\* A chunk that cannot be decoded closes the decoder, which is not told.
DecoderDies ==
    /\ stream = "configured"
    /\ stream' = "undecodable"
    /\ UNCHANGED <<ready, live, mode, picture, stills, calling, label, forceDel>>

\* The request is refused, or the connection breaks: onError.
StreamFails ==
    /\ stream \in {"asked", "open", "configured", "undecodable"}
    /\ DropToStills

\* Every 120 ms another image is asked for; one that has not painted is given up.
NextStill ==
    /\ ready /\ live /\ mode = "stills"
    /\ stills' = "loading"
    /\ UNCHANGED <<ready, live, mode, stream, picture, calling, label, forceDel>>

StillPaints ==
    /\ ready /\ mode = "stills" /\ stills = "loading"
    /\ stills' = "painted" /\ picture' = TRUE
    /\ UNCHANGED <<ready, live, mode, stream, calling, label, forceDel>>

\* onError: the view is paused.
StillFails ==
    /\ ready /\ mode = "stills" /\ stills = "loading"
    /\ stills' = "painted" /\ live' = FALSE
    /\ UNCHANGED <<ready, mode, stream, picture, calling, label, forceDel>>

\* handle
Handle(c) ==
    /\ c # "delete" /\ c \notin calling
    /\ c = "input" => ready
    /\ calling' = calling \cup {c}
    /\ label' = IF c = "input" THEN "" ELSE c
    /\ UNCHANGED <<ready, live, mode, stream, picture, stills, forceDel>>

\* Whichever call comes back first takes the label away.
Handled(c) ==
    /\ c \in calling \ {"delete"}
    /\ calling' = calling \ {c} /\ label' = ""
    /\ UNCHANGED <<ready, live, mode, stream, picture, stills, forceDel>>

\* del: the button waits for the label, not for the calls, so a key pressed
\* while one removal is under way frees it for another.
Delete ==
    /\ label = ""
    /\ calling' = calling \cup {"delete"} /\ label' = "delete"
    /\ UNCHANGED <<ready, live, mode, stream, picture, stills, forceDel>>

\* Refused: the next one will be forced.  (Done: the view is closed.)
DeleteRefused ==
    /\ "delete" \in calling
    /\ calling' = calling \ {"delete"} /\ label' = ""
    /\ forceDel' = TRUE
    /\ UNCHANGED <<ready, live, mode, stream, picture, stills>>

ScreenNext ==
    \/ ListUpdates \/ Pause \/ OpenStream \/ StreamStep \/ StreamEnds
    \/ DecoderDies \/ StreamFails
    \/ NextStill \/ StillPaints \/ StillFails \/ Delete \/ DeleteRefused
    \/ \E c \in Calls : Handle(c) \/ Handled(c)

-----------------------------------------------------------------------------

DeviceViewsInit ==
    /\ device \in {"booting", "ready"} /\ changes = 0 /\ loads = {} /\ shown = device
    /\ form \in Forms /\ due = TRUE /\ asks = {} /\ plan = NoPlan
    /\ planning = TRUE /\ busy = "no"
    /\ ready \in BOOLEAN /\ live = TRUE /\ mode = "video" /\ stream = "off"
    /\ picture = FALSE /\ stills = "painted" /\ calling = {} /\ label = ""
    /\ forceDel = FALSE

-----------------------------------------------------------------------------
(* Properties *)

\* Without a spinner, the plan shown is the plan of the form shown, whatever
\* order the answers came in (NewDevice.tsx:124-147).
PlanIsForRequest == ~planning /\ plan # NoPlan => plan.form = form

\* "Drop to the screenshot poll if the browser has no WebCodecs or the stream
\* dies" (DeviceScreen.tsx:60-62): a live view of a ready device comes to show
\* a picture, unless the stream came to an orderly end or its decoder died,
\* which nobody notices.
ViewFallsBack ==
    ready /\ live ~> picture \/ stream \in {"ended", "undecodable"} \/ ~ready \/ ~live

\* A device that is gone leaves the list for good, after at most some flicker
\* by answers that are older than it (DevicesPanel.tsx:38-60).
GoneLeavesTheList == <>(device = "gone") => <>[](shown = "gone")
=============================================================================
