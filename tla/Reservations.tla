----------------------------- MODULE Reservations -----------------------------
(***************************************************************************)
(* Who holds which Android device: the reserve, release, claim and control *)
(* handlers (server/android/routes.ts, runtime/physical.ts) against the    *)
(* watcher's two reapers (runtime/index.ts).                               *)
(*                                                                         *)
(* A handler that awaits is two actions, before and after; what it read    *)
(* before the await is in req[u].  A watcher tick is a snapshot of the     *)
(* device list, an await for every poll, then the reapers working from     *)
(* that snapshot; setInterval starts a tick whether or not the last one    *)
(* has ended, so several may be in flight.                                 *)
(***************************************************************************)
EXTENDS Integers

CONSTANTS
    Users,
    Physical,     \* devices a node discovers; they can be claimed
    Virtual,      \* devices ProxBox creates; their ids are never used again
    Disposable,   \* virtual devices with persistence "disposable"
    Tickers,      \* watcher ticks that may be in flight together
    Minutes,      \* hold lengths a client may ask for; 0 is "none given"
    MinHold,      \* 5 minutes, the least a reserve call grants
    MaxHold,      \* 24 hours, the most it grants
    Ttl,          \* reservationTtlMs
    MaxAge,       \* disposableMaxAgeMs
    MaxTime,      \* bound on the clock
    MaxRestarts,  \* bound on the controller's restarts
    NoHold,       \* reservation: null
    Idle          \* no request, no tick

Devices == Physical \cup Virtual

ASSUME TimeAssumption ==
    /\ Minutes \subseteq Nat
    /\ {MinHold, MaxHold, Ttl, MaxAge, MaxTime, MaxRestarts} \subseteq Nat
    /\ 0 < MinHold /\ MinHold <= MaxHold
ASSUME DeviceAssumption ==
    /\ Disposable \subseteq Virtual
    /\ Virtual \cap Physical = {}

\* A reservation; expires = 0 is expiresAt: undefined.
Hold == [owner : Users, since : Nat, expires : Nat]

\* Requests between their check and their effect.  at is when they checked.
Request == [op : {"create", "reserve", "claim", "control", "lifecycle", "destroy"},
            dev : Devices, at : Nat, minutes : Nat]

\* A tick awaiting its polls, or the destruction of busy.
Tick == [phase : {"poll", "dispose"}, at : Nat,
         hold : [Devices -> Hold \cup {NoHold}],
         todo : SUBSET Devices, busy : Devices \cup {Idle}]

ASSUME MarkAssumption ==
    /\ NoHold \notin Hold
    /\ Idle \notin Request /\ Idle \notin Tick /\ Idle \notin Devices

VARIABLES
    now,       \* Date.now()
    status,    \* "new" before creation, "present" in the store, "gone" after
    created,   \* createdAt, which matters for disposables only
    hold,      \* reservation
    req,       \* each user's request in flight
    tick,      \* the watcher ticks in flight
    watching,  \* RuntimeManager.watcher is set
    restarts   \* how often the controller has been restarted

vars == <<now, status, created, hold, req, tick, watching, restarts>>

TypeOK ==
    /\ now \in Nat
    /\ status \in [Devices -> {"new", "present", "gone"}]
    /\ created \in [Devices -> Nat]
    /\ hold \in [Devices -> Hold \cup {NoHold}]
    /\ req \in [Users -> Request \cup {Idle}]
    /\ tick \in [Tickers -> Tick \cup {Idle}]
    /\ watching \in BOOLEAN
    /\ restarts \in Nat
    /\ \A d \in Devices : hold[d] # NoHold => status[d] = "present"

Init ==
    /\ now = 0
    /\ status = [d \in Devices |-> "new"]
    /\ created = [d \in Devices |-> 0]
    /\ hold = [d \in Devices |-> NoHold]
    /\ req = [u \in Users |-> Idle]
    /\ tick = [t \in Tickers |-> Idle]
    /\ watching = FALSE
    /\ restarts = 0

Present == {d \in Devices : status[d] = "present"}

\* Nobody, or u, holds d: the test in reserve, findPhysical, claim, mayControl.
OpenTo(d, u) == hold[d] # NoHold => hold[d].owner = u

Begin(u, op, d, m) ==
    /\ req[u] = Idle
    /\ req' = [req EXCEPT ![u] = [op |-> op, dev |-> d, at |-> now, minutes |-> m]]

Pending(u, op) == req[u] # Idle /\ req[u].op = op

End(u) == req' = [req EXCEPT ![u] = Idle]

-----------------------------------------------------------------------------
(* Creating and discovering devices. *)

\* adapter.create of an AVD or VM stores the record, held by its creator,
\* and goes on to power it on.
Create(u, d) ==
    /\ d \in Virtual /\ status[d] = "new"
    /\ Begin(u, "create", d, 0)
    /\ status' = [status EXCEPT ![d] = "present"]
    /\ created' = [created EXCEPT ![d] = now]
    /\ hold' = [hold EXCEPT ![d] = [owner |-> u, since |-> now, expires |-> 0]]
    /\ UNCHANGED <<now, tick, watching, restarts>>

\* Only a create that succeeds starts the watcher.
CreateEnd(u) ==
    /\ Pending(u, "create")
    /\ End(u)
    /\ watching' \in {TRUE, watching}
    /\ UNCHANGED <<now, status, created, hold, tick, restarts>>

\* Mutant: the intake records the report and leaves the watcher alone.
HeartbeatUnwatched(seen, moved) ==
    /\ status' = [d \in Devices |-> IF d \in seen THEN "present" ELSE status[d]]
    /\ hold' = [d \in Devices |-> IF d \in moved THEN NoHold ELSE hold[d]]
    /\ UNCHANGED <<now, created, req, tick, watching, restarts>>

\* An agent reports: unknown devices, and those that another node has
\* (moved), are registered anew, nobody holding them; and the watcher is
\* started if this process has not started it yet.
Heartbeat(seen, moved) ==
    /\ status' = [d \in Devices |-> IF d \in seen THEN "present" ELSE status[d]]
    /\ hold' = [d \in Devices |-> IF d \in moved THEN NoHold ELSE hold[d]]
    /\ watching' = TRUE
    /\ UNCHANGED <<now, created, req, tick, restarts>>

-----------------------------------------------------------------------------
(* Taking and giving back a hold. *)

\* Mutant: the check looks at the hold's age instead of its owner.
ReserveCheckAge(u, d, m) ==
    /\ d \in Present
    /\ hold[d] # NoHold => hold[d].since < now
    /\ Begin(u, "reserve", d, m)
    /\ UNCHANGED <<now, status, created, hold, tick, watching, restarts>>

\* reserve, up to the await for its body.
ReserveCheck(u, d, m) ==
    /\ d \in Present /\ OpenTo(d, u)
    /\ Begin(u, "reserve", d, m)
    /\ UNCHANGED <<now, status, created, hold, tick, watching, restarts>>

\* Math.min(24 * 60, Math.max(5, minutes)): 0 cannot come out.
HoldMinutes(m) ==
    LET least == IF m < MinHold THEN MinHold ELSE m
    IN  IF least > MaxHold THEN MaxHold ELSE least

NewHold(u, m) ==
    [owner |-> u, since |-> now,
     expires |-> IF HoldMinutes(m) = 0 THEN 0 ELSE now + HoldMinutes(m)]

\* reserve, after its body arrived: patchDevice, which ignores a device that
\* has gone in the meantime.
ReserveCommit(u) ==
    /\ Pending(u, "reserve")
    /\ LET d == req[u].dev
       IN  hold' = IF d \in Present
                   THEN [hold EXCEPT ![d] = NewHold(u, req[u].minutes)]
                   ELSE hold
    /\ End(u)
    /\ UNCHANGED <<now, status, created, tick, watching, restarts>>

\* release does not ask who is calling.
Release(u, d) ==
    /\ req[u] = Idle /\ d \in Present
    /\ hold' = [hold EXCEPT ![d] = NoHold]
    /\ UNCHANGED <<now, status, created, req, tick, watching, restarts>>

\* planDevice chose d for u; create is still to come.  Whether d is ready and
\* matches the request is left open.
PlanClaim(u, d) ==
    /\ d \in Physical \cap Present /\ OpenTo(d, u)
    /\ Begin(u, "claim", d, 0)
    /\ UNCHANGED <<now, status, created, hold, tick, watching, restarts>>

\* Mutant: create trusts the plan.
ClaimAsPlanned(u) ==
    /\ Pending(u, "claim")
    /\ LET d == req[u].dev
       IN  hold' = IF d \in Present
                   THEN [hold EXCEPT ![d] = [owner |-> u, since |-> now, expires |-> 0]]
                   ELSE hold
    /\ End(u)
    /\ watching' \in {TRUE, watching}
    /\ UNCHANGED <<now, status, created, tick, restarts>>

\* PhysicalAdapter.create: the device must still be there and open to u.
Claim(u) ==
    /\ Pending(u, "claim")
    /\ LET d == req[u].dev
       IN  \/ /\ d \in Present /\ OpenTo(d, u)
              /\ hold' = [hold EXCEPT ![d] = [owner |-> u, since |-> now, expires |-> 0]]
              /\ watching' = TRUE
           \/ /\ ~(d \in Present /\ OpenTo(d, u))
              /\ UNCHANGED <<hold, watching>>
    /\ End(u)
    /\ UNCHANGED <<now, status, created, tick, restarts>>

-----------------------------------------------------------------------------
(* Using a device. *)

\* shell, input, screen, display, install, ...: mayControl, then an await.
ControlCheck(u, d) ==
    /\ d \in Present /\ OpenTo(d, u)
    /\ Begin(u, "control", d, 0)
    /\ UNCHANGED <<now, status, created, hold, tick, watching, restarts>>

\* start, stop, reboot, reset: no check.
LifecycleCall(u, d) ==
    /\ d \in Present
    /\ Begin(u, "lifecycle", d, 0)
    /\ UNCHANGED <<now, status, created, hold, tick, watching, restarts>>

\* The command reaches the device.
Drive(u) ==
    /\ Pending(u, "control") \/ Pending(u, "lifecycle")
    /\ End(u)
    /\ UNCHANGED <<now, status, created, hold, tick, watching, restarts>>

\* DELETE: no check either.  The adapter is asked to tear it down.
DestroyCall(u, d) ==
    /\ d \in Present
    /\ Begin(u, "destroy", d, 0)
    /\ UNCHANGED <<now, status, created, hold, tick, watching, restarts>>

Delete(d) ==
    /\ status' = [status EXCEPT ![d] = "gone"]
    /\ hold' = [hold EXCEPT ![d] = NoHold]

\* Teardown worked or was forced: the record goes.  It failed: it stays.
DestroyEnd(u) ==
    /\ Pending(u, "destroy")
    /\ Delete(req[u].dev) \/ UNCHANGED <<status, hold>>
    /\ End(u)
    /\ UNCHANGED <<now, created, tick, watching, restarts>>

-----------------------------------------------------------------------------
(* The watcher. *)

TickStart(t) ==
    /\ watching /\ tick[t] = Idle /\ Present # {}
    /\ tick' = [tick EXCEPT ![t] =
                  [phase |-> "poll", at |-> now, hold |-> hold,
                   todo |-> Present, busy |-> Idle]]
    /\ UNCHANGED <<now, status, created, hold, req, watching, restarts>>

\* Mutant: the expiry the client was given is ignored.
TtlExpiry(h) == h.since + Ttl

\* r.expiresAt ?? r.since + reservationTtlMs
Expiry(h) == IF h.expires # 0 THEN h.expires ELSE h.since + Ttl

\* Mutant: the disposable reaper forgets to look for a hold.
AgedOut(s, d) == d \in Disposable /\ now - created[d] >= MaxAge

\* What reapDisposables destroys of a snapshot s.
DueForDisposal(s, d) ==
    /\ d \in Disposable
    /\ now - created[d] >= MaxAge
    /\ s.hold[d] = NoHold

Due(s, d) == s.hold[d] # NoHold /\ now >= Expiry(s.hold[d])

\* The polls are in: reapReservations, then the first half of reapDisposables.
TickReap(t) ==
    /\ tick[t] # Idle /\ tick[t].phase = "poll"
    /\ hold' = [d \in Devices |-> IF d \in tick[t].todo /\ Due(tick[t], d)
                                  THEN NoHold ELSE hold[d]]
    /\ tick' = [tick EXCEPT
                  ![t].phase = "dispose",
                  ![t].todo = {d \in tick[t].todo : DueForDisposal(tick[t], d)}]
    /\ UNCHANGED <<now, status, created, req, watching, restarts>>

Disposing(t) == tick[t] # Idle /\ tick[t].phase = "dispose"

\* One device at a time, each awaited.
TickDispose(t) ==
    /\ Disposing(t) /\ tick[t].busy = Idle
    /\ \E d \in tick[t].todo :
         tick' = [tick EXCEPT ![t].todo = @ \ {d}, ![t].busy = d]
    /\ UNCHANGED <<now, status, created, hold, req, watching, restarts>>

TickDisposed(t) ==
    /\ Disposing(t) /\ tick[t].busy # Idle
    /\ Delete(tick[t].busy) \/ UNCHANGED <<status, hold>>
    /\ tick' = [tick EXCEPT ![t].busy = Idle]
    /\ UNCHANGED <<now, created, req, watching, restarts>>

TickEnd(t) ==
    /\ Disposing(t) /\ tick[t].busy = Idle /\ tick[t].todo = {}
    /\ tick' = [tick EXCEPT ![t] = Idle]
    /\ UNCHANGED <<now, status, created, hold, req, watching, restarts>>

-----------------------------------------------------------------------------

Clock ==
    /\ now < MaxTime
    /\ now' = now + 1
    /\ UNCHANGED <<status, created, hold, req, tick, watching, restarts>>

\* The controller restarts with its registry flushed (AndroidStore says what
\* is lost when it was not); the watcher is only started again by a
\* heartbeat or a create.
Restart ==
    /\ restarts < MaxRestarts
    /\ restarts' = restarts + 1
    /\ req' = [u \in Users |-> Idle]
    /\ tick' = [t \in Tickers |-> Idle]
    /\ watching' = FALSE
    /\ UNCHANGED <<now, status, created, hold>>

UserStep(u) ==
    \/ \E d \in Devices :
         \/ Create(u, d) \/ Release(u, d) \/ PlanClaim(u, d)
         \/ ControlCheck(u, d) \/ LifecycleCall(u, d) \/ DestroyCall(u, d)
         \/ \E m \in Minutes : ReserveCheck(u, d, m)
    \/ CreateEnd(u) \/ ReserveCommit(u) \/ Claim(u) \/ Drive(u) \/ DestroyEnd(u)

WatcherStep(t) ==
    TickStart(t) \/ TickReap(t) \/ TickDispose(t) \/ TickDisposed(t) \/ TickEnd(t)

Next ==
    \/ \E u \in Users : UserStep(u)
    \/ \E seen \in SUBSET Physical : \E moved \in SUBSET seen : Heartbeat(seen, moved)
    \/ \E t \in Tickers : WatcherStep(t)
    \/ Clock
    \/ Restart

Spec == Init /\ [][Next]_vars

\* setInterval keeps ticking, every call a tick awaits has a timeout, and the
\* agents report every 15 seconds.
FairSpec ==
    /\ Spec
    /\ \A t \in Tickers : WF_vars(WatcherStep(t))
    /\ WF_vars(\E seen \in SUBSET Physical : \E moved \in SUBSET seen : Heartbeat(seen, moved))
    /\ WF_vars(Clock)

-----------------------------------------------------------------------------
(* Properties *)

HeldByOther(d, u) == hold[d] # NoHold /\ hold[d].owner # u

\* A reserve or control request that passed its check and finds the device
\* held by somebody else finds a hold granted after that check (routes.ts:298
\* and :350): the await is the only way past the check.
ConflictIsNewer ==
    \A u \in Users :
        req[u] # Idle /\ req[u].op \in {"reserve", "control"}
                      /\ HeldByOther(req[u].dev, u)
            => hold[req[u].dev].since >= req[u].at

\* A hold passes from one owner directly to another only through a reserve
\* call caught between its check and its body; a claim never takes one
\* (physical.ts:51), however old its plan.
OnlyReserveSteals ==
    [][ \A d \in Devices :
          hold[d] # NoHold /\ hold'[d] # NoHold /\ hold'[d].owner # hold[d].owner
            => \E u \in Users :
                 /\ Pending(u, "reserve") /\ req[u].dev = d
                 /\ hold'[d].owner = u
                 /\ req[u].at <= hold[d].since ]_vars

\* The promise a hold makes: until the time it names, else for Ttl.
Overdue(h) == now >= (IF h.expires = 0 THEN h.since + Ttl ELSE h.expires)

\* The hold of d goes in a step of the tick t.
Reaps(t, d) == TickReap(t) /\ hold[d] # NoHold /\ hold'[d] = NoHold

\* The reaper drops an overdue hold, or one granted since its tick began
\* (runtime/index.ts:179): never a hold that was there and not yet due.
ReapsOverdueOrNewer ==
    [][ \A t \in Tickers, d \in Devices :
          Reaps(t, d) => Overdue(hold[d]) \/ hold[d].since >= tick[t].at ]_vars

\* A tick sets out to destroy d.
Disposes(t, d) == TickDispose(t) /\ tick'[t].busy = d

\* The disposable reaper only destroys devices nobody held when its tick
\* began (runtime/index.ts:197).
DisposesUnheldOrNewer ==
    [][ \A t \in Tickers, d \in Devices :
          Disposes(t, d) =>
            \/ hold[d] = NoHold
            \/ hold[d].since >= tick[t].at ]_vars

\* "A reservation is abandoned: it expires ... and the device becomes
\* available again" (docs/android/architecture.md:265).
OverdueHoldsEnd ==
    \A d \in Devices :
        (hold[d] # NoHold /\ Overdue(hold[d]))
            ~> (hold[d] = NoHold \/ ~Overdue(hold[d]))

-----------------------------------------------------------------------------
(* What the documentation says and the code does not do. *)

\* "... is already in use by ..." (routes.ts:299): nobody else's hold is
\* overwritten.
HoldsAreExclusive ==
    [][ \A d \in Devices :
          hold[d] # NoHold /\ hold'[d] # NoHold
            => hold'[d].owner = hold[d].owner ]_vars
=============================================================================
