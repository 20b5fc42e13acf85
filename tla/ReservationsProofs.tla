--------------------------- MODULE ReservationsProofs ---------------------------
(***************************************************************************)
(* Proofs about Reservations for any users, devices, overlapping ticks and *)
(* time constants.                                                         *)
(*                                                                         *)
(* The argument is one idea, twice: a handler, and a tick, work from what  *)
(* they read at time at; whatever has replaced it since was granted at at  *)
(* or later (ConflictIsNewer for handlers, SnapshotInv for ticks).  Both   *)
(* need every recorded time to lie in the past (PastInv).                  *)
(***************************************************************************)
EXTENDS Reservations, TLAPS

\* No recorded time lies in the future.
PastInv ==
    /\ \A d \in Devices : hold[d] # NoHold => hold[d].since <= now
    /\ \A u \in Users : req[u] # Idle => req[u].at <= now
    /\ \A t \in Tickers : tick[t] # Idle => tick[t].at <= now

\* A hold that is not the one a tick saw was granted since the tick began.
SnapshotInv ==
    \A t \in Tickers, d \in Devices :
        tick[t] # Idle =>
            \/ hold[d] = NoHold
            \/ hold[d] = tick[t].hold[d]
            \/ hold[d].since >= tick[t].at

\* A tick only has unheld devices, by its snapshot, on its list to destroy.
DisposeInv ==
    \A t \in Tickers :
        Disposing(t) => \A d \in tick[t].todo : tick[t].hold[d] = NoHold

IInv == TypeOK /\ PastInv /\ ConflictIsNewer /\ SnapshotInv /\ DisposeInv

\* The same without the variables of one side, to split the work.
HoldInv == PastInv /\ ConflictIsNewer /\ SnapshotInv

-----------------------------------------------------------------------------
(* Facts about the values the actions build. *)

LEMMA HoldMinutesType == \A m \in Nat : HoldMinutes(m) \in Nat
BY TimeAssumption DEF HoldMinutes

LEMMA NewHoldType ==
    ASSUME TypeOK, NEW u \in Users, NEW m \in Nat
    PROVE  /\ NewHold(u, m) \in Hold
           /\ NewHold(u, m).owner = u
           /\ NewHold(u, m).since = now
BY HoldMinutesType, TimeAssumption DEF NewHold, Hold, TypeOK

\* An action changes the hold of one device only, to a hold granted now to
\* the user u, or to none: the hold part of the invariant survives.
LEMMA GrantKeepsHoldInv ==
    ASSUME IInv, NEW d \in Devices, NEW h \in Hold \cup {NoHold},
           h # NoHold => h.since = now,
           hold' = [hold EXCEPT ![d] = h],
           UNCHANGED <<now, tick>>,
           \A u \in Users : \/ req'[u] = req[u]
                            \/ req'[u] = Idle
                            \/ req'[u].op = "create" /\ req'[u].at = now
    PROVE  HoldInv'
<1>. USE DEF IInv, TypeOK
<1>1. PastInv'
  <2>1. ASSUME NEW e \in Devices, hold'[e] # NoHold
        PROVE  hold'[e].since <= now'
    <3>1. CASE e = d
      BY <2>1, <3>1
    <3>2. CASE e # d
      BY <2>1, <3>2 DEF PastInv
    <3>. QED BY <3>1, <3>2
  <2>. QED BY <2>1 DEF PastInv
<1>2. ConflictIsNewer'
  <2>. SUFFICES ASSUME NEW u \in Users, req'[u] # Idle,
                       req'[u].op \in {"reserve", "control"},
                       HeldByOther(req[u].dev, u)'
                PROVE  hold'[req'[u].dev].since >= req'[u].at
    BY DEF ConflictIsNewer, HeldByOther
  <2>1. req'[u] = req[u] /\ req[u] \in Request
    OBVIOUS
  <2>2. CASE req[u].dev = d
    BY <2>1, <2>2 DEF PastInv, HeldByOther, Request
  <2>3. CASE req[u].dev # d
    BY <2>1, <2>3 DEF ConflictIsNewer, HeldByOther, Request
  <2>. QED BY <2>2, <2>3
<1>3. SnapshotInv'
  <2>. SUFFICES ASSUME NEW t \in Tickers, NEW e \in Devices, tick[t] # Idle
                PROVE  \/ hold'[e] = NoHold
                       \/ hold'[e] = tick[t].hold[e]
                       \/ hold'[e].since >= tick[t].at
    BY DEF SnapshotInv
  <2>1. CASE e = d
    BY <2>1 DEF PastInv, Tick
  <2>2. CASE e # d
    BY <2>2 DEF SnapshotInv
  <2>. QED BY <2>1, <2>2
<1>. QED BY <1>1, <1>2, <1>3 DEF HoldInv

\* An action that begins a request by u changes no hold, and u may use the
\* device now unless the request is of a kind that is not checked.
LEMMA BeginKeepsHoldInv ==
    ASSUME IInv, NEW u \in Users, NEW d \in Devices, NEW m \in Nat,
           NEW op \in {"create", "reserve", "claim", "control", "lifecycle", "destroy"},
           op \in {"reserve", "control"} => OpenTo(d, u),
           Begin(u, op, d, m), UNCHANGED <<now, hold, tick>>
    PROVE  HoldInv' /\ req' \in [Users -> Request \cup {Idle}]
<1>. USE DEF IInv, TypeOK, Begin
<1>2. [op |-> op, dev |-> d, at |-> now, minutes |-> m] \in Request
  BY DEF Request
<1>3. req' \in [Users -> Request \cup {Idle}]
  BY <1>2
<1>4. PastInv'
  BY <1>2 DEF PastInv
<1>5. SnapshotInv'
  BY DEF SnapshotInv
<1>6. ConflictIsNewer'
  BY DEF ConflictIsNewer, HeldByOther, OpenTo
<1>. QED BY <1>3, <1>4, <1>5, <1>6 DEF HoldInv

\* Ending a request, and nothing else, keeps the invariant.
LEMMA EndKeepsIInv ==
    ASSUME IInv, NEW u \in Users, End(u),
           watching' \in BOOLEAN,
           UNCHANGED <<now, status, created, hold, tick, restarts>>
    PROVE  IInv'
<1>. USE DEF IInv, End
<1>1. TypeOK' /\ PastInv' /\ SnapshotInv' /\ DisposeInv'
  BY DEF TypeOK, PastInv, SnapshotInv, DisposeInv, Disposing
<1>2. ConflictIsNewer'
  BY DEF TypeOK, ConflictIsNewer, HeldByOther
<1>. QED BY <1>1, <1>2

\* What an action leaves to show once its hold part is known.
LEMMA AssembleIInv ==
    ASSUME TypeOK', HoldInv', DisposeInv'
    PROVE  IInv'
BY DEF IInv, HoldInv

LEMMA DisposeInvStable == DisposeInv /\ UNCHANGED tick => DisposeInv'
BY DEF DisposeInv, Disposing

-----------------------------------------------------------------------------

LEMMA InitIInv == Init => IInv
<1>. SUFFICES ASSUME Init PROVE IInv
  OBVIOUS
<1>1. TypeOK
  BY DEF Init, TypeOK
<1>2. PastInv /\ ConflictIsNewer /\ SnapshotInv /\ DisposeInv
  BY DEF Init, PastInv, ConflictIsNewer, SnapshotInv, DisposeInv, Disposing
<1>. QED BY <1>1, <1>2 DEF IInv

\* Handlers that begin a request and change nothing else.
LEMMA BeginIInv ==
    ASSUME IInv, NEW u \in Users, NEW d \in Devices, NEW m \in Nat,
           NEW op \in {"create", "reserve", "claim", "control", "lifecycle", "destroy"},
           op \in {"reserve", "control"} => OpenTo(d, u),
           Begin(u, op, d, m),
           UNCHANGED <<now, status, created, hold, tick, watching, restarts>>
    PROVE  IInv'
<1>1. HoldInv' /\ req' \in [Users -> Request \cup {Idle}]
  BY BeginKeepsHoldInv
<1>2. TypeOK'
  BY <1>1 DEF IInv, TypeOK
<1>. QED BY <1>1, <1>2, AssembleIInv, DisposeInvStable DEF IInv

LEMMA CreateIInv ==
    ASSUME IInv, NEW u \in Users, NEW d \in Devices, Create(u, d)
    PROVE  IInv'
<1>. DEFINE h == [owner |-> u, since |-> now, expires |-> 0]
<1>. DEFINE r == [op |-> "create", dev |-> d, at |-> now, minutes |-> 0]
<1>1. h \in Hold /\ h.since = now
  BY DEF IInv, TypeOK, Hold
<1>2. r \in Request /\ r.op = "create" /\ r.at = now
  BY DEF IInv, TypeOK, Request
<1>3. req' = [req EXCEPT ![u] = r] /\ hold' = [hold EXCEPT ![d] = h]
  BY DEF Create, Begin
<1>. HIDE DEF h, r
<1>4. \A v \in Users : \/ req'[v] = req[v]
                       \/ req'[v] = Idle
                       \/ req'[v].op = "create" /\ req'[v].at = now
  BY <1>2, <1>3 DEF IInv, TypeOK
<1>5. HoldInv'
  BY <1>1, <1>3, <1>4, GrantKeepsHoldInv DEF Create
<1>6. TypeOK'
  <2>1. hold' \in [Devices -> Hold \cup {NoHold}] /\ req' \in [Users -> Request \cup {Idle}]
    BY <1>1, <1>2, <1>3 DEF IInv, TypeOK
  <2>2. /\ status' \in [Devices -> {"new", "present", "gone"}]
        /\ created' \in [Devices -> Nat]
    BY DEF Create, IInv, TypeOK
  <2>. QED BY <2>1, <2>2 DEF Create, IInv, TypeOK
<1>. QED BY <1>5, <1>6, AssembleIInv, DisposeInvStable DEF IInv, Create

\* Handlers that replace or drop one device's hold and end their request, if
\* they had one.
LEMMA GrantIInv ==
    ASSUME IInv, NEW d \in Devices, NEW h \in Hold \cup {NoHold},
           h # NoHold => h.since = now,
           hold' = [hold EXCEPT ![d] = h],
           NEW u \in Users, req' = req \/ End(u),
           status' = status \/ status' = [status EXCEPT ![d] = "gone"],
           h # NoHold => d \in Present /\ status' = status,
           watching' \in BOOLEAN,
           UNCHANGED <<now, created, tick, restarts>>
    PROVE  IInv'
<1>1. \A v \in Users : req'[v] = req[v] \/ req'[v] = Idle
  BY DEF End, IInv, TypeOK
<1>2. HoldInv'
  BY <1>1, GrantKeepsHoldInv
<1>3. TypeOK'
  <2>1. /\ hold' \in [Devices -> Hold \cup {NoHold}]
        /\ req' \in [Users -> Request \cup {Idle}]
        /\ status' \in [Devices -> {"new", "present", "gone"}]
    BY DEF End, IInv, TypeOK
  <2>2. ASSUME NEW e \in Devices, hold'[e] # NoHold
        PROVE  status'[e] = "present"
    BY <2>2 DEF IInv, TypeOK, Present
  <2>. QED BY <2>1, <2>2 DEF IInv, TypeOK
<1>. QED BY <1>2, <1>3, AssembleIInv, DisposeInvStable DEF IInv

LEMMA ReserveCommitIInv ==
    ASSUME IInv, NEW u \in Users, ReserveCommit(u)
    PROVE  IInv'
<1>1. req[u] \in Request
  BY DEF IInv, TypeOK, ReserveCommit, Pending
<1>2. CASE req[u].dev \in Present
  <2>. DEFINE d == req[u].dev
              h == NewHold(u, req[u].minutes)
  <2>1. h \in Hold /\ h.since = now
    BY <1>1, NewHoldType DEF IInv, Request
  <2>2. d \in Devices /\ hold' = [hold EXCEPT ![d] = h] /\ End(u)
    BY <1>1, <1>2 DEF ReserveCommit, Request
  <2>3. /\ watching' \in BOOLEAN /\ status' = status
        /\ UNCHANGED <<now, created, tick, restarts>>
    BY DEF ReserveCommit, IInv, TypeOK
  <2>4. d \in Present
    BY <1>2
  <2>. HIDE DEF d, h
  <2>. QED BY <2>1, <2>2, <2>3, <2>4, GrantIInv
<1>3. CASE req[u].dev \notin Present
  BY <1>3, EndKeepsIInv DEF ReserveCommit, IInv, TypeOK
<1>. QED BY <1>2, <1>3

LEMMA ClaimIInv ==
    ASSUME IInv, NEW u \in Users, Claim(u)
    PROVE  IInv'
<1>1. req[u] \in Request
  BY DEF IInv, TypeOK, Claim, Pending
<1>2. CASE req[u].dev \in Present /\ OpenTo(req[u].dev, u)
  <2>. DEFINE d == req[u].dev
              h == [owner |-> u, since |-> now, expires |-> 0]
  <2>1. h \in Hold /\ h.since = now
    BY DEF IInv, TypeOK, Hold
  <2>2. d \in Devices /\ hold' = [hold EXCEPT ![d] = h] /\ End(u)
    BY <1>1, <1>2 DEF Claim, Request
  <2>3. /\ watching' \in BOOLEAN /\ status' = status
        /\ UNCHANGED <<now, created, tick, restarts>>
    BY <1>2 DEF Claim, IInv, TypeOK
  <2>4. d \in Present
    BY <1>2
  <2>. HIDE DEF d, h
  <2>. QED BY <2>1, <2>2, <2>3, <2>4, GrantIInv
<1>3. CASE ~(req[u].dev \in Present /\ OpenTo(req[u].dev, u))
  BY <1>3, EndKeepsIInv DEF Claim, IInv, TypeOK
<1>. QED BY <1>2, <1>3

LEMMA ReleaseIInv ==
    ASSUME IInv, NEW u \in Users, NEW d \in Devices, Release(u, d)
    PROVE  IInv'
BY GrantIInv DEF Release, IInv, TypeOK

LEMMA DestroyEndIInv ==
    ASSUME IInv, NEW u \in Users, DestroyEnd(u)
    PROVE  IInv'
<1>1. req[u].dev \in Devices
  BY DEF IInv, TypeOK, DestroyEnd, Pending, Request
<1>2. CASE UNCHANGED <<status, hold>>
  BY <1>2, EndKeepsIInv DEF DestroyEnd, IInv, TypeOK
<1>3. CASE Delete(req[u].dev)
  BY <1>1, <1>3, GrantIInv DEF DestroyEnd, Delete, IInv, TypeOK
<1>. QED BY <1>2, <1>3 DEF DestroyEnd

LEMMA UserStepIInv ==
    ASSUME IInv, NEW u \in Users, UserStep(u)
    PROVE  IInv'
<1>1. ASSUME NEW d \in Devices, Create(u, d)
      PROVE  IInv'
  BY <1>1, CreateIInv
<1>2. ASSUME NEW d \in Devices, Release(u, d)
      PROVE  IInv'
  BY <1>2, ReleaseIInv
<1>3. ASSUME NEW d \in Devices,
             PlanClaim(u, d) \/ LifecycleCall(u, d) \/ DestroyCall(u, d)
      PROVE  IInv'
  BY <1>3, BeginIInv DEF PlanClaim, LifecycleCall, DestroyCall
<1>4. ASSUME NEW d \in Devices, ControlCheck(u, d)
      PROVE  IInv'
  BY <1>4, BeginIInv DEF ControlCheck
<1>5. ASSUME NEW d \in Devices, NEW m \in Minutes, ReserveCheck(u, d, m)
      PROVE  IInv'
  <2>1. m \in Nat
    BY TimeAssumption
  <2>. QED BY <1>5, <2>1, BeginIInv DEF ReserveCheck
<1>6. CASE CreateEnd(u)
  BY <1>6, EndKeepsIInv DEF CreateEnd, IInv, TypeOK
<1>7. CASE Drive(u)
  BY <1>7, EndKeepsIInv DEF Drive, IInv, TypeOK
<1>8. CASE ReserveCommit(u)
  BY <1>8, ReserveCommitIInv
<1>9. CASE Claim(u)
  BY <1>9, ClaimIInv
<1>10. CASE DestroyEnd(u)
  BY <1>10, DestroyEndIInv
<1>. QED BY <1>1, <1>2, <1>3, <1>4, <1>5, <1>6, <1>7, <1>8, <1>9, <1>10 DEF UserStep

LEMMA HeartbeatIInv ==
    ASSUME IInv, NEW seen \in SUBSET Physical, NEW moved \in SUBSET seen,
           Heartbeat(seen, moved)
    PROVE  IInv'
<1>1. TypeOK'
  BY DEF IInv, TypeOK, Heartbeat
<1>2. \A d \in Devices : hold'[d] = NoHold \/ hold'[d] = hold[d]
  BY DEF Heartbeat
<1>3. UNCHANGED <<now, req, tick>>
  BY DEF Heartbeat
<1>4. PastInv' /\ SnapshotInv' /\ DisposeInv'
  BY <1>2, <1>3 DEF IInv, PastInv, SnapshotInv, DisposeInv, Disposing
<1>5. ConflictIsNewer'
  BY <1>2, <1>3 DEF IInv, TypeOK, ConflictIsNewer, HeldByOther, Request
<1>. QED BY <1>1, <1>4, <1>5, AssembleIInv DEF HoldInv

-----------------------------------------------------------------------------
(* The watcher. *)

\* A tick's snapshot is what is there when it begins.
LEMMA TickStartIInv ==
    ASSUME IInv, NEW t \in Tickers, TickStart(t)
    PROVE  IInv'
<1>. DEFINE k == [phase |-> "poll", at |-> now, hold |-> hold,
                  todo |-> Present, busy |-> Idle]
<1>1. k \in Tick
  BY DEF IInv, TypeOK, Tick, Present
<1>2. tick' = [tick EXCEPT ![t] = k]
  BY DEF TickStart
<1>3. k.at = now /\ k.hold = hold /\ k.phase = "poll"
  OBVIOUS
<1>. HIDE DEF k
<1>4. TypeOK'
  BY <1>1, <1>2 DEF IInv, TypeOK, TickStart
<1>5. PastInv' /\ ConflictIsNewer'
  BY <1>2, <1>3 DEF IInv, TypeOK, PastInv, ConflictIsNewer, HeldByOther, TickStart
<1>6. SnapshotInv'
  BY <1>2, <1>3 DEF IInv, TypeOK, SnapshotInv, TickStart
<1>7. DisposeInv'
  BY <1>2, <1>3 DEF IInv, TypeOK, DisposeInv, Disposing
<1>. QED BY <1>4, <1>5, <1>6, <1>7 DEF IInv

\* The reapers only take holds away, and list what the snapshot has unheld.
LEMMA TickReapIInv ==
    ASSUME IInv, NEW t \in Tickers, TickReap(t)
    PROVE  IInv'
<1>. DEFINE left == {d \in tick[t].todo : DueForDisposal(tick[t], d)}
            k == [tick[t] EXCEPT !.phase = "dispose", !.todo = left]
<1>1. tick[t] \in Tick
  BY DEF IInv, TypeOK, TickReap
<1>2. k \in Tick /\ k.at = tick[t].at /\ k.hold = tick[t].hold /\ k.todo = left
  BY <1>1 DEF Tick
<1>3. tick' = [tick EXCEPT ![t] = k]
  BY DEF TickReap, IInv, TypeOK
<1>4. \A d \in left : k.hold[d] = NoHold
  BY <1>2 DEF DueForDisposal
<1>5. \A d \in Devices : hold'[d] = hold[d] \/ hold'[d] = NoHold
  BY DEF TickReap
<1>. HIDE DEF k, left
<1>6. TypeOK'
  <2>1. hold' \in [Devices -> Hold \cup {NoHold}]
    BY DEF TickReap, IInv, TypeOK
  <2>2. tick' \in [Tickers -> Tick \cup {Idle}]
    BY <1>2, <1>3 DEF IInv, TypeOK
  <2>. QED BY <2>1, <2>2 DEF TickReap, IInv, TypeOK
<1>7. PastInv'
  BY <1>1, <1>2, <1>3, <1>5 DEF IInv, TypeOK, PastInv, TickReap
<1>8. ConflictIsNewer'
  BY <1>5 DEF IInv, TypeOK, ConflictIsNewer, HeldByOther, TickReap, Request
<1>9. SnapshotInv'
  BY <1>1, <1>2, <1>3, <1>5 DEF IInv, TypeOK, SnapshotInv, TickReap
<1>10. DisposeInv'
  BY <1>2, <1>3, <1>4 DEF IInv, TypeOK, DisposeInv, Disposing
<1>. QED BY <1>6, <1>7, <1>8, <1>9, <1>10 DEF IInv

\* Steps that shorten a tick's list, or end it, and at most drop a hold.
LEMMA TickShrinksIInv ==
    ASSUME IInv, NEW t \in Tickers, NEW k \in Tick \cup {Idle},
           tick[t] # Idle,
           k # Idle => /\ k.phase = tick[t].phase /\ k.at = tick[t].at
                       /\ k.hold = tick[t].hold /\ k.todo \subseteq tick[t].todo,
           tick' = [tick EXCEPT ![t] = k],
           status' \in [Devices -> {"new", "present", "gone"}],
           hold' \in [Devices -> Hold \cup {NoHold}],
           \A d \in Devices : \/ hold'[d] = NoHold
                              \/ hold'[d] = hold[d] /\ status'[d] = status[d],
           UNCHANGED <<now, created, req, watching, restarts>>
    PROVE  IInv'
<1>1. TypeOK'
  BY DEF IInv, TypeOK
<1>2. PastInv'
  BY DEF IInv, TypeOK, PastInv
<1>3. ConflictIsNewer'
  BY DEF IInv, TypeOK, ConflictIsNewer, HeldByOther, Request
<1>4. SnapshotInv'
  BY DEF IInv, TypeOK, SnapshotInv
<1>5. DisposeInv'
  BY DEF IInv, TypeOK, DisposeInv, Disposing
<1>. QED BY <1>1, <1>2, <1>3, <1>4, <1>5 DEF IInv

LEMMA TickDisposeIInv ==
    ASSUME IInv, NEW t \in Tickers, TickDispose(t)
    PROVE  IInv'
<1>1. tick[t] \in Tick
  BY DEF IInv, TypeOK, TickDispose, Disposing
<1>2. PICK d \in tick[t].todo :
        tick' = [tick EXCEPT ![t].todo = @ \ {d}, ![t].busy = d]
  BY DEF TickDispose
<1>. DEFINE k == [tick[t] EXCEPT !.todo = tick[t].todo \ {d}, !.busy = d]
<1>3. /\ k \in Tick /\ k.phase = tick[t].phase /\ k.at = tick[t].at
      /\ k.hold = tick[t].hold /\ k.todo \subseteq tick[t].todo
  BY <1>1 DEF Tick
<1>4. tick' = [tick EXCEPT ![t] = k]
  BY <1>1, <1>2 DEF IInv, TypeOK, Tick
<1>. HIDE DEF k
<1>. QED BY <1>3, <1>4, TickShrinksIInv DEF TickDispose, Disposing, IInv, TypeOK

LEMMA TickDisposedIInv ==
    ASSUME IInv, NEW t \in Tickers, TickDisposed(t)
    PROVE  IInv'
<1>1. tick[t] \in Tick /\ tick[t].busy \in Devices
  BY DEF IInv, TypeOK, TickDisposed, Disposing, Tick
<1>. DEFINE k == [tick[t] EXCEPT !.busy = Idle]
<1>2. /\ k \in Tick /\ k.phase = tick[t].phase /\ k.at = tick[t].at
      /\ k.hold = tick[t].hold /\ k.todo \subseteq tick[t].todo
  BY <1>1 DEF Tick
<1>3. tick' = [tick EXCEPT ![t] = k]
  BY DEF TickDisposed, IInv, TypeOK
<1>. HIDE DEF k
<1>4. /\ status' \in [Devices -> {"new", "present", "gone"}]
      /\ hold' \in [Devices -> Hold \cup {NoHold}]
      /\ \A d \in Devices : \/ hold'[d] = NoHold
                            \/ hold'[d] = hold[d] /\ status'[d] = status[d]
  BY <1>1 DEF TickDisposed, Delete, IInv, TypeOK
<1>5. tick[t] # Idle /\ UNCHANGED <<now, created, req, watching, restarts>>
  BY DEF TickDisposed, Disposing
<1>. QED BY <1>2, <1>3, <1>4, <1>5, TickShrinksIInv

LEMMA TickEndIInv ==
    ASSUME IInv, NEW t \in Tickers, TickEnd(t)
    PROVE  IInv'
<1>1. tick[t] # Idle /\ tick' = [tick EXCEPT ![t] = Idle]
  BY DEF TickEnd, Disposing
<1>. QED BY <1>1, TickShrinksIInv DEF TickEnd, IInv, TypeOK

-----------------------------------------------------------------------------

LEMMA ClockIInv ==
    ASSUME IInv, Clock
    PROVE  IInv'
<1>1. TypeOK'
  BY DEF IInv, TypeOK, Clock
<1>2. PastInv'
  <2>1. now \in Nat /\ now' = now + 1
    BY DEF IInv, TypeOK, Clock
  <2>2. \A d \in Devices : hold[d] # NoHold => hold[d].since \in Nat
    BY DEF IInv, TypeOK, Hold
  <2>3. \A u \in Users : req[u] # Idle => req[u].at \in Nat
    BY DEF IInv, TypeOK, Request
  <2>4. \A t \in Tickers : tick[t] # Idle => tick[t].at \in Nat
    BY DEF IInv, TypeOK, Tick
  <2>. QED BY <2>1, <2>2, <2>3, <2>4 DEF IInv, PastInv, Clock
<1>3. ConflictIsNewer' /\ SnapshotInv' /\ DisposeInv'
  BY DEF IInv, ConflictIsNewer, SnapshotInv, DisposeInv, Disposing, HeldByOther, Clock
<1>. QED BY <1>1, <1>2, <1>3 DEF IInv

LEMMA RestartIInv ==
    ASSUME IInv, Restart
    PROVE  IInv'
<1>1. TypeOK'
  <2>1. restarts' \in Nat
    BY DEF IInv, TypeOK, Restart
  <2>2. /\ req' \in [Users -> Request \cup {Idle}]
        /\ tick' \in [Tickers -> Tick \cup {Idle}]
        /\ watching' \in BOOLEAN
    BY DEF Restart
  <2>. QED BY <2>1, <2>2 DEF IInv, TypeOK, Restart
<1>2. PastInv' /\ ConflictIsNewer'
  <2>1. \A u \in Users : req'[u] = Idle
    BY DEF Restart
  <2>2. \A t \in Tickers : tick'[t] = Idle
    BY DEF Restart
  <2>3. now' = now /\ hold' = hold
    BY DEF Restart
  <2>. QED BY <2>1, <2>2, <2>3 DEF IInv, PastInv, ConflictIsNewer
<1>3. SnapshotInv' /\ DisposeInv'
  BY DEF SnapshotInv, DisposeInv, Disposing, Restart
<1>. QED BY <1>1, <1>2, <1>3 DEF IInv

LEMMA NextIInv == IInv /\ [Next]_vars => IInv'
<1>. SUFFICES ASSUME IInv, [Next]_vars PROVE IInv'
  OBVIOUS
<1>1. CASE \E u \in Users : UserStep(u)
  BY <1>1, UserStepIInv
<1>2. CASE \E seen \in SUBSET Physical : \E moved \in SUBSET seen : Heartbeat(seen, moved)
  BY <1>2, HeartbeatIInv
<1>3. CASE \E t \in Tickers : WatcherStep(t)
  BY <1>3, TickStartIInv, TickReapIInv, TickDisposeIInv, TickDisposedIInv,
     TickEndIInv DEF WatcherStep
<1>4. CASE Clock
  BY <1>4, ClockIInv
<1>5. CASE Restart
  BY <1>5, RestartIInv
<1>6. CASE UNCHANGED vars
  BY <1>6 DEF vars, IInv, TypeOK, PastInv, ConflictIsNewer, SnapshotInv, DisposeInv,
              Disposing, HeldByOther
<1>. QED BY <1>1, <1>2, <1>3, <1>4, <1>5, <1>6 DEF Next

LEMMA Invariance == Spec => []IInv
BY InitIInv, NextIInv, PTL DEF Spec

-----------------------------------------------------------------------------
(* The results. *)

\* The registry only ever holds well-formed reservations, whatever the
\* interleaving of handlers, ticks and restarts.
THEOREM TypeCorrect == Spec => []TypeOK
BY Invariance, PTL DEF IInv

\* A reserve or control request that passed the check at routes.ts:298 or
\* :350 and then meets somebody else's hold meets one granted since.
THEOREM ConflictsAreNewer == Spec => []ConflictIsNewer
BY Invariance, PTL DEF IInv

\* Dropping holds is all the reaper does: of those there when its tick began,
\* only the overdue ones (runtime/index.ts:179).
THEOREM ReaperIsFair == Spec => ReapsOverdueOrNewer
<1>1. ASSUME IInv, NEW t \in Tickers, NEW d \in Devices, Reaps(t, d)
      PROVE  Overdue(hold[d]) \/ hold[d].since >= tick[t].at
  <2>1. d \in tick[t].todo /\ Due(tick[t], d) /\ tick[t] # Idle /\ hold[d] # NoHold
    BY <1>1 DEF Reaps, TickReap
  <2>2. CASE hold[d] = tick[t].hold[d]
    BY <2>1, <2>2 DEF Due, Overdue, Expiry
  <2>3. CASE hold[d].since >= tick[t].at
    BY <2>3
  <2>. QED BY <1>1, <2>1, <2>2, <2>3 DEF IInv, SnapshotInv
<1>2. IInv /\ [Next]_vars =>
        [ \A t \in Tickers, d \in Devices :
            Reaps(t, d) => Overdue(hold[d]) \/ hold[d].since >= tick[t].at ]_vars
  BY <1>1
<1>. QED BY <1>2, Invariance, PTL DEF Spec, ReapsOverdueOrNewer

\* A disposable device that was held when the tick began is not destroyed by
\* that tick (runtime/index.ts:197).
THEOREM DisposerIsFair == Spec => DisposesUnheldOrNewer
<1>1. ASSUME IInv, NEW t \in Tickers, NEW d \in Devices, Disposes(t, d)
      PROVE  hold[d] = NoHold \/ hold[d].since >= tick[t].at
  <2>1. PICK e \in tick[t].todo :
          tick' = [tick EXCEPT ![t].todo = @ \ {e}, ![t].busy = e]
    BY <1>1 DEF Disposes, TickDispose
  <2>2. tick[t] \in Tick /\ tick[t] # Idle /\ Disposing(t)
    BY <1>1 DEF Disposes, TickDispose, Disposing, IInv, TypeOK
  <2>3. tick'[t].busy = e
    BY <1>1, <2>1, <2>2 DEF IInv, TypeOK, Tick
  <2>4. tick[t].hold[d] = NoHold
    BY <1>1, <2>2, <2>3 DEF Disposes, IInv, DisposeInv
  <2>. QED BY <1>1, <2>2, <2>4 DEF IInv, SnapshotInv
<1>2. IInv /\ [Next]_vars =>
        [ \A t \in Tickers, d \in Devices :
            Disposes(t, d) => \/ hold[d] = NoHold
                              \/ hold[d].since >= tick[t].at ]_vars
  BY <1>1
<1>. QED BY <1>2, Invariance, PTL DEF Spec, DisposesUnheldOrNewer

\* A hold changes hands, without being given up, only in the reserve call that
\* was let in before the hold it overwrites was granted (routes.ts:298, :305):
\* creating finds no hold, claiming looks again, and everything else only
\* takes holds away.
THEOREM OnlyReserveTakes == Spec => OnlyReserveSteals
<1>. DEFINE Taken(d) == /\ hold[d] # NoHold /\ hold'[d] # NoHold
                        /\ hold'[d].owner # hold[d].owner
            Taker(u, d) == /\ Pending(u, "reserve") /\ req[u].dev = d
                           /\ hold'[d].owner = u
                           /\ req[u].at <= hold[d].since
<1>1. ASSUME IInv, NEW u \in Users, UserStep(u), NEW d \in Devices, Taken(d)
      PROVE  Taker(u, d)
  <2>1. ASSUME NEW e \in Devices, Create(u, e)
        PROVE  FALSE
    BY <1>1, <2>1 DEF Create, IInv, TypeOK
  <2>2. ASSUME NEW e \in Devices, Release(u, e)
        PROVE  FALSE
    BY <1>1, <2>2 DEF Release, IInv, TypeOK
  <2>3. ASSUME NEW e \in Devices,
               \/ PlanClaim(u, e) \/ ControlCheck(u, e) \/ LifecycleCall(u, e)
               \/ DestroyCall(u, e) \/ \E m \in Minutes : ReserveCheck(u, e, m)
        PROVE  FALSE
    BY <1>1, <2>3 DEF PlanClaim, ControlCheck, LifecycleCall, DestroyCall, ReserveCheck
  <2>4. ASSUME CreateEnd(u) \/ Drive(u)
        PROVE  FALSE
    BY <1>1, <2>4 DEF CreateEnd, Drive
  <2>5. ASSUME ReserveCommit(u)
        PROVE  Taker(u, d)
    <3>1. req[u] \in Request /\ Pending(u, "reserve")
      BY <1>1, <2>5 DEF ReserveCommit, Pending, IInv, TypeOK
    <3>2. req[u].dev \in Present /\ hold' = [hold EXCEPT ![req[u].dev] = NewHold(u, req[u].minutes)]
      BY <1>1, <2>5 DEF ReserveCommit
    <3>3. req[u].dev = d
      BY <1>1, <3>2 DEF IInv, TypeOK
    <3>4. NewHold(u, req[u].minutes).owner = u
      BY DEF NewHold
    <3>5. hold'[d].owner = u
      BY <1>1, <3>2, <3>3, <3>4 DEF IInv, TypeOK
    <3>6. HeldByOther(d, u)
      BY <1>1, <3>5 DEF HeldByOther
    <3>7. req[u].at <= hold[d].since
      BY <1>1, <3>1, <3>3, <3>6 DEF IInv, TypeOK, ConflictIsNewer, Pending, Request, Hold
    <3>. QED BY <3>1, <3>3, <3>5, <3>7
  <2>6. ASSUME Claim(u)
        PROVE  FALSE
    BY <1>1, <2>6 DEF Claim, OpenTo, IInv, TypeOK
  <2>7. ASSUME DestroyEnd(u)
        PROVE  FALSE
    BY <1>1, <2>7 DEF DestroyEnd, Delete, IInv, TypeOK
  <2>. QED BY <1>1, <2>1, <2>2, <2>3, <2>4, <2>5, <2>6, <2>7 DEF UserStep
<1>2. ASSUME IInv, NEW t \in Tickers, WatcherStep(t), NEW d \in Devices, Taken(d)
      PROVE  FALSE
  BY <1>2 DEF WatcherStep, TickStart, TickReap, TickDispose, TickDisposed, TickEnd,
              Delete, IInv, TypeOK
<1>3. ASSUME \/ Clock \/ Restart
             \/ \E seen \in SUBSET Physical : \E moved \in SUBSET seen : Heartbeat(seen, moved),
             NEW d \in Devices, Taken(d)
      PROVE  FALSE
  BY <1>3 DEF Clock, Restart, Heartbeat
<1>4. IInv /\ [Next]_vars =>
        [ \A d \in Devices :
            hold[d] # NoHold /\ hold'[d] # NoHold /\ hold'[d].owner # hold[d].owner
              => \E u \in Users :
                   /\ Pending(u, "reserve") /\ req[u].dev = d
                   /\ hold'[d].owner = u
                   /\ req[u].at <= hold[d].since ]_vars
  BY <1>1, <1>2, <1>3 DEF Next
<1>. QED BY <1>4, Invariance, PTL DEF Spec, OnlyReserveSteals
=============================================================================
