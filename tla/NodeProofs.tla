----------------------------- MODULE NodeProofs -----------------------------
(***************************************************************************)
(* Proofs about RunnerLoop, and about Node over RunnerLoop and Migrate, for *)
(* every set of Runners, every pool size, claim batch, cap and Limiter, any *)
(* number of jobs and any processes that migrate.                          *)
(*                                                                         *)
(* What a row reports stays true (ReportedEmptyIsEmpty): a count that finds *)
(* every pool empty finds every loop before its gate, and a Runner that    *)
(* has been stopped, or whose loop is over, does not pass the gate again.  *)
(* So it is enough that every Runner was stopped before the count a row    *)
(* reports, and that no beat writes over the report of a node's stop.      *)
(***************************************************************************)
EXTENDS Node, FiniteSetTheorems, TLAPS

----------------------------------------------------------------------------
(* The Runner's loop and its pool. *)

\* One Runner's loop and pool.  The loop holds a reservation exactly between
\* reserve and the claim, so a pool that is empty has a loop that claims nothing.
LoopOK(r) ==
    /\ loop[r].pc \in {"gate", "claim"} <=> loop[r].res > 0
    /\ pool[r].held = loop[r].res + pool[r].running + pool[r].closing

\* A Drain that saw the pool empty did so after Stop, and the loop looks at Stop
\* between reserving and claiming.
DrainOK(r) ==
    /\ pool[r].drain # "none" => stop[r]
    /\ pool[r].drain \in {"freed", "drained"} =>
          pool[r].running = 0 /\ pool[r].closing = 0 /\ loop[r].pc # "claim"

WakeOK(r) == loop[r].pc = "parked" /\ pool[r].held < pool[r].limit => pool[r].woken

\* A dispatch error of RunUntilIdle is collected until the loop takes it and
\* leaves; the pending count and a clean return have an empty pool behind them.
ErrorOK(r) ==
    /\ r \in UntilIdle /\ failed[r] =>
          pool[r].errs \/ loop[r].pc \in {"leaving", "returned", "dead"}
    /\ loop[r].pc = "count" => r \in UntilIdle /\ pool[r].held = 0 /\ ~pool[r].errs
    /\ loop[r].result = "idle" =>
          loop[r].pc \in {"leaving", "returned"} /\ pool[r].held = 0 /\ ~failed[r]

RunnerOK(r) == LoopOK(r) /\ DrainOK(r) /\ WakeOK(r) /\ ErrorOK(r)
\* TypeOK, without the counts of what processes left behind when they died: what
\* follows does not depend on them.
Shape ==
    /\ {queue, inserted} \subseteq Nat
    /\ loop \in [Runners -> LoopRecord]
    /\ pool \in [Runners -> PoolRecord]
    /\ work \in [Runners -> [Permits -> Nat]]
    /\ stop \in [Runners -> BOOLEAN] /\ ended \in [Runners -> BOOLEAN]
    /\ hold \in [Grants -> Nat] /\ lapsed \in [Grants -> BOOLEAN]
    /\ bucket \in Int /\ cap \in Nat /\ paused \in BOOLEAN
    /\ seen \in [Runners -> BOOLEAN] /\ failed \in [Runners -> BOOLEAN]
LeftBehind == stuck \in Nat /\ stranded \in [Grants -> Nat]

Inv == Shape /\ \A r \in Runners : RunnerOK(r)

----------------------------------------------------------------------------
(* The pool's critical sections. *)

LEMMA LeastType ==
    ASSUME NEW m \in Nat, NEW n \in Nat
    PROVE  Least(m, n) \in Nat /\ Least(m, n) <= m /\ Least(m, n) <= n
BY DEF Least

LEMMA ReleasedAs ==
    ASSUME NEW p \in PoolRecord, NEW n \in Nat
    PROVE  LET k == Least(n, p.held)
               w == p.woken \/ k > 0
               d == IF k > 0 /\ p.held = k /\ p.drain = "waiting" THEN "freed" ELSE p.drain
           IN  /\ Released(p, n) = [p EXCEPT !.held = p.held - k, !.woken = w, !.drain = d]
               /\ k \in Nat /\ k <= p.held /\ (n <= p.held => k = n)
               /\ w \in BOOLEAN
               /\ d \in {"none", "waiting", "freed", "drained", "timedOut"}
<1>. DEFINE k == Least(n, p.held)
            w == p.woken \/ k > 0
            d == IF k > 0 /\ p.held = k /\ p.drain = "waiting" THEN "freed" ELSE p.drain
<1>1. Released(p, n) = [p EXCEPT !.held = p.held - k, !.woken = w, !.drain = d]
  BY Zenon DEF Released, PoolRecord
<1>2. k \in Nat /\ k <= p.held /\ (n <= p.held => k = n)  BY DEF Least, PoolRecord
<1>3. w \in BOOLEAN  BY Zenon
<1>4. d \in {"none", "waiting", "freed", "drained", "timedOut"}  BY Zenon DEF PoolRecord
<1>. QED  BY <1>1, <1>2, <1>3, <1>4

LEMMA ReleasedType ==
    ASSUME NEW p \in PoolRecord, NEW n \in Nat
    PROVE  Released(p, n) \in PoolRecord
<1>. DEFINE k == Least(n, p.held)
            w == p.woken \/ k > 0
            d == IF k > 0 /\ p.held = k /\ p.drain = "waiting" THEN "freed" ELSE p.drain
<1>1. /\ Released(p, n) = [p EXCEPT !.held = p.held - k, !.woken = w, !.drain = d]
      /\ k \in Nat /\ k <= p.held /\ w \in BOOLEAN
      /\ d \in {"none", "waiting", "freed", "drained", "timedOut"}
  BY ReleasedAs, Zenon
<1>. HIDE DEF k, w, d
<1>2. p.held - k \in Nat  BY <1>1 DEF PoolRecord
<1>. QED  BY <1>1, <1>2 DEF PoolRecord

\* release of slots that are held: what changes, and who is woken.
LEMMA ReleasedFields ==
    ASSUME NEW p \in PoolRecord, NEW n \in Nat, n <= p.held
    PROVE  LET q == Released(p, n) IN
           /\ q.held = p.held - n /\ q.limit = p.limit /\ q.errs = p.errs
           /\ q.running = p.running /\ q.closing = p.closing
           /\ n > 0 => q.woken
           /\ q.drain # p.drain => q.drain = "freed" /\ p.drain = "waiting" /\ q.held = 0
<1>. DEFINE k == Least(n, p.held)
            w == p.woken \/ k > 0
            d == IF k > 0 /\ p.held = k /\ p.drain = "waiting" THEN "freed" ELSE p.drain
<1>1. /\ Released(p, n) = [p EXCEPT !.held = p.held - k, !.woken = w, !.drain = d]
      /\ k = n
  BY ReleasedAs, Zenon
<1>2. n > 0 => w  BY <1>1
<1>3. d # p.drain => d = "freed" /\ p.drain = "waiting" /\ p.held - k = 0
  BY <1>1 DEF PoolRecord
<1>. HIDE DEF k, w, d
<1>. QED  BY <1>1, <1>2, <1>3 DEF PoolRecord

LEMMA TakenFields ==
    ASSUME NEW p \in PoolRecord
    PROVE  /\ Taken(p) \in PoolRecord /\ ~Taken(p).errs
           /\ Taken(p).held = p.held /\ Taken(p).limit = p.limit
           /\ Taken(p).running = p.running /\ Taken(p).closing = p.closing
           /\ Taken(p).woken = p.woken /\ Taken(p).drain = p.drain
BY DEF Taken, PoolRecord

LEMMA FinishedFields ==
    ASSUME NEW p \in PoolRecord, NEW err \in BOOLEAN, p.running > 0
    PROVE  LET q == Finished(p, err) IN
           /\ q \in PoolRecord
           /\ q.held = p.held /\ q.limit = p.limit /\ q.woken = p.woken /\ q.drain = p.drain
           /\ q.running = p.running - 1 /\ q.closing = p.closing + 1
           /\ q.errs <=> p.errs \/ err
<1>. DEFINE e == p.errs \/ err
            a == p.running - 1
            b == p.closing + 1
<1>1. Finished(p, err) = [p EXCEPT !.running = a, !.closing = b, !.errs = e]
  BY Zenon DEF Finished, PoolRecord
<1>2. a \in Nat /\ b \in Nat  BY DEF PoolRecord
<1>3. e \in BOOLEAN /\ (e <=> p.errs \/ err)  BY Zenon
<1>4. [p EXCEPT !.running = a, !.closing = b, !.errs = e].errs = e  BY DEF PoolRecord
<1>. HIDE DEF a, b, e
<1>5. /\ [p EXCEPT !.running = a, !.closing = b, !.errs = e] \in PoolRecord
      /\ Finished(p, err).held = p.held /\ Finished(p, err).limit = p.limit
      /\ Finished(p, err).woken = p.woken /\ Finished(p, err).drain = p.drain
      /\ Finished(p, err).running = a /\ Finished(p, err).closing = b
      /\ Finished(p, err).errs = e
  BY <1>1, <1>2, <1>3 DEF PoolRecord
<1>. QED  BY <1>1, <1>3, <1>5, Zenon DEF a, b

LEMMA ClosedFields ==
    ASSUME NEW p \in PoolRecord, p.closing > 0
    PROVE  LET q == Closed(p) IN
           /\ q \in PoolRecord
           /\ q.held = p.held /\ q.limit = p.limit /\ q.woken = p.woken /\ q.drain = p.drain
           /\ q.running = p.running /\ q.closing = p.closing - 1 /\ q.errs = p.errs
BY DEF Closed, PoolRecord

(* The loop's moves. *)

Pcs == {"top", "reserve", "parked", "gate", "claim", "inline", "sleep",
        "idle", "count", "leaving", "returned", "dead"}

LEMMA GoFields ==
    ASSUME loop \in [Runners -> LoopRecord], NEW r \in Runners, NEW pc \in Pcs, Go(r, pc)
    PROVE  /\ loop' \in [Runners -> LoopRecord]
           /\ loop'[r].pc = pc /\ loop'[r].res = 0 /\ loop'[r].result = loop[r].result
BY DEF Go, NewLoop, LoopRecord, Permits, Pcs

LEMMA GoTakingErrFields ==
    ASSUME loop \in [Runners -> LoopRecord], NEW r \in Runners, NEW pc \in Pcs, GoTakingErr(r, pc)
    PROVE  /\ loop' \in [Runners -> LoopRecord]
           /\ loop'[r].res = 0 /\ loop'[r].result = loop[r].result
           /\ loop'[r].pc = IF r \in UntilIdle /\ pool[r].errs THEN "leaving" ELSE pc
<1>1. CASE r \in UntilIdle /\ pool[r].errs
  <2>1. Go(r, "leaving")  BY <1>1 DEF GoTakingErr
  <2>. QED  BY <2>1, <1>1, GoFields DEF Pcs
<1>2. CASE ~(r \in UntilIdle /\ pool[r].errs)
  <2>1. Go(r, pc)  BY <1>2 DEF GoTakingErr
  <2>. QED  BY <2>1, <1>2, GoFields
<1>. QED  BY <1>1, <1>2

LEMMA PollErrorFields ==
    ASSUME loop \in [Runners -> LoopRecord], NEW r \in Runners, PollError(r)
    PROVE  /\ loop' \in [Runners -> LoopRecord]
           /\ loop'[r].res = 0 /\ loop'[r].result = loop[r].result
           /\ loop'[r].pc \in {"sleep", "leaving"}
           /\ r \in UntilIdle /\ pool[r].errs => loop'[r].pc = "leaving"
<1>1. CASE GoTakingErr(r, "sleep")  BY <1>1, GoTakingErrFields DEF Pcs
<1>2. CASE Go(r, "leaving")  BY <1>2, GoFields DEF Pcs
<1>. QED  BY <1>1, <1>2 DEF PollError

LEMMA ReleaseType ==
    ASSUME Shape, NEW g \in Permits, NEW n \in Nat, Release(g, n)
    PROVE  hold' \in [Grants -> Nat] /\ lapsed' \in [Grants -> BOOLEAN] /\ bucket' \in Int
<1>1. CASE g = NoGrant \/ n = 0  BY <1>1 DEF Release, Shape, limiter
<1>2. CASE ~(g = NoGrant \/ n = 0)
  <2>1. g \in Grants /\ hold[g] \in Nat /\ hold[g] - Least(n, hold[g]) \in Nat
    BY <1>2 DEF Shape, Permits, Least
  <2>2. CASE /\ hold' = [hold EXCEPT ![g] = hold[g] - Least(n, hold[g])]
             /\ UNCHANGED <<lapsed, stranded, bucket>>
    BY <2>1, <2>2 DEF Shape
  <2>3. CASE UNCHANGED <<hold, lapsed, bucket>>
    BY <2>3 DEF Shape
  <2>. QED  BY <1>2, <2>2, <2>3, Zenon DEF Release, Returned
<1>. QED  BY <1>1, <1>2

----------------------------------------------------------------------------
(* The shape of the state. *)

LEMMA NewPoolType == ASSUME NEW r \in Runners PROVE NewPool(r) \in PoolRecord
BY PoolAssumption DEF NewPool, PoolRecord

LEMMA TypeInit == Init => Shape
<1>. SUFFICES ASSUME Init PROVE Shape  OBVIOUS
<1>1. NewLoop("top") \in LoopRecord  BY DEF NewLoop, LoopRecord, Permits
<1>2. loop \in [Runners -> LoopRecord]  BY <1>1 DEF Init
<1>3. pool \in [Runners -> PoolRecord]  BY NewPoolType DEF Init
<1>4. work \in [Runners -> [Permits -> Nat]]  BY DEF Init
<1>5. hold \in [Grants -> Nat] /\ lapsed \in [Grants -> BOOLEAN]
  BY DEF Init, NewLimiter
<1>9. bucket \in Int  BY DEF Init, NewLimiter, NoRow
<1>6. /\ stop \in [Runners -> BOOLEAN] /\ ended \in [Runners -> BOOLEAN]
      /\ seen \in [Runners -> BOOLEAN] /\ failed \in [Runners -> BOOLEAN]
  BY DEF Init
<1>7. {queue, inserted} \subseteq Nat /\ cap \in Nat  BY DEF Init
<1>8. paused \in BOOLEAN  BY Zenon DEF Init
<1>. QED  BY <1>2, <1>3, <1>4, <1>5, <1>6, <1>7, <1>8, <1>9 DEF Shape

\* The steps that only move the loop.
LEMMA TypeMoves ==
    ASSUME Shape, NEW r \in Runners,
           \/ TopEnds(r) \/ TopCached(r) \/ ReserveWakes(r) \/ ReserveEnds(r) \/ ReserveTimesOut(r)
           \/ AdmitUnlimited(r) \/ SleepEnds(r) \/ IdleSleeps(r) \/ IdleEnds(r)
           \/ CountsNone(r) \/ CountsPending(r) \/ Leave(r)
    PROVE  Shape'
<1>1. loop' \in [Runners -> LoopRecord]
  <2>1. CASE \E pc \in Pcs : Go(r, pc)  BY <2>1, GoFields DEF Shape
  <2>2. CASE AdmitUnlimited(r)
    <3>1. [loop[r] EXCEPT !.pc = "claim"] \in LoopRecord  BY ZenonT(60) DEF Shape, LoopRecord
    <3>. QED  BY <2>2, <3>1 DEF AdmitUnlimited, Shape
  <2>3. CASE CountsNone(r)  BY <2>3 DEF CountsNone, NewLoop, Shape, LoopRecord, Permits
  <2>4. CASE CountsPending(r)  BY <2>4, PollErrorFields DEF CountsPending, Shape
  <2>5. CASE TopCached(r)
    <3>1. \E pc \in Pcs : Go(r, pc)  BY <2>5, Zenon DEF TopCached, Pcs
    <3>. QED  BY <3>1, <2>1
  <2>6. TopEnds(r) \/ ReserveWakes(r) \/ ReserveEnds(r) \/ ReserveTimesOut(r) \/ SleepEnds(r)
          \/ IdleSleeps(r) \/ IdleEnds(r) \/ Leave(r) => \E pc \in Pcs : Go(r, pc)
    BY Zenon DEF TopEnds, ReserveWakes, ReserveEnds, ReserveTimesOut, SleepEnds, IdleSleeps,
           IdleEnds, Leave, Pcs
  <2>. QED  BY <2>1, <2>2, <2>3, <2>4, <2>5, <2>6
<1>2. UNCHANGED <<queue, stuck, inserted, pool, work, stop, ended, limiter, control, seen, failed>>
  BY Zenon DEF TopEnds, TopCached, ReserveWakes, ReserveEnds, ReserveTimesOut, AdmitUnlimited, SleepEnds,
         IdleSleeps, IdleEnds, CountsNone, CountsPending, Leave
<1>. QED  BY <1>1, <1>2 DEF Shape, limiter, control

\* The steps of the loop that also change its pool.
LEMMA TypePool ==
    ASSUME Shape, NEW r \in Runners,
           \/ TopRefresh(r) \/ Reserve(r) \/ GateStops(r) \/ AdmitFails(r) \/ AdmitDenied(r)
           \/ InlineDone(r) \/ IdleWaits(r)
    PROVE  Shape'
<1>. USE DEF Pcs
<1>0. /\ loop[r] \in LoopRecord /\ pool[r] \in PoolRecord /\ loop[r].res \in Nat
      /\ Taken(pool[r]) \in PoolRecord
      /\ Released(pool[r], loop[r].res) \in PoolRecord
      /\ Taken(Released(pool[r], loop[r].res)) \in PoolRecord
  BY ReleasedType, TakenFields DEF Shape, LoopRecord
<1>1. CASE TopRefresh(r)
  <2>1. Limit(r, cap) \in Nat \ {0}  BY PoolAssumption DEF Shape, Limit, Least
  <2>2. pool' \in [Runners -> PoolRecord] /\ seen' \in [Runners -> BOOLEAN]
    BY <1>0, <1>1, <2>1 DEF TopRefresh, Shape, PoolRecord
  <2>3. loop' \in [Runners -> LoopRecord]
    <3>1. \E pc \in Pcs : Go(r, pc)  BY <1>1, Zenon DEF TopRefresh
    <3>. QED  BY <3>1, GoFields DEF Shape
  <2>. QED  BY <1>1, <2>2, <2>3 DEF TopRefresh, Shape, limiter, control
<1>2. CASE Reserve(r)
  <2>1. CASE pool[r].limit - pool[r].held > 0
    <3>. DEFINE n == Least(ClaimLimit(r), pool[r].limit - pool[r].held)
    <3>1. n \in Nat  BY <1>0, <2>1, PoolAssumption DEF ClaimLimit, Least, PoolRecord
    <3>2. /\ loop' = [loop EXCEPT ![r] = [@ EXCEPT !.pc = "gate", !.res = n]]
          /\ pool' = [pool EXCEPT ![r] = Admitted(@, n)]
      BY <1>2, <2>1 DEF Reserve
    <3>. HIDE DEF n
    <3>3. loop' \in [Runners -> LoopRecord]
      <4>1. [loop[r] EXCEPT !.pc = "gate", !.res = n] \in LoopRecord
        BY <1>0, <3>1 DEF LoopRecord
      <4>. QED  BY <4>1, <3>2 DEF Shape
    <3>4. pool' \in [Runners -> PoolRecord]
      <4>1. Admitted(pool[r], n) \in PoolRecord  BY <1>0, <3>1 DEF Admitted, PoolRecord
      <4>. QED  BY <4>1, <3>2 DEF Shape
    <3>. QED  BY <3>3, <3>4, <1>2 DEF Reserve, Shape, limiter, control
  <2>2. CASE ~(pool[r].limit - pool[r].held > 0)
    <3>1. Go(r, "parked") /\ pool' = [pool EXCEPT ![r] = [@ EXCEPT !.woken = FALSE]]
      BY <1>2, <2>2 DEF Reserve
    <3>2. loop' \in [Runners -> LoopRecord]  BY <3>1, GoFields DEF Shape
    <3>3. pool' \in [Runners -> PoolRecord]  BY <3>1, ZenonT(60) DEF Shape, PoolRecord
    <3>. QED  BY <3>2, <3>3, <1>2 DEF Reserve, Shape, limiter, control
  <2>. QED  BY <2>1, <2>2
<1>3. CASE GateStops(r)
  <2>1. loop' \in [Runners -> LoopRecord]  BY <1>3, GoFields DEF GateStops, Shape
  <2>2. pool' \in [Runners -> PoolRecord]  BY <1>0, <1>3 DEF GateStops, Shape
  <2>. QED  BY <2>1, <2>2, <1>3 DEF GateStops, Shape, limiter, control
<1>4. CASE AdmitFails(r)
  <2>1. loop' \in [Runners -> LoopRecord]  BY <1>4, PollErrorFields DEF AdmitFails, Shape
  <2>2. pool' \in [Runners -> PoolRecord]  BY <1>0, <1>4 DEF AdmitFails, Shape
  <2>. QED  BY <2>1, <2>2, <1>4 DEF AdmitFails, Shape, limiter, control
<1>5. CASE AdmitDenied(r)
  <2>1. loop' \in [Runners -> LoopRecord]  BY <1>5, GoTakingErrFields DEF AdmitDenied, Shape
  <2>2. pool' \in [Runners -> PoolRecord]  BY <1>0, <1>5 DEF AdmitDenied, Shape
  <2>. QED  BY <2>1, <2>2, <1>5 DEF AdmitDenied, Seeded, Shape, control
<1>6. CASE InlineDone(r)
  <2>1. loop' \in [Runners -> LoopRecord]  BY <1>6, GoTakingErrFields DEF InlineDone, Shape
  <2>2. pool' \in [Runners -> PoolRecord]  BY <1>0, <1>6 DEF InlineDone, Shape
  <2>. QED  BY <2>1, <2>2, <1>6 DEF InlineDone, Shape, limiter, control
<1>7. CASE IdleWaits(r)
  <2>1. loop' \in [Runners -> LoopRecord]  BY <1>7, GoTakingErrFields DEF IdleWaits, Shape
  <2>2. pool' \in [Runners -> PoolRecord]  BY <1>0, <1>7 DEF IdleWaits, Shape
  <2>. QED  BY <2>1, <2>2, <1>7 DEF IdleWaits, Shape, limiter, control
<1>. QED  BY <1>1, <1>2, <1>3, <1>4, <1>5, <1>6, <1>7

\* A grant, the claim and the dispatches, which move permits.
LEMMA TypePermits ==
    ASSUME Shape, NEW r \in Runners,
           \/ \E g \in Grants, n \in 1..loop[r].res : AdmitGranted(r, g, n)
           \/ ClaimNone(r) \/ \E n \in 1..queue : ClaimJobs(r, n)
           \/ \E g \in Permits, err \in BOOLEAN : EndDispatch(r, g, err)
           \/ FreeSlot(r)
    PROVE  Shape'
<1>. USE DEF Pcs
<1>0. /\ loop[r] \in LoopRecord /\ pool[r] \in PoolRecord
      /\ loop[r].res \in Nat /\ loop[r].permits \in Nat /\ loop[r].grant \in Permits
      /\ queue \in Nat /\ NoGrant \in Permits
  BY DEF Shape, LoopRecord, Permits
<1>1. CASE \E g \in Grants, n \in 1..loop[r].res : AdmitGranted(r, g, n)
  <2>1. PICK g \in Grants, n \in 1..loop[r].res : AdmitGranted(r, g, n)  BY <1>1
  <2>2. n \in Nat /\ loop[r].res - n \in Nat  BY <1>0
  <2>3. pool' \in [Runners -> PoolRecord]
    BY <1>0, <2>1, <2>2, ReleasedType DEF AdmitGranted, Shape
  <2>4. loop' \in [Runners -> LoopRecord]
    <3>1. [loop[r] EXCEPT !.pc = "claim", !.res = n, !.grant = g, !.permits = n] \in LoopRecord
      BY <1>0, <2>2 DEF LoopRecord, Permits
    <3>. QED  BY <2>1, <3>1 DEF AdmitGranted, Shape
  <2>5. hold' \in [Grants -> Nat] /\ lapsed' \in [Grants -> BOOLEAN]
    BY <2>1, <2>2 DEF AdmitGranted, Shape
  <2>6. bucket' \in Int
    <3>1. bucket' = Seeded  BY <2>1, Zenon DEF AdmitGranted
    <3>2. Seeded \in Int  BY DEF Seeded, Shape
    <3>. QED  BY <3>1, <3>2
  <2>. QED  BY <2>1, <2>3, <2>4, <2>5, <2>6 DEF AdmitGranted, Shape, control
<1>2. CASE ClaimNone(r)
  <2>1. Taken(Released(pool[r], loop[r].res)) \in PoolRecord  BY <1>0, ReleasedType, TakenFields
  <2>2. pool' \in [Runners -> PoolRecord]  BY <1>2, <2>1 DEF ClaimNone, Shape
  <2>3. loop' \in [Runners -> LoopRecord]
    BY <1>2, PollErrorFields, GoTakingErrFields DEF ClaimNone, Shape
  <2>4. hold' \in [Grants -> Nat] /\ lapsed' \in [Grants -> BOOLEAN] /\ bucket' \in Int
    BY <1>0, <1>2, ReleaseType DEF ClaimNone
  <2>. QED  BY <1>2, <2>2, <2>3, <2>4 DEF ClaimNone, Shape, control
<1>3. CASE \E n \in 1..queue : ClaimJobs(r, n)
  <2>1. PICK n \in 1..queue : ClaimJobs(r, n)  BY <1>3
  <2>. DEFINE k == Least(n, loop[r].permits)
              p == IF n < loop[r].res THEN Released(pool[r], loop[r].res - n)
                                      ELSE Admitted(pool[r], n - loop[r].res)
  <2>2. n \in Nat /\ queue - n \in Nat /\ k \in Nat /\ n - k \in Nat
        /\ UnusedPermits(n, loop[r].permits) \in Nat
    BY <1>0 DEF Least, UnusedPermits
  <2>3. p \in PoolRecord
    <3>1. CASE n < loop[r].res
      <4>1. loop[r].res - n \in Nat  BY <1>0, <2>2, <3>1
      <4>2. Released(pool[r], loop[r].res - n) \in PoolRecord  BY <1>0, <4>1, ReleasedType
      <4>. QED  BY <3>1, <4>2
    <3>2. CASE ~(n < loop[r].res)
      <4>1. n - loop[r].res \in Nat  BY <1>0, <2>2, <3>2
      <4>2. Admitted(pool[r], n - loop[r].res) \in PoolRecord  BY <1>0, <4>1 DEF Admitted, PoolRecord
      <4>. QED  BY <3>2, <4>2
    <3>. QED  BY <3>1, <3>2
  <2>4. /\ queue' = queue - n /\ Release(loop[r].grant, UnusedPermits(n, loop[r].permits))
        /\ work' = [work EXCEPT ![r] =
                      [g \in Permits |-> work[r][g] + (IF g = loop[r].grant THEN k ELSE 0)
                                              + (IF g = NoGrant THEN n - k ELSE 0)]]
        /\ pool' = [pool EXCEPT ![r] = Taken([p EXCEPT !.running = @ + n])]
        /\ GoTakingErr(r, IF Concurrency[r] = 1 THEN "inline" ELSE "top")
        /\ UNCHANGED <<stuck, inserted, stop, ended, control, seen, failed>>
    BY <2>1 DEF ClaimJobs
  <2>. HIDE DEF k, p
  <2>5. pool' \in [Runners -> PoolRecord]
    <3>1. [p EXCEPT !.running = @ + n] \in PoolRecord  BY <2>2, <2>3 DEF PoolRecord
    <3>2. Taken([p EXCEPT !.running = @ + n]) \in PoolRecord  BY <3>1, TakenFields
    <3>. QED  BY <2>4, <3>2 DEF Shape
  <2>6. work' \in [Runners -> [Permits -> Nat]]
    <3>1. [g \in Permits |-> work[r][g] + (IF g = loop[r].grant THEN k ELSE 0)
                                        + (IF g = NoGrant THEN n - k ELSE 0)] \in [Permits -> Nat]
      BY <2>2 DEF Shape
    <3>. QED  BY <2>4, <3>1 DEF Shape
  <2>7. loop' \in [Runners -> LoopRecord]
    <3>1. CASE Concurrency[r] = 1
      <4>1. GoTakingErr(r, "inline")  BY <2>4, <3>1
      <4>. QED  BY <4>1, GoTakingErrFields DEF Shape
    <3>2. CASE Concurrency[r] # 1
      <4>1. GoTakingErr(r, "top")  BY <2>4, <3>2
      <4>. QED  BY <4>1, GoTakingErrFields DEF Shape
    <3>. QED  BY <3>1, <3>2
  <2>8. hold' \in [Grants -> Nat] /\ lapsed' \in [Grants -> BOOLEAN] /\ bucket' \in Int
    BY <1>0, <2>2, <2>4, ReleaseType
  <2>. QED  BY <2>2, <2>4, <2>5, <2>6, <2>7, <2>8 DEF Shape, control
<1>4. CASE \E g \in Permits, err \in BOOLEAN : EndDispatch(r, g, err)
  <2>1. PICK g \in Permits, err \in BOOLEAN : EndDispatch(r, g, err)  BY <1>4
  <2>2. hold' \in [Grants -> Nat] /\ lapsed' \in [Grants -> BOOLEAN] /\ bucket' \in Int
    BY <2>1, ReleaseType DEF EndDispatch
  <2>3. work' \in [Runners -> [Permits -> Nat]]
    <3>1. work[r] \in [Permits -> Nat] /\ work[r][g] > 0  BY <2>1 DEF EndDispatch, Shape
    <3>2. [work[r] EXCEPT ![g] = @ - 1] \in [Permits -> Nat]  BY <3>1
    <3>. QED  BY <2>1, <3>2 DEF EndDispatch, Shape
  <2>4. pool' \in [Runners -> PoolRecord]
    <3>1. Finished(pool[r], err) \in PoolRecord  BY <1>0, <2>1, FinishedFields DEF EndDispatch
    <3>. QED  BY <2>1, <3>1 DEF EndDispatch, Shape
  <2>5. failed' \in [Runners -> BOOLEAN]
    <3>. DEFINE f == failed[r] \/ err
    <3>1. f \in BOOLEAN /\ failed' = [failed EXCEPT ![r] = f]  BY <2>1, Zenon DEF EndDispatch
    <3>. HIDE DEF f
    <3>. QED  BY <3>1 DEF Shape
  <2>. QED  BY <2>1, <2>2, <2>3, <2>4, <2>5 DEF EndDispatch, Shape, control
<1>5. CASE FreeSlot(r)
  <2>1. Closed(pool[r]) \in PoolRecord  BY <1>0, <1>5, ClosedFields DEF FreeSlot
  <2>2. pool' \in [Runners -> PoolRecord]
    <3>1. Released(Closed(pool[r]), 1) \in PoolRecord  BY <2>1, ReleasedType
    <3>. QED  BY <1>5, <3>1 DEF FreeSlot, Shape
  <2>. QED  BY <1>5, <2>2 DEF FreeSlot, Shape, limiter, control
<1>. QED  BY <1>1, <1>2, <1>3, <1>4, <1>5

LEMMA TypeHost == ASSUME Shape, NEW r \in Runners, Host(r) PROVE Shape'
<1>1. CASE Stop(r)  BY <1>1 DEF Stop, Shape, limiter, control
<1>2. CASE CancelContext(r)  BY <1>2 DEF CancelContext, Shape, limiter, control
<1>3. CASE DrainWaits(r)
  <2>1. PICK d \in {"freed", "waiting"} : pool' = [pool EXCEPT ![r] = [@ EXCEPT !.drain = d]]
    BY <1>3 DEF DrainWaits
  <2>2. pool' \in [Runners -> PoolRecord]
    <3>1. pool[r] \in PoolRecord  BY DEF Shape
    <3>2. [pool[r] EXCEPT !.drain = d] \in PoolRecord  BY <3>1 DEF PoolRecord
    <3>. QED  BY <2>1, <3>2 DEF Shape
  <2>. QED  BY <1>3, <2>2 DEF DrainWaits, Shape, limiter, control
<1>4. CASE DrainReturns(r)
  <2>1. PICK d \in {"drained", "timedOut"} : pool' = [pool EXCEPT ![r] = [@ EXCEPT !.drain = d]]
    BY <1>4 DEF DrainReturns
  <2>2. pool' \in [Runners -> PoolRecord]
    <3>1. pool[r] \in PoolRecord  BY DEF Shape
    <3>2. [pool[r] EXCEPT !.drain = d] \in PoolRecord  BY <3>1 DEF PoolRecord
    <3>. QED  BY <2>1, <3>2 DEF Shape
  <2>. QED  BY <1>4, <2>2 DEF DrainReturns, Shape, limiter, control
<1>5. CASE Die(r)
  <2>1. pool' \in [Runners -> PoolRecord]  BY <1>5, NewPoolType DEF Die, Shape
  <2>2. loop' \in [Runners -> LoopRecord]
    BY <1>5 DEF Die, Shape, NewLoop, LoopRecord, Permits
  <2>3. work' \in [Runners -> [Permits -> Nat]]  BY <1>5 DEF Die, Shape
  <2>. QED  BY <1>5, <2>1, <2>2, <2>3 DEF Die, Shape, control
<1>. QED  BY <1>1, <1>2, <1>3, <1>4, <1>5 DEF Host

LEMMA TypeWorld == ASSUME Shape, World PROVE Shape'
<1>1. CASE Insert  BY <1>1 DEF Insert, Shape, limiter, control
<1>2. CASE SweepReclaims  BY <1>2 DEF SweepReclaims, Shape, limiter, control
<1>3. CASE PauseQueue \/ ResumeQueue
  <2>1. paused' \in BOOLEAN  BY <1>3, Zenon DEF PauseQueue, ResumeQueue
  <2>. QED  BY <1>3, <2>1 DEF PauseQueue, ResumeQueue, Shape, limiter
<1>5. CASE \E c \in Caps \cup {0} : SetQueueConcurrency(c)
  BY <1>5, PoolAssumption DEF SetQueueConcurrency, Shape, limiter
<1>6. CASE \E b \in Budgets \cup {0} : SetLimiterBudget(b)
  BY <1>6, PoolAssumption DEF SetLimiterBudget, Shape, control
<1>4. CASE \E g \in Grants : Lapse(g)  BY <1>4 DEF Lapse, Shape, control
<1>. QED  BY <1>1, <1>2, <1>3, <1>4, <1>5, <1>6 DEF World, Operator

LEMMA TypeStep == Shape /\ [Next]_vars => Shape'
<1>. SUFFICES ASSUME Shape, [Next]_vars PROVE Shape'  OBVIOUS
<1>1. CASE World  BY <1>1, TypeWorld
<1>2. ASSUME NEW r \in Runners, Loop(r) \/ Dispatch(r) PROVE Shape'
  BY <1>2, TypeMoves, TypePool, TypePermits
     DEF Loop, Dispatch, Top, Slots, Gate, Claim, Idle, Count
<1>3. ASSUME NEW r \in Runners, Host(r) PROVE Shape'  BY <1>3, TypeHost
<1>4. CASE UNCHANGED vars  BY <1>4 DEF vars, Shape, limiter, control
<1>. QED  BY <1>1, <1>2, <1>3, <1>4 DEF Next

----------------------------------------------------------------------------
(* The invariant of each Runner. *)

LEMMA RunnerInit == ASSUME Init, NEW r \in Runners PROVE RunnerOK(r)
BY PoolAssumption DEF Init, RunnerOK, LoopOK, DrainOK, WakeOK, ErrorOK, NewLoop, NewPool

\* What RunnerOK(s) reads of the state.
Same(s) == loop'[s] = loop[s] /\ pool'[s] = pool[s] /\ stop'[s] = stop[s] /\ failed'[s] = failed[s]

LEMMA SameKeeps == ASSUME NEW s \in Runners, RunnerOK(s), Same(s) PROVE RunnerOK(s)'
BY DEF RunnerOK, LoopOK, DrainOK, WakeOK, ErrorOK, Same

LEMMA GoFrame == ASSUME Shape, NEW r \in Runners, NEW s \in Runners \ {r}, NEW pc, Go(r, pc)
                 PROVE  loop'[s] = loop[s]
BY DEF Go, Shape

\* A Runner's step touches no other Runner's loop or pool.
LEMMA Frame ==
    ASSUME Shape, NEW r \in Runners, NEW s \in Runners \ {r}, Loop(r) \/ Dispatch(r) \/ Host(r)
    PROVE  Same(s)
<1>. USE DEF Shape, Same
<1>1. CASE Top(r)  BY <1>1, GoFrame DEF Top, TopEnds, TopCached, TopRefresh
<1>2. CASE Slots(r)
  BY <1>2, GoFrame DEF Slots, Reserve, ReserveWakes, ReserveEnds, ReserveTimesOut
<1>3. CASE Gate(r)
  BY <1>3, GoFrame DEF Gate, GateStops, AdmitUnlimited, AdmitFails, AdmitDenied, AdmitGranted,
                       PollError, GoTakingErr
<1>4. CASE Claim(r)
  BY <1>4, GoFrame DEF Claim, ClaimNone, ClaimJobs, InlineDone, PollError, GoTakingErr
<1>5. CASE Idle(r) \/ Count(r)
  BY <1>5, GoFrame DEF Idle, SleepEnds, IdleSleeps, IdleWaits, IdleEnds, Count, CountsNone,
                       CountsPending, Leave, PollError, GoTakingErr
<1>6. CASE Dispatch(r)  BY <1>6 DEF Dispatch, FreeSlot, EndDispatch
<1>7. CASE Host(r)  BY <1>7 DEF Host, Stop, CancelContext, DrainWaits, DrainReturns, Die
<1>. QED  BY <1>1, <1>2, <1>3, <1>4, <1>5, <1>6, <1>7 DEF Loop

LEMMA SumZero ==
    ASSUME NEW a \in Nat, NEW b \in Nat, NEW c \in Nat
    PROVE  a + b + c = 0 => a = 0 /\ b = 0 /\ c = 0
OBVIOUS

LEMMA SumOne ==
    ASSUME NEW a \in Nat, NEW b \in Nat, NEW c \in Nat, c > 0
    PROVE  a + b + c - 1 = 0 => b = 0 /\ c = 1 /\ a = 0
OBVIOUS

LEMMA RecordTypes ==
    ASSUME Shape, NEW r \in Runners
    PROVE  /\ loop[r] \in LoopRecord /\ pool[r] \in PoolRecord
           /\ stop[r] \in BOOLEAN /\ failed[r] \in BOOLEAN
           /\ loop[r].res \in Nat /\ loop[r].pc \in Pcs
           /\ pool[r].held \in Nat /\ pool[r].running \in Nat /\ pool[r].closing \in Nat
           /\ pool[r].limit \in Nat
BY DEF Shape, LoopRecord, PoolRecord, Pcs

\* A step of the loop that changes nothing else and needs no reservation.
LEMMA MoveKeeps ==
    ASSUME Shape, NEW r \in Runners, RunnerOK(r),
           pool' = pool, stop' = stop, failed' = failed,
           loop[r].pc \notin {"gate", "claim"},
           loop'[r].res = 0, loop'[r].result = loop[r].result,
           loop'[r].pc \in Pcs \ {"gate", "claim", "parked", "count"},
           loop[r].pc \in {"leaving", "returned", "dead"}
               => loop'[r].pc \in {"leaving", "returned"} /\ loop[r].pc # "dead"
    PROVE  RunnerOK(r)'
<1>1. loop[r].res = 0  BY RecordTypes DEF RunnerOK, LoopOK
<1>2. LoopOK(r)'  BY <1>1 DEF RunnerOK, LoopOK, Pcs
<1>3. DrainOK(r)'  BY DEF RunnerOK, DrainOK
<1>4. WakeOK(r)'  BY DEF WakeOK
<1>5. ErrorOK(r)'  BY DEF RunnerOK, ErrorOK
<1>. QED  BY <1>2, <1>3, <1>4, <1>5 DEF RunnerOK

\* The loop gives its whole reservation back and takes the collected errors.
LEMMA YieldKeeps ==
    ASSUME Shape, NEW r \in Runners, RunnerOK(r),
           loop[r].pc \in {"gate", "claim"},
           pool'[r] = Taken(Released(pool[r], loop[r].res)),
           stop' = stop, failed' = failed,
           loop'[r].res = 0, loop'[r].result = loop[r].result,
           loop'[r].pc \in {"sleep", "idle", "leaving"},
           r \in UntilIdle /\ pool[r].errs => loop'[r].pc = "leaving"
    PROVE  RunnerOK(r)'
<1>. DEFINE q == Released(pool[r], loop[r].res)
<1>1. /\ loop[r].res \in Nat /\ pool[r].held \in Nat /\ pool[r] \in PoolRecord
      /\ pool[r].running \in Nat /\ pool[r].closing \in Nat
  BY RecordTypes
<1>2. pool[r].held = loop[r].res + pool[r].running + pool[r].closing
  BY DEF RunnerOK, LoopOK
<1>3. loop[r].res <= pool[r].held  BY <1>1, <1>2
<1>4. /\ q \in PoolRecord /\ q.held = pool[r].held - loop[r].res
      /\ q.running = pool[r].running /\ q.closing = pool[r].closing /\ q.errs = pool[r].errs
      /\ q.drain # pool[r].drain => q.drain = "freed" /\ pool[r].drain = "waiting" /\ q.held = 0
  BY <1>1, <1>3, ReleasedType, ReleasedFields, Zenon
<1>5. /\ pool'[r].held = q.held /\ pool'[r].running = q.running
      /\ pool'[r].closing = q.closing /\ pool'[r].drain = q.drain /\ ~pool'[r].errs
  BY <1>4, TakenFields
<1>. HIDE DEF q
<1>6. LoopOK(r)'  BY <1>1, <1>2, <1>4, <1>5 DEF LoopOK
<1>7. DrainOK(r)'
  BY <1>1, <1>2, <1>4, <1>5 DEF RunnerOK, DrainOK
<1>8. WakeOK(r)'  BY DEF WakeOK
<1>9. ErrorOK(r)'  BY DEF RunnerOK, ErrorOK
<1>. QED  BY <1>6, <1>7, <1>8, <1>9 DEF RunnerOK

LEMMA RunnerMoves ==
    ASSUME Shape, NEW r \in Runners, RunnerOK(r),
           \/ TopEnds(r) \/ TopCached(r) \/ ReserveWakes(r) \/ ReserveEnds(r) \/ ReserveTimesOut(r)
           \/ SleepEnds(r) \/ IdleSleeps(r) \/ IdleEnds(r) \/ Leave(r)
    PROVE  RunnerOK(r)'
<1>1. PICK pc \in {"top", "reserve", "idle", "sleep", "leaving", "returned"} :
          Go(r, pc) /\ (loop[r].pc = "leaving" => pc = "returned")
  BY Zenon DEF TopEnds, TopCached, ReserveWakes, ReserveEnds, ReserveTimesOut, SleepEnds, IdleSleeps,
               IdleEnds, Leave
<1>2. /\ loop'[r].pc = pc /\ loop'[r].res = 0 /\ loop'[r].result = loop[r].result
  BY <1>1, GoFields DEF Shape, Pcs
<1>3. /\ pool' = pool /\ stop' = stop /\ failed' = failed
      /\ loop[r].pc \notin {"gate", "claim", "returned", "dead"}
  BY DEF TopEnds, TopCached, ReserveWakes, ReserveEnds, ReserveTimesOut, SleepEnds, IdleSleeps,
         IdleEnds, Leave
<1>. QED  BY <1>1, <1>2, <1>3, MoveKeeps DEF Pcs

LEMMA RunnerYields ==
    ASSUME Shape, NEW r \in Runners, RunnerOK(r), AdmitFails(r) \/ AdmitDenied(r) \/ ClaimNone(r)
    PROVE  RunnerOK(r)'
<1>1. PollError(r) \/ GoTakingErr(r, "sleep") \/ GoTakingErr(r, "idle")
  BY Zenon DEF AdmitFails, AdmitDenied, ClaimNone
<1>2. /\ loop'[r].res = 0 /\ loop'[r].result = loop[r].result
      /\ loop'[r].pc \in {"sleep", "idle", "leaving"}
      /\ r \in UntilIdle /\ pool[r].errs => loop'[r].pc = "leaving"
  <2>1. CASE PollError(r)  BY <2>1, PollErrorFields DEF Shape
  <2>2. CASE GoTakingErr(r, "sleep")  BY <2>2, GoTakingErrFields DEF Shape, Pcs
  <2>3. CASE GoTakingErr(r, "idle")  BY <2>3, GoTakingErrFields DEF Shape, Pcs
  <2>. QED  BY <1>1, <2>1, <2>2, <2>3
<1>3. /\ loop[r].pc \in {"gate", "claim"} /\ stop' = stop /\ failed' = failed
      /\ pool' = [pool EXCEPT ![r] = Taken(Released(@, loop[r].res))]
  BY Zenon DEF AdmitFails, AdmitDenied, ClaimNone
<1>4. pool'[r] = Taken(Released(pool[r], loop[r].res))  BY <1>3 DEF Shape
<1>. QED  BY <1>2, <1>3, <1>4, YieldKeeps

LEMMA RunnerPool ==
    ASSUME Shape, Shape', NEW r \in Runners, RunnerOK(r),
           \/ TopRefresh(r) \/ Reserve(r) \/ GateStops(r) \/ AdmitUnlimited(r) \/ InlineDone(r)
           \/ IdleWaits(r) \/ CountsNone(r) \/ CountsPending(r)
    PROVE  RunnerOK(r)'
<1>. USE DEF Pcs
<1>0. /\ pool[r] \in PoolRecord /\ loop[r] \in LoopRecord
      /\ loop[r].res \in Nat /\ pool[r].held \in Nat /\ pool[r].limit \in Nat
      /\ pool[r].running \in Nat /\ pool[r].closing \in Nat
      /\ pool[r].held = loop[r].res + pool[r].running + pool[r].closing
      /\ loop[r].pc \in {"gate", "claim"} <=> loop[r].res > 0
  BY RecordTypes DEF RunnerOK, LoopOK
<1>1. CASE TopRefresh(r)
  <2>1. PICK pc \in {"idle", "reserve"} : Go(r, pc)  BY <1>1, Zenon DEF TopRefresh
  <2>2. loop'[r].pc = pc /\ loop'[r].res = 0 /\ loop'[r].result = loop[r].result
    BY <2>1, GoFields DEF Shape
  <2>3. /\ pool'[r].held = pool[r].held /\ pool'[r].running = pool[r].running
        /\ pool'[r].closing = pool[r].closing /\ pool'[r].drain = pool[r].drain
        /\ pool'[r].errs = pool[r].errs /\ stop' = stop /\ failed' = failed
        /\ loop[r].pc = "top"
    BY <1>0, <1>1 DEF TopRefresh, Shape, PoolRecord
  <2>. QED  BY <1>0, <2>2, <2>3 DEF RunnerOK, LoopOK, DrainOK, WakeOK, ErrorOK
<1>2. CASE Reserve(r)
  <2>1. CASE pool[r].limit - pool[r].held > 0
    <3>. DEFINE n == Least(ClaimLimit(r), pool[r].limit - pool[r].held)
    <3>1. n \in Nat /\ n > 0  BY <1>0, <2>1, PoolAssumption DEF ClaimLimit, Least
    <3>2. /\ loop' = [loop EXCEPT ![r] = [@ EXCEPT !.pc = "gate", !.res = n]]
          /\ pool' = [pool EXCEPT ![r] = Admitted(@, n)]
          /\ stop' = stop /\ failed' = failed /\ loop[r].pc = "reserve"
      BY <1>2, <2>1 DEF Reserve
    <3>. HIDE DEF n
    <3>3. loop'[r].pc = "gate" /\ loop'[r].res = n /\ loop'[r].result = loop[r].result
      BY <1>0, <3>2 DEF Shape, LoopRecord
    <3>4. /\ pool'[r].held = pool[r].held + n /\ pool'[r].running = pool[r].running
          /\ pool'[r].closing = pool[r].closing /\ pool'[r].drain = pool[r].drain
          /\ pool'[r].errs = pool[r].errs
      BY <1>0, <3>2 DEF Shape, PoolRecord, Admitted
    <3>5. LoopOK(r)'  BY <1>0, <3>1, <3>2, <3>3, <3>4 DEF LoopOK
    <3>6. DrainOK(r)'  BY <3>2, <3>3, <3>4 DEF RunnerOK, DrainOK
    <3>7. WakeOK(r)'  BY <3>3 DEF WakeOK
    <3>8. ErrorOK(r)'  BY <3>2, <3>3, <3>4 DEF RunnerOK, ErrorOK
    <3>. QED  BY <3>5, <3>6, <3>7, <3>8 DEF RunnerOK
  <2>2. CASE ~(pool[r].limit - pool[r].held > 0)
    <3>1. /\ Go(r, "parked") /\ pool' = [pool EXCEPT ![r] = [@ EXCEPT !.woken = FALSE]]
          /\ stop' = stop /\ failed' = failed /\ loop[r].pc = "reserve"
      BY <1>2, <2>2 DEF Reserve
    <3>2. loop'[r].pc = "parked" /\ loop'[r].res = 0 /\ loop'[r].result = loop[r].result
      BY <3>1, GoFields DEF Shape
    <3>3. /\ pool'[r].held = pool[r].held /\ pool'[r].running = pool[r].running
          /\ pool'[r].closing = pool[r].closing /\ pool'[r].drain = pool[r].drain
          /\ pool'[r].errs = pool[r].errs /\ pool'[r].limit = pool[r].limit
      BY <1>0, <3>1 DEF Shape, PoolRecord
    <3>. QED  BY <1>0, <2>2, <3>1, <3>2, <3>3 DEF RunnerOK, LoopOK, DrainOK, WakeOK, ErrorOK
  <2>. QED  BY <2>1, <2>2
<1>3. CASE GateStops(r)
  <2>1. /\ loop[r].pc = "gate" /\ stop' = stop /\ failed' = failed
        /\ pool'[r] = Released(pool[r], loop[r].res)
        /\ loop'[r].pc = "leaving" /\ loop'[r].res = 0 /\ loop'[r].result = loop[r].result
    BY <1>3, GoFields DEF GateStops, Shape
  <2>2. /\ pool'[r].held = pool[r].held - loop[r].res
        /\ pool'[r].running = pool[r].running /\ pool'[r].closing = pool[r].closing
        /\ pool'[r].errs = pool[r].errs
        /\ pool'[r].drain # pool[r].drain =>
              pool'[r].drain = "freed" /\ pool[r].drain = "waiting" /\ pool'[r].held = 0
    <3>1. loop[r].res <= pool[r].held  BY <1>0
    <3>. DEFINE q == Released(pool[r], loop[r].res)
    <3>2. /\ q.held = pool[r].held - loop[r].res /\ q.errs = pool[r].errs
          /\ q.running = pool[r].running /\ q.closing = pool[r].closing
          /\ q.drain # pool[r].drain => q.drain = "freed" /\ pool[r].drain = "waiting" /\ q.held = 0
      BY <1>0, <3>1, ReleasedFields, Zenon
    <3>3. pool'[r] = q  BY <2>1
    <3>. HIDE DEF q
    <3>. QED  BY <3>2, <3>3
  <2>3. LoopOK(r)'  BY <1>0, <2>1, <2>2 DEF LoopOK
  <2>4. DrainOK(r)'  BY <1>0, <2>1, <2>2 DEF RunnerOK, DrainOK
  <2>5. WakeOK(r)'  BY <2>1 DEF WakeOK
  <2>6. ErrorOK(r)'  BY <2>1, <2>2 DEF RunnerOK, ErrorOK
  <2>. QED  BY <2>3, <2>4, <2>5, <2>6 DEF RunnerOK
<1>4. CASE AdmitUnlimited(r)
  <2>1. /\ loop[r].pc = "gate" /\ stop' = stop /\ failed' = failed /\ pool' = pool /\ ~stop[r]
        /\ loop'[r].pc = "claim" /\ loop'[r].res = loop[r].res
        /\ loop'[r].result = loop[r].result
    BY <1>0, <1>4 DEF AdmitUnlimited, Stopping, Shape, LoopRecord
  <2>. QED  BY <1>0, <2>1 DEF RunnerOK, LoopOK, DrainOK, WakeOK, ErrorOK
<1>5. CASE InlineDone(r) \/ IdleWaits(r)
  <2>1. PICK pc \in {"top", "count"} : GoTakingErr(r, pc) /\ (pc = "count" => IdleWaits(r))
    BY <1>5, Zenon DEF InlineDone, IdleWaits
  <2>2. /\ loop'[r].res = 0 /\ loop'[r].result = loop[r].result
        /\ loop'[r].pc = IF r \in UntilIdle /\ pool[r].errs THEN "leaving" ELSE pc
    BY <2>1, GoTakingErrFields DEF Shape
  <2>3. /\ stop' = stop /\ failed' = failed /\ pool'[r] = Taken(pool[r])
        /\ loop[r].pc \in {"inline", "idle"}
        /\ pc = "count" => r \in UntilIdle /\ pool[r].held = 0
    BY <1>5, <2>1 DEF InlineDone, IdleWaits, Shape
  <2>4. /\ pool'[r].held = pool[r].held /\ pool'[r].running = pool[r].running
        /\ pool'[r].closing = pool[r].closing /\ pool'[r].drain = pool[r].drain /\ ~pool'[r].errs
    BY <1>0, <2>3, TakenFields
  <2>5. LoopOK(r)'  BY <1>0, <2>2, <2>3, <2>4 DEF LoopOK
  <2>6. DrainOK(r)'  BY <2>2, <2>3, <2>4 DEF RunnerOK, DrainOK
  <2>7. WakeOK(r)'  BY <2>2 DEF WakeOK
  <2>8. ErrorOK(r)'  BY <2>2, <2>3, <2>4 DEF RunnerOK, ErrorOK
  <2>. QED  BY <2>5, <2>6, <2>7, <2>8 DEF RunnerOK
<1>6. CASE CountsNone(r)
  <2>1. /\ loop[r].pc = "count" /\ stop' = stop /\ failed' = failed /\ pool' = pool
        /\ loop'[r].pc = "leaving" /\ loop'[r].res = 0
    BY <1>6 DEF CountsNone, NewLoop, Shape
  <2>. QED  BY <1>0, <2>1 DEF RunnerOK, LoopOK, DrainOK, WakeOK, ErrorOK
<1>7. CASE CountsPending(r)
  <2>1. /\ loop[r].pc = "count" /\ stop' = stop /\ failed' = failed /\ pool' = pool
        /\ loop'[r].pc \in {"sleep", "leaving"} /\ loop'[r].res = 0
        /\ loop'[r].result = loop[r].result
    BY <1>7, PollErrorFields DEF CountsPending, Shape
  <2>. QED  BY <1>0, <2>1, MoveKeeps
<1>. QED  BY <1>1, <1>2, <1>3, <1>4, <1>5, <1>6, <1>7

LEMMA RunnerPermits ==
    ASSUME Shape, Shape', NEW r \in Runners, RunnerOK(r),
           \/ \E g \in Grants, n \in 1..loop[r].res : AdmitGranted(r, g, n)
           \/ \E n \in 1..queue : ClaimJobs(r, n)
           \/ \E g \in Permits, err \in BOOLEAN : EndDispatch(r, g, err)
           \/ FreeSlot(r)
    PROVE  RunnerOK(r)'
<1>. USE DEF Pcs
<1>0. /\ pool[r] \in PoolRecord /\ loop[r] \in LoopRecord
      /\ loop[r].res \in Nat /\ pool[r].held \in Nat /\ pool[r].limit \in Nat
      /\ pool[r].running \in Nat /\ pool[r].closing \in Nat
      /\ pool[r].held = loop[r].res + pool[r].running + pool[r].closing
      /\ loop[r].pc \in {"gate", "claim"} <=> loop[r].res > 0
  BY RecordTypes DEF RunnerOK, LoopOK
<1>1. CASE \E g \in Grants, n \in 1..loop[r].res : AdmitGranted(r, g, n)
  <2>1. PICK g \in Grants, n \in 1..loop[r].res : AdmitGranted(r, g, n)  BY <1>1
  <2>2. n \in Nat /\ n > 0 /\ loop[r].res - n \in Nat /\ loop[r].res - n <= pool[r].held  BY <1>0
  <2>3. /\ loop[r].pc = "gate" /\ stop' = stop /\ failed' = failed /\ ~stop[r]
        /\ pool'[r] = Released(pool[r], loop[r].res - n)
        /\ loop'[r].pc = "claim" /\ loop'[r].res = n /\ loop'[r].result = loop[r].result
    BY <1>0, <2>1, ZenonT(60) DEF AdmitGranted, Stopping, Shape, LoopRecord
  <2>4. /\ pool'[r].held = pool[r].held - (loop[r].res - n)
        /\ pool'[r].running = pool[r].running /\ pool'[r].closing = pool[r].closing
        /\ pool'[r].errs = pool[r].errs
        /\ pool'[r].drain # pool[r].drain =>
              pool'[r].drain = "freed" /\ pool[r].drain = "waiting" /\ pool'[r].held = 0
    <3>. DEFINE q == Released(pool[r], loop[r].res - n)
    <3>1. /\ q.held = pool[r].held - (loop[r].res - n) /\ q.errs = pool[r].errs
          /\ q.running = pool[r].running /\ q.closing = pool[r].closing
          /\ q.drain # pool[r].drain => q.drain = "freed" /\ pool[r].drain = "waiting" /\ q.held = 0
      BY <1>0, <2>2, ReleasedFields, ZenonT(60)
    <3>2. pool'[r] = q  BY <2>3
    <3>. HIDE DEF q
    <3>. QED  BY <3>1, <3>2
  <2>. QED  BY <1>0, <2>2, <2>3, <2>4 DEF RunnerOK, LoopOK, DrainOK, WakeOK, ErrorOK
<1>2. CASE \E n \in 1..queue : ClaimJobs(r, n)
  <2>1. PICK n \in 1..queue : ClaimJobs(r, n)  BY <1>2
  <2>. DEFINE p == IF n < loop[r].res THEN Released(pool[r], loop[r].res - n)
                                      ELSE Admitted(pool[r], n - loop[r].res)
              q == [p EXCEPT !.running = p.running + n]
  <2>2. n \in Nat /\ n > 0  BY DEF Shape
  <2>3. PICK pc \in {"inline", "top"} :
           /\ loop[r].pc = "claim" /\ stop' = stop /\ failed' = failed
           /\ pool' = [pool EXCEPT ![r] = Taken(q)]
           /\ GoTakingErr(r, pc)
    BY <2>1 DEF ClaimJobs
  <2>4. /\ p \in PoolRecord /\ p.held = pool[r].held - loop[r].res + n
        /\ p.running = pool[r].running /\ p.closing = pool[r].closing
        /\ p.errs = pool[r].errs /\ p.drain = pool[r].drain
    <3>1. CASE n < loop[r].res
      <4>1. loop[r].res - n \in Nat /\ loop[r].res - n <= pool[r].held  BY <1>0, <2>2, <3>1
      <4>2. p = Released(pool[r], loop[r].res - n)  BY <3>1
      <4>. HIDE DEF p
      <4>3. /\ p \in PoolRecord /\ p.held = pool[r].held - (loop[r].res - n)
            /\ p.running = pool[r].running /\ p.closing = pool[r].closing /\ p.errs = pool[r].errs
            /\ p.drain # pool[r].drain => p.held = 0
        BY <1>0, <4>1, <4>2, ReleasedType, ReleasedFields, Zenon
      <4>. QED  BY <1>0, <2>2, <3>1, <4>3
    <3>2. CASE ~(n < loop[r].res)
      <4>1. p = Admitted(pool[r], n - loop[r].res) /\ n - loop[r].res \in Nat
        BY <1>0, <2>2, <3>2
      <4>. HIDE DEF p
      <4>. QED  BY <1>0, <2>2, <4>1 DEF Admitted, PoolRecord
    <3>. QED  BY <3>1, <3>2
  <2>. HIDE DEF p
  <2>5. /\ q \in PoolRecord /\ q.held = p.held /\ q.running = p.running + n
        /\ q.closing = p.closing /\ q.errs = p.errs /\ q.drain = p.drain
    BY <2>2, <2>4 DEF PoolRecord
  <2>. HIDE DEF q
  <2>6. /\ pool'[r].held = q.held /\ pool'[r].running = q.running
        /\ pool'[r].closing = q.closing /\ pool'[r].drain = q.drain /\ ~pool'[r].errs
    <3>1. pool'[r] = Taken(q)  BY <2>3 DEF Shape
    <3>. QED  BY <2>5, <3>1, TakenFields
  <2>7. /\ loop'[r].res = 0 /\ loop'[r].result = loop[r].result
        /\ loop'[r].pc = IF r \in UntilIdle /\ pool[r].errs THEN "leaving" ELSE pc
    BY <2>3, GoTakingErrFields DEF Shape
  <2>8. LoopOK(r)'  BY <1>0, <2>2, <2>4, <2>5, <2>6, <2>7 DEF LoopOK
  <2>9. DrainOK(r)'  BY <2>3, <2>4, <2>5, <2>6, <2>7 DEF RunnerOK, DrainOK
  <2>10. WakeOK(r)'  BY <2>7 DEF WakeOK
  <2>11. ErrorOK(r)'  BY <2>3, <2>6, <2>7 DEF RunnerOK, ErrorOK
  <2>. QED  BY <2>8, <2>9, <2>10, <2>11 DEF RunnerOK
<1>3. CASE \E g \in Permits, err \in BOOLEAN : EndDispatch(r, g, err)
  <2>1. PICK g \in Permits, err \in BOOLEAN : EndDispatch(r, g, err)  BY <1>3
  <2>2. /\ pool[r].running > 0 /\ pool'[r] = Finished(pool[r], err)
        /\ stop' = stop /\ loop' = loop
    BY <2>1 DEF EndDispatch, Shape
  <2>3. /\ pool'[r].held = pool[r].held /\ pool'[r].limit = pool[r].limit
        /\ pool'[r].woken = pool[r].woken /\ pool'[r].drain = pool[r].drain
        /\ pool'[r].running = pool[r].running - 1 /\ pool'[r].closing = pool[r].closing + 1
    BY <1>0, <2>2, FinishedFields
  <2>4. pool'[r].errs <=> pool[r].errs \/ err  
    <3>1. Finished(pool[r], err).errs <=> pool[r].errs \/ err  BY <1>0, <2>2, FinishedFields, Zenon
    <3>. QED  BY <2>2, <3>1, Zenon
  <2>5. failed'[r] <=> failed[r] \/ err
    <3>1. failed'[r] = (failed[r] \/ err)  BY <2>1, Zenon DEF EndDispatch, Shape
    <3>. QED  BY <3>1, Zenon
  <2>6. LoopOK(r)'  BY <1>0, <2>2, <2>3 DEF LoopOK
  <2>7. DrainOK(r)'  BY <1>0, <2>2, <2>3 DEF RunnerOK, DrainOK
  <2>8. WakeOK(r)'  BY <2>2, <2>3 DEF RunnerOK, WakeOK
  <2>9. ErrorOK(r)'
    <3>1. pool[r].held # 0  BY <1>0, <2>2
    <3>. QED  BY <2>2, <2>3, <2>4, <2>5, <3>1, Zenon DEF RunnerOK, ErrorOK
  <2>. QED  BY <2>6, <2>7, <2>8, <2>9 DEF RunnerOK
<1>4. CASE FreeSlot(r)
  <2>1. /\ pool[r].closing > 0 /\ pool'[r] = Released(Closed(pool[r]), 1)
        /\ stop' = stop /\ failed' = failed /\ loop' = loop
    BY <1>4 DEF FreeSlot, Shape
  <2>2. /\ Closed(pool[r]) \in PoolRecord /\ Closed(pool[r]).held = pool[r].held
        /\ Closed(pool[r]).limit = pool[r].limit /\ Closed(pool[r]).drain = pool[r].drain
        /\ Closed(pool[r]).running = pool[r].running /\ Closed(pool[r]).closing = pool[r].closing - 1
        /\ Closed(pool[r]).errs = pool[r].errs
    BY <1>0, <2>1, ClosedFields
  <2>3. 1 <= Closed(pool[r]).held  BY <1>0, <2>1, <2>2
  <2>4. /\ pool'[r].held = pool[r].held - 1 /\ pool'[r].running = pool[r].running
        /\ pool'[r].closing = pool[r].closing - 1 /\ pool'[r].errs = pool[r].errs
        /\ pool'[r].woken
        /\ pool'[r].drain # pool[r].drain => pool'[r].drain = "freed" /\ pool[r].drain = "waiting"
                                             /\ pool'[r].held = 0
    BY <2>1, <2>2, <2>3, ReleasedFields
  <2>5. LoopOK(r)'  BY <1>0, <2>1, <2>4 DEF LoopOK
  <2>6. DrainOK(r)'
    <3>1. pool[r].drain \notin {"freed", "drained"}  BY <1>0, <2>1 DEF RunnerOK, DrainOK
    <3>2. pool'[r].held = 0 => /\ pool'[r].running = 0 /\ pool'[r].closing = 0
                               /\ loop[r].pc # "claim"
      <4>1. pool'[r].held = 0 => pool[r].running = 0 /\ pool[r].closing = 1 /\ loop[r].res = 0
        <5>1. pool'[r].held = loop[r].res + pool[r].running + pool[r].closing - 1
          BY <1>0, <2>4
        <5>2. pool[r].closing > 0  BY <2>1
        <5>3. HAVE pool'[r].held = 0
        <5>4. loop[r].res + pool[r].running + pool[r].closing - 1 = 0  BY <5>1, <5>3
        <5>5. loop[r].res \in Nat /\ pool[r].running \in Nat /\ pool[r].closing \in Nat  BY <1>0
        <5>. QED  BY <5>2, <5>4, <5>5, SumOne
      <4>. QED  BY <1>0, <2>4, <4>1
    <3>3. pool'[r].drain # "none" => pool[r].drain # "none"  BY <2>4
    <3>. QED  BY <2>1, <2>4, <3>1, <3>2, <3>3 DEF RunnerOK, DrainOK
  <2>7. WakeOK(r)'  BY <2>4 DEF WakeOK
  <2>8. ErrorOK(r)'
    <3>1. pool[r].held # 0  BY <1>0, <2>1
    <3>. QED  BY <2>1, <2>4, <3>1 DEF RunnerOK, ErrorOK
  <2>. QED  BY <2>5, <2>6, <2>7, <2>8 DEF RunnerOK
<1>. QED  BY <1>1, <1>2, <1>3, <1>4

LEMMA RunnerHost ==
    ASSUME Shape, Shape', NEW r \in Runners, RunnerOK(r), Host(r)
    PROVE  RunnerOK(r)'
<1>0. /\ pool[r] \in PoolRecord /\ loop[r] \in LoopRecord
      /\ loop[r].res \in Nat /\ pool[r].held \in Nat
      /\ pool[r].running \in Nat /\ pool[r].closing \in Nat
      /\ pool[r].held = loop[r].res + pool[r].running + pool[r].closing
      /\ loop[r].pc \in {"gate", "claim"} <=> loop[r].res > 0
  BY RecordTypes DEF RunnerOK, LoopOK
<1>1. CASE Stop(r)
  <2>1. stop'[r] /\ loop' = loop /\ pool' = pool /\ failed' = failed  BY <1>1 DEF Stop, Shape
  <2>. QED  BY <2>1 DEF RunnerOK, LoopOK, DrainOK, WakeOK, ErrorOK
<1>2. CASE CancelContext(r)
  <2>1. Same(r)  BY <1>2 DEF CancelContext, Same
  <2>. QED  BY <2>1, SameKeeps
<1>3. CASE DrainWaits(r) \/ DrainReturns(r)
  <2>1. PICK d \in {"waiting", "freed", "drained", "timedOut"} :
           /\ pool' = [pool EXCEPT ![r] = [@ EXCEPT !.drain = d]]
           /\ d \in {"freed", "drained"} => pool[r].held = 0 \/ pool[r].drain = "freed"
           /\ stop[r] \/ pool[r].drain # "none"
           /\ loop' = loop /\ stop' = stop /\ failed' = failed
    <3>1. CASE DrainWaits(r)
      <4>1. CASE pool[r].held = 0  BY <3>1, <4>1 DEF DrainWaits
      <4>2. CASE pool[r].held # 0  BY <3>1, <4>2 DEF DrainWaits
      <4>. QED  BY <4>1, <4>2
    <3>2. CASE DrainReturns(r)
      <4>1. CASE pool[r].drain = "freed"  BY <3>2, <4>1 DEF DrainReturns
      <4>2. CASE pool[r].drain = "waiting"
        <5>1. /\ pool' = [pool EXCEPT ![r] = [@ EXCEPT !.drain = "timedOut"]]
              /\ loop' = loop /\ stop' = stop /\ failed' = failed
          BY <3>2, <4>2 DEF DrainReturns
        <5>. QED  BY <4>2, <5>1
      <4>. QED  BY <3>2, <4>1, <4>2 DEF DrainReturns
    <3>. QED  BY <1>3, <3>1, <3>2
  <2>2. /\ pool'[r].held = pool[r].held /\ pool'[r].limit = pool[r].limit
        /\ pool'[r].woken = pool[r].woken /\ pool'[r].drain = d
        /\ pool'[r].running = pool[r].running /\ pool'[r].closing = pool[r].closing
        /\ pool'[r].errs = pool[r].errs
    BY <1>0, <2>1 DEF Shape, PoolRecord
  <2>3. LoopOK(r)' /\ WakeOK(r)' /\ ErrorOK(r)'
    BY <2>1, <2>2 DEF RunnerOK, LoopOK, WakeOK, ErrorOK
  <2>4. DrainOK(r)'
    <3>1. pool[r].held = 0 => pool[r].running = 0 /\ pool[r].closing = 0 /\ loop[r].res = 0
      <4>. DEFINE a == loop[r].res
                  b == pool[r].running
                  c == pool[r].closing
      <4>1. a \in Nat /\ b \in Nat /\ c \in Nat /\ pool[r].held = a + b + c  BY <1>0
      <4>. HIDE DEF a, b, c
      <4>2. a + b + c = 0 => a = 0 /\ b = 0 /\ c = 0  BY <4>1, SumZero
      <4>. QED  BY <4>1, <4>2 DEF a, b, c
    <3>. QED  BY <1>0, <2>1, <2>2, <3>1 DEF RunnerOK, DrainOK
  <2>. QED  BY <2>3, <2>4 DEF RunnerOK
<1>4. CASE Die(r)
  <2>1. /\ loop'[r].pc = "dead" /\ loop'[r].res = 0 /\ loop'[r].result = "none"
        /\ pool'[r].held = 0 /\ pool'[r].running = 0 /\ pool'[r].closing = 0
        /\ pool'[r].drain = "none"
    BY <1>4 DEF Die, NewLoop, NewPool, Shape
  <2>. QED  BY <2>1 DEF RunnerOK, LoopOK, DrainOK, WakeOK, ErrorOK
<1>. QED  BY <1>1, <1>2, <1>3, <1>4 DEF Host

LEMMA InvInit == Init => Inv
BY TypeInit, RunnerInit DEF Inv

LEMMA InvStep == Inv /\ [Next]_vars => Inv'
<1>. SUFFICES ASSUME Inv, [Next]_vars PROVE Inv'  OBVIOUS
<1>1. Shape /\ Shape'  BY TypeStep DEF Inv
<1>2. \A s \in Runners : RunnerOK(s)  BY DEF Inv
<1>3. CASE World \/ UNCHANGED vars
  <2>1. \A s \in Runners : Same(s)
    BY <1>3 DEF World, Operator, Insert, SweepReclaims, PauseQueue, ResumeQueue, SetQueueConcurrency,
                SetLimiterBudget, Lapse, vars, Same
  <2>. QED  BY <1>1, <1>2, <2>1, SameKeeps DEF Inv
<1>4. ASSUME NEW r \in Runners, Loop(r) \/ Dispatch(r) \/ Host(r) PROVE Inv'
  <2>1. RunnerOK(r)'
    <3>1. CASE Loop(r) \/ Dispatch(r)
      BY <1>1, <1>2, <3>1, RunnerMoves, RunnerYields, RunnerPool, RunnerPermits
         DEF Loop, Dispatch, Top, Slots, Gate, Claim, Idle, Count
    <3>2. CASE Host(r)  BY <1>1, <1>2, <3>2, RunnerHost
    <3>. QED  BY <1>4, <3>1, <3>2
  <2>2. \A s \in Runners \ {r} : RunnerOK(s)'  BY <1>1, <1>2, <1>4, Frame, SameKeeps
  <2>. QED  BY <1>1, <2>1, <2>2 DEF Inv
<1>. QED  BY <1>3, <1>4 DEF Next

LEMMA Invariance == Spec => []Inv
BY InvInit, InvStep, PTL DEF Spec

\* What died or failed to release is counted.
LEMMA ReleaseLeft ==
    ASSUME LeftBehind, NEW g \in Permits, NEW n \in Nat, Release(g, n)
    PROVE  stranded' \in [Grants -> Nat]
<1>1. CASE stranded' = stranded  BY <1>1 DEF LeftBehind
<1>2. CASE g \in Grants /\ stranded' = [stranded EXCEPT ![g] = @ + n]  BY <1>2 DEF LeftBehind
<1>. QED  BY <1>1, <1>2 DEF Release, limiter, Permits

LEMMA LeftStep == ASSUME Inv, LeftBehind, [Next]_vars PROVE LeftBehind'
<1>1. CASE UNCHANGED <<stuck, stranded>>  BY <1>1 DEF LeftBehind
<1>2. ASSUME NEW r \in Runners, Loop(r) \/ Dispatch(r) \/ Host(r) PROVE LeftBehind'
  <2>0. /\ loop[r] \in LoopRecord /\ pool[r] \in PoolRecord
        /\ loop[r].permits \in Nat /\ loop[r].grant \in Permits
        /\ queue \in Nat /\ \A g \in Permits : work[r][g] \in Nat
    BY DEF Inv, Shape, LoopRecord
  <2>1. CASE \E g \in Grants, n \in 1..loop[r].res : AdmitGranted(r, g, n)
    BY <2>1 DEF AdmitGranted, LeftBehind
  <2>2. CASE ClaimNone(r)
    BY <2>0, <2>2, ReleaseLeft DEF ClaimNone, LeftBehind
  <2>3. CASE \E n \in 1..queue : ClaimJobs(r, n)
    <3>1. PICK n \in 1..queue : ClaimJobs(r, n)  BY <2>3
    <3>2. UnusedPermits(n, loop[r].permits) \in Nat  BY <2>0 DEF Least, UnusedPermits
    <3>3. Release(loop[r].grant, UnusedPermits(n, loop[r].permits)) /\ stuck' = stuck
      BY <3>1 DEF ClaimJobs
    <3>. QED  BY <2>0, <3>2, <3>3, ReleaseLeft DEF LeftBehind
  <2>4. CASE \E g \in Permits, err \in BOOLEAN : EndDispatch(r, g, err)
    <3>1. PICK g \in Permits, err \in BOOLEAN : EndDispatch(r, g, err)  BY <2>4
    <3>2. stuck' = stuck \/ stuck' = stuck + 1  BY <3>1, Zenon DEF EndDispatch
    <3>3. Release(g, 1)  BY <3>1, Zenon DEF EndDispatch
    <3>. QED  BY <3>2, <3>3, ReleaseLeft DEF LeftBehind
  <2>5. CASE Die(r)
    <3>1. stuck' \in Nat  BY <2>0, <2>5 DEF Die, LeftBehind, PoolRecord
    <3>2. \A g \in Grants : work[r][g] \in Nat /\ stranded[g] \in Nat
      BY <2>0 DEF LeftBehind, Permits
    <3>3. stranded' \in [Grants -> Nat]  BY <2>0, <2>5, <3>2 DEF Die, Carried
    <3>. QED  BY <3>1, <3>3 DEF LeftBehind
  <2>6. CASE \/ Top(r) \/ Slots(r) \/ Idle(r) \/ Count(r) \/ InlineDone(r) \/ FreeSlot(r)
             \/ GateStops(r) \/ AdmitUnlimited(r) \/ AdmitFails(r) \/ AdmitDenied(r)
             \/ Stop(r) \/ CancelContext(r) \/ DrainWaits(r) \/ DrainReturns(r)
    <3>1. UNCHANGED <<stuck, stranded>>
      BY <2>6, Zenon DEF Top, Slots, Idle, Count, InlineDone, FreeSlot, GateStops, AdmitUnlimited,
             AdmitFails, AdmitDenied, Stop, CancelContext, DrainWaits, DrainReturns,
             TopEnds, TopCached, TopRefresh, Reserve, ReserveWakes, ReserveEnds, ReserveTimesOut,
             SleepEnds, IdleSleeps, IdleWaits, IdleEnds, CountsNone, CountsPending, Leave, limiter
    <3>. QED  BY <1>1, <3>1
  <2>. QED  BY <1>2, <2>1, <2>2, <2>3, <2>4, <2>5, <2>6 DEF Loop, Dispatch, Host, Gate, Claim
<1>3. CASE World
  <2>1. CASE SweepReclaims  BY <2>1 DEF SweepReclaims, LeftBehind, limiter
  <2>2. CASE Insert \/ Operator \/ \E g \in Grants : Lapse(g)
    <3>1. UNCHANGED <<stuck, stranded>>
      BY <2>2, Zenon DEF Insert, Operator, Lapse, PauseQueue, ResumeQueue, SetQueueConcurrency,
                         SetLimiterBudget, limiter
    <3>. QED  BY <1>1, <3>1
  <2>. QED  BY <1>3, <2>1, <2>2 DEF World
<1>. QED  BY <1>1, <1>2, <1>3 DEF Next, vars, limiter

----------------------------------------------------------------------------

\* For any Runners, pools and Limiters, every variable keeps its shape: no slot,
\* permit or job count of runner.go or limiter_db.go goes below zero.
THEOREM TypeCorrect == Spec => []TypeOK
<1>1. Init => LeftBehind  BY DEF Init, NewLimiter, LeftBehind
<1>2. Inv /\ LeftBehind /\ [Next]_vars => LeftBehind'  BY LeftStep
<1>3. Inv /\ LeftBehind => TypeOK  BY DEF Inv, Shape, LeftBehind, TypeOK
<1>. QED  BY <1>1, <1>2, <1>3, Invariance, PTL DEF Spec

\* pool.held is exact on every path of run, admit and claimAndDispatch.
THEOREM SlotSafety == Spec => []SlotsExact
<1>1. Inv => SlotsExact  BY DEF Inv, RunnerOK, LoopOK, SlotsExact
<1>. QED  BY <1>1, Invariance, PTL

\* pool.reserve misses no release that happens between its look and its wait.
THEOREM WakeSafety == Spec => []NoLostWakeup
<1>1. Inv => NoLostWakeup  BY DEF Inv, RunnerOK, WakeOK, NoLostWakeup
<1>. QED  BY <1>1, Invariance, PTL

\* A Drain that returned nil leaves nothing executing and no claim to come.
THEOREM DrainSafety == Spec => []DrainMeansEmpty
<1>1. Inv => DrainMeansEmpty  BY DEF Inv, RunnerOK, DrainOK, DrainMeansEmpty
<1>. QED  BY <1>1, Invariance, PTL

\* RunUntilIdle never returns nil over a dispatch error of its own.
THEOREM IdleSafety == Spec => []IdleReportsErrors
<1>1. Inv => IdleReportsErrors  BY DEF Inv, RunnerOK, ErrorOK, IdleReportsErrors
<1>. QED  BY <1>1, Invariance, PTL

----------------------------------------------------------------------------
(* Sums of counts, as the number of the units counted. *)

LEMMA UnitsAre ==
    ASSUME NEW S, NEW f \in [S -> Nat]
    PROVE  \A u : u \in Units(f) <=> \E x \in S : \E i \in 1..f[x] : u = <<x, i>>
<1>1. \A u : u \in Units(f) <=> \E x \in S : u \in {x} \X (1..f[x])  BY DEF Units
<1>2. ASSUME NEW x \in S, NEW u
      PROVE  u \in {x} \X (1..f[x]) <=> \E i \in 1..f[x] : u = <<x, i>>
  OBVIOUS
<1>. QED  BY <1>1, <1>2

\* The units of one count.
LEMMA OwnUnits ==
    ASSUME NEW x, NEW n \in Nat
    PROVE  IsFiniteSet({x} \X (1..n)) /\ Cardinality({x} \X (1..n)) = n
<1>1. IsFiniteSet({x}) /\ Cardinality({x}) = 1  BY FS_Singleton, Zenon
<1>2. IsFiniteSet(1..n) /\ Cardinality(1..n) = IF 1 > n THEN 0 ELSE n - 1 + 1  BY FS_Interval
<1>3. Cardinality(1..n) = n  BY <1>2
<1>4. /\ IsFiniteSet({x} \X (1..n))
      /\ Cardinality({x} \X (1..n)) = Cardinality({x}) * Cardinality(1..n)
  BY <1>1, <1>2, FS_Product
<1>. QED  BY <1>1, <1>3, <1>4

LEMMA UnitsFinite ==
    ASSUME NEW S, IsFiniteSet(S), NEW f \in [S -> Nat]
    PROVE  IsFiniteSet(Units(f)) /\ Total(f) \in Nat
<1>. DEFINE F == [x \in S |-> {x} \X (1..f[x])]
            R == {F[x] : x \in S}
<1>1. ASSUME NEW x \in S PROVE IsFiniteSet(F[x])
  <2>1. f[x] \in Nat /\ F[x] = {x} \X (1..f[x])  OBVIOUS
  <2>. QED  BY <2>1, OwnUnits
<1>2. F \in Surjection(S, R)  BY DEF Surjection
<1>3. IsFiniteSet(R)
  <2>. HIDE DEF F, R
  <2>. QED  BY <1>2, FS_Surjection
<1>4. \A T \in R : IsFiniteSet(T)  BY <1>1
<1>5. Units(f) = UNION R  BY DEF Units
<1>. HIDE DEF R, F
<1>6. IsFiniteSet(Units(f))  BY <1>3, <1>4, <1>5, FS_UNION
<1>. QED  BY <1>6, FS_CardinalityType DEF Total

\* A sum of larger counts is no smaller.
LEMMA TotalMono ==
    ASSUME NEW S, IsFiniteSet(S), NEW f \in [S -> Nat], NEW h \in [S -> Nat],
           \A x \in S : f[x] <= h[x]
    PROVE  Total(f) <= Total(h)
<1>1. ASSUME NEW u \in Units(f) PROVE u \in Units(h)
  <2>1. PICK x \in S : \E i \in 1..f[x] : u = <<x, i>>  BY UnitsAre
  <2>2. PICK i \in 1..f[x] : u = <<x, i>>  BY <2>1
  <2>3. i \in 1..h[x]
    <3>1. f[x] \in Nat /\ h[x] \in Nat /\ f[x] <= h[x]  OBVIOUS
    <3>. QED  BY <3>1
  <2>. QED  BY <2>2, <2>3, UnitsAre
<1>2. Units(f) \in SUBSET Units(h)  BY <1>1
<1>. QED  BY <1>2, UnitsFinite, FS_Subset DEF Total

\* One count is part of the sum, and the rest does not depend on it.
LEMMA TotalChange ==
    ASSUME NEW S, IsFiniteSet(S), NEW f \in [S -> Nat], NEW h \in [S -> Nat],
           NEW x \in S, \A y \in S \ {x} : h[y] = f[y]
    PROVE  f[x] <= Total(f) /\ Total(h) = Total(f) - f[x] + h[x]
<1>. DEFINE Rest(k) == Units(k) \ ({x} \X (1..k[x]))
<1>1. ASSUME NEW k \in [S -> Nat]
      PROVE  Total(k) = Cardinality(Rest(k)) + k[x] /\ Cardinality(Rest(k)) \in Nat
  <2>. DEFINE own == {x} \X (1..k[x])
  <2>1. IsFiniteSet(own) /\ Cardinality(own) = k[x] /\ k[x] \in Nat
    <3>1. k[x] \in Nat  OBVIOUS
    <3>. QED  BY <3>1, OwnUnits
  <2>2. own \subseteq Units(k)  BY UnitsAre
  <2>3. IsFiniteSet(Units(k)) /\ Total(k) = Cardinality(Units(k))  BY UnitsFinite DEF Total
  <2>4. IsFiniteSet(Rest(k))  BY <2>3, FS_Subset
  <2>5. Rest(k) \cup own = Units(k) /\ Rest(k) \cap own = {}  BY <2>2
  <2>. HIDE DEF own, Rest
  <2>6. Cardinality(Units(k)) = Cardinality(Rest(k)) + Cardinality(own) - Cardinality({})
    BY <2>1, <2>4, <2>5, FS_Union
  <2>7. Cardinality({}) = 0 /\ Cardinality(Rest(k)) \in Nat  BY <2>4, FS_EmptySet, FS_CardinalityType
  <2>. QED  BY <2>1, <2>3, <2>6, <2>7
<1>2. Rest(f) = Rest(h)
  <2>1. ASSUME NEW a \in [S -> Nat], NEW b \in [S -> Nat], \A y \in S \ {x} : a[y] = b[y],
               NEW u \in Rest(a)
        PROVE  u \in Rest(b)
    <3>0. PICK y \in S : \E i \in 1..a[y] : u = <<y, i>>  BY <2>1, UnitsAre
    <3>1. PICK i \in 1..a[y] : u = <<y, i>>  BY <3>0
    <3>2. y # x  BY <2>1, <3>1
    <3>3. i \in 1..b[y]  BY <2>1, <3>2
    <3>4. u \in Units(b)  BY <3>1, <3>3, UnitsAre
    <3>. QED  BY <3>1, <3>2, <3>4
  <2>2. Rest(f) \subseteq Rest(h)
    <3>. HIDE DEF Rest
    <3>. QED  BY <2>1
  <2>3. Rest(h) \subseteq Rest(f)
    <3>. HIDE DEF Rest
    <3>. QED  BY <2>1
  <2>. QED  BY <2>2, <2>3
<1>. HIDE DEF Rest
<1>. QED  BY <1>1, <1>2

(* The permits: what each hold has is what its holders still carry. *)

\* Only a loop about to claim carries a grant.
CarriesOK == \A r \in Runners : loop[r].pc # "claim" => loop[r].grant = NoGrant

PermitInv == CarriesOK /\ PermitsExact

\* What counts against the cap under g.
Unlapsed(g) == IF lapsed[g] THEN 0 ELSE Owed(g)

LEMMA CarriedType ==
    ASSUME Shape, NEW r \in Runners, NEW g \in Grants
    PROVE  Carried(r, g) \in Nat
<1>1. work[r][g] \in Nat /\ loop[r].permits \in Nat  BY DEF Shape, Permits, LoopRecord
<1>. QED  BY <1>1 DEF Carried

LEMMA CarriedTypeNext ==
    ASSUME Shape', NEW r \in Runners, NEW g \in Grants
    PROVE  Carried(r, g)' \in Nat
<1>1. work'[r][g] \in Nat /\ loop'[r].permits \in Nat  BY DEF Shape, Permits, LoopRecord
<1>. QED  BY <1>1 DEF Carried

LEMMA OwedNext ==
    ASSUME NEW g \in Grants
    PROVE  Owed(g)' = Total([s \in Runners |-> Carried(s, g)'])
BY Zenon DEF Owed, Total, Units, Carried

\* A step of one Runner moves what is owed by what it moves itself.
LEMMA OwedStep ==
    ASSUME Shape, Shape', NEW r \in Runners, NEW g \in Grants,
           \A s \in Runners \ {r} : Carried(s, g)' = Carried(s, g)
    PROVE  /\ Owed(g) \in Nat /\ Owed(g)' \in Nat /\ Carried(r, g) <= Owed(g)
           /\ Owed(g)' = Owed(g) - Carried(r, g) + Carried(r, g)'
<1>. DEFINE f == [s \in Runners |-> Carried(s, g)]
            h == [s \in Runners |-> Carried(s, g)']
<1>1. f \in [Runners -> Nat]  BY CarriedType
<1>2. h \in [Runners -> Nat]  BY CarriedTypeNext
<1>3. /\ f[r] = Carried(r, g) /\ h[r] = Carried(r, g)'
      /\ \A s \in Runners \ {r} : h[s] = f[s]
  OBVIOUS
<1>4. Owed(g) = Total(f)  BY DEF Owed
<1>5. Owed(g)' = Total(h)  BY OwedNext
<1>. HIDE DEF f, h
<1>6. f[r] <= Total(f) /\ Total(h) = Total(f) - f[r] + h[r]
  BY <1>1, <1>2, <1>3, TotalChange, RunnerAssumption
<1>7. Total(f) \in Nat /\ Total(h) \in Nat  BY <1>1, <1>2, UnitsFinite, RunnerAssumption
<1>. QED  BY <1>3, <1>4, <1>5, <1>6, <1>7

LEMMA OwedSame ==
    ASSUME Shape, Shape', NEW g \in Grants, \A s \in Runners : Carried(s, g)' = Carried(s, g)
    PROVE  Owed(g) \in Nat /\ Owed(g)' = Owed(g)
<1>. DEFINE f == [s \in Runners |-> Carried(s, g)]
            h == [s \in Runners |-> Carried(s, g)']
<1>1. f \in [Runners -> Nat]  BY CarriedType
<1>2. f = h  OBVIOUS
<1>4. Owed(g) = Total(f)  BY DEF Owed
<1>5. Owed(g)' = Total(h)  BY OwedNext
<1>. HIDE DEF f, h
<1>. QED  BY <1>1, <1>2, <1>4, <1>5, UnitsFinite, RunnerAssumption

LEMMA OutFalls ==
    ASSUME \A g \in Grants : /\ Unlapsed(g) \in Nat /\ Unlapsed(g)' \in Nat
                             /\ Unlapsed(g)' <= Unlapsed(g)
    PROVE  Out' <= Out
<1>. DEFINE f == [g \in Grants |-> Unlapsed(g)']
            h == [g \in Grants |-> Unlapsed(g)]
<1>1. f \in [Grants -> Nat] /\ h \in [Grants -> Nat] /\ \A g \in Grants : f[g] <= h[g]  OBVIOUS
<1>2. Out = Total(h)  BY DEF Out, Unlapsed
<1>3. Out' = Total(f)  BY Zenon DEF Out, Unlapsed, Total, Units
<1>. HIDE DEF f, h
<1>. QED  BY <1>1, <1>2, <1>3, TotalMono, LimiterAssumption

\* What is out is held.
LEMMA OutHeld ==
    ASSUME hold' \in [Grants -> Nat],
           \A g \in Grants : Unlapsed(g)' \in Nat /\ Unlapsed(g)' <= hold'[g]
    PROVE  Out' <= Total(hold')
<1>. DEFINE f == [g \in Grants |-> Unlapsed(g)']
<1>1. f \in [Grants -> Nat] /\ \A g \in Grants : f[g] <= hold'[g]  OBVIOUS
<1>3. Out' = Total(f)  BY Zenon DEF Out, Unlapsed, Total, Units
<1>. HIDE DEF f
<1>. QED  BY <1>1, <1>3, TotalMono, LimiterAssumption

Kept == PermitInv' /\ (hold' # hold => Out' <= Out \/ Out' <= CapInForce)

\* The loop lets go of its grant, or never had one.
LEMMA GoGrant ==
    ASSUME Shape, NEW r \in Runners, NEW pc \in Pcs, Go(r, pc)
    PROVE  loop'[r].grant = NoGrant
BY DEF Go, NewLoop, Shape, LoopRecord

LEMMA GoTakingErrGrant ==
    ASSUME Shape, NEW r \in Runners, NEW pc \in Pcs, GoTakingErr(r, pc)
    PROVE  loop'[r].grant = NoGrant
<1>1. CASE r \in UntilIdle /\ pool[r].errs
  <2>1. Go(r, "leaving")  BY <1>1 DEF GoTakingErr
  <2>. QED  BY <2>1, GoGrant DEF Pcs
<1>2. CASE ~(r \in UntilIdle /\ pool[r].errs)
  <2>1. Go(r, pc)  BY <1>2 DEF GoTakingErr
  <2>. QED  BY <2>1, GoGrant
<1>. QED  BY <1>1, <1>2

LEMMA PollErrorGrant ==
    ASSUME Shape, NEW r \in Runners, PollError(r)
    PROVE  loop'[r].grant = NoGrant
BY GoGrant, GoTakingErrGrant DEF PollError, Pcs

\* A step that moves no permit.
LEMMA QuietKeeps ==
    ASSUME Shape, Shape', PermitInv, UNCHANGED <<work, hold, lapsed, stranded>>,
           \A s \in Runners : \/ loop'[s] = loop[s]
                              \/ loop[s].grant = NoGrant /\ loop'[s].grant = NoGrant
    PROVE  Kept
<1>1. ASSUME NEW g \in Grants, NEW s \in Runners PROVE Carried(s, g)' = Carried(s, g)
  <2>1. g # NoGrant  BY LimiterAssumption
  <2>2. CASE loop'[s] = loop[s]  BY <2>2 DEF Carried
  <2>3. CASE loop[s].grant = NoGrant /\ loop'[s].grant = NoGrant  BY <2>1, <2>3 DEF Carried
  <2>. QED  BY <2>2, <2>3
<1>2. \A g \in Grants : Owed(g)' = Owed(g)  BY <1>1, OwedSame
<1>3. PermitsExact'  BY <1>2 DEF PermitInv, PermitsExact
<1>4. CarriesOK'  BY DEF PermitInv, CarriesOK
<1>. QED  BY <1>3, <1>4 DEF Kept, PermitInv

\* The steps of the loop outside the Limiter, and its denials.
LEMMA PermitsQuiet ==
    ASSUME Shape, Shape', PermitInv, NEW r \in Runners,
           \/ Top(r) \/ Slots(r) \/ Idle(r) \/ Count(r) \/ InlineDone(r)
           \/ GateStops(r) \/ AdmitUnlimited(r) \/ AdmitFails(r) \/ AdmitDenied(r)
    PROVE  Kept
<1>. USE DEF Pcs
<1>1. loop[r].pc # "claim" /\ UNCHANGED <<work, hold, lapsed, stranded>>
  BY Zenon DEF Top, Slots, Idle, Count, InlineDone, GateStops, AdmitUnlimited, AdmitFails,
         AdmitDenied, TopEnds, TopCached, TopRefresh, Reserve, ReserveWakes, ReserveEnds,
         ReserveTimesOut, SleepEnds, IdleSleeps, IdleWaits, IdleEnds, CountsNone, CountsPending,
         Leave, limiter
<1>2. loop[r].grant = NoGrant  BY <1>1 DEF PermitInv, CarriesOK
<1>3. loop'[r].grant = NoGrant
  <2>1. CASE Top(r)
    BY <2>1, GoGrant DEF Top, TopEnds, TopCached, TopRefresh
  <2>2. CASE Slots(r)
    <3>1. CASE Reserve(r)
      <4>. DEFINE n == Least(ClaimLimit(r), pool[r].limit - pool[r].held)
      <4>1. \/ loop' = [loop EXCEPT ![r] = [@ EXCEPT !.pc = "gate", !.res = n]]
            \/ Go(r, "parked")
        BY <3>1, Zenon DEF Reserve
      <4>. HIDE DEF n
      <4>2. CASE loop' = [loop EXCEPT ![r] = [@ EXCEPT !.pc = "gate", !.res = n]]
        BY <1>2, <4>2 DEF Shape, LoopRecord
      <4>. QED  BY <4>1, <4>2, GoGrant
    <3>2. CASE ReserveWakes(r) \/ ReserveEnds(r) \/ ReserveTimesOut(r)
      BY <3>2, GoGrant DEF ReserveWakes, ReserveEnds, ReserveTimesOut
    <3>. QED  BY <2>2, <3>1, <3>2 DEF Slots
  <2>3. CASE Idle(r)
    BY <2>3, GoGrant, GoTakingErrGrant DEF Idle, SleepEnds, IdleSleeps, IdleWaits, IdleEnds
  <2>4. CASE CountsNone(r)  BY <2>4 DEF CountsNone, NewLoop, Shape
  <2>5. CASE CountsPending(r)  BY <2>5, PollErrorGrant DEF CountsPending
  <2>6. CASE Leave(r)  BY <2>6, GoGrant DEF Leave
  <2>7. CASE InlineDone(r)  BY <2>7, GoTakingErrGrant DEF InlineDone
  <2>8. CASE GateStops(r)  BY <2>8, GoGrant DEF GateStops
  <2>9. CASE AdmitUnlimited(r)
    <3>1. loop'[r].grant = loop[r].grant  BY <2>9 DEF AdmitUnlimited, Shape, LoopRecord
    <3>. QED  BY <1>2, <3>1
  <2>10. CASE AdmitFails(r)  BY <2>10, PollErrorGrant DEF AdmitFails
  <2>11. CASE AdmitDenied(r)  BY <2>11, GoTakingErrGrant DEF AdmitDenied
  <2>. QED  BY <2>1, <2>2, <2>3, <2>4, <2>5, <2>6, <2>7, <2>8, <2>9, <2>10, <2>11 DEF Count
<1>4. Loop(r)  BY DEF Loop, Gate, Claim
<1>5. \A s \in Runners \ {r} : loop'[s] = loop[s]  BY <1>4, Frame DEF Same
<1>. QED  BY <1>1, <1>2, <1>3, <1>5, QuietKeeps

\* The steps that leave every loop alone, and the Limiter's holds.
LEMMA PermitsAside ==
    ASSUME Shape, Shape', PermitInv,
           \/ UNCHANGED vars \/ Insert \/ SweepReclaims \/ Operator
           \/ \E r \in Runners : \/ FreeSlot(r) \/ Stop(r) \/ CancelContext(r)
                                 \/ DrainWaits(r) \/ DrainReturns(r)
    PROVE  Kept
<1>1. UNCHANGED <<loop, work, hold, lapsed, stranded>>
  BY Zenon DEF vars, limiter, Insert, SweepReclaims, Operator, PauseQueue, ResumeQueue,
         SetQueueConcurrency, SetLimiterBudget, FreeSlot, Stop, CancelContext, DrainWaits,
         DrainReturns
<1>. QED  BY <1>1, QuietKeeps

\* A Runner gives back n of what it carries under h: the hold shrinks by as much,
\* or the release failed and as much is stranded under it.
LEMMA GivesBack ==
    ASSUME Shape, Shape', LeftBehind, LeftBehind', PermitInv, CarriesOK',
           NEW r \in Runners, NEW h \in Permits, NEW n \in Nat, Release(h, n),
           \A g \in Grants : Carried(r, g)' = Carried(r, g) - (IF g = h THEN n ELSE 0),
           \A g \in Grants, s \in Runners \ {r} : Carried(s, g)' = Carried(s, g)
    PROVE  Kept
<1>1. ASSUME NEW g \in Grants
      PROVE  /\ Owed(g) \in Nat /\ Owed(g)' \in Nat
             /\ g = h => Owed(g)' = Owed(g) - n
             /\ g # h => Owed(g)' = Owed(g)
  <2>1. Carried(r, g) \in Nat /\ Carried(r, g)' \in Nat  BY CarriedType, CarriedTypeNext
  <2>2. /\ Owed(g) \in Nat /\ Owed(g)' \in Nat
        /\ Owed(g)' = Owed(g) - Carried(r, g) + Carried(r, g)'
    BY OwedStep
  <2>3. Carried(r, g)' = Carried(r, g) - (IF g = h THEN n ELSE 0)  OBVIOUS
  <2>. QED  BY <2>1, <2>2, <2>3
<1>2. /\ lapsed' = lapsed
      /\ \A g \in Grants : g # h => hold'[g] = hold[g] /\ stranded'[g] = stranded[g]
  BY DEF Release, Returned, limiter, Shape, LeftBehind
<1>3. ASSUME h \in Grants
      PROVE  \/ hold'[h] = hold[h] - Least(n, hold[h]) /\ stranded'[h] = stranded[h]
             \/ hold[h] > 0 /\ hold'[h] = hold[h] /\ stranded'[h] = stranded[h] + n
  <2>1. h # NoGrant /\ hold[h] \in Nat  BY <1>3, LimiterAssumption DEF Shape
  <2>2. CASE n = 0
    <3>1. hold' = hold /\ stranded' = stranded  BY <2>2 DEF Release, limiter
    <3>2. Least(n, hold[h]) = 0  BY <2>1, <2>2 DEF Least
    <3>. QED  BY <2>1, <3>1, <3>2
  <2>3. CASE n # 0  BY <1>3, <2>1, <2>3 DEF Release, Returned, Shape, LeftBehind
  <2>. QED  BY <2>2, <2>3
<1>4. ASSUME NEW g \in Grants
      PROVE  hold'[g] = IF lapsed'[g] THEN 0 ELSE Owed(g)' + stranded'[g]
  <2>1. /\ hold[g] = IF lapsed[g] THEN 0 ELSE Owed(g) + stranded[g]
        /\ hold[g] \in Nat /\ stranded[g] \in Nat
    BY DEF PermitInv, PermitsExact, Shape, LeftBehind
  <2>2. CASE g # h  BY <1>1, <1>2, <2>1, <2>2
  <2>3. CASE g = h
    <3>1. Owed(g)' = Owed(g) - n /\ Owed(g) \in Nat /\ Owed(g)' \in Nat  BY <1>1, <2>3
    <3>2. \/ hold'[g] = hold[g] - Least(n, hold[g]) /\ stranded'[g] = stranded[g]
          \/ hold[g] > 0 /\ hold'[g] = hold[g] /\ stranded'[g] = stranded[g] + n
      BY <1>3, <2>3
    <3>3. CASE lapsed[g]
      <4>1. hold[g] = 0  BY <2>1, <3>3
      <4>2. Least(n, hold[g]) = 0  BY <4>1 DEF Least
      <4>. QED  BY <1>2, <3>2, <3>3, <4>1, <4>2
    <3>4. CASE ~lapsed[g]
      <4>1. hold[g] = Owed(g) + stranded[g]  BY <2>1, <3>4
      <4>2. n <= hold[g]  BY <2>1, <3>1, <4>1
      <4>3. Least(n, hold[g]) = n  BY <2>1, <4>2 DEF Least
      <4>4. hold'[g] = Owed(g)' + stranded'[g]  BY <2>1, <3>1, <3>2, <4>1, <4>3
      <4>. QED  BY <1>2, <3>4, <4>4
    <3>. QED  BY <3>3, <3>4
  <2>. QED  BY <2>2, <2>3
<1>5. PermitsExact'  BY <1>4 DEF PermitsExact
<1>6. ASSUME NEW g \in Grants
      PROVE  Unlapsed(g) \in Nat /\ Unlapsed(g)' \in Nat /\ Unlapsed(g)' <= Unlapsed(g)
  <2>1. Owed(g)' <= Owed(g)  BY <1>1
  <2>. QED  BY <1>1, <1>2, <2>1 DEF Unlapsed
<1>7. Out' <= Out  BY <1>6, OutFalls
<1>. QED  BY <1>5, <1>7 DEF Kept, PermitInv

\* A grant: a new hold within the room the cap leaves.
LEMMA PermitsGranted ==
    ASSUME Shape, Shape', LeftBehind, PermitInv, NEW r \in Runners,
           NEW h \in Grants, NEW n \in 1..loop[r].res, AdmitGranted(r, h, n)
    PROVE  Kept
<1>1. /\ loop[r].pc = "gate" /\ Unused(h) /\ n \in Nat /\ n <= Room
      /\ hold' = [hold EXCEPT ![h] = n] /\ lapsed' = [lapsed EXCEPT ![h] = FALSE]
      /\ stranded' = [stranded EXCEPT ![h] = 0] /\ work' = work
      /\ loop' = [loop EXCEPT ![r] =
                    [@ EXCEPT !.pc = "claim", !.res = n, !.grant = h, !.permits = n]]
  <2>1. n \in Nat  BY DEF Shape, LoopRecord
  <2>. QED  BY <2>1 DEF AdmitGranted, Grantable
<1>2. /\ loop'[r].pc = "claim" /\ loop'[r].grant = h /\ loop'[r].permits = n
      /\ \A s \in Runners \ {r} : loop'[s] = loop[s]
  <2>1. loop[r] \in LoopRecord  BY DEF Shape
  <2>. QED  BY <1>1, <2>1 DEF Shape, LoopRecord
<1>3. loop[r].grant = NoGrant  BY <1>1 DEF PermitInv, CarriesOK
<1>4. ASSUME NEW g \in Grants, NEW s \in Runners \ {r} PROVE Carried(s, g)' = Carried(s, g)
  BY <1>1, <1>2 DEF Carried
<1>5. ASSUME NEW g \in Grants
      PROVE  /\ Owed(g) \in Nat /\ Owed(g)' \in Nat
             /\ Owed(g)' = IF g = h THEN n ELSE Owed(g)
  <2>0. /\ Owed(g) \in Nat /\ Owed(g)' \in Nat
        /\ Owed(g)' = Owed(g) - Carried(r, g) + Carried(r, g)'
    BY <1>4, OwedStep
  <2>1. Carried(r, g) \in Nat /\ Carried(r, g)' \in Nat  BY CarriedType, CarriedTypeNext
  <2>2. work[r][g] \in Nat /\ g # NoGrant  BY LimiterAssumption DEF Shape, Permits
  <2>3. CASE g # h
    <3>1. Carried(r, g)' = Carried(r, g)  BY <1>1, <1>2, <1>3, <2>2, <2>3 DEF Carried
    <3>. QED  BY <2>0, <2>1, <2>3, <3>1
  <2>4. CASE g = h
    <3>1. \A s \in Runners : Carried(s, g) = 0
      BY <1>1, <2>4 DEF Carried, Unused
    <3>2. Owed(g) = 0
      <4>. DEFINE z == [s \in Runners |-> Carried(s, g)]
      <4>1. Units(z) = {}  BY <3>1 DEF Units
      <4>2. Owed(g) = Total(z)  BY DEF Owed
      <4>. QED  BY <4>1, <4>2, FS_EmptySet DEF Total
    <3>3. Carried(r, g)' = work[r][g] + n  BY <1>1, <1>2, <2>4 DEF Carried
    <3>4. work[r][g] = 0  BY <1>1, <2>4 DEF Unused
    <3>. QED  BY <1>1, <2>0, <2>4, <3>1, <3>2, <3>3, <3>4
  <2>. QED  BY <2>3, <2>4
<1>6. ASSUME NEW g \in Grants
      PROVE  hold'[g] = IF lapsed'[g] THEN 0 ELSE Owed(g)' + stranded'[g]
  <2>1. CASE g = h
    <3>1. hold'[g] = n /\ ~lapsed'[g] /\ stranded'[g] = 0 /\ Owed(g)' = n
      BY <1>1, <1>5, <2>1 DEF Shape, LeftBehind
    <3>. QED  BY <1>1, <3>1
  <2>2. CASE g # h
    <3>1. /\ hold'[g] = hold[g] /\ lapsed'[g] = lapsed[g] /\ stranded'[g] = stranded[g]
          /\ Owed(g)' = Owed(g)
      BY <1>1, <1>5, <2>2 DEF Shape, LeftBehind
    <3>. QED  BY <3>1 DEF PermitInv, PermitsExact
  <2>. QED  BY <2>1, <2>2
<1>7. PermitsExact'  BY <1>6 DEF PermitsExact
<1>8. CarriesOK'
  <2>1. ASSUME NEW s \in Runners PROVE loop'[s].pc # "claim" => loop'[s].grant = NoGrant
    BY <1>2 DEF PermitInv, CarriesOK
  <2>. QED  BY <2>1 DEF CarriesOK
<1>9. Out' <= CapInForce
  <2>1. ASSUME NEW g \in Grants PROVE Unlapsed(g)' \in Nat /\ Unlapsed(g)' <= hold'[g]
    <3>1. hold'[g] = IF lapsed'[g] THEN 0 ELSE Owed(g)' + stranded'[g]  BY <1>6
    <3>2. stranded'[g] \in Nat
      <4>1. stranded[g] \in Nat /\ (g = h => stranded'[g] = 0) /\ (g # h => stranded'[g] = stranded[g])
        BY <1>1 DEF LeftBehind
      <4>. QED  BY <4>1
    <3>3. Owed(g)' \in Nat  BY <1>5
    <3>. QED  BY <3>1, <3>2, <3>3 DEF Unlapsed
  <2>2. hold \in [Grants -> Nat] /\ hold' \in [Grants -> Nat]  BY DEF Shape
  <2>3. Out' <= Total(hold')  BY <2>1, <2>2, OutHeld
  <2>4. hold[h] = 0 /\ hold'[h] = n /\ \A g \in Grants \ {h} : hold'[g] = hold[g]
    BY <1>1, <2>2 DEF Unused
  <2>5. Total(hold') = Total(hold) - hold[h] + hold'[h]
    BY <2>2, <2>4, TotalChange, LimiterAssumption
  <2>6. Total(hold) \in Nat /\ Total(hold') \in Nat  BY <2>2, UnitsFinite, LimiterAssumption
  <2>7. CapInForce \in Int  BY PoolAssumption DEF CapInForce, Shape
  <2>8. n <= CapInForce - Total(hold)  BY <1>1 DEF Room, Holds
  <2>9. Total(hold') <= CapInForce  BY <1>1, <2>4, <2>5, <2>6, <2>7, <2>8
  <2>10. Out' \in Nat
    <3>. DEFINE f == [g \in Grants |-> Unlapsed(g)']
    <3>1. f \in [Grants -> Nat]  BY <2>1
    <3>2. Out' = Total(f)  BY Zenon DEF Out, Unlapsed, Total, Units
    <3>. HIDE DEF f
    <3>. QED  BY <3>1, <3>2, UnitsFinite, LimiterAssumption
  <2>. QED  BY <2>3, <2>6, <2>7, <2>9, <2>10
<1>. QED  BY <1>7, <1>8, <1>9 DEF Kept, PermitInv

\* claimAndDispatch without a job: the loop's permits go back.
LEMMA PermitsClaimNone ==
    ASSUME Shape, Shape', LeftBehind, LeftBehind', PermitInv, NEW r \in Runners, ClaimNone(r)
    PROVE  Kept
<1>. USE DEF Pcs
<1>1. work' = work /\ Release(loop[r].grant, loop[r].permits)  BY Zenon DEF ClaimNone
<1>2. loop[r].grant \in Permits /\ loop[r].permits \in Nat  BY DEF Shape, LoopRecord
<1>3. loop'[r].grant = NoGrant  BY PollErrorGrant, GoTakingErrGrant DEF ClaimNone
<1>4. \A s \in Runners \ {r} : loop'[s] = loop[s]
  <2>1. Loop(r)  BY DEF Loop, Claim
  <2>. QED  BY <2>1, Frame DEF Same
<1>5. CarriesOK'
  <2>1. ASSUME NEW s \in Runners PROVE loop'[s].pc # "claim" => loop'[s].grant = NoGrant
    BY <1>3, <1>4 DEF PermitInv, CarriesOK
  <2>. QED  BY <2>1 DEF CarriesOK
<1>6. ASSUME NEW g \in Grants
      PROVE  Carried(r, g)' = Carried(r, g) - (IF g = loop[r].grant THEN loop[r].permits ELSE 0)
  <2>1. g # NoGrant /\ work[r][g] \in Nat  BY LimiterAssumption DEF Shape, Permits
  <2>. QED  BY <1>1, <1>2, <1>3, <2>1 DEF Carried
<1>7. \A g \in Grants, s \in Runners \ {r} : Carried(s, g)' = Carried(s, g)
  BY <1>1, <1>4 DEF Carried
<1>. QED  BY <1>1, <1>2, <1>5, <1>6, <1>7, GivesBack

\* claimAndDispatch with jobs: each takes a permit along, the others go back.
LEMMA PermitsClaimJobs ==
    ASSUME Shape, Shape', LeftBehind, LeftBehind', PermitInv, NEW r \in Runners,
           NEW n \in 1..queue, ClaimJobs(r, n)
    PROVE  Kept
<1>. USE DEF Pcs
<1>. DEFINE h == loop[r].grant
            p == loop[r].permits
            k == Least(n, p)
<1>0. n \in Nat /\ p \in Nat /\ h \in Permits /\ k \in Nat /\ p - k \in Nat
  <2>1. n \in Nat /\ p \in Nat /\ h \in Permits  BY DEF Shape, LoopRecord
  <2>. HIDE DEF p
  <2>. QED  BY <2>1 DEF Least
<1>1. /\ Release(h, p - k)
      /\ work' = [work EXCEPT ![r] =
                    [g \in Permits |-> work[r][g] + (IF g = h THEN k ELSE 0)
                                         + (IF g = NoGrant THEN n - k ELSE 0)]]
  BY Zenon DEF ClaimJobs, UnusedPermits
<1>3. loop'[r].grant = NoGrant
  <2>1. PICK pc \in {"inline", "top"} : GoTakingErr(r, pc)  BY DEF ClaimJobs
  <2>. QED  BY <2>1, GoTakingErrGrant
<1>4. \A s \in Runners \ {r} : loop'[s] = loop[s]
  <2>1. Loop(r)  BY DEF Loop, Claim
  <2>. QED  BY <2>1, Frame DEF Same
<1>5. CarriesOK'
  <2>1. ASSUME NEW s \in Runners PROVE loop'[s].pc # "claim" => loop'[s].grant = NoGrant
    BY <1>3, <1>4 DEF PermitInv, CarriesOK
  <2>. QED  BY <2>1 DEF CarriesOK
<1>6. ASSUME NEW g \in Grants
      PROVE  Carried(r, g)' = Carried(r, g) - (IF g = h THEN p - k ELSE 0)
  <2>1. g # NoGrant /\ work[r][g] \in Nat /\ g \in Permits  BY LimiterAssumption DEF Shape, Permits
  <2>2. work'[r][g] = work[r][g] + (IF g = h THEN k ELSE 0)
    <3>. HIDE DEF h, p, k
    <3>1. work'[r][g] = work[r][g] + (IF g = h THEN k ELSE 0) + 0  BY <1>1, <2>1 DEF Shape
    <3>. QED  BY <1>0, <2>1, <3>1
  <2>3. Carried(r, g)' = work'[r][g]
    <3>1. work'[r][g] \in Nat  BY <2>1 DEF Shape
    <3>. QED  BY <1>3, <2>1, <3>1 DEF Carried
  <2>4. Carried(r, g) = work[r][g] + (IF g = h THEN p ELSE 0)  BY DEF Carried
  <2>. HIDE DEF h, p, k
  <2>. QED  BY <1>0, <2>1, <2>2, <2>3, <2>4
<1>7. \A g \in Grants, s \in Runners \ {r} : Carried(s, g)' = Carried(s, g)
  <2>1. \A s \in Runners \ {r} : work'[s] = work[s]  BY <1>1 DEF Shape
  <2>. QED  BY <1>4, <2>1 DEF Carried
<1>. HIDE DEF h, p, k
<1>. QED  BY <1>0, <1>1, <1>5, <1>6, <1>7, GivesBack

\* A dispatch's deferred release.
LEMMA PermitsEnd ==
    ASSUME Shape, Shape', LeftBehind, LeftBehind', PermitInv, NEW r \in Runners,
           NEW h \in Permits, NEW err \in BOOLEAN, EndDispatch(r, h, err)
    PROVE  Kept
<1>1. /\ loop' = loop /\ Release(h, 1) /\ work[r][h] > 0
      /\ work' = [work EXCEPT ![r][h] = @ - 1]
  BY Zenon DEF EndDispatch
<1>2. CarriesOK'  BY <1>1 DEF PermitInv, CarriesOK
<1>3. ASSUME NEW g \in Grants
      PROVE  Carried(r, g)' = Carried(r, g) - (IF g = h THEN 1 ELSE 0)
  <2>1. work[r][g] \in Nat /\ g \in Permits /\ loop[r].permits \in Nat
    BY DEF Shape, Permits, LoopRecord
  <2>2. work'[r][g] = work[r][g] - (IF g = h THEN 1 ELSE 0)  BY <1>1, <2>1 DEF Shape
  <2>. QED  BY <1>1, <2>1, <2>2 DEF Carried
<1>4. \A g \in Grants, s \in Runners \ {r} : Carried(s, g)' = Carried(s, g)
  <2>1. \A s \in Runners \ {r} : work'[s] = work[s]  BY <1>1 DEF Shape
  <2>. QED  BY <1>1, <2>1 DEF Carried
<1>. QED  BY <1>1, <1>2, <1>3, <1>4, GivesBack

\* What a process held when it died stays held, and is stranded.
LEMMA PermitsDie ==
    ASSUME Shape, Shape', LeftBehind, PermitInv, NEW r \in Runners, Die(r)
    PROVE  Kept
<1>1. /\ loop' = [loop EXCEPT ![r] = NewLoop("dead")] /\ hold' = hold /\ lapsed' = lapsed
      /\ work' = [work EXCEPT ![r] = [g \in Permits |-> 0]]
      /\ stranded' = [g \in Grants |-> stranded[g] + Carried(r, g)]
  BY Zenon DEF Die
<1>2. loop'[r].grant = NoGrant /\ loop'[r].permits = 0
      /\ \A s \in Runners \ {r} : loop'[s] = loop[s] /\ work'[s] = work[s]
  BY <1>1 DEF Shape, NewLoop
<1>3. CarriesOK'
  <2>1. ASSUME NEW s \in Runners PROVE loop'[s].pc # "claim" => loop'[s].grant = NoGrant
    BY <1>2 DEF PermitInv, CarriesOK
  <2>. QED  BY <2>1 DEF CarriesOK
<1>4. ASSUME NEW g \in Grants
      PROVE  hold'[g] = IF lapsed'[g] THEN 0 ELSE Owed(g)' + stranded'[g]
  <2>1. \A s \in Runners \ {r} : Carried(s, g)' = Carried(s, g)  BY <1>2 DEF Carried
  <2>2. g \in Permits /\ g # NoGrant  BY LimiterAssumption DEF Permits
  <2>3. work'[r][g] = 0  BY <1>1, <2>2 DEF Shape
  <2>4. Carried(r, g)' = 0  BY <1>2, <2>2, <2>3 DEF Carried
  <2>5. /\ Owed(g) \in Nat /\ Owed(g)' \in Nat
        /\ Owed(g)' = Owed(g) - Carried(r, g) + Carried(r, g)'
    BY <2>1, OwedStep
  <2>6. Carried(r, g) \in Nat  BY CarriedType
  <2>7. stranded'[g] = stranded[g] + Carried(r, g) /\ stranded[g] \in Nat  BY <1>1 DEF LeftBehind
  <2>8. Owed(g)' + stranded'[g] = Owed(g) + stranded[g]  BY <2>4, <2>5, <2>6, <2>7
  <2>. QED  BY <1>1, <2>8 DEF PermitInv, PermitsExact
<1>5. PermitsExact'  BY <1>4 DEF PermitsExact
<1>. QED  BY <1>1, <1>3, <1>5 DEF Kept, PermitInv

\* A hold reclaimed under its holders no longer counts.
LEMMA PermitsLapse ==
    ASSUME Shape, Shape', LeftBehind, PermitInv, NEW h \in Grants, Lapse(h)
    PROVE  Kept
<1>1. /\ hold' = [hold EXCEPT ![h] = 0] /\ lapsed' = [lapsed EXCEPT ![h] = TRUE]
      /\ loop' = loop /\ work' = work /\ stranded' = stranded
  BY Zenon DEF Lapse
<1>2. \A g \in Grants : Owed(g) \in Nat /\ Owed(g)' = Owed(g)
  <2>1. \A g \in Grants, s \in Runners : Carried(s, g)' = Carried(s, g)  BY <1>1 DEF Carried
  <2>. QED  BY <2>1, OwedSame
<1>3. ASSUME NEW g \in Grants
      PROVE  /\ hold'[g] = IF g = h THEN 0 ELSE hold[g]
             /\ g = h => lapsed'[g]
             /\ g # h => lapsed'[g] = lapsed[g]
  BY <1>1 DEF Shape
<1>4. PermitsExact'  BY <1>1, <1>2, <1>3 DEF PermitInv, PermitsExact
<1>5. CarriesOK'  BY <1>1 DEF PermitInv, CarriesOK
<1>6. ASSUME NEW g \in Grants
      PROVE  Unlapsed(g) \in Nat /\ Unlapsed(g)' \in Nat /\ Unlapsed(g)' <= Unlapsed(g)
  <2>1. Owed(g) \in Nat /\ Owed(g)' = Owed(g)  BY <1>2
  <2>2. lapsed[g] => lapsed'[g]  BY <1>3
  <2>. QED  BY <2>1, <2>2 DEF Unlapsed
<1>7. Out' <= Out  BY <1>6, OutFalls
<1>. QED  BY <1>4, <1>5, <1>7 DEF Kept, PermitInv

LEMMA PermitsStep ==
    ASSUME Inv, LeftBehind, PermitInv, [Next]_vars
    PROVE  Kept
<1>0. Shape /\ Shape' /\ LeftBehind'  BY TypeStep, LeftStep DEF Inv
<1>1. CASE UNCHANGED vars  BY <1>0, <1>1, PermitsAside
<1>2. CASE World
  <2>1. CASE Insert \/ SweepReclaims \/ Operator  BY <1>0, <2>1, PermitsAside
  <2>2. CASE \E g \in Grants : Lapse(g)  BY <1>0, <2>2, PermitsLapse
  <2>. QED  BY <1>2, <2>1, <2>2 DEF World
<1>3. ASSUME NEW r \in Runners, Loop(r) PROVE Kept
  <2>1. CASE \E g \in Grants, n \in 1..loop[r].res : AdmitGranted(r, g, n)
    BY <1>0, <2>1, PermitsGranted
  <2>2. CASE ClaimNone(r)  BY <1>0, <2>2, PermitsClaimNone
  <2>3. CASE \E n \in 1..queue : ClaimJobs(r, n)  BY <1>0, <2>3, PermitsClaimJobs
  <2>4. CASE \/ Top(r) \/ Slots(r) \/ Idle(r) \/ Count(r) \/ InlineDone(r)
             \/ GateStops(r) \/ AdmitUnlimited(r) \/ AdmitFails(r) \/ AdmitDenied(r)
    BY <1>0, <2>4, PermitsQuiet
  <2>. QED  BY <1>3, <2>1, <2>2, <2>3, <2>4 DEF Loop, Gate, Claim
<1>4. ASSUME NEW r \in Runners, Dispatch(r) \/ Host(r) PROVE Kept
  <2>1. CASE \E g \in Permits, err \in BOOLEAN : EndDispatch(r, g, err)
    BY <1>0, <2>1, PermitsEnd
  <2>2. CASE Die(r)  BY <1>0, <2>2, PermitsDie
  <2>3. CASE FreeSlot(r) \/ Stop(r) \/ CancelContext(r) \/ DrainWaits(r) \/ DrainReturns(r)
    BY <1>0, <2>3, PermitsAside
  <2>. QED  BY <1>4, <2>1, <2>2, <2>3 DEF Dispatch, Host
<1>. QED  BY <1>1, <1>2, <1>3, <1>4 DEF Next

LEMMA PermitsInit == Init => PermitInv
<1>. SUFFICES ASSUME Init PROVE PermitInv  OBVIOUS
<1>1. CarriesOK  BY DEF Init, NewLoop, CarriesOK
<1>2. ASSUME NEW g \in Grants
      PROVE  hold[g] = IF lapsed[g] THEN 0 ELSE Owed(g) + stranded[g]
  <2>. DEFINE z == [s \in Runners |-> Carried(s, g)]
  <2>1. g \in Permits /\ g # NoGrant  BY LimiterAssumption DEF Permits
  <2>2. \A s \in Runners : Carried(s, g) = 0  BY <2>1 DEF Init, NewLoop, Carried
  <2>3. Units(z) = {}  BY <2>2 DEF Units
  <2>4. Owed(g) = Total(z)  BY DEF Owed
  <2>5. Owed(g) = 0  BY <2>3, <2>4, FS_EmptySet DEF Total
  <2>. QED  BY <2>5 DEF Init, NewLimiter
<1>. QED  BY <1>1, <1>2 DEF PermitInv, PermitsExact

\* DBLimiter.Acquire and Release, across the Runners that share the bucket: a
\* hold has exactly the permits its holders have yet to release and those nobody
\* will, and no grant takes the permits out past the cap in force, whichever way
\* operators have moved it.
THEOREM PermitSafety == Spec => PermitsKept
<1>1. Init => LeftBehind /\ PermitInv  BY PermitsInit DEF Init, NewLimiter, LeftBehind
<1>2. Inv /\ LeftBehind /\ PermitInv /\ [Next]_vars => LeftBehind' /\ PermitInv'
  BY LeftStep, PermitsStep DEF Kept
<1>3. Inv /\ LeftBehind /\ PermitInv /\ [Next]_vars => [WithinCap]_vars
  BY PermitsStep DEF Kept, WithinCap
<1>4. PermitInv => PermitsExact  BY DEF PermitInv
<1>. QED  BY <1>1, <1>2, <1>3, <1>4, Invariance, PTL DEF Spec, PermitsKept

----------------------------------------------------------------------------
(* The node over its Runners. *)

\* The Runner passes its gate no more.
Halted(r) == stop[r] \/ loop[r].pc \in {"returned", "dead"}

AllStopped == \A r \in Runners : stop[r]
AllHalted == \A r \in Runners : Halted(r)
QuietBut(open) == \A r \in Runners \ open : Quiet(r)

NodeRecord == [pc : {"check", "register", "running", "drain", "await", "stop", "returned", "dead"},
               asked : BOOLEAN, late : BOOLEAN]
Registration == [inserted : BOOLEAN, draining : BOOLEAN]
BeatRecord == [pc : {"tick", "count", "write", "off"}, inserts : BOOLEAN, busy : BOOLEAN,
               open : SUBSET Runners]
RowRecord == [draining : BOOLEAN, busy : BOOLEAN, open : SUBSET Runners,
              asked : BOOLEAN, stopped : BOOLEAN]
NodeShape ==
    node \in NodeRecord /\ reg \in Registration /\ beat \in BeatRecord /\ row \subseteq RowRecord

\* A node that drains has stopped its Runners, and one that is past its drain
\* has halted them and silenced its beats.
DrainStops ==
    /\ reg.draining => AllStopped
    /\ node.pc \in {"check", "register"} => ~reg.draining
    /\ node.pc \in {"drain", "await"} => AllStopped
    /\ node.pc \in {"stop", "returned"} => AllHalted

Silent == Cancelled \/ beat.pc = "off"
BeatsSilent == node.pc \in {"await", "stop", "returned"} => Silent

\* The counts of a beat that is to be written.
BeatTrue == beat.pc = "write" /\ ~beat.busy /\ reg.draining => QuietBut(beat.open)

RowTrue(w) ==
    /\ w.draining => AllStopped
    /\ w.stopped => AllHalted /\ Silent /\ beat.pc \in {"tick", "off"}
    /\ (w.draining \/ w.stopped) /\ ~w.busy => QuietBut(w.open)

NodeInv ==
    /\ Inv /\ NodeShape
    /\ DrainStops /\ BeatsSilent /\ BeatTrue
    /\ \A w \in row : RowTrue(w)

----------------------------------------------------------------------------
(* The Runners. *)

\* A count that finds nothing: of the Runners that pass their gate no more, only
\* those at their claim are not quiet.
LEMMA EmptyQuiet == ASSUME Inv, AllHalted, ~Busy PROVE QuietBut(Claiming)
<1>1. ASSUME NEW r \in Runners, r \notin Claiming PROVE Quiet(r)
  <2>1. pool[r].running \in Nat  BY RecordTypes DEF Inv
  <2>2. pool[r].running = 0  BY <2>1 DEF Busy
  <2>3. loop[r].pc # "claim"  BY <1>1 DEF Claiming, AllHalted, Halted
  <2>. QED  BY <2>2, <2>3 DEF Quiet
<1>. QED  BY <1>1 DEF QuietBut

\* What a step keeps of a Runner.
Keeps(r) ==
    /\ stop[r] => stop'[r]
    /\ ended[r] => ended'[r]
    /\ Halted(r) => Halted(r)'
    /\ Halted(r) /\ Quiet(r) => Quiet(r)'

LEMMA SameHalts ==
    ASSUME NEW r \in Runners, Same(r), ended'[r] = ended[r]
    PROVE  Keeps(r)
BY DEF Same, Keeps, Halted, Quiet

\* A Runner whose loop is over makes no step of it.
LEMMA OverIsOver ==
    ASSUME NEW r \in Runners, loop[r].pc \in {"returned", "dead"}
    PROVE  ~Loop(r)
BY DEF Loop, Top, TopEnds, TopCached, TopRefresh, Slots, Reserve, ReserveWakes, ReserveEnds,
       ReserveTimesOut, Gate, GateStops, AdmitUnlimited, AdmitFails, AdmitDenied, AdmitGranted,
       Claim, ClaimNone, ClaimJobs, InlineDone, Idle, SleepEnds, IdleSleeps, IdleWaits, IdleEnds,
       Count, CountsNone, CountsPending, Leave

LEMMA LoopStops == ASSUME NEW r \in Runners, Loop(r) PROVE stop' = stop /\ ended' = ended
BY Zenon DEF Loop, Top, TopEnds, TopCached, TopRefresh, Slots, Reserve, ReserveWakes, ReserveEnds,
       ReserveTimesOut, Gate, GateStops, AdmitUnlimited, AdmitFails, AdmitDenied, AdmitGranted,
       Claim, ClaimNone, ClaimJobs, InlineDone, Idle, SleepEnds, IdleSleeps, IdleWaits, IdleEnds,
       Count, CountsNone, CountsPending, Leave

\* The loop of a stopped Runner that is not at its claim: it does not get there,
\* and starts nothing.
LEMMA StoppedLoop ==
    ASSUME Inv, NEW r \in Runners, stop[r], Quiet(r), Loop(r)
    PROVE  Quiet(r)'
<1>. USE DEF Pcs
<1>0. /\ Shape /\ loop \in [Runners -> LoopRecord] /\ pool \in [Runners -> PoolRecord]
      /\ loop[r] \in LoopRecord /\ pool[r] \in PoolRecord
      /\ loop[r].res \in Nat /\ pool[r].held \in Nat
      /\ pool[r].running \in Nat /\ pool[r].closing \in Nat
      /\ pool[r].held = loop[r].res + pool[r].running + pool[r].closing
  BY RecordTypes DEF Inv, RunnerOK, LoopOK, Shape
<1>1. loop[r].res <= pool[r].held  BY <1>0
<1>2. ASSUME NEW pc \in Pcs \ {"claim"}, Go(r, pc) \/ GoTakingErr(r, pc)
      PROVE  loop'[r].pc # "claim"
  BY <1>0, <1>2, GoFields, GoTakingErrFields
<1>3. PollError(r) => loop'[r].pc # "claim"  BY <1>0, PollErrorFields
<1>4. ASSUME pool'[r].running = pool[r].running, loop'[r].pc # "claim"
      PROVE  Quiet(r)'
  BY <1>4 DEF Quiet
<1>5. CASE \/ TopEnds(r) \/ TopCached(r) \/ ReserveWakes(r) \/ ReserveEnds(r) \/ ReserveTimesOut(r)
           \/ SleepEnds(r) \/ IdleSleeps(r) \/ IdleEnds(r) \/ Leave(r)
  <2>1. PICK pc \in {"top", "reserve", "idle", "sleep", "leaving", "returned"} : Go(r, pc)
    BY <1>5, Zenon DEF TopEnds, TopCached, ReserveWakes, ReserveEnds, ReserveTimesOut, SleepEnds,
                       IdleSleeps, IdleEnds, Leave
  <2>2. pool' = pool
    BY <1>5 DEF TopEnds, TopCached, ReserveWakes, ReserveEnds, ReserveTimesOut, SleepEnds,
                IdleSleeps, IdleEnds, Leave
  <2>. QED  BY <1>2, <1>4, <2>1, <2>2
<1>6. CASE CountsPending(r)
  BY <1>3, <1>4, <1>6 DEF CountsPending
<1>7. CASE CountsNone(r)
  <2>1. loop'[r].pc = "leaving" /\ pool' = pool  BY <1>0, <1>7 DEF CountsNone, NewLoop
  <2>. QED  BY <1>4, <2>1
<1>8. CASE TopRefresh(r)
  BY <1>8 DEF TopRefresh
<1>9. CASE Reserve(r)
  <2>1. CASE pool[r].limit - pool[r].held > 0
    <3>. DEFINE n == Least(ClaimLimit(r), pool[r].limit - pool[r].held)
    <3>1. /\ loop' = [loop EXCEPT ![r] = [@ EXCEPT !.pc = "gate", !.res = n]]
          /\ pool' = [pool EXCEPT ![r] = Admitted(@, n)]
      BY <1>9, <2>1 DEF Reserve
    <3>. HIDE DEF n
    <3>2. loop'[r].pc = "gate"  BY <1>0, <3>1 DEF LoopRecord
    <3>3. pool'[r].running = pool[r].running
      BY <1>0, <3>1 DEF Admitted, PoolRecord
    <3>. QED  BY <1>4, <3>2, <3>3
  <2>2. CASE ~(pool[r].limit - pool[r].held > 0)
    <3>1. Go(r, "parked") /\ pool' = [pool EXCEPT ![r] = [@ EXCEPT !.woken = FALSE]]
      BY <1>9, <2>2 DEF Reserve
    <3>2. pool'[r].running = pool[r].running
      BY <1>0, <3>1 DEF PoolRecord
    <3>. QED  BY <1>2, <1>4, <3>1, <3>2
  <2>. QED  BY <2>1, <2>2
<1>10. CASE GateStops(r) \/ AdmitFails(r) \/ AdmitDenied(r)
  <2>1. GateStops(r)
    BY <1>10 DEF AdmitFails, AdmitDenied, Stopping
  <2>2. pool'[r] = Released(pool[r], loop[r].res) /\ Go(r, "leaving")
    BY <1>0, <2>1 DEF GateStops
  <2>3. pool'[r].running = pool[r].running
    BY <1>0, <1>1, <2>2, ReleasedFields
  <2>. QED  BY <1>2, <1>4, <2>2, <2>3
<1>11. CASE AdmitUnlimited(r) \/ \E g \in Grants, n \in 1..loop[r].res : AdmitGranted(r, g, n)
  BY <1>11 DEF AdmitUnlimited, AdmitGranted, Stopping
<1>12. CASE ClaimNone(r) \/ \E n \in 1..queue : ClaimJobs(r, n)
  BY <1>12 DEF ClaimNone, ClaimJobs, Quiet
<1>13. CASE InlineDone(r) \/ IdleWaits(r)
  <2>1. pool'[r] = Taken(pool[r])  BY <1>0, <1>13 DEF InlineDone, IdleWaits
  <2>2. pool'[r].running = pool[r].running
    BY <1>0, <2>1, TakenFields
  <2>3. GoTakingErr(r, "top") \/ GoTakingErr(r, "count")
    BY <1>13, Zenon DEF InlineDone, IdleWaits
  <2>. QED  BY <1>2, <1>4, <2>2, <2>3
<1>. QED
  BY <1>5, <1>6, <1>7, <1>8, <1>9, <1>10, <1>11, <1>12, <1>13
     DEF Loop, Top, Slots, Gate, Claim, Idle, Count

\* A step of the Runners, or of the world around them.
LEMMA RunnersKeep ==
    ASSUME Inv, World \/ \E r \in Runners : Loop(r) \/ Dispatch(r) \/ DrainWaits(r) \/ DrainReturns(r)
    PROVE  \A q \in Runners : Keeps(q)
<1>1. CASE World
  <2>1. \A q \in Runners : Same(q) /\ ended'[q] = ended[q]
    BY <1>1 DEF World, Operator, Insert, SweepReclaims, PauseQueue, ResumeQueue, SetQueueConcurrency,
                SetLimiterBudget, Lapse, Same
  <2>. QED  BY <2>1, SameHalts
<1>2. ASSUME NEW r \in Runners, Loop(r) \/ Dispatch(r) \/ DrainWaits(r) \/ DrainReturns(r)
      PROVE  \A q \in Runners : Keeps(q)
  <2>1. stop' = stop /\ ended' = ended
    <3>1. CASE Dispatch(r) \/ DrainWaits(r) \/ DrainReturns(r)
      BY <3>1, Zenon DEF Dispatch, EndDispatch, FreeSlot, DrainWaits, DrainReturns
    <3>. QED  BY <1>2, <3>1, LoopStops
  <2>2. ASSUME NEW q \in Runners \ {r} PROVE Keeps(q)
    <3>1. Same(q)  BY <1>2, Frame DEF Inv, Host
    <3>. QED  BY <2>1, <3>1, SameHalts
  <2>3. Keeps(r)
    <3>1. CASE Loop(r)
      BY <2>1, <3>1, OverIsOver, StoppedLoop DEF Keeps, Halted
    <3>2. CASE Dispatch(r)
      <4>1. loop' = loop  BY <3>2 DEF Dispatch, EndDispatch, FreeSlot
      <4>2. Quiet(r) => Quiet(r)'
        <5>1. /\ pool \in [Runners -> PoolRecord] /\ pool[r] \in PoolRecord
              /\ loop[r].res \in Nat /\ pool[r].held \in Nat
              /\ pool[r].running \in Nat /\ pool[r].closing \in Nat
              /\ pool[r].held = loop[r].res + pool[r].running + pool[r].closing
          BY RecordTypes DEF Inv, RunnerOK, LoopOK, Shape
        <5>2. CASE FreeSlot(r)
          <6>1. pool[r].closing > 0 /\ pool'[r] = Released(Closed(pool[r]), 1)
            BY <5>1, <5>2 DEF FreeSlot
          <6>2. /\ Closed(pool[r]) \in PoolRecord /\ Closed(pool[r]).held = pool[r].held
                /\ Closed(pool[r]).running = pool[r].running
            BY <5>1, <6>1 DEF Closed, PoolRecord
          <6>3. 1 <= pool[r].held  BY <5>1, <6>1
          <6>4. pool'[r].running = pool[r].running  BY <6>1, <6>2, <6>3, ReleasedFields
          <6>. QED  BY <4>1, <6>4 DEF Quiet
        <5>3. CASE \E g \in Permits, err \in BOOLEAN : EndDispatch(r, g, err)
          BY <5>3 DEF EndDispatch, Quiet
        <5>. QED  BY <3>2, <5>2, <5>3 DEF Dispatch
      <4>. QED  BY <2>1, <4>1, <4>2 DEF Keeps, Halted
    <3>3. CASE DrainWaits(r) \/ DrainReturns(r)
      <4>1. loop' = loop  BY <3>3 DEF DrainWaits, DrainReturns
      <4>2. pool'[r].running = pool[r].running
        <5>1. PICK d : pool' = [pool EXCEPT ![r] = [@ EXCEPT !.drain = d]]
          BY <3>3 DEF DrainWaits, DrainReturns
        <5>2. pool \in [Runners -> PoolRecord]  BY DEF Inv, Shape
        <5>. QED  BY <5>1, <5>2 DEF PoolRecord
      <4>. QED  BY <2>1, <4>1, <4>2 DEF Keeps, Halted, Quiet
    <3>. QED  BY <1>2, <3>1, <3>2, <3>3
  <2>. QED  BY <2>2, <2>3
<1>. QED  BY <1>1, <1>2

----------------------------------------------------------------------------
(* What the node does to all its Runners at once. *)

LEMMA AllKept ==
    ASSUME \A q \in Runners : Keeps(q)
    PROVE  /\ AllStopped => AllStopped' /\ AllHalted
           /\ AllHalted => AllHalted'
           /\ \A open : AllHalted /\ QuietBut(open) => QuietBut(open)'
           /\ Cancelled => Cancelled'
BY DEF Keeps, AllStopped, AllHalted, QuietBut, Cancelled, Halted

LEMMA VarsStill == ASSUME Inv, UNCHANGED vars PROVE Inv' /\ \A q \in Runners : Keeps(q)
<1>1. Inv'  BY InvStep
<1>2. \A q \in Runners : Same(q) /\ ended'[q] = ended[q]  BY DEF vars, Same
<1>. QED  BY <1>1, <1>2, SameHalts

LEMMA StopAllKeeps ==
    ASSUME Inv, StopAll, Beside, ended' = ended
    PROVE  Inv' /\ AllStopped' /\ \A q \in Runners : Keeps(q)
<1>1. UNCHANGED <<queue, inserted, loop, pool, work, ended, hold, lapsed, bucket, cap, paused, seen, failed>>
  BY DEF Beside, limiter, control
<1>2. Shape'  BY <1>1 DEF Inv, Shape, StopAll
<1>3. ASSUME NEW q \in Runners PROVE RunnerOK(q)' /\ Keeps(q) /\ stop'[q]
  <2>1. RunnerOK(q) /\ stop'[q]  BY DEF Inv, StopAll
  <2>2. RunnerOK(q)'  BY <1>1, <2>1 DEF RunnerOK, LoopOK, DrainOK, WakeOK, ErrorOK
  <2>. QED  BY <1>1, <2>1, <2>2 DEF Keeps, Halted, Quiet
<1>. QED  BY <1>2, <1>3 DEF Inv, AllStopped

LEMMA CancelKeeps ==
    ASSUME Inv, Cancel, Beside, stop' = stop
    PROVE  Inv' /\ Cancelled' /\ \A q \in Runners : Keeps(q)
<1>1. UNCHANGED <<queue, inserted, loop, pool, work, stop, hold, lapsed, bucket, cap, paused, seen, failed>>
  BY DEF Beside, limiter, control
<1>2. Shape'  BY <1>1 DEF Inv, Shape, Cancel
<1>3. ASSUME NEW q \in Runners PROVE RunnerOK(q)' /\ Keeps(q) /\ ended'[q]
  <2>1. RunnerOK(q) /\ ended'[q] /\ Same(q)  BY <1>1 DEF Inv, Cancel, Same
  <2>2. RunnerOK(q)'  BY <2>1, SameKeeps
  <2>. QED  BY <1>1, <2>1, <2>2 DEF Keeps, Halted, Quiet
<1>. QED  BY <1>2, <1>3 DEF Inv, Cancelled

LEMMA NodeDiesKeeps ==
    ASSUME Inv, NodeDies
    PROVE  Inv' /\ AllHalted' /\ (\A open : QuietBut(open)') /\ \A q \in Runners : Keeps(q)
<1>1. /\ loop' = [r \in Runners |-> NewLoop("dead")]
      /\ pool' = [r \in Runners |-> NewPool(r)]
      /\ work' = [r \in Runners |-> [g \in Permits |-> 0]]
      /\ UNCHANGED <<queue, inserted, stop, ended, hold, lapsed, bucket, cap, paused, seen, failed>>
  BY DEF NodeDies, control
<1>2. Shape'
  <2>1. NewLoop("dead") \in LoopRecord  BY DEF NewLoop, LoopRecord, Permits
  <2>2. loop' \in [Runners -> LoopRecord] /\ pool' \in [Runners -> PoolRecord]
    BY <1>1, <2>1, NewPoolType
  <2>3. work' \in [Runners -> [Permits -> Nat]]  BY <1>1
  <2>. QED  BY <1>1, <2>2, <2>3 DEF Inv, Shape
<1>3. ASSUME NEW q \in Runners PROVE RunnerOK(q)' /\ Keeps(q) /\ Halted(q)' /\ Quiet(q)'
  <2>1. /\ loop'[q].pc = "dead" /\ loop'[q].res = 0 /\ loop'[q].result = "none"
        /\ pool'[q].held = 0 /\ pool'[q].running = 0 /\ pool'[q].closing = 0
        /\ pool'[q].drain = "none"
    BY <1>1 DEF NewLoop, NewPool
  <2>2. RunnerOK(q)'  BY <2>1 DEF RunnerOK, LoopOK, DrainOK, WakeOK, ErrorOK
  <2>. QED  BY <1>1, <2>1, <2>2 DEF Keeps, Halted, Quiet
<1>. QED  BY <1>2, <1>3 DEF Inv, AllHalted, QuietBut

----------------------------------------------------------------------------
(* The node. *)

\* A step that leaves the node's own variables alone.
LEMMA NodeStill ==
    ASSUME NodeInv, Inv', \A q \in Runners : Keeps(q), UNCHANGED nodeVars
    PROVE  NodeInv'
<1>1. UNCHANGED <<node, reg, beat, row>>  BY DEF nodeVars
<1>2. NodeShape'  BY <1>1 DEF NodeInv, NodeShape
<1>3. DrainStops' /\ BeatsSilent' /\ BeatTrue'
  BY <1>1, AllKept DEF NodeInv, DrainStops, BeatsSilent, Silent, BeatTrue
<1>4. ASSUME NEW w \in row PROVE RowTrue(w)'
  BY <1>1, AllKept DEF NodeInv, RowTrue, Silent
<1>. QED  BY <1>1, <1>2, <1>3, <1>4 DEF NodeInv

\* A step of the node that writes no row.
LEMMA RowsStill ==
    ASSUME NodeInv, \A q \in Runners : Keeps(q), row' = row,
           Silent => Silent' /\ (beat.pc \in {"tick", "off"} => beat'.pc \in {"tick", "off"})
    PROVE  \A w \in row' : RowTrue(w)'
<1>1. ASSUME NEW w \in row PROVE RowTrue(w)'
  BY AllKept DEF NodeInv, RowTrue
<1>. QED  BY <1>1

\* A row that reports whether the node drains and what a count found.
LEMMA RowReports ==
    ASSUME NEW w \in RowRecord, w.stopped => AllHalted' /\ Silent' /\ beat'.pc \in {"tick", "off"},
           w.draining => AllStopped', (w.draining \/ w.stopped) /\ ~w.busy => QuietBut(w.open)'
    PROVE  RowTrue(w)'
BY DEF RowTrue

\* Create, beside a node that does not drain or has counted.
LEMMA CreateTrue ==
    ASSUME NodeInv, NEW busy \in BOOLEAN, NEW open \in SUBSET Runners, Create(busy, open), UNCHANGED vars,
           reg.draining /\ ~busy => QuietBut(open),
           Silent => Silent' /\ (beat.pc \in {"tick", "off"} => beat'.pc \in {"tick", "off"})
    PROVE  /\ reg' \in Registration /\ reg'.draining = reg.draining /\ row' \subseteq RowRecord
           /\ \A w \in row' : RowTrue(w)'
<1>1. Inv /\ \A q \in Runners : Keeps(q)  BY VarsStill DEF NodeInv
<1>2. reg \in Registration /\ row \subseteq RowRecord /\ (reg.draining => AllStopped)
  BY DEF NodeInv, NodeShape, DrainStops
<1>3. reg' = reg \/ reg' = [reg EXCEPT !.inserted = TRUE]  BY DEF Create
<1>4. reg' \in Registration /\ reg'.draining = reg.draining  BY <1>2, <1>3 DEF Registration
<1>5. CASE row' = row  BY <1>1, <1>2, <1>4, <1>5, RowsStill
<1>6. CASE row' = {NewRow(reg.draining, busy, open)}
  <2>1. PICK w : w = NewRow(reg.draining, busy, open)  OBVIOUS
  <2>2. /\ w \in RowRecord /\ w.draining = reg.draining /\ w.busy = busy /\ w.open = open
        /\ w.stopped = FALSE
    BY <1>2, <2>1 DEF NewRow, RowRecord, Registration
  <2>3. QuietBut(open) => QuietBut(open)'  BY DEF QuietBut, Quiet, vars
  <2>4. RowTrue(w)'  BY <1>1, <1>2, <2>2, <2>3, AllKept, RowReports
  <2>. QED  BY <1>4, <1>6, <2>1, <2>2, <2>4
<1>. QED  BY <1>5, <1>6 DEF Create

LEMMA RegisterInv == ASSUME NodeInv, Register PROVE NodeInv'
<1>1. /\ UNCHANGED vars /\ UNCHANGED beat /\ Create(FALSE, {})
      /\ node.pc = "register" /\ node' = [node EXCEPT !.pc = "running"]
  BY DEF Register
<1>2. Inv' /\ \A q \in Runners : Keeps(q)  BY <1>1, VarsStill DEF NodeInv
<1>3. /\ node \in NodeRecord /\ reg \in Registration /\ beat \in BeatRecord
      /\ ~reg.draining
  BY <1>1 DEF NodeInv, NodeShape, DrainStops
<1>4. node' \in NodeRecord /\ node'.pc = "running"  BY <1>1, <1>3 DEF NodeRecord
<1>5. Silent => Silent'  BY <1>1, <1>2, AllKept DEF Silent
<1>6. /\ reg' \in Registration /\ reg'.draining = reg.draining /\ row' \subseteq RowRecord
      /\ \A w \in row' : RowTrue(w)'
  BY <1>1, <1>3, <1>5, CreateTrue
<1>7. NodeShape' /\ DrainStops' /\ BeatsSilent' /\ BeatTrue'
  BY <1>1, <1>3, <1>4, <1>6 DEF NodeShape, DrainStops, BeatsSilent, BeatTrue
<1>. QED  BY <1>2, <1>6, <1>7 DEF NodeInv

\* The beats, none of which begins once the node is silent.
LEMMA BeatsInv == ASSUME NodeInv, Beats PROVE NodeInv'
<1>0. /\ node \in NodeRecord /\ reg \in Registration /\ beat \in BeatRecord /\ row \subseteq RowRecord
      /\ DrainStops /\ BeatsSilent /\ BeatTrue /\ Inv /\ \A w \in row : RowTrue(w)
  BY DEF NodeInv, NodeShape
<1>1. CASE BeatBegins
  <2>1. UNCHANGED vars /\ UNCHANGED <<node, reg, row>> /\ beat.pc = "tick" /\ ~Cancelled
    BY <1>1 DEF BeatBegins, Beating
  <2>2. beat' \in BeatRecord /\ beat'.pc = "count"
    BY <1>0, <1>1 DEF BeatBegins, BeatRecord
  <2>3. Inv' /\ \A q \in Runners : Keeps(q)  BY <1>0, <2>1, VarsStill
  <2>4. ~Silent  BY <2>1 DEF Silent
  <2>5. NodeShape' /\ DrainStops' /\ BeatsSilent' /\ BeatTrue'
    BY <1>0, <2>1, <2>2, <2>3, <2>4, AllKept DEF NodeShape, DrainStops, BeatsSilent, BeatTrue
  <2>. QED  BY <2>1, <2>3, <2>4, <2>5, RowsStill DEF NodeInv
<1>2. CASE AnswerDrain
  <2>1. /\ StopAll /\ Beside /\ UNCHANGED <<ended, node, row>> /\ beat.pc = "tick" /\ ~Cancelled
        /\ node.pc \notin {"check", "register"}
        /\ reg' = [reg EXCEPT !.draining = TRUE] /\ beat' = [beat EXCEPT !.pc = "count"]
    BY <1>2 DEF AnswerDrain, Beating, Begun
  <2>2. reg' \in Registration /\ beat' \in BeatRecord /\ beat'.pc = "count"
    BY <1>0, <2>1 DEF Registration, BeatRecord
  <2>3. Inv' /\ AllStopped' /\ \A q \in Runners : Keeps(q)  BY <1>0, <2>1, StopAllKeeps
  <2>4. ~Silent  BY <2>1 DEF Silent
  <2>5. NodeShape' /\ DrainStops' /\ BeatsSilent' /\ BeatTrue'
    BY <1>0, <2>1, <2>2, <2>3, <2>4, AllKept DEF NodeShape, DrainStops, BeatsSilent, BeatTrue
  <2>. QED  BY <2>1, <2>3, <2>4, <2>5, RowsStill DEF NodeInv
<1>3. CASE BeatCounts
  <2>1. UNCHANGED vars /\ UNCHANGED <<node, reg, row>> /\ beat.pc = "count"
    BY <1>3 DEF BeatCounts
  <2>2. /\ Busy \in BOOLEAN /\ Claiming \in SUBSET Runners
        /\ beat' = [beat EXCEPT !.pc = "write", !.busy = Busy, !.open = Claiming]
    BY <1>3, Zenon DEF BeatCounts, Busy, Claiming
  <2>3. beat' \in BeatRecord /\ beat'.pc = "write" /\ beat'.busy = Busy /\ beat'.open = Claiming
    BY <1>0, <2>2 DEF BeatRecord
  <2>4. Inv' /\ \A q \in Runners : Keeps(q)  BY <1>0, <2>1, VarsStill
  <2>5. BeatTrue'
    <3>1. ASSUME ~Busy, reg.draining PROVE QuietBut(beat.open)'
      <4>1. AllHalted  BY <1>0, <2>4, <3>1, AllKept DEF DrainStops
      <4>2. QuietBut(Claiming)  BY <1>0, <3>1, <4>1, EmptyQuiet
      <4>. QED  BY <2>1, <2>3, <4>2 DEF QuietBut, Quiet, vars
    <3>. QED  BY <2>1, <2>3, <3>1 DEF BeatTrue
  <2>6. NodeShape' /\ DrainStops'
    BY <1>0, <2>1, <2>3, <2>4, AllKept DEF NodeShape, DrainStops
  <2>7. Silent => Silent'  BY <2>1, <2>4, AllKept DEF Silent
  <2>8. BeatsSilent'  BY <1>0, <2>1, <2>7 DEF BeatsSilent
  <2>. QED  BY <2>1, <2>4, <2>5, <2>6, <2>7, <2>8, RowsStill DEF NodeInv
<1>4. CASE BeatFails \/ BeatsEnd
  <2>1. UNCHANGED vars /\ UNCHANGED <<node, reg, row>>
    BY <1>4 DEF BeatFails, BeatsEnd
  <2>2. beat' \in BeatRecord /\ beat'.pc \in {"tick", "off"} /\ (beat.pc = "off" => FALSE)
    <3>1. CASE BeatFails  BY <3>1 DEF BeatFails, Idled, BeatRecord
    <3>2. CASE BeatsEnd  BY <1>0, <3>2 DEF BeatsEnd, BeatRecord
    <3>. QED  BY <1>4, <3>1, <3>2
  <2>3. Inv' /\ \A q \in Runners : Keeps(q)  BY <1>0, <2>1, VarsStill
  <2>4. Silent => Silent'  BY <2>2, <2>3, AllKept DEF Silent
  <2>5. NodeShape' /\ DrainStops' /\ BeatsSilent' /\ BeatTrue'
    BY <1>0, <2>1, <2>2, <2>3, <2>4, AllKept DEF NodeShape, DrainStops, BeatsSilent, BeatTrue
  <2>. QED  BY <2>1, <2>2, <2>3, <2>4, <2>5, RowsStill DEF NodeInv
<1>5. CASE BeatInserts
  <2>1. /\ UNCHANGED vars /\ UNCHANGED node /\ beat.pc = "write" /\ beat' = Idled
        /\ Create(beat.busy, beat.open)
    BY <1>5 DEF BeatInserts
  <2>2. beat' \in BeatRecord /\ beat'.pc = "tick"  BY <2>1 DEF Idled, BeatRecord
  <2>3. Inv' /\ \A q \in Runners : Keeps(q)  BY <1>0, <2>1, VarsStill
  <2>4. Silent => Silent'  BY <2>1, <2>3, AllKept DEF Silent
  <2>5. PICK b \in BOOLEAN, o \in SUBSET Runners : b = beat.busy /\ o = beat.open
    BY <1>0 DEF BeatRecord
  <2>6. reg.draining /\ ~b => QuietBut(o)  BY <1>0, <2>1, <2>5 DEF BeatTrue
  <2>7. /\ reg' \in Registration /\ reg'.draining = reg.draining /\ row' \subseteq RowRecord
        /\ \A w \in row' : RowTrue(w)'
    BY <2>1, <2>2, <2>4, <2>5, <2>6, CreateTrue
  <2>8. NodeShape' /\ DrainStops' /\ BeatsSilent' /\ BeatTrue'
    BY <1>0, <2>1, <2>2, <2>3, <2>4, <2>7, AllKept DEF NodeShape, DrainStops, BeatsSilent, BeatTrue
  <2>. QED  BY <2>3, <2>7, <2>8 DEF NodeInv
<1>6. CASE BeatUpdates
  <2>1. /\ UNCHANGED vars /\ UNCHANGED <<node, reg>> /\ beat.pc = "write"
        /\ row' = {[w EXCEPT !.draining = reg.draining, !.busy = beat.busy, !.open = beat.open] : w \in row}
        /\ beat' = IF row = {} THEN [beat EXCEPT !.pc = "count", !.inserts = TRUE] ELSE Idled
    BY <1>6 DEF BeatUpdates
  <2>2. beat' \in BeatRecord /\ beat'.pc \in {"count", "tick"}
    <3>1. CASE row = {}  BY <1>0, <2>1, <3>1 DEF BeatRecord
    <3>2. CASE row # {}  BY <2>1, <3>2 DEF Idled, BeatRecord
    <3>. QED  BY <3>1, <3>2
  <2>3. Inv' /\ \A q \in Runners : Keeps(q)  BY <1>0, <2>1, VarsStill
  <2>4. Silent => Silent'  BY <2>1, <2>3, AllKept DEF Silent
  <2>5. \A open : QuietBut(open) => QuietBut(open)'  BY <2>1 DEF QuietBut, Quiet, vars
  <2>6. reg.draining \in BOOLEAN /\ beat.busy \in BOOLEAN /\ beat.open \in SUBSET Runners
    BY <1>0 DEF Registration, BeatRecord
  <2>7. ASSUME NEW w \in row
        PROVE  \E v \in RowRecord :
                  /\ v = [w EXCEPT !.draining = reg.draining, !.busy = beat.busy, !.open = beat.open]
                  /\ RowTrue(v)'
    <3>1. PICK v : v = [w EXCEPT !.draining = reg.draining, !.busy = beat.busy, !.open = beat.open]  OBVIOUS
    <3>2. w \in RowRecord /\ ~w.stopped  BY <1>0, <2>1 DEF RowTrue
    <3>3. /\ v \in RowRecord /\ v.draining = reg.draining /\ v.busy = beat.busy
          /\ v.open = beat.open /\ v.stopped = w.stopped
      BY <2>6, <3>1, <3>2 DEF RowRecord
    <3>4. v.draining => AllStopped'  BY <1>0, <2>3, <3>3, AllKept DEF DrainStops
    <3>5. v.draining /\ ~v.busy => QuietBut(v.open)'  BY <1>0, <2>1, <2>5, <3>3 DEF BeatTrue
    <3>6. RowTrue(v)'  BY <3>2, <3>3, <3>4, <3>5, RowReports
    <3>. QED  BY <3>1, <3>3, <3>6
  <2>8. row' \subseteq RowRecord /\ \A v \in row' : RowTrue(v)'
    <3>1. ASSUME NEW v \in row' PROVE v \in RowRecord /\ RowTrue(v)'
      <4>1. PICK w \in row : v = [w EXCEPT !.draining = reg.draining, !.busy = beat.busy, !.open = beat.open]
        BY <2>1, Zenon
      <4>2. PICK u \in RowRecord :
              u = [w EXCEPT !.draining = reg.draining, !.busy = beat.busy, !.open = beat.open] /\ RowTrue(u)'
        BY <2>7
      <4>3. u = v  BY <4>1, <4>2
      <4>. QED  BY <4>2, <4>3
    <3>. QED  BY <3>1
  <2>9. NodeShape' /\ DrainStops' /\ BeatsSilent' /\ BeatTrue'
    BY <1>0, <2>1, <2>2, <2>3, <2>4, <2>8, AllKept DEF NodeShape, DrainStops, BeatsSilent, BeatTrue
  <2>. QED  BY <2>3, <2>8, <2>9 DEF NodeInv
<1>. QED  BY <1>1, <1>2, <1>3, <1>4, <1>5, <1>6 DEF Beats

\* Run's way out.
LEMMA ShutdownInv == ASSUME NodeInv, Shutdown PROVE NodeInv'
<1>0. /\ node \in NodeRecord /\ reg \in Registration /\ beat \in BeatRecord /\ row \subseteq RowRecord
      /\ DrainStops /\ BeatsSilent /\ BeatTrue /\ Inv /\ \A w \in row : RowTrue(w)
  BY DEF NodeInv, NodeShape
<1>1. CASE StopsRunners
  <2>1. /\ StopAll /\ Beside /\ UNCHANGED <<ended, reg, beat, row>>
        /\ node.pc = "running" /\ node' = [node EXCEPT !.pc = "drain"]
    BY <1>1 DEF StopsRunners
  <2>2. node' \in NodeRecord /\ node'.pc = "drain"  BY <1>0, <2>1 DEF NodeRecord
  <2>3. Inv' /\ AllStopped' /\ \A q \in Runners : Keeps(q)  BY <1>0, <2>1, StopAllKeeps
  <2>4. NodeShape' /\ DrainStops' /\ BeatsSilent' /\ BeatTrue'
    BY <1>0, <2>1, <2>2, <2>3, AllKept DEF NodeShape, DrainStops, BeatsSilent, BeatTrue
  <2>5. Silent => Silent'  BY <2>1, <2>3, AllKept DEF Silent
  <2>. QED  BY <2>1, <2>3, <2>4, <2>5, RowsStill DEF NodeInv
<1>2. CASE Teardown
  <2>1. /\ Cancel /\ Beside /\ UNCHANGED <<stop, reg, beat, row>>
        /\ node.pc = "drain" /\ node' = [node EXCEPT !.pc = "await"]
    BY <1>2 DEF Teardown
  <2>2. node' \in NodeRecord /\ node'.pc = "await"  BY <1>0, <2>1 DEF NodeRecord
  <2>3. Inv' /\ Cancelled' /\ \A q \in Runners : Keeps(q)  BY <1>0, <2>1, CancelKeeps
  <2>4. Silent'  BY <2>3 DEF Silent
  <2>5. NodeShape' /\ DrainStops' /\ BeatsSilent' /\ BeatTrue'
    BY <1>0, <2>1, <2>2, <2>3, <2>4, AllKept DEF NodeShape, DrainStops, BeatsSilent, BeatTrue
  <2>. QED  BY <2>1, <2>3, <2>4, <2>5, RowsStill DEF NodeInv
<1>3. CASE ComponentsDone
  <2>1. UNCHANGED vars /\ UNCHANGED <<reg, beat, row>> /\ node' = [node EXCEPT !.pc = "stop"]
    BY <1>3 DEF ComponentsDone
  <2>2. node' \in NodeRecord /\ node'.pc = "stop"  BY <1>0, <2>1 DEF NodeRecord
  <2>3. Inv' /\ \A q \in Runners : Keeps(q)  BY <1>0, <2>1, VarsStill
  <2>4. AllHalted /\ Silent
    <3>1. CASE node.pc = "await"
      BY <1>0, <2>3, <3>1, AllKept DEF DrainStops, BeatsSilent
    <3>2. CASE Done
      BY <3>2 DEF Done, AllHalted, Halted, Silent
    <3>. QED  BY <1>3, <3>1, <3>2 DEF ComponentsDone, Awaited
  <2>5. AllHalted' /\ Silent'  BY <2>1, <2>3, <2>4, AllKept DEF Silent
  <2>6. NodeShape' /\ DrainStops' /\ BeatsSilent' /\ BeatTrue'
    BY <1>0, <2>1, <2>2, <2>3, <2>5, AllKept DEF NodeShape, DrainStops, BeatsSilent, BeatTrue
  <2>. QED  BY <2>1, <2>3, <2>5, <2>6, RowsStill DEF NodeInv
<1>4. CASE RegistryStop
  <2>1. /\ UNCHANGED vars /\ UNCHANGED <<reg, beat>> /\ node.pc = "stop" /\ beat.pc \in {"tick", "off"}
        /\ node' = [node EXCEPT !.pc = "returned"]
    BY <1>4 DEF RegistryStop
  <2>2. node' \in NodeRecord /\ node'.pc = "returned"  BY <1>0, <2>1 DEF NodeRecord
  <2>3. Inv' /\ \A q \in Runners : Keeps(q)  BY <1>0, <2>1, VarsStill
  <2>4. AllHalted /\ Silent  BY <1>0, <2>1 DEF DrainStops, BeatsSilent
  <2>5. AllHalted' /\ Silent'  BY <2>1, <2>3, <2>4, AllKept DEF Silent
  <2>6. DrainStops' /\ BeatsSilent' /\ BeatTrue'
    BY <1>0, <2>1, <2>2, <2>3, <2>5, AllKept DEF DrainStops, BeatsSilent, BeatTrue
  <2>7. row' \subseteq RowRecord /\ \A v \in row' : RowTrue(v)'
    <3>1. CASE row' = row  BY <1>0, <2>1, <2>3, <2>5, <3>1, RowsStill
    <3>2. CASE row' = {[w EXCEPT !.stopped = TRUE, !.draining = reg.draining,
                               !.busy = Busy, !.open = Claiming] : w \in row}
      <4>1. PICK b \in BOOLEAN, o \in SUBSET Runners : b = Busy /\ o = Claiming
        BY Zenon DEF Busy, Claiming
      <4>2. ~b => QuietBut(o)'
        <5>1. ~b => QuietBut(o)  BY <1>0, <2>4, <4>1, EmptyQuiet
        <5>. QED  BY <2>1, <5>1 DEF QuietBut, Quiet, vars
      <4>3. ASSUME NEW v \in row' PROVE v \in RowRecord /\ RowTrue(v)'
        <5>1. PICK w \in row : v = [w EXCEPT !.stopped = TRUE, !.draining = reg.draining,
                                             !.busy = Busy, !.open = Claiming]
          BY <3>2, Zenon
        <5>2. v = [w EXCEPT !.stopped = TRUE, !.draining = reg.draining, !.busy = b, !.open = o]
          BY <4>1, <5>1
        <5>3. w \in RowRecord /\ reg.draining \in BOOLEAN  BY <1>0 DEF Registration
        <5>4. v \in RowRecord /\ v.draining = reg.draining /\ v.busy = b /\ v.open = o
          BY <5>2, <5>3 DEF RowRecord
        <5>5. v.draining => AllStopped'  BY <1>0, <2>3, <5>4, AllKept DEF DrainStops
        <5>6. RowTrue(v)'  BY <2>1, <2>5, <4>2, <5>4, <5>5, RowReports
        <5>. QED  BY <5>4, <5>6
      <4>. QED  BY <4>3
    <3>. QED  BY <1>4, <3>1, <3>2 DEF RegistryStop
  <2>8. NodeShape'  BY <1>0, <2>1, <2>2, <2>7 DEF NodeShape
  <2>. QED  BY <2>3, <2>6, <2>7, <2>8 DEF NodeInv
<1>5. ASSUME NEW r \in Runners, DrainRunner(r) \/ RunnerDrained(r) PROVE NodeInv'
  <2>1. (DrainWaits(r) \/ DrainReturns(r)) /\ UNCHANGED nodeVars
    BY <1>5 DEF DrainRunner, RunnerDrained
  <2>2. \A q \in Runners : Keeps(q)  BY <1>0, <2>1, RunnersKeep
  <2>3. Inv'  BY <1>0, <2>1, InvStep DEF Next, Host
  <2>. QED  BY <2>1, <2>2, <2>3, NodeStill
<1>. QED  BY <1>1, <1>2, <1>3, <1>4, <1>5 DEF Shutdown

LEMMA EnvironmentInv == ASSUME NodeInv, Environment PROVE NodeInv'
<1>0. /\ node \in NodeRecord /\ reg \in Registration /\ beat \in BeatRecord /\ row \subseteq RowRecord
      /\ DrainStops /\ BeatsSilent /\ BeatTrue /\ Inv /\ \A w \in row : RowTrue(w)
  BY DEF NodeInv, NodeShape
<1>1. CASE HostCancels \/ DeadlinePasses
  <2>1. UNCHANGED vars /\ UNCHANGED <<reg, beat, row>>  BY <1>1 DEF HostCancels, DeadlinePasses
  <2>2. node' \in NodeRecord /\ node'.pc = node.pc
    BY <1>0, <1>1 DEF HostCancels, DeadlinePasses, NodeRecord
  <2>3. Inv' /\ \A q \in Runners : Keeps(q)  BY <1>0, <2>1, VarsStill
  <2>4. Silent => Silent'  BY <2>1, <2>3, AllKept DEF Silent
  <2>5. NodeShape' /\ DrainStops' /\ BeatsSilent' /\ BeatTrue'
    BY <1>0, <2>1, <2>2, <2>3, <2>4, AllKept DEF NodeShape, DrainStops, BeatsSilent, BeatTrue
  <2>. QED  BY <2>1, <2>3, <2>4, <2>5, RowsStill DEF NodeInv
<1>2. CASE ComponentFails
  <2>1. Cancel /\ Beside /\ stop' = stop /\ UNCHANGED nodeVars  BY <1>2 DEF ComponentFails
  <2>2. Inv' /\ \A q \in Runners : Keeps(q)  BY <1>0, <2>1, CancelKeeps
  <2>. QED  BY <2>1, <2>2, NodeStill
<1>3. CASE NodeDies
  <2>1. /\ node' = [node EXCEPT !.pc = "dead"] /\ beat' = [Idled EXCEPT !.pc = "off"]
        /\ UNCHANGED <<reg, row>> /\ node.pc # "check"
    BY <1>3 DEF NodeDies
  <2>2. node' \in NodeRecord /\ node'.pc = "dead" /\ beat' \in BeatRecord /\ beat'.pc = "off"
    BY <1>0, <2>1 DEF NodeRecord, BeatRecord, Idled
  <2>3. Inv' /\ AllHalted' /\ (\A open : QuietBut(open)') /\ \A q \in Runners : Keeps(q)  BY <1>0, <1>3, NodeDiesKeeps
  <2>4. Silent'  BY <2>2 DEF Silent
  <2>5. NodeShape' /\ DrainStops' /\ BeatsSilent' /\ BeatTrue'
    BY <1>0, <2>1, <2>2, <2>3, <2>4, AllKept DEF NodeShape, DrainStops, BeatsSilent, BeatTrue
  <2>. QED  BY <2>1, <2>2, <2>3, <2>4, <2>5, RowsStill DEF NodeInv
<1>4. CASE RequestDrain
  <2>1. /\ UNCHANGED vars /\ UNCHANGED <<node, reg, beat>>
        /\ row' = {[w EXCEPT !.asked = TRUE] : w \in row}
    BY <1>4 DEF RequestDrain
  <2>2. Inv' /\ \A q \in Runners : Keeps(q)  BY <1>0, <2>1, VarsStill
  <2>3. Silent => Silent'  BY <2>1, <2>2, AllKept DEF Silent
  <2>4. ASSUME NEW v \in row' PROVE v \in RowRecord /\ RowTrue(v)'
    <3>1. PICK w \in row : v = [w EXCEPT !.asked = TRUE]  BY <2>1, Zenon
    <3>2. /\ v \in RowRecord /\ v.draining = w.draining /\ v.busy = w.busy
          /\ v.open = w.open /\ v.stopped = w.stopped
      BY <1>0, <3>1 DEF RowRecord
    <3>3. RowTrue(w)  BY <1>0
    <3>4. RowTrue(v)'  BY <2>1, <2>2, <2>3, <3>2, <3>3, AllKept DEF RowTrue
    <3>. QED  BY <3>2, <3>4
  <2>5. NodeShape' /\ DrainStops' /\ BeatsSilent' /\ BeatTrue'
    BY <1>0, <2>1, <2>2, <2>3, <2>4, AllKept DEF NodeShape, DrainStops, BeatsSilent, BeatTrue
  <2>. QED  BY <2>2, <2>4, <2>5 DEF NodeInv
<1>5. CASE RowPruned
  <2>1. UNCHANGED vars /\ UNCHANGED <<node, reg, beat>> /\ row' = {}  BY <1>5 DEF RowPruned
  <2>2. Inv' /\ \A q \in Runners : Keeps(q)  BY <1>0, <2>1, VarsStill
  <2>3. Silent => Silent'  BY <2>1, <2>2, AllKept DEF Silent
  <2>4. NodeShape' /\ DrainStops' /\ BeatsSilent' /\ BeatTrue'
    BY <1>0, <2>1, <2>2, <2>3, AllKept DEF NodeShape, DrainStops, BeatsSilent, BeatTrue
  <2>. QED  BY <2>1, <2>2, <2>4 DEF NodeInv
<1>. QED  BY <1>1, <1>2, <1>3, <1>4, <1>5 DEF Environment

----------------------------------------------------------------------------

LEMMA NodeInitInv == NodeInit => NodeInv
<1>. SUFFICES ASSUME NodeInit PROVE NodeInv  OBVIOUS
<1>1. Inv  BY InvInit DEF NodeInit
<1>2. NodeShape
  BY DEF NodeInit, NewNode, NewRegistration, Idled, NodeShape, NodeRecord, Registration, BeatRecord
<1>3. node.pc = "check" /\ reg.draining = FALSE /\ beat.pc = "tick" /\ row = {}
  BY DEF NodeInit, NewNode, NewRegistration, Idled
<1>4. DrainStops /\ BeatsSilent /\ BeatTrue  BY <1>3 DEF DrainStops, BeatsSilent, BeatTrue
<1>. QED  BY <1>1, <1>2, <1>3, <1>4 DEF NodeInv

LEMMA NodeNextInv == NodeInv /\ [NodeNext]_deployVars => NodeInv'
<1>. SUFFICES ASSUME NodeInv, [NodeNext]_deployVars PROVE NodeInv'  OBVIOUS
<1>0. Inv /\ NodeShape /\ DrainStops /\ BeatsSilent /\ BeatTrue /\ \A w \in row : RowTrue(w)
  BY DEF NodeInv
<1>1. ASSUME UNCHANGED vars, UNCHANGED nodeVars PROVE NodeInv'
  BY <1>0, <1>1, VarsStill, NodeStill
<1>2. ASSUME World \/ \E r \in Runners : Loop(r) \/ Dispatch(r), UNCHANGED nodeVars PROVE NodeInv'
  <2>1. Inv'  BY <1>0, <1>2, InvStep DEF Next
  <2>2. \A q \in Runners : Keeps(q)  BY <1>0, <1>2, RunnersKeep
  <2>. QED  BY <1>2, <2>1, <2>2, NodeStill
<1>3. CASE NodeSteps
  BY <1>2, <1>3, RegisterInv, BeatsInv, ShutdownInv, EnvironmentInv
     DEF NodeSteps, Around, RunnerSteps, Running
<1>4. CASE Migrations \/ UNCHANGED deployVars
  BY <1>1, <1>4 DEF Migrations, deployVars, allVars
<1>5. CASE CheckSchema
  <2>1. /\ UNCHANGED vars /\ UNCHANGED <<reg, beat, row>> /\ node.pc = "check"
        /\ node' = [node EXCEPT !.pc = "register"]
    BY <1>5 DEF CheckSchema
  <2>2. node' \in NodeRecord /\ node'.pc = "register"  BY <1>0, <2>1 DEF NodeShape, NodeRecord
  <2>3. Inv' /\ \A q \in Runners : Keeps(q)  BY <1>0, <2>1, VarsStill
  <2>4. Silent => Silent'  BY <2>1, <2>3, AllKept DEF Silent
  <2>5. NodeShape' /\ DrainStops' /\ BeatsSilent' /\ BeatTrue'
    BY <1>0, <2>1, <2>2, <2>3, <2>4, AllKept DEF NodeShape, DrainStops, BeatsSilent, BeatTrue
  <2>. QED  BY <2>1, <2>3, <2>4, <2>5, RowsStill DEF NodeInv
<1>. QED  BY <1>3, <1>4, <1>5 DEF NodeNext

LEMMA NodeInvariance == NodeSpec => []NodeInv
BY NodeInitInv, NodeNextInv, PTL DEF NodeSpec

\* Once a row of job_nodes reports nothing in flight of a node that is draining
\* or has stopped, a Runner of the node runs a job or claims one only if its loop
\* was past its last look at Stop when registration.beat or stop counted, for any
\* number of Runners.
THEOREM ReportSafety == NodeSpec => []ReportedEmptyIsEmpty
<1>1. NodeInv => ReportedEmptyIsEmpty
  BY DEF NodeInv, RowTrue, QuietBut, ReportedEmptyIsEmpty
<1>. QED  BY <1>1, NodeInvariance, PTL


----------------------------------------------------------------------------
(* The schema.  What a nil return promised stays true, for any number of     *)
(* processes and calls and whatever indexes earlier releases and failed      *)
(* builds left: under the lock one call works at a time, a host's call that  *)
(* nothing overlapped was alone, and so what such a call still has to do is  *)
(* what the catalog shows.                                                   *)

CallStates ==
    [pc : {"idle", "lock", "tables", "storage", "inspect", "apply", "building", "return"},
     reconcile : BOOLEAN, concurrently : BOOLEAN, drift : [Indexes -> IndexStates],
     drifted : BOOLEAN, result : {"none", "nil", "drift", "set", "failed"}, beside : BOOLEAN]

SchemaShape ==
    /\ owner \in {"library", "host"}
    /\ tables \in [Tables -> {"absent", "old", "whole"}]
    /\ params \subseteq Settings
    /\ indexes \in [Indexes -> IndexStates]
    /\ twins \in BOOLEAN
    /\ call \in [Callers -> CallStates]

\* A call that is past the lock and has not failed.
Working(p) ==
    \/ call[p].pc \in {"tables", "storage", "inspect", "apply", "building"}
    \/ call[p].pc = "return" /\ call[p].result # "failed"

\* Under the migration lock one call works at a time.
LockHeld == owner = "library" => \A p \in Callers : Working(p) => advisory = p

\* A call that no other overlapped is alone now.
BesideTrue ==
    \A p \in Callers : call[p].pc # "idle" /\ ~call[p].beside
        => \A q \in Callers \ {p} : call[q].pc = "idle"

\* A valid unique index keeps twins out.
KeyOK == indexes["key"] = "ours" => ~twins

\* What a call under the lock has behind it: the tables, then the settings.
Returning(p, results) == call[p].pc = "return" /\ call[p].result \in results
StagesOK(p) ==
    /\ owner = "library" /\ (\/ call[p].pc \in {"storage", "inspect", "apply", "building"}
                             \/ Returning(p, {"nil", "drift"}))
       => tables["jobs"] = "whole" /\ tables["nodes"] = "whole"
    /\ (\/ owner = "library" /\ (\/ call[p].pc \in {"inspect", "apply", "building"}
                                 \/ Returning(p, {"nil", "drift"}))
        \/ Returning(p, {"set"}))
       => Settings \subseteq params

\* A call whose inspection nobody disturbs: it holds the lock, or was alone.
Sole(p) == IF owner = "library" THEN advisory = p ELSE ~call[p].beside

\* What is left to do is what the catalog shows, and what is done is installed
\* or reported as drift.
IndexOK(p, i) ==
    /\ call[p].pc \in {"apply", "building"} /\ Sole(p) =>
          /\ call[p].drift[i] = "ours" /\ ~call[p].drifted => indexes[i] = "ours"
          /\ call[p].drift[i] # "ours" /\ ~Builds(p, i) => indexes[i] = call[p].drift[i]
    /\ Returning(p, {"nil"}) /\ Sole(p) => indexes[i] = "ours"

PromiseOK ==
    /\ PromiseKept
    /\ "indexes" \in promised => owner = "library"

SchemaInv ==
    /\ SchemaShape /\ LockHeld /\ BesideTrue /\ KeyOK /\ PromiseOK
    /\ \A p \in Callers : StagesOK(p) /\ \A i \in Indexes : IndexOK(p, i)
----------------------------------------------------------------------------
(* A call's record, and whose turn an index is. *)

LEMMA PutRecord ==
    ASSUME SchemaShape, NEW p \in Callers, NEW c \in CallStates, Put(p, c)
    PROVE  /\ call' \in [Callers -> CallStates]
           /\ call'[p] = c
           /\ \A q \in Callers : q # p => call'[q] = call[q]
BY DEF SchemaShape, Put

LEMMA CallType ==
    ASSUME SchemaShape, NEW p \in Callers
    PROVE  call[p] \in CallStates
BY DEF SchemaShape

LEMMA OneTurn ==
    ASSUME NEW p \in Callers, NEW i, NEW j, Turn(p, i), Turn(p, j)
    PROVE  i = j /\ i \in Indexes /\ call[p].drift[i] # "ours"
<1>1. DOMAIN IndexSet = 1..2 /\ IndexSet[1] = "key" /\ IndexSet[2] = "ready"
  BY DEF IndexSet
<1>2. PICK n \in 1..2 : /\ i = IndexSet[n] /\ call[p].drift[i] # "ours"
                        /\ \A k \in 1..(n - 1) : call[p].drift[IndexSet[k]] = "ours"
  BY <1>1 DEF Turn
<1>3. PICK m \in 1..2 : /\ j = IndexSet[m] /\ call[p].drift[j] # "ours"
                        /\ \A k \in 1..(m - 1) : call[p].drift[IndexSet[k]] = "ours"
  BY <1>1 DEF Turn
<1>4. n = m
  BY <1>2, <1>3
<1> QED
  BY <1>1, <1>2, <1>3, <1>4 DEF Indexes

\* The tables and the storage settings only gain, by any step.
Gains ==
    /\ owner' = owner
    /\ \A t \in Tables : tables[t] = "whole" => tables'[t] = "whole"
    /\ params \subseteq params'

\* A step that leaves another call's record alone leaves what that call has
\* behind it.
LEMMA StagesStay ==
    ASSUME NEW q \in Callers, StagesOK(q), Gains, call'[q] = call[q]
    PROVE  StagesOK(q)'
BY DEF StagesOK, Gains, Returning, Tables

\* No index of another call is disturbed by a call that works on indexes.
LEMMA OthersIndexes ==
    ASSUME SchemaInv, NEW p \in Callers, NEW q \in Callers, q # p, NEW i \in Indexes,
           call[p].pc \in {"inspect", "apply", "building"},
           owner' = owner, advisory' = advisory, call'[q] = call[q]
    PROVE  IndexOK(q, i)'
<1>1. Sole(q)' <=> Sole(q)
  BY DEF Sole
<1>2. SUFFICES ASSUME Sole(q), \/ call[q].pc \in {"apply", "building"} \/ Returning(q, {"nil"})
               PROVE  FALSE
  BY <1>1 DEF IndexOK, Returning
<1>3. CASE owner = "library"
  BY <1>2, <1>3 DEF SchemaInv, LockHeld, Working, Sole, Returning
<1>4. CASE owner # "library"
  BY <1>2, <1>4 DEF SchemaInv, BesideTrue, Sole, Returning
<1> QED
  BY <1>3, <1>4

\* A step that changes no index, and one other call's record at most, leaves an
\* index as it was to a call.
LEMMA IndexStays ==
    ASSUME NEW q \in Callers, NEW i \in Indexes, IndexOK(q, i),
           Sole(q)' => Sole(q), indexes' = indexes, call'[q] = call[q]
    PROVE  IndexOK(q, i)'
<1>1. Builds(q, i)' <=> Builds(q, i)
  BY DEF Builds, Turn
<1> QED
  BY <1>1 DEF IndexOK, Returning

----------------------------------------------------------------------------
(* The promises. *)

\* A promise stands over a step that adds none, gains, and keeps every index
\* that the promise is about.
LEMMA PromisesStand ==
    ASSUME SchemaInv, Gains, promised' = promised, KeyOK',
           indexes["key"] = "ours" => indexes'["key"] = "ours",
           owner = "library" => (indexes["ready"] = "ours" => indexes'["ready"] = "ours")
    PROVE  PromiseOK'
BY DEF SchemaInv, PromiseOK, PromiseKept, Gains, Gap, Current, Installed, KeyOK,
       Tables, Indexes, Correctness, Settings

\* The index a call works at, if installed, stays so: always the one that
\* keeps keys unique, and under the lock the other as well.
LEMMA OursStays ==
    ASSUME SchemaInv, NEW p \in Callers, NEW i \in Indexes, IndexSteps(p, i)
    PROVE  /\ indexes' \in [Indexes -> IndexStates]
           /\ \A j \in Indexes : j # i => indexes'[j] = indexes[j]
           /\ indexes["key"] = "ours" => indexes'["key"] = "ours"
           /\ owner = "library" => (indexes["ready"] = "ours" => indexes'["ready"] = "ours")
           /\ indexes'["key"] = "ours" => indexes["key"] = "ours" \/ ~twins
<1> USE DEF Indexes, IndexStates, Correctness
<1>1. indexes \in [Indexes -> IndexStates] /\ twins \in BOOLEAN
  BY DEF SchemaInv, SchemaShape
<1>2. CASE CreateIndex(p, i)
  BY <1>1, <1>2 DEF CreateIndex, Refutes
<1>3. CASE BuildStarts(p, i)
  BY <1>1, <1>3 DEF BuildStarts
<1>4. CASE BuildEnds(p, i)
  BY <1>1, <1>4 DEF BuildEnds, Refutes
<1>5. CASE RepairInvalidIndex(p, i)
  <2>1. i # "key" /\ indexes' = [indexes EXCEPT ![i] = "none"]
    BY <1>5 DEF RepairInvalidIndex, Repairs
  <2>2. call[p].pc = "apply" /\ call[p].drift[i] = "invalid"
    BY <1>5 DEF RepairInvalidIndex, Acts
  <2>3. owner = "library" => Sole(p)
    BY <2>2 DEF SchemaInv, LockHeld, Working, Sole
  <2>4. owner = "library" => indexes[i] = "invalid"
    BY <2>2, <2>3 DEF SchemaInv, IndexOK, Builds
  <2> QED
    BY <1>1, <2>1, <2>4
<1>6. CASE ReconcileIndex(p, i)
  BY <1>1, <1>6 DEF ReconcileIndex, Refutes
<1>7. CASE Collect(p, i) \/ Refused(p, i)
  BY <1>1, <1>7 DEF Collect, Refused, Schema
<1> QED
  BY <1>2, <1>3, <1>4, <1>5, <1>6, <1>7 DEF IndexSteps

----------------------------------------------------------------------------
(* The steps that work at an index. *)

\* What they have in common: the call was at the index, goes on or fails, and
\* nothing but the index and its own record changes.
LEMMA IndexRecord ==
    ASSUME SchemaInv, NEW p \in Callers, NEW i \in Indexes, IndexSteps(p, i)
    PROVE  /\ call[p].pc \in {"apply", "building"} /\ Turn(p, i)
           /\ \E c \in CallStates :
                 /\ Put(p, c) /\ c.beside = call[p].beside
                 /\ c.pc \in {"apply", "building"} \/ (c.pc = "return" /\ c.result = "failed")
           /\ UNCHANGED <<owner, tables, params, twins, advisory, promised>>
<1> DEFINE c == call[p]
           good(d) == /\ Put(p, d) /\ d \in CallStates /\ d.beside = c.beside
                      /\ d.pc \in {"apply", "building"} \/ (d.pc = "return" /\ d.result = "failed")
<1>1. c \in CallStates
  BY CallType DEF SchemaInv
<1>2. /\ Onward(p, i) \in CallStates /\ [Onward(p, i) EXCEPT !.drifted = TRUE] \in CallStates
      /\ Onward(p, i).beside = c.beside /\ Onward(p, i).pc = "apply"
      /\ [Onward(p, i) EXCEPT !.drifted = TRUE].beside = c.beside
      /\ [Onward(p, i) EXCEPT !.drifted = TRUE].pc = "apply"
  BY <1>1 DEF Onward, CallStates, IndexStates
<1>3. CASE CreateIndex(p, i)
  <2>1. good(Onward(p, i))
    BY <1>2, <1>3 DEF CreateIndex
  <2> QED
    BY <1>3, <2>1 DEF CreateIndex, Acts
<1>4. CASE BuildStarts(p, i)
  <2>1. CASE indexes[i] = "none"
    <3>1. good([c EXCEPT !.pc = "building"])
      BY <1>1, <1>4, <2>1 DEF BuildStarts, CallStates
    <3> QED
      BY <1>4, <3>1 DEF BuildStarts, Acts
  <2>2. CASE indexes[i] # "none"
    <3>1. good(Onward(p, i))
      BY <1>2, <1>4, <2>2 DEF BuildStarts
    <3> QED
      BY <1>4, <3>1 DEF BuildStarts, Acts
  <2> QED
    BY <2>1, <2>2
<1>5. CASE BuildEnds(p, i)
  <2>1. good(Onward(p, i))
    BY <1>2, <1>5 DEF BuildEnds
  <2> QED
    BY <1>5, <2>1 DEF BuildEnds, Builds
<1>6. CASE RepairInvalidIndex(p, i)
  <2>1. good([c EXCEPT !.drift[i] = "none"])
    BY <1>1, <1>6 DEF RepairInvalidIndex, Acts, CallStates, IndexStates
  <2> QED
    BY <1>6, <2>1 DEF RepairInvalidIndex, Acts
<1>7. CASE ReconcileIndex(p, i)
  <2>1. good(Onward(p, i))
    BY <1>2, <1>7 DEF ReconcileIndex
  <2> QED
    BY <1>7, <2>1 DEF ReconcileIndex, Differs, Acts
<1>8. CASE Collect(p, i)
  <2>1. good([Onward(p, i) EXCEPT !.drifted = TRUE])
    BY <1>2, <1>8 DEF Collect
  <2> QED
    BY <1>8, <2>1 DEF Collect, Differs, Acts, Schema
<1>9. CASE Refused(p, i)
  <2>1. good([c EXCEPT !.pc = "return", !.result = "failed"])
    BY <1>1, <1>9 DEF Refused, CallStates
  <2>2. call[p].pc \in {"apply", "building"} /\ Turn(p, i)
    BY <1>9 DEF Refused, Builds, Differs, Acts
  <2> QED
    BY <1>9, <2>1, <2>2 DEF Refused, Schema
<1> QED
  BY <1>3, <1>4, <1>5, <1>6, <1>7, <1>8, <1>9 DEF IndexSteps

\* The call's own view: what it did is installed or reported, and what is left
\* is what the catalog still shows.
LEMMA OwnIndexes ==
    ASSUME SchemaInv, NEW p \in Callers, NEW i \in Indexes, IndexSteps(p, i), NEW j \in Indexes
    PROVE  IndexOK(p, j)'
<1>1. call[p] \in CallStates /\ call \in [Callers -> CallStates] /\ indexes \in [Indexes -> IndexStates]
  BY CallType DEF SchemaInv, SchemaShape
<1>2. Turn(p, i) /\ (j # i => ~Turn(p, j))
  BY IndexRecord, OneTurn
<1>3. call[p].pc \in {"apply", "building"} /\ owner' = owner /\ advisory' = advisory
  BY IndexRecord
<1>4. call'[p].beside = call[p].beside
  BY IndexRecord, <1>1 DEF Put
<1>5. Sole(p)' <=> Sole(p)
  BY <1>3, <1>4 DEF Sole
<1>6. SUFFICES ASSUME Sole(p)
               PROVE  IndexOK(p, j)'
  BY <1>5 DEF IndexOK
<1>7. \A k \in Indexes :
        /\ call[p].drift[k] = "ours" /\ ~call[p].drifted => indexes[k] = "ours"
        /\ call[p].drift[k] # "ours" /\ ~Builds(p, k) => indexes[k] = call[p].drift[k]
  BY <1>3, <1>6 DEF SchemaInv, IndexOK
<1>8. j # i => ~Builds(p, j) /\ indexes'[j] = indexes[j]
  BY <1>2, OursStays DEF Builds
<1>9. CASE CreateIndex(p, i)
  <2>1. ~Builds(p, i) /\ call[p].drift[i] = "none"
    BY <1>9 DEF CreateIndex, Acts, Builds
  <2>2. indexes'[i] = "ours"
    BY <1>1, <1>7, <1>9, <2>1 DEF CreateIndex
  <2>3. call'[p] = Onward(p, i)
    BY <1>1, <1>9 DEF CreateIndex, Put
  <2> QED
    BY <1>1, <1>7, <1>8, <2>2, <2>3 DEF Onward, IndexOK, Returning, Builds, CallStates
<1>10. CASE BuildStarts(p, i)
  <2>1. ~Builds(p, i) /\ call[p].drift[i] = "none"
    BY <1>10 DEF BuildStarts, Acts, Builds
  <2>2. indexes[i] = "none" /\ indexes' = [indexes EXCEPT ![i] = "invalid"]
        /\ call'[p] = [call[p] EXCEPT !.pc = "building"]
    BY <1>1, <1>7, <1>10, <2>1 DEF BuildStarts, Put
  <2>3. Turn(p, i)'
    BY <1>1, <1>2, <2>2 DEF Turn, CallStates
  <2> QED
    BY <1>1, <1>7, <1>8, <2>1, <2>2, <2>3 DEF IndexOK, Returning, Builds, CallStates
<1>11. CASE BuildEnds(p, i)
  <2>1. indexes'[i] = "ours" /\ call'[p] = Onward(p, i)
    BY <1>1, <1>11 DEF BuildEnds, Put
  <2> QED
    BY <1>1, <1>7, <1>8, <2>1 DEF Onward, IndexOK, Returning, Builds, CallStates
<1>12. CASE RepairInvalidIndex(p, i)
  <2>1. indexes'[i] = "none" /\ call'[p] = [call[p] EXCEPT !.drift[i] = "none"] /\ call[p].pc = "apply"
    BY <1>1, <1>12 DEF RepairInvalidIndex, Put, Acts
  <2> QED
    BY <1>1, <1>7, <1>8, <2>1 DEF IndexOK, Returning, Builds, CallStates
<1>13. CASE ReconcileIndex(p, i)
  <2>1. indexes'[i] = "ours" /\ call'[p] = Onward(p, i)
    BY <1>1, <1>13 DEF ReconcileIndex, Put
  <2> QED
    BY <1>1, <1>7, <1>8, <2>1 DEF Onward, IndexOK, Returning, Builds, CallStates
<1>14. CASE Collect(p, i)
  <2>1. call'[p] = [Onward(p, i) EXCEPT !.drifted = TRUE]
    BY <1>1, <1>14 DEF Collect, Put
  <2> QED
    BY <1>1, <1>7, <1>8, <2>1 DEF Onward, IndexOK, Returning, Builds, CallStates
<1>15. CASE Refused(p, i)
  <2>1. call'[p] = [call[p] EXCEPT !.pc = "return", !.result = "failed"]
    BY <1>1, <1>15 DEF Refused, Put
  <2> QED
    BY <1>1, <2>1 DEF IndexOK, Returning, CallStates
<1> QED
  BY <1>9, <1>10, <1>11, <1>12, <1>13, <1>14, <1>15 DEF IndexSteps

LEMMA IndexStepInv ==
    ASSUME SchemaInv, NEW p \in Callers, NEW i \in Indexes, IndexSteps(p, i)
    PROVE  SchemaInv'
<1>1. /\ call[p].pc \in {"apply", "building"}
      /\ UNCHANGED <<owner, tables, params, twins, advisory, promised>>
  BY IndexRecord
<1>2. PICK c \in CallStates :
        /\ Put(p, c) /\ c.beside = call[p].beside
        /\ c.pc \in {"apply", "building"} \/ (c.pc = "return" /\ c.result = "failed")
  BY IndexRecord
<1>3. /\ call' \in [Callers -> CallStates] /\ call'[p] = c
      /\ \A q \in Callers : q # p => call'[q] = call[q]
  BY <1>2, PutRecord DEF SchemaInv
<1>4. SchemaShape'
  BY <1>1, <1>3, OursStays DEF SchemaInv, SchemaShape
<1>5. LockHeld'
  BY <1>1, <1>2, <1>3 DEF SchemaInv, LockHeld, Working
<1>6. BesideTrue'
  BY <1>1, <1>2, <1>3 DEF SchemaInv, BesideTrue
<1>7. KeyOK'
  BY <1>1, OursStays DEF SchemaInv, KeyOK
<1>8. Gains
  BY <1>1 DEF Gains
<1>9. PromiseOK'
  BY <1>1, <1>7, <1>8, OursStays, PromisesStand
<1>10. ASSUME NEW q \in Callers PROVE StagesOK(q)'
  <2>1. StagesOK(q)
    BY DEF SchemaInv
  <2>2. CASE q # p
    BY <1>3, <1>8, <2>1, <2>2, StagesStay
  <2>3. CASE q = p
    BY <1>1, <1>2, <1>3, <2>1, <2>3 DEF StagesOK, Returning
  <2> QED
    BY <2>2, <2>3
<1>11. ASSUME NEW q \in Callers, NEW j \in Indexes PROVE IndexOK(q, j)'
  BY <1>1, <1>3, OwnIndexes, OthersIndexes
<1> QED
  BY <1>4, <1>5, <1>6, <1>7, <1>9, <1>10, <1>11 DEF SchemaInv

----------------------------------------------------------------------------
(* The steps before and after the indexes. *)

\* A step of one call that changes its record alone, and neither starts a call
\* nor touches an index.
LEMMA RecordStep ==
    ASSUME SchemaInv, NEW p \in Callers, NEW c \in CallStates, Put(p, c), call[p].pc # "idle",
           c.beside = call[p].beside \/ c.pc = "idle",
           SchemaShape', Gains, indexes' = indexes, twins' = twins, promised' = promised \/ PromiseOK',
           \A q \in Callers : q # p => (Sole(q)' => Sole(q)),
           LockHeld', StagesOK(p)', \A i \in Indexes : IndexOK(p, i)'
    PROVE  SchemaInv'
<1>1. call'[p] = c /\ \A q \in Callers : q # p => call'[q] = call[q]
  BY PutRecord DEF SchemaInv
<1>2. BesideTrue'
  BY <1>1 DEF SchemaInv, BesideTrue
<1>3. KeyOK'
  BY DEF SchemaInv, KeyOK
<1>4. PromiseOK'
  BY <1>3, PromisesStand
<1>5. ASSUME NEW q \in Callers PROVE StagesOK(q)'
  BY <1>1, StagesStay DEF SchemaInv
<1>6. ASSUME NEW q \in Callers, NEW i \in Indexes PROVE IndexOK(q, i)'
  BY <1>1, IndexStays DEF SchemaInv
<1> QED
  BY <1>2, <1>3, <1>4, <1>5, <1>6 DEF SchemaInv

\* The lock is taken when nobody has it: whoever worked under it was done.
LEMMA TryLockInv ==
    ASSUME SchemaInv, NEW p \in Callers, TryLock(p)
    PROVE  SchemaInv'
<1> DEFINE c == [call[p] EXCEPT !.pc = "tables"]
<1>1. call[p] \in CallStates /\ NoCaller \notin Callers
  BY CallType, MigrateAssumption DEF SchemaInv
<1>2. /\ c \in CallStates /\ c.pc = "tables" /\ c.beside = call[p].beside
      /\ Put(p, c) /\ call[p].pc = "lock" /\ advisory = NoCaller /\ advisory' = p
      /\ UNCHANGED <<Schema, promised>>
  BY <1>1 DEF TryLock, CallStates
<1> HIDE DEF c
<1>3. /\ call' \in [Callers -> CallStates] /\ call'[p] = c
      /\ \A q \in Callers : q # p => call'[q] = call[q]
  BY <1>2, PutRecord DEF SchemaInv
<1>4. SchemaShape'
  BY <1>2, <1>3 DEF SchemaInv, SchemaShape, Schema
<1>5. LockHeld'
  BY <1>1, <1>2, <1>3 DEF SchemaInv, LockHeld, Working, Schema
<1>6. StagesOK(p)' /\ \A i \in Indexes : IndexOK(p, i)'
  BY <1>2, <1>3 DEF StagesOK, IndexOK, Returning
<1>7. \A q \in Callers : q # p => (Sole(q)' => Sole(q))
  BY <1>2, <1>3 DEF Sole, Schema
<1>8. Gains
  BY <1>2 DEF Gains, Schema
<1> QED
  BY <1>2, <1>4, <1>5, <1>6, <1>7, <1>8, RecordStep DEF Schema

LEMMA MigrateTableInv ==
    ASSUME SchemaInv, NEW p \in Callers, MigrateTable(p)
    PROVE  SchemaInv'
<1>1. /\ call[p] \in CallStates /\ call[p].pc = "tables"
      /\ call \in [Callers -> CallStates]
      /\ UNCHANGED <<owner, params, indexes, twins, advisory, promised>>
  BY CallType DEF SchemaInv, SchemaShape, MigrateTable
<1>2. ASSUME \A t \in Tables : ~Gap(t), Put(p, [call[p] EXCEPT !.pc = "storage"]), UNCHANGED tables
      PROVE  SchemaInv'
  <2> DEFINE c == [call[p] EXCEPT !.pc = "storage"]
  <2>1. c \in CallStates /\ c.pc = "storage" /\ c.beside = call[p].beside /\ Put(p, c)
    BY <1>1, <1>2 DEF CallStates
  <2> HIDE DEF c
  <2>2. /\ call' \in [Callers -> CallStates] /\ call'[p] = c
        /\ \A q \in Callers : q # p => call'[q] = call[q]
    BY <2>1, PutRecord DEF SchemaInv
  <2>3. SchemaShape'
    BY <1>1, <1>2, <2>2 DEF SchemaInv, SchemaShape
  <2>4. LockHeld'
    BY <1>1, <2>1, <2>2 DEF SchemaInv, LockHeld, Working
  <2>5. StagesOK(p)' /\ \A i \in Indexes : IndexOK(p, i)'
    BY <1>2, <2>1, <2>2 DEF StagesOK, IndexOK, Returning, Gap, Tables
  <2>6. \A q \in Callers : q # p => (Sole(q)' => Sole(q))
    BY <1>1, <2>2 DEF Sole
  <2>7. Gains
    BY <1>1, <1>2 DEF Gains
  <2> QED
    BY <1>1, <2>1, <2>3, <2>4, <2>5, <2>6, <2>7, RecordStep
<1>3. ASSUME NEW t \in Tables, tables' = [tables EXCEPT ![t] = "whole"], UNCHANGED call
      PROVE  SchemaInv'
  <2>1. SchemaShape' /\ Gains
    BY <1>1, <1>3 DEF SchemaInv, SchemaShape, Gains
  <2>2. LockHeld' /\ BesideTrue' /\ KeyOK'
    BY <1>1, <1>3 DEF SchemaInv, LockHeld, Working, BesideTrue, KeyOK
  <2>3. PromiseOK'
    BY <1>1, <2>1, <2>2, PromisesStand
  <2>4. ASSUME NEW q \in Callers PROVE StagesOK(q)'
    BY <1>3, <2>1, StagesStay DEF SchemaInv
  <2>5. ASSUME NEW q \in Callers, NEW i \in Indexes PROVE IndexOK(q, i)'
    <3>1. Sole(q)' => Sole(q)
      BY <1>1, <1>3 DEF Sole
    <3> QED
      BY <1>1, <1>3, <3>1, IndexStays DEF SchemaInv
  <2> QED
    BY <2>1, <2>2, <2>3, <2>4, <2>5 DEF SchemaInv
<1>4. DOMAIN Models = 1..2 /\ Models[1] \in Tables /\ Models[2] \in Tables
  BY DEF Models, Tables
<1> QED
  BY <1>2, <1>3, <1>4 DEF MigrateTable

LEMMA SetStorageInv ==
    ASSUME SchemaInv, NEW p \in Callers, SetStorage(p)
    PROVE  SchemaInv'
<1>1. /\ call[p] \in CallStates /\ call[p].pc = "storage"
      /\ call \in [Callers -> CallStates] /\ owner \in {"library", "host"}
      /\ UNCHANGED <<owner, tables, indexes, twins, advisory, promised>>
  BY CallType DEF SchemaInv, SchemaShape, SetStorage
<1>2. ASSUME \A s \in Settings : Current(s), Put(p, AfterStorage(call[p])), UNCHANGED params
      PROVE  SchemaInv'
  <2> DEFINE c == AfterStorage(call[p])
  <2>1. /\ c \in CallStates /\ c.beside = call[p].beside /\ Put(p, c)
        /\ IF owner = "library" THEN c.pc = "inspect" ELSE c.pc = "return" /\ c.result = "set"
    BY <1>1, <1>2 DEF CallStates, AfterStorage
  <2> HIDE DEF c
  <2>2. /\ call' \in [Callers -> CallStates] /\ call'[p] = c
        /\ \A q \in Callers : q # p => call'[q] = call[q]
    BY <2>1, PutRecord DEF SchemaInv
  <2>3. SchemaShape'
    BY <1>1, <1>2, <2>2 DEF SchemaInv, SchemaShape
  <2>4. LockHeld'
    BY <1>1, <2>1, <2>2 DEF SchemaInv, LockHeld, Working
  <2>5. Settings \subseteq params'
    BY <1>2 DEF Current
  <2>6. StagesOK(p)
    BY DEF SchemaInv
  <2>7. StagesOK(p)'
    BY <1>1, <2>1, <2>2, <2>5, <2>6 DEF StagesOK, Returning
  <2>8. \A i \in Indexes : IndexOK(p, i)'
    BY <2>1, <2>2 DEF IndexOK, Returning
  <2>9. \A q \in Callers : q # p => (Sole(q)' => Sole(q))
    BY <1>1, <2>2 DEF Sole
  <2>10. Gains
    BY <1>1, <1>2 DEF Gains
  <2> QED
    BY <1>1, <2>1, <2>3, <2>4, <2>7, <2>8, <2>9, <2>10, RecordStep
<1>3. ASSUME NEW s \in Settings, params' = params \cup {s}, UNCHANGED call
      PROVE  SchemaInv'
  <2>1. SchemaShape' /\ Gains
    BY <1>1, <1>3 DEF SchemaInv, SchemaShape, Gains
  <2>2. LockHeld' /\ BesideTrue' /\ KeyOK'
    BY <1>1, <1>3 DEF SchemaInv, LockHeld, Working, BesideTrue, KeyOK
  <2>3. PromiseOK'
    BY <1>1, <2>1, <2>2, PromisesStand
  <2>4. ASSUME NEW q \in Callers PROVE StagesOK(q)'
    BY <1>3, <2>1, StagesStay DEF SchemaInv
  <2>5. ASSUME NEW q \in Callers, NEW i \in Indexes PROVE IndexOK(q, i)'
    <3>1. Sole(q)' => Sole(q)
      BY <1>1, <1>3 DEF Sole
    <3> QED
      BY <1>1, <1>3, <3>1, IndexStays DEF SchemaInv
  <2> QED
    BY <2>1, <2>2, <2>3, <2>4, <2>5 DEF SchemaInv
<1>4. /\ DOMAIN StorageParameterSet = 1..2
      /\ StorageParameterSet[1] \in Settings /\ StorageParameterSet[2] \in Settings
  BY DEF StorageParameterSet, Settings
<1> QED
  BY <1>2, <1>3, <1>4 DEF SetStorage

\* The inspection is what the catalog shows now.
LEMMA InspectInv ==
    ASSUME SchemaInv, NEW p \in Callers, Inspect(p)
    PROVE  SchemaInv'
<1> DEFINE c == [call[p] EXCEPT !.pc = "apply", !.drift = indexes]
<1>1. call[p] \in CallStates /\ indexes \in [Indexes -> IndexStates]
  BY CallType DEF SchemaInv, SchemaShape
<1>2. /\ c \in CallStates /\ c.pc = "apply" /\ c.drift = indexes /\ c.beside = call[p].beside
      /\ Put(p, c) /\ call[p].pc = "inspect" /\ advisory' = advisory
      /\ UNCHANGED <<Schema, promised>>
  BY <1>1 DEF Inspect, CallStates
<1> HIDE DEF c
<1>3. /\ call' \in [Callers -> CallStates] /\ call'[p] = c
      /\ \A q \in Callers : q # p => call'[q] = call[q]
  BY <1>2, PutRecord DEF SchemaInv
<1>4. SchemaShape'
  BY <1>2, <1>3 DEF SchemaInv, SchemaShape, Schema
<1>5. LockHeld'
  BY <1>2, <1>3 DEF SchemaInv, LockHeld, Working, Schema
<1>6. StagesOK(p)
  BY DEF SchemaInv
<1>7. StagesOK(p)'
  BY <1>2, <1>3, <1>6 DEF StagesOK, Returning, Schema
<1>8. \A i \in Indexes : IndexOK(p, i)'
  BY <1>2, <1>3 DEF IndexOK, Returning, Schema
<1>9. \A q \in Callers : q # p => (Sole(q)' => Sole(q))
  BY <1>2, <1>3 DEF Sole, Schema
<1>10. Gains
  BY <1>2 DEF Gains, Schema
<1> QED
  BY <1>2, <1>4, <1>5, <1>7, <1>8, <1>9, <1>10, RecordStep DEF Schema

\* A call returns nil when nothing was left to do and nothing was reported.
LEMMA ApplyEndsInv ==
    ASSUME SchemaInv, NEW p \in Callers, ApplyEnds(p)
    PROVE  SchemaInv'
<1> DEFINE c == [call[p] EXCEPT !.pc = "return", !.result = IF call[p].drifted THEN "drift" ELSE "nil"]
<1>1. call[p] \in CallStates
  BY CallType DEF SchemaInv
<1>2. /\ c \in CallStates /\ c.pc = "return" /\ c.beside = call[p].beside
      /\ c.result \in {"drift", "nil"} /\ (c.result = "nil" => ~call[p].drifted)
      /\ Put(p, c) /\ call[p].pc = "apply" /\ advisory' = advisory
      /\ \A i \in Indexes : call[p].drift[i] = "ours"
      /\ UNCHANGED <<Schema, promised>>
  BY <1>1 DEF ApplyEnds, CallStates
<1> HIDE DEF c
<1>3. /\ call' \in [Callers -> CallStates] /\ call'[p] = c
      /\ \A q \in Callers : q # p => call'[q] = call[q]
  BY <1>2, PutRecord DEF SchemaInv
<1>4. SchemaShape'
  BY <1>2, <1>3 DEF SchemaInv, SchemaShape, Schema
<1>5. LockHeld'
  BY <1>2, <1>3 DEF SchemaInv, LockHeld, Working, Schema
<1>6. StagesOK(p)
  BY DEF SchemaInv
<1>7. StagesOK(p)'
  BY <1>2, <1>3, <1>6 DEF StagesOK, Returning, Schema
<1>8. ASSUME NEW i \in Indexes PROVE IndexOK(p, i)'
  <2>1. Sole(p)' => Sole(p)
    BY <1>2, <1>3 DEF Sole, Schema
  <2>2. IndexOK(p, i)
    BY DEF SchemaInv
  <2> QED
    BY <1>2, <1>3, <2>1, <2>2 DEF IndexOK, Returning, Schema
<1>9. \A q \in Callers : q # p => (Sole(q)' => Sole(q))
  BY <1>2, <1>3 DEF Sole, Schema
<1>10. Gains
  BY <1>2 DEF Gains, Schema
<1> QED
  BY <1>2, <1>4, <1>5, <1>7, <1>8, <1>9, <1>10, RecordStep DEF Schema

LEMMA StatementFailsInv ==
    ASSUME SchemaInv, NEW p \in Callers, StatementFails(p)
    PROVE  SchemaInv'
<1> DEFINE c == [call[p] EXCEPT !.pc = "return", !.result = "failed"]
<1>1. call[p] \in CallStates
  BY CallType DEF SchemaInv
<1>2. /\ c \in CallStates /\ c.pc = "return" /\ c.result = "failed" /\ c.beside = call[p].beside
      /\ Put(p, c) /\ call[p].pc # "idle" /\ advisory' = advisory
      /\ UNCHANGED <<Schema, promised>>
  BY <1>1 DEF StatementFails, CallStates
<1> HIDE DEF c
<1>3. /\ call' \in [Callers -> CallStates] /\ call'[p] = c
      /\ \A q \in Callers : q # p => call'[q] = call[q]
  BY <1>2, PutRecord DEF SchemaInv
<1>4. SchemaShape'
  BY <1>2, <1>3 DEF SchemaInv, SchemaShape, Schema
<1>5. LockHeld'
  BY <1>2, <1>3 DEF SchemaInv, LockHeld, Working, Schema
<1>6. StagesOK(p)' /\ \A i \in Indexes : IndexOK(p, i)'
  BY <1>2, <1>3 DEF StagesOK, IndexOK, Returning
<1>7. \A q \in Callers : q # p => (Sole(q)' => Sole(q))
  BY <1>2, <1>3 DEF Sole, Schema
<1>8. Gains
  BY <1>2 DEF Gains, Schema
<1> QED
  BY <1>2, <1>4, <1>5, <1>6, <1>7, <1>8, RecordStep DEF Schema

\* The promises a return adds are true when it makes them.
LEMMA ReturnPromises ==
    ASSUME SchemaInv, NEW p \in Callers, Returns(p)
    PROVE  PromiseOK'
<1>1. /\ call[p].pc = "return" /\ promised' = promised \cup Promises(call[p])
      /\ UNCHANGED Schema /\ owner \in {"library", "host"}
  BY DEF Returns, SchemaInv, SchemaShape
<1>2. StagesOK(p) /\ KeyOK /\ PromiseOK /\ \A i \in Indexes : IndexOK(p, i)
  BY DEF SchemaInv
<1>3. CASE call[p].result = "set"
  <2>1. Promises(call[p]) = {"settings"} /\ Settings \subseteq params
    BY <1>1, <1>2, <1>3 DEF Promises, StagesOK, Returning
  <2> QED
    BY <1>1, <1>2, <2>1 DEF PromiseOK, PromiseKept, Schema, Gap, Current, Installed
<1>4. CASE call[p].result = "nil" /\ owner = "library"
  <2>1. tables["jobs"] = "whole" /\ tables["nodes"] = "whole" /\ Settings \subseteq params
    BY <1>1, <1>2, <1>4 DEF StagesOK, Returning
  <2>2. \A i \in Indexes : indexes[i] = "ours"
    BY <1>1, <1>2, <1>4 DEF SchemaInv, LockHeld, Working, IndexOK, Returning, Sole
  <2>3. ~twins
    BY <1>2, <2>2 DEF KeyOK, Indexes
  <2> QED
    BY <1>1, <1>2, <1>4, <2>1, <2>2, <2>3
    DEF PromiseOK, PromiseKept, Schema, Gap, Current, Installed, Tables, Indexes, Correctness
<1>5. CASE call[p].result = "nil" /\ owner = "host" /\ ~call[p].beside
  <2>1. Promises(call[p]) = {"keys"}
    BY <1>5 DEF Promises
  <2>2. indexes["key"] = "ours"
    BY <1>1, <1>2, <1>5 DEF IndexOK, Returning, Sole, Indexes
  <2>3. ~twins
    BY <1>2, <2>2 DEF KeyOK
  <2> QED
    BY <1>1, <1>2, <2>1, <2>2, <2>3
    DEF PromiseOK, PromiseKept, Schema, Gap, Current, Installed, Correctness
<1>6. CASE /\ call[p].result # "set"
           /\ ~(call[p].result = "nil" /\ owner = "library")
           /\ ~(call[p].result = "nil" /\ owner = "host" /\ ~call[p].beside)
  <2>1. Promises(call[p]) = {}
    BY <1>6 DEF Promises
  <2> QED
    BY <1>1, <1>2, <2>1 DEF PromiseOK, PromiseKept, Schema, Gap, Current, Installed
<1> QED
  BY <1>3, <1>4, <1>5, <1>6

\* The end of a call, by its return or with its process, frees the lock if the
\* call had it.
LEMMA CallOver ==
    ASSUME SchemaInv, NEW p \in Callers, call[p].pc # "idle", Freed(p), Put(p, NoCall),
           UNCHANGED Schema, promised' = promised \/ PromiseOK'
    PROVE  SchemaInv'
<1>1. NoCaller \notin Callers
  BY MigrateAssumption
<1>2. NoCall \in CallStates /\ NoCall.pc = "idle"
  BY DEF NoCall, CallStates, IndexStates
<1>3. /\ call' \in [Callers -> CallStates] /\ call'[p] = NoCall
      /\ \A q \in Callers : q # p => call'[q] = call[q]
  BY <1>2, PutRecord DEF SchemaInv
<1>4. SchemaShape'
  BY <1>3 DEF SchemaInv, SchemaShape, Schema
<1>5. LockHeld'
  BY <1>2, <1>3 DEF SchemaInv, LockHeld, Working, Schema, Freed
<1>6. StagesOK(p)' /\ \A i \in Indexes : IndexOK(p, i)'
  BY <1>2, <1>3 DEF StagesOK, IndexOK, Returning
<1>7. \A q \in Callers : q # p => (Sole(q)' => Sole(q))
  BY <1>1, <1>3 DEF Sole, Schema, Freed
<1>8. Gains
  BY DEF Gains, Schema
<1> QED
  BY <1>2, <1>4, <1>5, <1>6, <1>7, <1>8, RecordStep DEF Schema

LEMMA EndsInv ==
    ASSUME SchemaInv, NEW p \in Callers, Returns(p) \/ CallerDies(p)
    PROVE  SchemaInv'
BY CallOver, ReturnPromises DEF Returns, CallerDies

----------------------------------------------------------------------------
(* The beginning of a call, and the jobs enqueued beside it. *)

LEMMA BeginInv ==
    ASSUME SchemaInv, NEW p \in Callers, Begin(p)
    PROVE  SchemaInv'
<1> DEFINE others == {q \in Callers \ {p} : call[q].pc # "idle"}
<1>1. PICK o \in Options, first \in FirstStep :
        call' = [q \in Callers |->
            IF q = p THEN [NoCall EXCEPT !.pc = first, !.beside = others # {},
                                         !.reconcile = o.reconcile, !.concurrently = o.concurrently]
            ELSE [call[q] EXCEPT !.beside = @ \/ q \in others]]
  BY DEF Begin
<1>2. /\ call[p].pc = "idle" /\ UNCHANGED <<Schema, advisory, promised>>
      /\ call \in [Callers -> CallStates]
  BY DEF Begin, SchemaInv, SchemaShape
<1>3. first \in {"lock", "inspect", "storage"} /\ (owner = "library" => first = "lock")
  BY DEF FirstStep
<1>4. /\ call'[p] \in CallStates /\ call'[p].pc = first
      /\ ~call'[p].beside => others = {}
  BY <1>1, <1>3 DEF NoCall, CallStates, Options, IndexStates
<1>5. ASSUME NEW q \in Callers, q # p
      PROVE  /\ call'[q] \in CallStates
             /\ call'[q].pc = call[q].pc /\ call'[q].result = call[q].result
             /\ call'[q].drift = call[q].drift /\ call'[q].drifted = call[q].drifted
             /\ ~call'[q].beside => ~call[q].beside /\ call[q].pc = "idle"
  <2>1. call[q] \in CallStates
    BY <1>2
  <2>2. call'[q] = [call[q] EXCEPT !.beside = call[q].beside \/ q \in others]
    BY <1>1, <1>5
  <2>3. call'[q].beside = (call[q].beside \/ q \in others)
    BY <2>1, <2>2 DEF CallStates
  <2>4. ~call'[q].beside => ~call[q].beside /\ q \notin others
    BY <2>3
  <2>5. (call[q].beside \/ q \in others) \in BOOLEAN
    OBVIOUS
  <2> QED
    BY <1>5, <2>1, <2>2, <2>4, <2>5 DEF CallStates
<1>6. SchemaShape'
  <2>1. call' \in [Callers -> CallStates]
    BY <1>1, <1>4, <1>5
  <2> QED
    BY <1>2, <2>1 DEF SchemaInv, SchemaShape, Schema
<1> HIDE DEF others
<1>7. LockHeld'
  BY <1>2, <1>3, <1>4, <1>5 DEF SchemaInv, LockHeld, Working, Schema
<1>8. BesideTrue'
  <2>1. others = {} => \A q \in Callers \ {p} : call[q].pc = "idle"
    BY DEF others
  <2> QED
    BY <1>4, <1>5, <2>1 DEF BesideTrue
<1>9. KeyOK' /\ Gains
  BY <1>2 DEF SchemaInv, KeyOK, Gains, Schema
<1>10. PromiseOK'
  BY <1>2, <1>9, PromisesStand DEF Schema
<1>11. ASSUME NEW q \in Callers PROVE StagesOK(q)'
  <2>1. StagesOK(q)
    BY DEF SchemaInv
  <2>2. CASE q = p
    BY <1>2, <1>3, <1>4, <2>2 DEF StagesOK, Returning, Schema
  <2>3. CASE q # p
    BY <1>2, <1>5, <2>1, <2>3 DEF StagesOK, Returning, Schema
  <2> QED
    BY <2>2, <2>3
<1>12. ASSUME NEW q \in Callers, NEW i \in Indexes PROVE IndexOK(q, i)'
  <2>1. IndexOK(q, i)
    BY DEF SchemaInv
  <2>2. CASE q = p
    BY <1>3, <1>4, <2>2 DEF IndexOK, Returning
  <2>3. CASE q # p
    <3>1. Sole(q)' => Sole(q)
      BY <1>2, <1>5, <2>3 DEF Sole, Schema
    <3>2. Builds(q, i)' <=> Builds(q, i)
      BY <1>5, <2>3 DEF Builds, Turn
    <3> QED
      BY <1>2, <1>5, <2>1, <2>3, <3>1, <3>2 DEF IndexOK, Returning, Schema
  <2> QED
    BY <2>2, <2>3
<1> QED
  BY <1>6, <1>7, <1>8, <1>9, <1>10, <1>11, <1>12, SMTT(40) DEF SchemaInv

LEMMA TwinsInv ==
    ASSUME SchemaInv, InsertTwin \/ RemoveTwin
    PROVE  SchemaInv'
<1>1. /\ UNCHANGED <<owner, tables, params, indexes, advisory, call, promised>>
      /\ twins' \in BOOLEAN /\ (twins' => twins \/ indexes["key"] # "ours")
  BY DEF SchemaInv, SchemaShape, InsertTwin, RemoveTwin, Installed
<1>2. SchemaShape' /\ LockHeld' /\ BesideTrue' /\ KeyOK' /\ Gains
  BY <1>1 DEF SchemaInv, SchemaShape, LockHeld, Working, BesideTrue, KeyOK, Gains
<1>3. PromiseOK'
  BY <1>1, <1>2, PromisesStand
<1>4. ASSUME NEW q \in Callers PROVE StagesOK(q)'
  BY <1>1, <1>2, StagesStay DEF SchemaInv
<1>5. ASSUME NEW q \in Callers, NEW i \in Indexes PROVE IndexOK(q, i)'
  <2>1. Sole(q)' => Sole(q)
    BY <1>1 DEF Sole
  <2> QED
    BY <1>1, <2>1, IndexStays DEF SchemaInv
<1> QED
  BY <1>2, <1>3, <1>4, <1>5 DEF SchemaInv

----------------------------------------------------------------------------
(* The invariant, and the theorem. *)

LEMMA SchemaInit == MigrateInit => SchemaInv
<1> SUFFICES ASSUME MigrateInit PROVE SchemaInv
  OBVIOUS
<1>1. Found \subseteq [Indexes -> IndexStates]
  BY MigrateAssumption
<1>2. NoCall \in CallStates /\ NoCall.pc = "idle"
  BY DEF NoCall, CallStates, IndexStates
<1>3. SchemaShape
  BY <1>1, <1>2 DEF MigrateInit, SchemaShape
<1>4. \A p \in Callers : call[p].pc = "idle"
  BY <1>2 DEF MigrateInit
<1>5. LockHeld /\ BesideTrue /\ KeyOK
  BY <1>4 DEF MigrateInit, LockHeld, Working, BesideTrue, KeyOK
<1>6. PromiseOK
  BY DEF MigrateInit, PromiseOK, PromiseKept
<1>7. \A p \in Callers : StagesOK(p) /\ \A i \in Indexes : IndexOK(p, i)
  BY <1>4 DEF StagesOK, IndexOK, Returning
<1> QED
  BY <1>3, <1>5, <1>6, <1>7 DEF SchemaInv

LEMMA SchemaStep == SchemaInv /\ MigrateNext => SchemaInv'
<1> SUFFICES ASSUME SchemaInv, MigrateNext PROVE SchemaInv'
  OBVIOUS
<1>1. CASE InsertTwin \/ RemoveTwin
  BY <1>1, TwinsInv
<1>2. ASSUME NEW p \in Callers, Begin(p) \/ CallSteps(p) \/ StatementFails(p) \/ CallerDies(p)
      PROVE  SchemaInv'
  <2>1. CASE Begin(p)
    BY <2>1, BeginInv
  <2>2. CASE CallSteps(p)
    BY <2>2, TryLockInv, MigrateTableInv, SetStorageInv, InspectInv, IndexStepInv,
       ApplyEndsInv, EndsInv DEF CallSteps
  <2>3. CASE StatementFails(p)
    BY <2>3, StatementFailsInv
  <2>4. CASE CallerDies(p)
    BY <2>4, EndsInv
  <2> QED
    BY <1>2, <2>1, <2>2, <2>3, <2>4
<1> QED
  BY <1>1, <1>2 DEF MigrateNext

LEMMA SchemaStill == SchemaInv /\ UNCHANGED migrateVars => SchemaInv'
<1> SUFFICES ASSUME SchemaInv, UNCHANGED migrateVars PROVE SchemaInv'
  OBVIOUS
<1>1. UNCHANGED <<owner, tables, params, indexes, twins, advisory, call, promised>>
  BY DEF migrateVars
<1>2. SchemaShape' /\ LockHeld' /\ BesideTrue' /\ KeyOK' /\ Gains
  BY <1>1 DEF SchemaInv, SchemaShape, LockHeld, Working, BesideTrue, KeyOK, Gains
<1>3. PromiseOK'
  BY <1>1, <1>2, PromisesStand
<1>4. ASSUME NEW q \in Callers PROVE StagesOK(q)'
  BY <1>1, <1>2, StagesStay DEF SchemaInv
<1>5. ASSUME NEW q \in Callers, NEW i \in Indexes PROVE IndexOK(q, i)'
  <2>1. Sole(q)' => Sole(q)
    BY <1>1 DEF Sole
  <2> QED
    BY <1>1, <2>1, IndexStays DEF SchemaInv
<1> QED
  BY <1>2, <1>3, <1>4, <1>5 DEF SchemaInv

\* What a nil from Migrate, InstallStorageParameters or a lone InstallIndexes
\* promised stays true for any number of processes that migrate, install, fail
\* and die beside and after it, from whatever state of the indexes they found
\* (migrate.go's MigrateWithOptions, indexes.go, storage.go).
THEOREM PromiseSafety == MigrateSpec => []PromiseKept
<1>1. MigrateInit => SchemaInv
  BY SchemaInit
<1>2. SchemaInv /\ [MigrateNext]_migrateVars => SchemaInv'
  BY SchemaStep, SchemaStill
<1>3. SchemaInv => PromiseKept
  BY DEF SchemaInv, PromiseOK
<1> QED
  BY <1>1, <1>2, <1>3, PTL DEF MigrateSpec

\* A node that checks the schema and starts on it, beside the processes that
\* install it, breaks none of the promises their nil returns made (migrate.go,
\* node.go's checkSchema).
THEOREM NodePromiseSafety == NodeSpec => []PromiseKept
<1>1. NodeInit => SchemaInv
  BY SchemaInit DEF NodeInit
<1>2. ASSUME SchemaInv, CheckSchema PROVE SchemaInv'
  <2>1. /\ owner' = "library" /\ tables' = [t \in Tables |-> "whole"]
        /\ indexes' = [i \in Indexes |-> "ours"] /\ params' = {} /\ twins' = FALSE
        /\ call' = [p \in Callers |-> NoCall] /\ promised' = {}
    BY <1>2 DEF CheckSchema
  <2>2. NoCall \in CallStates /\ NoCall.pc = "idle"
    BY DEF NoCall, CallStates, IndexStates
  <2>3. SchemaShape'
    BY <2>1, <2>2 DEF SchemaShape, IndexStates
  <2>4. LockHeld' /\ BesideTrue' /\ KeyOK'
    BY <2>1, <2>2 DEF LockHeld, Working, BesideTrue, KeyOK
  <2>5. PromiseOK'
    BY <2>1 DEF PromiseOK, PromiseKept
  <2>6. ASSUME NEW p \in Callers
        PROVE  StagesOK(p)' /\ \A i \in Indexes : IndexOK(p, i)'
    BY <2>1, <2>2 DEF StagesOK, IndexOK, Returning
  <2> QED
    BY <2>3, <2>4, <2>5, <2>6 DEF SchemaInv
<1>3. SchemaInv /\ [NodeNext]_deployVars => SchemaInv'
  <2> SUFFICES ASSUME SchemaInv, [NodeNext]_deployVars PROVE SchemaInv'
    OBVIOUS
  <2>1. CASE UNCHANGED migrateVars
    BY <2>1, SchemaStill
  <2>2. CASE MigrateNext
    BY <2>2, SchemaStep
  <2>3. CASE CheckSchema
    BY <1>2, <2>3
  <2> QED
    BY <2>1, <2>2, <2>3 DEF NodeNext, Migrations, deployVars
<1>4. SchemaInv => PromiseKept
  BY DEF SchemaInv, PromiseOK
<1> QED
  BY <1>1, <1>3, <1>4, PTL DEF NodeSpec
=============================================================================
