----------------------------- MODULE RunnerLoop -----------------------------
(***************************************************************************)
(* The Runners' dispatch loops (internal/core: runner.go, queue_state.go,  *)
(* limiter.go, limiter_db.go): each loop reserves slots of its pool, asks  *)
(* the Limiter the Runners share for permits, claims jobs into the slots   *)
(* and starts them, while jobs end, Stop, Drain and a cancelled context    *)
(* arrive, operators pause the queue or cap it, and processes die.         *)
(*                                                                         *)
(* Each action is one critical section of the pool's mutex or one database *)
(* transaction.  Rate tokens are abstracted to the Limiter's freedom to    *)
(* grant less than the room it has, timers to the freedom of a sleeper to  *)
(* wake.  What becomes of a claimed job is JobCore's; here it ends, with   *)
(* or without a dispatch error.                                            *)
(***************************************************************************)
EXTENDS Integers, FiniteSets

CONSTANTS
    Runners,
    UntilIdle,      \* the Runners started by RunUntilIdle rather than Run
    Refreshing,     \* the Runners with the queue-state refresh on
    Hosted,         \* the Runners whose host stops them or cancels their context
    Draining,       \* the Runners whose host calls Drain rather than Stop alone
    Concurrency,    \* RunnerConfig.Concurrency, the size of each pool
    ClaimBatchSize, \* RunnerConfig.ClaimBatchSize, 0 for none
    OverServe,      \* jobs a Driver may serve past the limit it was given
    MaxConcurrent,  \* the Limiter's concurrency cap, 0 for no Limiter
    FailOpen,       \* the Runners without RunnerConfig.LimiterFailClosed
    Shared,         \* a DBLimiter (holds with a TTL) rather than a TokenBucket
    Grants,         \* grant tokens, the values models.NewID draws from
    NoGrant,        \* the zero grant's empty token
    Caps,           \* the queue caps operators set
    Budgets,        \* the concurrency overrides operators set on the Limiter
    Pausing,        \* operators may pause the queue
    Faults,         \* processes die; permits, releases and dispatches fail
    JobBound        \* bound: jobs enqueued

ASSUME RunnerAssumption ==
    /\ IsFiniteSet(Runners)
    /\ UNION {UntilIdle, Refreshing, Hosted, Draining, FailOpen} \subseteq Runners
ASSUME PoolAssumption ==
    /\ Concurrency \in [Runners -> Nat \ {0}] /\ ClaimBatchSize \in Nat /\ OverServe \in Nat
    /\ MaxConcurrent \in Nat /\ (Caps \cup Budgets) \subseteq Nat \ {0}
ASSUME LimiterAssumption == IsFiniteSet(Grants) /\ NoGrant \notin Grants /\ Shared \in BOOLEAN
ASSUME LoopBounds == {Pausing, Faults} \subseteq BOOLEAN /\ JobBound \in Nat

Permits == Grants \cup {NoGrant}

VARIABLES
    queue,     \* claimable jobs in the database
    stuck,     \* jobs whose dispatch failed or died: leased until the sweep
    inserted,  \* counts up to JobBound
    loop,      \* each loop's locals
    pool,      \* each Runner's pool
    work,      \* dispatches executing, by the grant whose permit they hold
    stop,      \* stopCh is closed
    ended,     \* the context Run was called with is done
    hold,      \* the Limiter's holds: permits still held under a token
    lapsed,    \* history: tokens whose hold was reclaimed under a holder
    stranded,  \* history: permits of a hold nobody will release
    bucket,    \* the limiter_buckets row's override, 0 for NULL, NoRow for no row
    cap,       \* job_queues.max_concurrency, 0 for NULL
    paused,    \* job_queues.paused_at is set
    seen,      \* the paused set each Runner last read
    failed     \* history: a dispatch of the Runner returned an error

limiter == <<hold, lapsed, stranded, bucket>>
control == <<cap, paused>>
vars == <<queue, stuck, inserted, loop, pool, work, stop, ended, limiter, control, seen, failed>>

NewLoop(pc) == [pc |-> pc, res |-> 0, grant |-> NoGrant, permits |-> 0, result |-> "none"]
NewPool(r) == [limit |-> Concurrency[r], held |-> 0, running |-> 0, closing |-> 0,
               woken |-> FALSE, drain |-> "none", errs |-> FALSE]

\* No limiter_buckets row: nobody has asked this Limiter yet.
NoRow == -1

NewLimiter ==
    /\ hold = [g \in Grants |-> 0]
    /\ lapsed = [g \in Grants |-> FALSE]
    /\ stranded = [g \in Grants |-> 0]
    /\ bucket = NoRow

Init ==
    /\ queue = 0 /\ stuck = 0 /\ inserted = 0
    /\ loop = [r \in Runners |-> NewLoop("top")]
    /\ pool = [r \in Runners |-> NewPool(r)]
    /\ work = [r \in Runners |-> [g \in Permits |-> 0]]
    /\ stop = [r \in Runners |-> FALSE]
    /\ ended = [r \in Runners |-> FALSE]
    /\ NewLimiter
    /\ cap = 0 /\ paused = FALSE
    /\ seen = [r \in Runners |-> FALSE]
    /\ failed = [r \in Runners |-> FALSE]

----------------------------------------------------------------------------
(* The pool's critical sections. *)

Least(m, n) == IF m <= n THEN m ELSE n

\* Mutant: reserve's waiter is woken only by the release that empties the pool.
ReleasedWhenEmpty(p, n) ==
    LET k == Least(n, p.held)
    IN  [p EXCEPT !.held = @ - k,
                  !.woken = @ \/ (k > 0 /\ p.held = k),
                  !.drain = IF k > 0 /\ p.held = k /\ @ = "waiting" THEN "freed" ELSE @]

\* release: every release wakes reserve's waiter (freed is closed), the one that
\* empties the pool also waitIdle's (idle is closed).
Released(p, n) ==
    LET k == Least(n, p.held)
    IN  [p EXCEPT !.held = @ - k,
                  !.woken = @ \/ k > 0,
                  !.drain = IF k > 0 /\ p.held = k /\ @ = "waiting" THEN "freed" ELSE @]

\* admitLocked: a waiter that saw the pool idle keeps the closed channel.
Admitted(p, n) == [p EXCEPT !.held = @ + n]

\* setLimit clamps a cap to the pool's size.  Only reserve waits for a raised
\* limit, and the loop that is here is not in it.
Limit(r, c) == IF c = 0 THEN Concurrency[r] ELSE Least(c, Concurrency[r])

ClaimLimit(r) == IF ClaimBatchSize = 0 THEN Concurrency[r] ELSE Least(ClaimBatchSize, Concurrency[r])

\* A dispatch has returned, and its error is collected; its slot is still held.
Finished(p, err) == [p EXCEPT !.running = @ - 1, !.closing = @ + 1, !.errs = @ \/ err]
Closed(p) == [p EXCEPT !.closing = @ - 1]

Go(r, pc) == loop' = [loop EXCEPT ![r] = [NewLoop(pc) EXCEPT !.result = loop[r].result]]

\* drainDispatchErr: a dispatch error ends RunUntilIdle and is logged by Run.
GoTakingErr(r, pc) ==
    Go(r, IF r \in UntilIdle /\ pool[r].errs THEN "leaving" ELSE pc)
Taken(p) == [p EXCEPT !.errs = FALSE]

\* onPollError: RunUntilIdle gives up on a saturated ladder, Run never does.
PollError(r) == GoTakingErr(r, "sleep") \/ (r \in UntilIdle /\ Go(r, "leaving"))

----------------------------------------------------------------------------
(* The top of an iteration, and the slot reservation. *)

TopEnds(r) ==
    /\ loop[r].pc = "top"
    /\ stop[r] \/ ended[r]
    /\ Go(r, "leaving")
    /\ UNCHANGED <<queue, stuck, inserted, pool, work, stop, ended, limiter, control, seen, failed>>

\* claimable between two refreshes, or when the read fails: the last set stands.
TopCached(r) ==
    /\ loop[r].pc = "top"
    /\ ~stop[r] /\ ~ended[r]
    /\ Go(r, IF seen[r] THEN "idle" ELSE "reserve")
    /\ UNCHANGED <<queue, stuck, inserted, pool, work, stop, ended, limiter, control, seen, failed>>

\* claimable when the refresh is due.
TopRefresh(r) ==
    /\ loop[r].pc = "top" /\ r \in Refreshing
    /\ ~stop[r] /\ ~ended[r]
    /\ seen' = [seen EXCEPT ![r] = paused]
    /\ pool' = [pool EXCEPT ![r].limit = Limit(r, cap)]
    /\ Go(r, IF paused THEN "idle" ELSE "reserve")
    /\ UNCHANGED <<queue, stuck, inserted, work, stop, ended, limiter, control, failed>>

\* reserve, one turn of its loop: take what is free, or snapshot freed and wait.
Reserve(r) ==
    LET free == pool[r].limit - pool[r].held
        n == Least(ClaimLimit(r), free)
    IN  /\ loop[r].pc = "reserve"
        /\ IF free > 0
           THEN /\ loop' = [loop EXCEPT ![r] = [@ EXCEPT !.pc = "gate", !.res = n]]
                /\ pool' = [pool EXCEPT ![r] = Admitted(@, n)]
           ELSE /\ Go(r, "parked")
                /\ pool' = [pool EXCEPT ![r] = [@ EXCEPT !.woken = FALSE]]
        /\ UNCHANGED <<queue, stuck, inserted, work, stop, ended, limiter, control, seen, failed>>

ReserveWakes(r) ==
    /\ loop[r].pc = "parked" /\ pool[r].woken
    /\ Go(r, "reserve")
    /\ UNCHANGED <<queue, stuck, inserted, pool, work, stop, ended, limiter, control, seen, failed>>

ReserveEnds(r) ==
    /\ loop[r].pc = "parked"
    /\ stop[r] \/ ended[r]
    /\ Go(r, "leaving")
    /\ UNCHANGED <<queue, stuck, inserted, pool, work, stop, ended, limiter, control, seen, failed>>

\* Mutant: a Runner whose every slot is busy waits for one however long.
NoTimeOut(r) == FALSE /\ UNCHANGED vars

\* reserveSlots waits no longer than until the queue state is due.
ReserveTimesOut(r) ==
    /\ loop[r].pc = "parked" /\ r \in Refreshing
    /\ Go(r, "top")
    /\ UNCHANGED <<queue, stuck, inserted, pool, work, stop, ended, limiter, control, seen, failed>>

----------------------------------------------------------------------------
(* The gate: the second look at Stop, and the Limiter. *)

\* Mutant: the loop looks at Stop only at the top of an iteration.
NeverStopping(r) == FALSE
Stopping(r) == stop[r]

GateStops(r) ==
    /\ loop[r].pc = "gate" /\ Stopping(r)
    /\ pool' = [pool EXCEPT ![r] = Released(@, loop[r].res)]
    /\ Go(r, "leaving")
    /\ UNCHANGED <<queue, stuck, inserted, work, stop, ended, limiter, control, seen, failed>>

\* A DBLimiter's Acquire inserts the bucket row if there is none, and locks it.
Seeded == IF Shared /\ bucket = NoRow THEN 0 ELSE bucket

\* No Limiter, or one that failed open: the whole reservation, and no permit.
AdmitUnlimited(r) ==
    /\ loop[r].pc = "gate" /\ ~Stopping(r)
    /\ MaxConcurrent = 0 \/ (Shared /\ r \in FailOpen /\ Faults)
    /\ loop' = [loop EXCEPT ![r] = [@ EXCEPT !.pc = "claim"]]
    /\ UNCHANGED <<queue, stuck, inserted, pool, work, stop, ended, limiter, control, seen, failed>>

\* A Limiter that failed closed.
AdmitFails(r) ==
    /\ loop[r].pc = "gate" /\ ~Stopping(r)
    /\ MaxConcurrent > 0 /\ Shared /\ r \notin FailOpen /\ Faults
    /\ pool' = [pool EXCEPT ![r] = Taken(Released(@, loop[r].res))]
    /\ PollError(r)
    /\ UNCHANGED <<queue, stuck, inserted, work, stop, ended, limiter, control, seen, failed>>

\* Mutant: a denial keeps the reservation.
AdmitKeepsSlots(r) ==
    /\ loop[r].pc = "gate" /\ ~Stopping(r) /\ MaxConcurrent > 0
    /\ bucket' = Seeded
    /\ pool' = [pool EXCEPT ![r] = Taken(@)]
    /\ GoTakingErr(r, "sleep")
    /\ UNCHANGED <<queue, stuck, inserted, work, stop, ended, hold, lapsed, stranded, control, seen, failed>>

\* No rate token, or no room.
AdmitDenied(r) ==
    /\ loop[r].pc = "gate" /\ ~Stopping(r) /\ MaxConcurrent > 0
    /\ bucket' = Seeded
    /\ pool' = [pool EXCEPT ![r] = Taken(Released(@, loop[r].res))]
    /\ GoTakingErr(r, "sleep")
    /\ UNCHANGED <<queue, stuck, inserted, work, stop, ended, hold, lapsed, stranded, control, seen, failed>>

\* What f counts, unit by unit, and the sum of its counts.
Units(f) == UNION {{x} \X (1..f[x]) : x \in DOMAIN f}
Total(f) == Cardinality(Units(f))

Holds == Total(hold)

\* The cap in force: an override an operator set stands over the configuration.
CapInForce == IF bucket \in Budgets THEN bucket ELSE MaxConcurrent

\* Mutant: the holds of the other grants are not counted.
RoomIgnoresHolds == CapInForce
Room == CapInForce - Holds

\* The rate tokens a refill has left of the ask: any number of them.
Tokens(r) == 1..loop[r].res

\* Acquire grants the least of the ask, the rate tokens and the room.
Grantable(r) == {n \in Tokens(r) : n <= Room}

\* A token no hold, loop or dispatch carries.
Unused(g) ==
    /\ hold[g] = 0
    /\ \A r \in Runners : loop[r].grant # g /\ work[r][g] = 0

\* A grant is one hold under a new token; the slots it does not cover go back.
AdmitGranted(r, g, n) ==
    /\ loop[r].pc = "gate" /\ ~Stopping(r) /\ MaxConcurrent > 0
    /\ Unused(g)
    /\ n \in Grantable(r)
    /\ bucket' = Seeded
    /\ hold' = [hold EXCEPT ![g] = n]
    /\ lapsed' = [lapsed EXCEPT ![g] = FALSE]
    /\ stranded' = [stranded EXCEPT ![g] = 0]
    /\ pool' = [pool EXCEPT ![r] = Released(@, loop[r].res - n)]
    /\ loop' = [loop EXCEPT ![r] = [@ EXCEPT !.pc = "claim", !.res = n, !.grant = g, !.permits = n]]
    /\ UNCHANGED <<queue, stuck, inserted, work, stop, ended, control, seen, failed>>

\* A release is clamped to what the hold still has: a second one gives nothing.
Returned(g, n) == [hold EXCEPT ![g] = @ - Least(n, @)]

\* Release of n permits of g: a no-op without a token; a DBLimiter's may fail,
\* leaving the permits to the TTL.
Release(g, n) ==
    IF g = NoGrant \/ n = 0 THEN UNCHANGED limiter
    ELSE \/ /\ hold' = Returned(g, n)
            /\ UNCHANGED <<lapsed, stranded, bucket>>
         \/ /\ Shared /\ Faults /\ hold[g] > 0
            /\ stranded' = [stranded EXCEPT ![g] = @ + n]
            /\ UNCHANGED <<hold, lapsed, bucket>>

----------------------------------------------------------------------------
(* The claim, and the jobs it starts. *)

\* claimAndDispatch with no job: every slot and every permit goes back.
ClaimNone(r) ==
    /\ loop[r].pc = "claim"
    /\ pool' = [pool EXCEPT ![r] = Taken(Released(@, loop[r].res))]
    /\ Release(loop[r].grant, loop[r].permits)
    /\ PollError(r) \/ GoTakingErr(r, "idle")
    /\ UNCHANGED <<queue, stuck, inserted, work, stop, ended, control, seen, failed>>

UnusedPermits(n, permits) == permits - Least(n, permits)

\* claimAndDispatch with n jobs: the slots it does not use go back (those a
\* Driver served past the limit are admitted), so do the permits, and each
\* job is started with one of the permits left, if there is one.
ClaimJobs(r, n) ==
    LET l == loop[r]
        k == Least(n, l.permits)
        p == IF n < l.res THEN Released(pool[r], l.res - n) ELSE Admitted(pool[r], n - l.res)
    IN  /\ l.pc = "claim"
        /\ n <= l.res + OverServe
        /\ queue' = queue - n
        /\ Release(l.grant, UnusedPermits(n, l.permits))
        /\ work' = [work EXCEPT ![r] =
                      [g \in Permits |-> @[g] + (IF g = l.grant THEN k ELSE 0)
                                              + (IF g = NoGrant THEN n - k ELSE 0)]]
        /\ pool' = [pool EXCEPT ![r] = Taken([p EXCEPT !.running = @ + n])]
        /\ GoTakingErr(r, IF Concurrency[r] = 1 THEN "inline" ELSE "top")
        /\ UNCHANGED <<stuck, inserted, stop, ended, control, seen, failed>>

\* A pool of one runs its jobs on the loop's goroutine.
InlineDone(r) ==
    /\ loop[r].pc = "inline"
    /\ pool[r].running = 0 /\ pool[r].closing = 0
    /\ pool' = [pool EXCEPT ![r] = Taken(@)]
    /\ GoTakingErr(r, "top")
    /\ UNCHANGED <<queue, stuck, inserted, work, stop, ended, limiter, control, seen, failed>>

\* dispatch returns: its deferred release gives its permit back, and start
\* collects its error, before the slot is free.
EndDispatch(r, g, err) ==
    /\ work[r][g] > 0 /\ pool[r].running > 0
    /\ err => Faults
    /\ work' = [work EXCEPT ![r][g] = @ - 1]
    /\ Release(g, 1)
    /\ pool' = [pool EXCEPT ![r] = Finished(@, err)]
    /\ stuck' = IF err THEN stuck + 1 ELSE stuck
    /\ failed' = [failed EXCEPT ![r] = @ \/ err]
    /\ UNCHANGED <<queue, inserted, loop, stop, ended, control, seen>>

FreeSlot(r) ==
    /\ pool[r].closing > 0
    /\ pool' = [pool EXCEPT ![r] = Released(Closed(@), 1)]
    /\ UNCHANGED <<queue, stuck, inserted, loop, work, stop, ended, limiter, control, seen, failed>>

----------------------------------------------------------------------------
(* The end of an iteration, and of the loop. *)

SleepEnds(r) ==
    /\ loop[r].pc = "sleep"
    /\ Go(r, "top")
    /\ UNCHANGED <<queue, stuck, inserted, pool, work, stop, ended, limiter, control, seen, failed>>

\* idle, for Run: wait for the next poll.
IdleSleeps(r) ==
    /\ loop[r].pc = "idle" /\ r \notin UntilIdle
    /\ Go(r, "sleep")
    /\ UNCHANGED <<queue, stuck, inserted, pool, work, stop, ended, limiter, control, seen, failed>>

\* Mutant: the pending count is taken beside jobs still in flight.
IdleDoesNotWait(r) ==
    /\ loop[r].pc = "idle" /\ r \in UntilIdle
    /\ pool' = [pool EXCEPT ![r] = Taken(@)]
    /\ GoTakingErr(r, "count")
    /\ UNCHANGED <<queue, stuck, inserted, work, stop, ended, limiter, control, seen, failed>>

\* idle, for RunUntilIdle: its own jobs first, and their errors.
IdleWaits(r) ==
    /\ loop[r].pc = "idle" /\ r \in UntilIdle
    /\ pool[r].held = 0
    /\ pool' = [pool EXCEPT ![r] = Taken(@)]
    /\ GoTakingErr(r, "count")
    /\ UNCHANGED <<queue, stuck, inserted, work, stop, ended, limiter, control, seen, failed>>

IdleEnds(r) ==
    /\ loop[r].pc = "idle" /\ r \in UntilIdle
    /\ stop[r] \/ ended[r]
    /\ Go(r, "leaving")
    /\ UNCHANGED <<queue, stuck, inserted, pool, work, stop, ended, limiter, control, seen, failed>>

\* pendingCount finds no job that is not terminal: a job in flight elsewhere
\* may have committed its outcome already.
CountsNone(r) ==
    /\ loop[r].pc = "count"
    /\ queue = 0 /\ stuck = 0
    /\ loop' = [loop EXCEPT ![r] = [NewLoop("leaving") EXCEPT !.result = "idle"]]
    /\ UNCHANGED <<queue, stuck, inserted, pool, work, stop, ended, limiter, control, seen, failed>>

\* It finds some, or fails.
CountsPending(r) ==
    /\ loop[r].pc = "count"
    /\ PollError(r)
    /\ UNCHANGED <<queue, stuck, inserted, pool, work, stop, ended, limiter, control, seen, failed>>

\* run's deferred waitIdle.
Leave(r) ==
    /\ loop[r].pc = "leaving" /\ pool[r].held = 0
    /\ Go(r, "returned")
    /\ UNCHANGED <<queue, stuck, inserted, pool, work, stop, ended, limiter, control, seen, failed>>

----------------------------------------------------------------------------
(* The host, the operators, the database and failures. *)

Stop(r) ==
    /\ r \in Hosted /\ ~stop[r] /\ loop[r].pc # "dead"
    /\ stop' = [stop EXCEPT ![r] = TRUE]
    /\ UNCHANGED <<queue, stuck, inserted, loop, pool, work, ended, limiter, control, seen, failed>>

CancelContext(r) ==
    /\ r \in Hosted /\ ~ended[r] /\ loop[r].pc \notin {"returned", "dead"}
    /\ ended' = [ended EXCEPT ![r] = TRUE]
    /\ UNCHANGED <<queue, stuck, inserted, loop, pool, work, stop, limiter, control, seen, failed>>

\* Drain after its Stop: waitIdle snapshots the idle channel, closed or not.
DrainWaits(r) ==
    /\ r \in Draining /\ stop[r] /\ pool[r].drain = "none" /\ loop[r].pc # "dead"
    /\ pool' = [pool EXCEPT ![r] =
                  [@ EXCEPT !.drain = IF pool[r].held = 0 THEN "freed" ELSE "waiting"]]
    /\ UNCHANGED <<queue, stuck, inserted, loop, work, stop, ended, limiter, control, seen, failed>>

\* It returns nil once that channel is closed, or its own context ends first.
DrainReturns(r) ==
    /\ pool[r].drain \in {"waiting", "freed"}
    /\ pool' = [pool EXCEPT ![r] =
                  [@ EXCEPT !.drain = IF pool[r].drain = "freed" THEN "drained" ELSE "timedOut"]]
    /\ UNCHANGED <<queue, stuck, inserted, loop, work, stop, ended, limiter, control, seen, failed>>

\* Permits of g a Runner still has to release: its dispatches', and its loop's.
Carried(r, g) == work[r][g] + (IF loop[r].grant = g THEN loop[r].permits ELSE 0)

\* Permits somebody still has to release under g.
Owed(g) == Total([r \in Runners |-> Carried(r, g)])

\* The process dies: what it held stays with the database.  (A TokenBucket is
\* the process's own, and dies with it.)
Die(r) ==
    /\ Faults /\ Shared /\ loop[r].pc \notin {"returned", "dead"}
    /\ loop' = [loop EXCEPT ![r] = NewLoop("dead")]
    /\ pool' = [pool EXCEPT ![r] = NewPool(r)]
    /\ work' = [work EXCEPT ![r] = [g \in Permits |-> 0]]
    /\ stuck' = stuck + pool[r].running
    /\ stranded' = [g \in Grants |-> stranded[g] + Carried(r, g)]
    /\ UNCHANGED <<queue, inserted, stop, ended, hold, lapsed, bucket, control, seen, failed>>

\* A hold outlives its TTL and Acquire or the sweeper reclaims it.
Lapse(g) ==
    /\ Shared /\ Faults /\ hold[g] > 0
    /\ hold' = [hold EXCEPT ![g] = 0]
    /\ lapsed' = [lapsed EXCEPT ![g] = TRUE]
    /\ UNCHANGED <<queue, stuck, inserted, loop, pool, work, stop, ended, stranded, bucket, control, seen, failed>>

Insert ==
    /\ inserted < JobBound
    /\ inserted' = inserted + 1 /\ queue' = queue + 1
    /\ UNCHANGED <<stuck, loop, pool, work, stop, ended, limiter, control, seen, failed>>

SweepReclaims ==
    /\ stuck > 0
    /\ stuck' = stuck - 1 /\ queue' = queue + 1
    /\ UNCHANGED <<inserted, loop, pool, work, stop, ended, limiter, control, seen, failed>>

PauseQueue ==
    /\ Pausing /\ ~paused
    /\ paused' = TRUE
    /\ UNCHANGED <<queue, stuck, inserted, loop, pool, work, stop, ended, limiter, cap, seen, failed>>

ResumeQueue ==
    /\ paused
    /\ paused' = FALSE
    /\ UNCHANGED <<queue, stuck, inserted, loop, pool, work, stop, ended, limiter, cap, seen, failed>>

SetQueueConcurrency(c) ==
    /\ c # cap
    /\ cap' = c
    /\ UNCHANGED <<queue, stuck, inserted, loop, pool, work, stop, ended, limiter, paused, seen, failed>>

\* SetLimiterBudget changes the cap of a Limiter in use and revokes no hold.
SetLimiterBudget(b) ==
    /\ bucket \notin {NoRow, b}
    /\ bucket' = b
    /\ UNCHANGED <<queue, stuck, inserted, loop, pool, work, stop, ended, hold, lapsed, stranded, control, seen, failed>>

----------------------------------------------------------------------------

Top(r) == TopEnds(r) \/ TopCached(r) \/ TopRefresh(r)
Slots(r) == Reserve(r) \/ ReserveWakes(r) \/ ReserveEnds(r) \/ ReserveTimesOut(r)
Gate(r) == \/ GateStops(r) \/ AdmitUnlimited(r) \/ AdmitFails(r) \/ AdmitDenied(r)
           \/ \E g \in Grants, n \in 1..loop[r].res : AdmitGranted(r, g, n)
Claim(r) == ClaimNone(r) \/ (\E n \in 1..queue : ClaimJobs(r, n)) \/ InlineDone(r)
Idle(r) == SleepEnds(r) \/ IdleSleeps(r) \/ IdleWaits(r) \/ IdleEnds(r)
Count(r) == CountsNone(r) \/ CountsPending(r) \/ Leave(r)
Loop(r) == Top(r) \/ Slots(r) \/ Gate(r) \/ Claim(r) \/ Idle(r) \/ Count(r)
Dispatch(r) == FreeSlot(r) \/ \E g \in Permits, err \in BOOLEAN : EndDispatch(r, g, err)
Host(r) == Stop(r) \/ CancelContext(r) \/ DrainWaits(r) \/ DrainReturns(r) \/ Die(r)
Operator == \/ PauseQueue \/ ResumeQueue
            \/ \E c \in Caps \cup {0} : SetQueueConcurrency(c)
            \/ \E b \in Budgets \cup {0} : SetLimiterBudget(b)
World == Insert \/ SweepReclaims \/ Operator \/ \E g \in Grants : Lapse(g)

Next == World \/ \E r \in Runners : Loop(r) \/ Dispatch(r) \/ Host(r)

Spec == Init /\ [][Next]_vars

\* Each loop keeps running, a refresh becomes due again and again and succeeds
\* in the end, a dispatch that returned frees its slot.  Nothing makes a worker
\* return.
Fairness ==
    \A r \in Runners : WF_vars(Loop(r)) /\ SF_vars(TopRefresh(r)) /\ WF_vars(FreeSlot(r))
FairSpec == Spec /\ Fairness

----------------------------------------------------------------------------
(* Correctness. *)

LoopRecord == [pc : {"top", "reserve", "parked", "gate", "claim", "inline", "sleep",
                     "idle", "count", "leaving", "returned", "dead"},
               res : Nat, grant : Permits, permits : Nat, result : {"none", "idle"}]
PoolRecord == [limit : Nat \ {0}, held : Nat, running : Nat, closing : Nat, woken : BOOLEAN,
               drain : {"none", "waiting", "freed", "drained", "timedOut"}, errs : BOOLEAN]

\* Every variable has its shape; no count goes below zero.
TypeOK ==
    /\ {queue, stuck, inserted} \subseteq Nat
    /\ loop \in [Runners -> LoopRecord]
    /\ pool \in [Runners -> PoolRecord]
    /\ work \in [Runners -> [Permits -> Nat]]
    /\ stop \in [Runners -> BOOLEAN] /\ ended \in [Runners -> BOOLEAN]
    /\ hold \in [Grants -> Nat] /\ lapsed \in [Grants -> BOOLEAN] /\ stranded \in [Grants -> Nat]
    /\ bucket \in Int /\ cap \in Nat /\ paused \in BOOLEAN
    /\ seen \in [Runners -> BOOLEAN] /\ failed \in [Runners -> BOOLEAN]

\* The pool's count is exact on every path: the reservation the loop holds
\* between reserve and claim, and the jobs that have not freed their slot.
SlotsExact ==
    \A r \in Runners :
        pool[r].held = loop[r].res + pool[r].running + pool[r].closing

\* The Limiter's holds are exact on every path: each permit acquired is released
\* once, unless its holder died or its release failed, which leaves it to the TTL.
PermitsExact ==
    \A g \in Grants : hold[g] = IF lapsed[g] THEN 0 ELSE Owed(g) + stranded[g]

\* Permits out under holds that have not lapsed.
Out == Total([g \in Grants |-> IF lapsed[g] THEN 0 ELSE Owed(g)])

\* Jobs that run under permits never become more than the cap in force, across all
\* Runners, but for those that outlived their hold's TTL: a cap lowered under
\* what is held admits nothing until enough of it is back.
WithinCap == MaxConcurrent > 0 /\ hold' # hold => Out' <= Out \/ Out' <= CapInForce

\* What bounds the Runners together is exact: no permit is leaked or released
\* twice on any path, and so the cap an operator moves holds across processes.
PermitsKept == []PermitsExact /\ [][WithinCap]_vars

\* After Drain returned nil the Runner executes nothing and claims nothing more,
\* whatever its loop was doing when Stop and Drain were called.
DrainMeansEmpty ==
    \A r \in Runners : pool[r].drain = "drained" =>
        pool[r].running = 0 /\ pool[r].closing = 0 /\ loop[r].pc # "claim"

\* RunUntilIdle returns nil only if no dispatch of it has returned an error.
IdleReportsErrors == \A r \in Runners : loop[r].result = "idle" => ~failed[r]

\* No wakeup is lost: a loop waiting in reserve beside a free slot has been woken,
\* although it looked at the pool under the mutex and waits outside it.
NoLostWakeup ==
    \A r \in Runners :
        loop[r].pc = "parked" /\ pool[r].held < pool[r].limit => pool[r].woken

\* A cap an operator leaves set is the limit of a running pool in the end, even
\* if every slot is busy and no job ever returns.
CapApplied ==
    \A r \in Refreshing \ UntilIdle, c \in Caps :
        Concurrency[r] > 1 /\ <>[](cap = c /\ ~stop[r] /\ ~ended[r] /\ loop[r].pc # "dead")
            => <>[](pool[r].limit = Limit(r, c))

\* If dispatches return, a stopped Runner's loop returns and its Drain ends.
DrainEnds ==
    (\A r \in Runners : WF_vars(Dispatch(r))) =>
        \A r \in Runners : stop[r] ~> /\ loop[r].pc \in {"returned", "dead"}
                                      /\ pool[r].drain # "waiting"

\* An operator's word reaches a pool whose every slot is busy: the cap set on its
\* queue, and the end of its work.
PoolObeys == CapApplied /\ DrainEnds
=============================================================================
