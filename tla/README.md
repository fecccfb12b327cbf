# go-flywheel: TLA+ models, checks and proofs

go-flywheel is a durable job runtime on PostgreSQL or SQLite. Producers insert
rows into `jobs`; Runners claim them under a lease, run a registered worker and
finalize them; a Scheduler sweeps expired leases, fires periodics, rolls up
statistics and applies retention; operators retry, cancel, pause, drain and
delete. There is no broker: every process meets the others only in the database,
so correctness is a matter of which transaction may follow which.

This directory holds TLA+ modules that model that system, TLC configurations that
check them on small instances, and TLAPS proofs of the main safety properties
for every instance. `PROJECT.json` lists the components, the runs, the mutants
(for each property a plausible bug, which the property must catch), the source
lines behind every definition, the hazards and the theorems.

| Module | What it is |
|---|---|
| `JobCore` | jobs rows, run rows, finish log, attempts, lease sweep, single-job controls |
| `JobLife` | the abstract life of a job; `JobCore` implements it |
| `Attempt` | one attempt from the inside: dispatch, heartbeat, progress, log capture, cooperative cancel, observers, WaitForJob |
| `Barrier` | the fan-in barrier of one parent, statement by statement |
| `Cohort` | calls that walk many jobs in batches: BulkJobs, Replay, Pause/Resume/CancelByParent; unique active keys |
| `RunnerLoop` | the Runners' dispatch loops, slot pools, the shared Limiter, queue state |
| `Migrate` | Migrate, InstallIndexes and InstallStorageParameters run by several processes |
| `Node` | a node (registration, beats, drain, teardown) composed with `RunnerLoop` and `Migrate` |
| `Upkeep` | the statistics rollup, rebuild and backfill, and retention, on one history |
| `Periodics` | the Scheduler's tick, declared periodics, reconcile, and the operator's edits |
| `Reads` | every paged listing, the finish feed and the job tree, beside writers |
| `JobCoreProofs`, `AttemptProofs`, `BarrierProofs`, `CohortProofs`, `UpkeepProofs`, `PeriodicsProofs`, `ReadsProofs` | theorems about the module of that name; `JobCoreProofs` also proves the refinement of `JobLife` |
| `NodeProofs` | theorems about `RunnerLoop`, and about `Node` and `Migrate` over it |
| `MC*` | constants and symmetry sets for TLC |

Run one with `tlc -config MCJobCore_one.cfg MCJobCore`; check proofs with
`tlapm JobCoreProofs.tla`.

## 1. Inventory

All paths are under `src/`; most code is in `internal/core`.

| Component | State | Operations | Talks to | What is hard |
|---|---|---|---|---|
| Driver (`driver*.go`, `rows.go`) | `jobs`, `job_runs`, `job_run_finishes` | Dequeue, InsertRunStub, RenewLease, Finalize, sweepBatch | Runner, Scheduler, every control | claims, sweeps and late finalizes in any order; a process that dies between two transactions |
| Single-job controls (`schedule.go`, `job_controls.go`) | the same rows | RetryJob, CancelJob, PauseJob, ResumeJob, RescheduleJob, DeleteJob | Driver's rows | acting on a job whose attempt runs |
| Attempt (`runner.go` dispatch, `lease_heartbeat.go`, `run_progress.go`, `run_logs.go`, `observer.go`, `wait.go`) | the attempt's context, progress sink, log buffer | stub, work, beat, finalize, flush; WaitForJob | Driver, worker, observers | a beat racing the finalize, a statement applied but reported failed, a cancel that must reach the worker |
| Fan-in barrier (`driver.go`, `schedule.go`, `bulk.go`) | `barrier_*` columns of the parent | declare, gate, lock, count, fire | every path that ends a child | last children ending at once under READ COMMITTED |
| Bulk controls, replay, by-parent controls (`bulk.go`, `replay.go`, `schedule.go`) | `jobs` in batches, a cursor | count, read a batch, write it, stagger | Driver's rows, barrier, unique active keys | a walk that meets rows it or others changed; two live jobs on one key |
| Runner (`runner.go`) | pool, stop channel, poll backoff | Run, RunUntilIdle, Stop, Drain, reserve, admit, claim, start | Driver, Limiter, queue state | lost wakeups, slots leaked on an early return, Stop between reserve and claim |
| Limiters (`limiter*.go`) | holds, rate tokens, budget override | Acquire, Release, reclaim of expired holds, SetLimiterBudget | Runners of several processes | release after the TTL, a release that fails, a cap lowered under what is held |
| Queue state (`queue_state.go`, `queues.go`) | `job_queues`; a cached copy per Runner | PauseQueue, ResumeQueue, SetQueueConcurrency; claimable | Runner | stale cache; a full pool that never looks |
| Node (`internal/node`, `nodes.go`, `node_starts.go`) | `job_nodes` row, lifecycle state | start, beat, drain request, drain, deregister, prune | Runner, Scheduler, operators | a drain that times out; a count taken beside a loop about to claim |
| Schema (`migrate.go`, `schema.go`, `storage.go`, `indexes.go`) | tables, storage parameters, indexes, advisory lock | Migrate, InstallIndexes, InstallStorageParameters | Node's start | two processes building one index; a build that died half-way; waiting on each other |
| Statistics (`stats*.go`) | `job_stats_hourly`, covered range | rollup pass, RebuildStats, backfill; Stats | finish log, retention | an hour counted twice or never; a rebuild after its runs are deleted |
| Retention (`retention*.go`) | terminal rows | select a batch, delete it; RetentionStatus | retries, rollup | runs deleted before they are counted; a job re-queued between select and delete |
| Scheduler, periodics (`scheduler*.go`, `schedule.go`, `periodic_controls.go`) | `job_periodics` cursors | tick, catch-up, apply, reconcile, upsert, pause, resume, trigger | Client, operators | two Schedulers on one cursor; a stale row written back; bucket arithmetic |
| Client, batch insert (`client.go`, `batch.go`) | `jobs`, unique keys | Insert, InsertMany | Driver | two producers on one key |
| Reads (`job_query.go`, `read.go`, `tree.go`, `feed.go`, `inspect.go`, `job_audit_read.go`, ...) | cursors held by the caller | page, follow, expand | every writer | rows that move between two pages or two statements |
| Kinds, workers, CLI, facade, load test, seed | - | - | - | no state of their own that guards anything |

The properties that make each correct are in section 3.

## 2. Plan

Done, in this order: `JobCore`, `Barrier` and `RunnerLoop` with their proofs;
`JobLife` and the refinement; `Upkeep`; `Periodics`; `Node` over `RunnerLoop` and
`Migrate`; `Cohort`; `Attempt`; `Reads`.

Every one of them has its safety proved: `JobCore` and its refinement of
`JobLife`, `Barrier`, `RunnerLoop`, `Attempt`, `Upkeep`, `Periodics`, `Node` with
`Migrate`, `Cohort` and `Reads`. What stays with TLC, liveness, is named at the end
of section 5.

## 3. The models

In all of them an action is one transaction, one statement or one critical
section of the code, whichever the code makes atomic, and what a process holds in
memory between two of them is a variable. History variables are marked in the
declarations; no guard of the modelled code reads one (some carry a bound).
Bounds are CONSTANTS named so and appear in guards only.

### JobCore and JobLife

`job` is the jobs table, `runs` the job_runs table by (job, attempt), `finishLog`
is job_run_finishes, and `exec` is what `dispatch` keeps in memory for the
attempt a claim gave it: how far it is, its token, and the `max_attempts` it was
claimed with.

- Time is two facts: `due` (scheduled_at has come) and `lease` (live or
  lapsed). `LeaseLapses` may happen under a live worker: a stalled heartbeat, an
  unreachable database or a skewed clock.
- `Dequeue(S, t)` claims any set of due rows under ONE token, as the batch
  claim does; priority and fairness only choose which rows.
- Between `Dequeue` and `InsertRunStub` the attempt exists in memory only.
- `Finalize` writes the run row always and the job row only under the claim
  (`HoldsClaim`); a finalize that lost it is marked superseded and leaves
  `job_state` and `finished_at` to whoever wrote them first.
- `SweepBatch` computes attempts left and the crash budget, releases the job and
  ends only the stub of the reclaimed attempt.
- `Abandon` is a death of the process or an error of the stub or the finalize.

| Property | What it says |
|---|---|
| `FenceHolder` | the attempt whose token the row carries is its newest, and decides with the row's own budget |
| `RowConsistent` | token and lease exactly while running, finalized_at exactly while terminal |
| `AuditExact` | the newest run says what the row says, one finish entry per finished run, and a counted run never changes its count |
| `RetryBudgetKept`, `CrashBudgetKept` | failures, snoozes, crashes and retries never exceed the budgets; a reclaim ends at most one run |
| `OverlapExcused` | two workers on one job only for one of three known reasons |
| `StaleFinalizeInvisible` | a finalize that lost its claim moves no job |
| `ImplementsLife` | every step is a step of `JobLife` or invisible |
| `NothingStuck` | every job ends, and a dead process's claim and stub are cleaned up |

`JobLife` states what a user may rely on without rows, leases or tokens: a phase,
attempts begun, attempts allowed, attempts still at work. The refinement maps the
waiting states to one phase, `allowed` to `max_attempts` plus forced re-queues, and
`active` to the attempts in memory. `TerminalIsFinal` is stated beside them and
proved.

### Attempt

One claimed attempt and everything that runs beside it: `disp` is where dispatch
is, `beat` where the heartbeat's goroutine is and what it carries, `sink` and
`buf` the progress sink and the log buffer under their mutexes, `cause` the cause
the worker's context ended with, `events` what observers were told, `wait` a caller
of WaitForJob. A statement that fails may have been applied. Others cancel, sweep,
retry, claim and delete the job at any point (`OthersBound`). An unregistered
kind is deferred or discarded without a start or a heartbeat. A worker returns a
Result (one that asks for nothing, a snooze or a cancel) and an error or none: its own
cancel ends the job under the claim, while the error of a worker whose job an operator
cancelled is recorded as that cancel (`stopped`) and moves nothing. A wait ends with
the job's view, with ErrJobNotFound, with the error of a read, which is not tried again,
or with its context.

`EventsTrue` (what observers are told is what the rows record), `LogsWhole` (the
lines stored are a gapless prefix of those logged, and all of them after a last
write that succeeded), `BeatDelivers` (progress reaches the run, and a cancel
the worker, however many statements fail), `WaitTrue` (a waiter told of an end that
this attempt gave the job was told what the run row records and counts, although the
finalize may have been reported failed, the process died, or the job gone on since).

### Barrier

The barrier depends on what a statement sees, so here an action is one
statement of a READ COMMITTED transaction. `parent` and `row` hold committed
values; a session (`tx`) keeps its writes (`own`, `fire`) until `Commit`, and its
row locks are the rows in `own` and, in `holder`, the parent. A transaction
that ends children goes through `Gate` (unlocked read of `barrier_kind`),
`LockParent` (SELECT FOR UPDATE), `CountAndFire` and `Commit`; `Abort` may come
at each of these. CancelByParent and a bulk cancel walk in batches. The parent may
run again and declare again, or be deleted with its barrier; a follow-up whose
unique key is taken does not land. SQLite's single writer allows a subset of this.

`BarrierHasPending` (somebody is left to fire), `FiresAfterGeneration` (never
early), `NoSelfCancel` (a batched cancel does not cancel its own continuation)
and `BarrierFires` (it does fire). `raced` records the one case where the code
misses a barrier (see Findings), so that these say everything else holds.
`BarrierHasPending`, `BarrierFires` and `BarrierNeverMissed` speak of a generation of
which at least one follow-up was inserted (`landed # {}`). When every one of them meets
a taken unique key, the barrier is declared over no child of its own; only a child the
parent had before could still run the check that fires it, and none of the three
properties says anything of that barrier.

### Cohort

One call that walks jobs (`call`: its operation, cursor, batch, retries and
result) beside single-job controls, enqueues, claims and finalizes on the same
rows. A bulk call and a replay go by id behind a cursor; a by-parent control takes
what is left in its source states. Each batch is a read and then a transaction
that re-checks; a rival for a UniqueActiveKey or a deadlock rolls it back and it is
run again, a bounded number of times. A bulk call may be interrupted and resumed. A
dry run only counts, and stops at the same cap: `Count` looks at the first `MaxJobs`
of the cohort. A job's latest attempt (`runs`) is over, claimed, or past its run stub:
the claim and the stub are two transactions, a cancel may come between them, and only
a started run is what the guards look for.

`WalkExact` (batched equals at once: what it counted is what it changed, each
job once and in its own place of the stagger), `RevivalsHold` (no replay or bulk retry
puts a job live beside an attempt whose run has started, nothing does beside a live
holder of its key), `WalkEnds`. `RevivalsAlone` is what the code's comment claims, that
no attempt at all is under way, and is refuted (see Findings).

### RunnerLoop

One action per critical section of the pool's mutex or per database call of the
loop. `loop[r]` holds the loop's place and what it carries (slots reserved,
grant, permits); `pool[r]` the pool's counters, its closed channels (`woken` for
`freed`, `drain` for the `idle` snapshot of waitIdle) and the collected dispatch
errors; `work` the dispatches executing by grant; `hold` the Limiter's holds;
`bucket` the limiter_buckets row, seeded by the first Acquire and overridden by
SetLimiterBudget. `Die` loses everything in memory. Rate tokens are the Limiter's
freedom to grant less than its room; timers are the freedom of a sleeper to wake.
`CountsNone` lets a job in flight elsewhere count as committed, which only adds
behaviours.

`SlotsExact` and `PermitsKept` (nothing leaked or returned twice on any path, so
the cap in force holds across processes, also when it is lowered under what is
held), `NoLostWakeup`, `DrainMeansEmpty`, `IdleReportsErrors`, `PoolObeys`
(a full pool learns a new cap; a stopped loop returns).

### Migrate and Node

`Migrate`: each caller's place in MigrateWithOptions or in a host's own calls, the
advisory lock, two tables, two storage settings, one correctness index and one
plan index (each absent, stale, invalid or ours), concurrent builds with a
beginning and an end, and what a build waits for in the server. Statements fail,
callers die, jobs with equal keys are enqueued while the index is missing.
An inspection is a copy of the catalog that the call then works through, index by
index. `PromiseKept` (what a nil return promised stays true, whoever migrates after
and wherever they die) and `CallsReturn` (nobody waits for ever: the lock is polled so
that its waiter holds no snapshot a concurrent build would wait for).

`Node` EXTENDS both: Run checks the schema that `Migrate` left, registers, starts
the Runners, beats, and stops by its host's context, by a failing component or by an
operator's drain request. The node's own actions are conjoined with the Runners'
loops, so a beat counts beside a loop that has reserved and not yet claimed; what it
counts is `InFlight`, the dispatches that execute and not the slots held.
`ReportedEmptyIsEmpty` is therefore what a row's empty count is worth: a Runner
of a draining or stopped node runs or claims after it only if its loop was already past
its last look at Stop when the count was taken (`open`, a history field). That
Drained means empty (`DrainedIsEmpty`) is refuted. `DrainAnswered` (an operator who asked
comes to read Drained of a node that is empty by then), `NodeStops`.

### Upkeep

Time is the hour. An hour's rollup rows are the set of entries (inserts and
finished runs) they count, so two recomputes can be compared. A walk has up to five
stretches (`legs`: inside the covered range, the gap above it, the hours above that,
and the same below), fixed when it starts and taken one hour at a time: probe,
aggregate, then the transaction that stores the hour and moves the covered range by
compare-and-set steps. A rebuild refuses to shrink an hour. A backfill logs an older
binary's runs, remembers their hours (`todo`) and rolls those the range covers again;
one it must not shrink keeps its rows.
Retention reads its cap once, then selects a batch and deletes it by id. Stats
splits a window into rolled and raw hours and trims or refuses the raw part at
MaxRawSpan.

`StatsServeEveryRun` (what Stats serves counts every run of the window, deleted
jobs included), `RetentionHolds` (no deletion takes an entry the rollup has yet
to count), `UpkeepCatchesUp` (rollup and retention do not wait on each other: the
range reaches every hour kept, the hold caps no cutoff any more, and
RetentionStatus reports nothing due).

### Periodics

Rows of job_periodics with their cursor, and per Scheduler the pass of its tick, of
its apply and of its reconcile, each reading a row in one statement and writing it
in another. Time is seconds; a cron expression is the divisor of the times it
matches. Interval and cron buckets, the catch-up cap and the history ring are
operators translated from the code. `cronBuckets` walks from one time to the next
and keeps the last few in a ring; `CronBuckets` is that result in closed form, so
that it can be reasoned about, and `MCPeriodics` checks it against the walk. `NoFireLost`, `OperatorsWordStands` (a pause is
lifted by a resume alone, a deactivation only by a declaration landing after a
start), `SchedulesSettle`.

### Reads

`op` is the reading under way; each listing is its statements, its order and its
cursor, the finish feed a follower behind `Settle`, the tree a level-by-level count
and read. Writers insert, move and delete rows between any two statements. What
`ORDER BY ... LIMIT n` gives is a set of keys (`First`: those with fewer than `n`
before them), a page the set of the keys its statements found, each with the statement that
found it, so that a job two statements meet is two rows; a level of the tree is a set
with each job's place in it (`Sooner`), which is what the node budget is dealt by.
`ListingExact`, `FeedExact`, `TreeWhole`.

## 4. The runs

| Run | Instance | Shows |
|---|---|---|
| `one` | 1 job, 3 tokens, 2 attempts, crash budget 2, every result, five retry options, every control; 3 claims, budget up to 3, 1 forced re-queue | JobCore's invariants and action properties, and that it implements JobLife |
| `live` | 1 job with 1 or 2 attempts, no operator | every job ends; a dead claim is released |
| `attempt` | 3 log lines of which 2 fit, statements of 1 row, 2 progress values, 2 steps of others | Attempt |
| `barrier` | 2 children and the continuation, 2 sessions, batches of 1, 1 mishap | the barrier's safety and that it fires |
| `missed` | the same without mishaps | the first finding |
| `cohort` | every call over 2 jobs in any of 6 states, one keyed, a third that may take the key; batches of 1, 3 steps of others | Cohort |
| `permits` | 2 Runners (a pool of 2 running until idle, an inline one), one database Limiter with cap 2 lowered to 1, faults | slots, permits, the cap, dispatch errors |
| `pool` | 1 Runner with a pool of 2, caps, pauses, Stop, Drain, cancelled context | wakeups, Drain, caps on a full pool, an end to Stop |
| `node` | 2 callers of the schema from four states of its indexes, then a node with one Runner of 2 slots | Migrate, Node over RunnerLoop |
| `upkeep` | 1 job and run over 2 hours, a Scheduler and a RebuildStats caller, 1 pruner, an older binary, 1 failed pass | Upkeep |
| `periodics` | 2 Schedulers, an every-second and a cron definition, 3 seconds, 2 edits, 1 mishap | Periodics |
| `reads` | 4 rows, pages of 2, 2 or 3 writes, three shapes of tree | Reads |

**Why the bounds are enough.** One job is enough for `one` because a row's
transitions read no other row; the token a batch shares, and any number of jobs,
are covered by the proofs. Three claims give a stale attempt, the current one and
the next. Two sessions are enough for the barrier's race (two last children), and
batches of one make a call walk over the continuation it fired. Two slots, a
claim that may come short or long (`OverServe`) and two grants give every split
of a reservation. Two keyless-or-keyed jobs and a rival are the fewest that meet on
a key, and batches of one put a step of others between any two jobs. Two walkers
and two hours let a stale write, a rebuild and a backfill meet on one hour, above
and below the covered range; a cap of one hour makes a raw window be served, trimmed
and refused. A catch-up cap of one bucket over three seconds makes it bind. Pages of
two over four rows give a full, a short and an empty page, with ties on time.
Symmetry is over tokens and grants, which no operator tells apart, and never in a
run with liveness.

**Deadlock** is not checked: jobs end, hosts stop, clocks reach their bound and
walks finish, so the systems may really stop. What must not stop is stated as
liveness instead.

**Fairness.**
`live`: runners poll, the scheduler sweeps, the clock runs, a stub is written or its
process dies, and an attempt ends (its worker returns, its timeout ends the context,
or its process dies). `barrier`: transactions finish, children are claimed and
finalized; weak fairness is enough, since the transactions that could starve one
are finite in number. `pool`: the loop runs, a returned dispatch frees its slot, and
a refresh that is due again and again succeeds once in a while (strong fairness: the
refresh and the cached read compete for the top of the loop). `node`: the same, the
goroutines of Run go on, the deadline passes, and a registry that fails now and then
is reached in the end (strong fairness of the beat's read and update, which are
retried every interval); a migrating process goes on. `attempt`: the heartbeat
keeps running, and a progress write that is retried each beat succeeds once in a
while; nothing is asked of the waiter. `upkeep`: the clock runs and the Scheduler's activities tick; a rebuild may
be abandoned. `periodics`: a host restarts its Scheduler, each activity has its own
goroutine, a statement that was sent returns. `cohort`: the call goes on. `reads`: the
clock runs and the follower polls. Nothing is assumed to make a worker return:
`PoolObeys` and `DrainAnswered` name that assumption in their own antecedents, and
`NodeStops` holds without it.

## 5. The proofs

TLAPS proves these for every value of the constants that satisfies the modules'
named assumptions (`BudgetAssumption`: `max_attempts` is at least 1, since an
enqueue replaces 0 by a default and a negative budget is taken as a caller's
mistake; tokens, NULL and idle markers differ from what they stand beside; pools,
batches, caps and periods are at least 1; `AttemptAssumption`: what a worker reports
is a sequence of values; `CohortAssumption`: ids are ordered as numbers; `ReadsAssumption`:
the finished sort names at least one state, as validateJobSort requires, and limits are positive; `RulesAssumption`:
retention rules as validateRetentionRules and configureStats accept them). The bounds are constants
like the others, so a theorem holds for any bound. Each inductive invariant was also
checked by TLC, on the run's instance and most on a larger one; the counts are of those
searches.

- **JobCoreProofs.** `Inv == TypeOK /\ RowInv /\ FenceHolder`. `FenceHolder`
  alone is not inductive: a claim raises `attempt`, so the proof needs that a
  waiting row carries no token (`RowInv` has `RowConsistent` and
  `RetryBudgetKept`) and that a fresh token is carried by nobody.
  `StaleFinalizeSafety` and `TerminalSafety` are action properties that follow from
  `Inv`: a working attempt that holds the claim is the newest, so a finalize by
  another changes no row. `LifeRefinement` is the refinement of `JobLife`: the
  initial states map to its initial state, and under `Inv` each action is one step of
  it on the jobs it names (`Submit`, `Begin`, `Settle`, ...) or leaves what it shows
  alone (`Quiet`). A finalize that holds the claim is a `Settle` of the newest
  attempt, one that lost it a `Vanish`; a batch claim begins several jobs in one
  step, as `JobLife` allows.
  The past the rows keep is proved beside it. `AuditInv` says, of each attempt, how
  its run row, its jobs row and its runner stand to each other (`RunOK`, `PlaceOK`, `MatchOK`): which
  outcome goes with which place, that the newest run's `job_state` is the row's
  unless a forced re-queue came between, and that the sweep's stamp is on exactly
  the crashed runs. It needs no other attempt, so each action is proved for the one
  attempt it touches. `AuditSafety` follows; `Alone` adds that a job without an
  excuse has one attempt at work, the newest (`OverlapSafety`); `CrashOK` bounds the
  stamped runs, and is strict while the job is not terminal, since the sweep that
  reaches the budget ends the job (`CrashBudgetSafety`). 369,471 states.
- **AttemptProofs.** `Inv == TypeOK /\ Told /\ Waited /\ Logged`. `Told` (`ClaimOK`,
  `EventOK`) ties what observers were told to dispatch's place and to the run row;
  `Logged` says which rows the buffer, the heartbeat's batch in flight and the last
  flush hold: each is a stretch of the one sequence of rows the attempt has written,
  so a write applied twice, or reported failed and repeated, stores rows that are
  there. `Waited` keeps what links the row to the run: while the jobs row is as this
  attempt's finalize left it (`settled`), and of the state a waiter read then
  (`wait.mine`), the run records the outcome planned for that state. The attempt
  finalizes once and its claim is gone by then, so no sweep writes its run again, and
  what a waiter read stays so when the job moves on.
  `EventSafety`, `LogSafety`, `WaitSafety`.
  1,328,585 states.
- **BarrierProofs.** `Inv == TypeOK /\ LocksOK /\ CheckOK /\ FireOK /\ CallOK /\
  BarrierHasPending`. `CheckOK` is the heart: under a declared barrier a
  session about to commit without firing has counted somebody else's pending
  child and still holds the parent's lock, so that child cannot end before it
  (`LocksOK` says who holds the lock at each place). That is what
  lock-then-count buys, and with it every commit preserves `BarrierHasPending`.
  `FireOK` keeps what a session that decided to fire has seen of the generation,
  `CallOK` what a batched cancel knows of its own continuation.
- **NodeProofs**, of `RunnerLoop`. `Inv == Shape /\ \A r \in Runners : RunnerOK(r)`, whose
  parts are `LoopOK`, `DrainOK`, `WakeOK` and `ErrorOK`. `LoopOK` ties the
  reservation to the place in the loop; with it
  `DrainOK` shows why the second look at Stop (after reserve, before the claim) is
  needed: a Drain that found the pool empty found a loop that holds no
  reservation, and the next reservation meets Stop at the gate. `ErrorOK` carries a
  dispatch error from the goroutine that collected it to the loop's return. `Shape`
  is `TypeOK` without what dead processes left behind (`LeftBehind`), which only
  `PermitsKept` reads.
  `PermitSafety`, of the Limiter the Runners share: `PermitInv == CarriesOK /\
  PermitsExact`, where `CarriesOK` says that a loop carries a grant only at its claim,
  so that no path out of the gate drops one. The sums (what a hold's holders carry, what
  is held, what is out) are cardinalities of the sets of units counted (`Units`), whose
  facts need no induction: a larger count gives no smaller sum (`TotalMono`), and one
  count moves the sum by what it moves itself (`TotalChange`). Every path that lets
  permits go is one lemma (`GivesBack`): the hold shrinks by what the Runner no longer
  carries, or the release failed and as much is stranded. A grant adds to the holds what
  fits into the room, and what is out is held (`OutHeld`), so it fits the cap in force,
  although that may have been lowered since the other holds were granted.
  2,161,568 states.
- **NodeProofs**, of `Node` and `Migrate`. `ReportSafety`: `NodeInv` adds to `Inv` that
  a draining node's Runners have all been stopped (`DrainStops`), that no beat writes
  over the report of a stop (`BeatsSilent`), and that where a beat counted, or a row
  reports, nothing, every Runner but those in `open` is quiet (`QuietBut`, in `BeatTrue`
  and `RowTrue`). A Runner that executes nothing is quiet unless its loop is at its
  claim, and one that was stopped, or whose loop is over, does not come to its
  claim again: no step of any Runner leaves that state (`Keeps`). 138,374 states.
  `PromiseSafety`, of the schema: `SchemaInv` has the lock's exclusion (`LockHeld`),
  that a call nothing overlapped is alone (`BesideTrue`), and `IndexOK`: to such a
  call what is left to do is what the catalog shows and what is done is installed or
  reported. So no call under the lock drops an index it did not find invalid, and
  the unique index is never dropped at all, which is why a host's calls, without a
  lock, keep the promise about keys and no other. 4,227,690 states (three processes,
  three calls, every state of the indexes). `NodePromiseSafety` is the same of the
  composition.
- **PeriodicsProofs.** `Inv == TableOK /\ ProcsOK /\ FiresKept /\ TicksTrue /\
  AppliesOnce`. The arithmetic comes first: an interval's times have one remainder
  modulo its period, `IntervalBuckets` and `CronBuckets` give every time up to now or
  the cap's worth of the latest ones, and a cursor beyond now. `CopyOK` says of a row a
  tick has read that, while the row is the same one with the same schedule
  (`Current`), the row's cursor is on the copy's times however other ticks moved it
  and what was owed before the copy's cursor is enqueued; `FiringOK` that each time a
  fire stands for is enqueued, still on its list, or dropped by the cap. So the last
  write of a fire skips nothing (`NoFireLostSafety`). The proof showed that "the same
  schedule" cannot be read off the columns: a schedule replaced and put back while a
  tick holds its copy re-anchors the cursor between two of the tick's writes, more steps than the
  run's bounds allow. The history field `era` counts the replacements, and `crossed`
  compares eras. `WordSafety` needs `AppliesOnce`: what a Scheduler has still to apply
  has not landed since it started. 4,187,573 states with one Scheduler and three edits, 3,588,158 with two.
- **CohortProofs.** `RevivalSafety`: `CohortInv` has the unique index's rule
  (`OneLive`), that an attempt outlives its claim only in a cancelled job or in one that
  is live again (`RunsOK`), that a replay's batch holds one row per key (`WriteOK`), and that a bulk
  retry remembers the keys of what it put live (`TakenOK`). The guard of the write looks
  again at holders and attempts, and the two memories cover what it cannot see: the
  other rows of the same statement, and jobs of earlier batches that have finished.
  1,431,315 states.
  `WalkSafety`, that a walk in batches is the walk at once: `WalkInv`, proved together with
  `CohortInv`, relates the call's running totals to the history of what it changed.
  `WalkShape` types them and `FreshOK` says what they are before the count. `SlipsOK`: what
  the walk changed is behind its cursor, so it is not met again. `LeftOK`: every keyless
  job of the cohort that neither the walk nor a rival has changed can still be changed and
  lies ahead. `AtOnce`: a call nobody raced has done to the jobs it has passed what
  one statement would have done to them, and that statement would do to the rest now what
  it would have done then (`Caught`, and `CaughtByParent` for the controls without a
  cursor). `BatchOK` says the same of a batch read and not yet written, `DoneOK`
  that a call that is over has left nothing. Counts taken batch by batch
  are joined by cardinalities of disjoint sets (`UnionCard`, `PartCard`), and the batches
  themselves are first segments of what is left (`FirstSegment`, `FirstOfFirst`), so
  nothing is proved by induction over the batches. Preparing this proof showed that the
  model counted a capped dry run over the whole cohort while BulkJobs stops at MaxJobs:
  `Count` now does too.

- **UpkeepProofs.** `UpkeepInv`, of which `CoveredWhole` is the claim (a covered
  hour's rows count all it ever held) and the rest is why it stays true while several
  walks and retention passes run on stale reads. `UncoveredBare`: hours outside the
  range have no rows, so a guarded write there cannot be refused. `DeletedCounted`:
  a deleted job's entries are in the rows, since a recompute can no longer find them.
  `LegsOK` says where a walk's stretches lie against a range that others have moved
  since: each upward one begins at or below the upper edge, each downward one ends at or above
  the lower edge or below the floor, so that no compare-and-set step can open a gap
  (`SteppedRange`, `SteppedLegs`). `ViewOK` says that what a walk has read, or found
  empty, and not yet committed is what the hour still holds of the jobs that exist;
  `PruneOK`, that a pass's cap, read once, lies in the range or below what the rollup
  keeps. `Floor` is the oldest hour no pass may still prune. `StatsSafety` and
  `RetentionSafety` follow. An earlier form of the model failed this proof, and rightly:
  the guard of a re-roll compares numbers, so with two jobs a backfilled run can take
  the place of a deleted one, and `StatsServeEveryRun` was false there; and
  `RetentionHolds` spoke of a step in which every pruner deleted, so that with two of
  them it said nothing. 411,752 states with one job and two walkers, 1,650,000 with two
  jobs and a failure; 6 million of an unfinished search with two Schedulers, two pruners
  and three hours.

- **ReadsProofs.** `Inv == Shape /\ WalkInv /\ FeedInv /\ TreeInv`; one reading is under
  way, so each of the last three speaks of its own. They rest on the facts of a strict
  order that is total but for level keys (`BeforeOrder`) and of its first `n` keys:
  there are at most `n` if no two are level (`FirstAtMost`), whatever is left out
  comes after all that is in, and then there are `n` (`FirstLeaves`). These follow from the
  cardinality of a key's predecessors and the least element of a set of numbers, not
  from induction over a list.
  `ListingSafety`: what was given is behind the cursor and in order (`WalkedRows`); a row
  that stayed and that the cursor has passed was given (`WalkPassed`). The hard part is a
  page read state by state while jobs move between its statements. `PageOK` says of
  the rows found so far that no two are level and that each row that stayed is among
  them or behind as many of them as a page holds; `Trace`, that a job
  found earlier in the page and found again has moved to a later place, since a job that
  ends again ends later. So the cursor put at the page's last row passes nothing the
  statements left out.
  `FeedSafety`: the cursor is where the follower began or not beyond the horizon
  (`FeedCursor`), and a finish that commits within `Settle` of its stamp commits
  beyond the horizon of every earlier poll (`HorizonGrows`, `FeedKept`); a poll covers
  what lies between its start and the cursor it returns, whether the filter, the page
  or the scan limit cut it (`PollCovers`).
  `TreeSafety`: `Fit` says that each parent's children fit what the budget leaves it after
  the parents before it, and dealing the places of a budget out to them one to one
  (`FitsBudget`) shows that the level fits, whatever was deleted between count
  and read. `TreeClosed`: unless the tree is truncated or a job was inserted, the
  children of every listed job above the level that is read are listed, so the
  listed jobs are a set closed under descent when no level is left. The proof
  found that the model needs `MaxId` positive: a table without a row has no root.
  622,912 states, and 4,083,221 with pages of one, three and four writes and a longer clock.

Only model-checked:

- every liveness property (`NothingStuck`, `BarrierFires`, `BeatDelivers`,
  `PoolObeys`, `DrainAnswered`, `NodeStops`, `CallsReturn`, `UpkeepCatchesUp`,
  `SchedulesSettle`, `WalkEnds`), and of `FeedExact` the part `FeedArrives`, that what
  is served is served eventually: liveness under fairness and ENABLED are out of the
  prover's reach.

## 6. Findings

`BarrierNeverMissed` is refuted by TLC in a run of its own, `missed`: the comment of fireBarrierIfComplete and the
repository's README say the continuation is enqueued once the last child ends,
whichever way. A child enqueued under its parent before the finalize may pass the
unlocked gate before the barrier is declared and commit after the last follow-up
counted it as pending; nobody fires.

Two more claims of the repository are stated in the modules and are false of the
code: TLC refutes each when it is added to the properties of the run named. The run
itself checks what the code does keep.

- `DrainedIsEmpty` (`Node`, run `node`): nodes.go:75-76 says that Drained is "draining
  with nothing in flight", nodes.go:193-195 that a node stops its Runners' claims and
  then reports Drained "once nothing is in flight", and the repository's README (line
  2167) "once its jobs in flight finish". A beat reports `InFlight`, which is
  `pool.running` (runner.go:745-751, "running rather than held"), and Stop does not
  reach a loop that has reserved slots and passed its last look at it. Such a node reads
  Drained, and then executes the jobs that claim brings; nothing has to fail for it.
  `ReportedEmptyIsEmpty` excepts exactly these claims (`open`). (A Runner's own Drain
  waits for `held` and is not affected: `DrainMeansEmpty`.)
- `RevivalsAlone` (`Cohort`, run `cohort`): schedule.go:785-786 says of
  `cancelledAttemptStillRuns` that a retry under Force and a replay share it, "so
  neither can start a second attempt beside one still running". It looks for a run
  that reads started, and a job cancelled between its claim and its run stub has none:
  the call makes it available, and the first attempt goes on to write its stub and
  run. `RevivalsHold` speaks of started runs. The single-job retry has the same window,
  which `OverlapExcused` excuses below.

The following were met while modelling. Each is a narrow window that the model
contains; the property named excuses exactly it, by a history variable or a
disjunct, so that the run shows everything else holds.

- `OverlapExcused` (`window`): docs/CONTRACT.md:38-41 says a forced retry refuses
  a job cancelled while its attempt runs. `attemptStillRuns` (schedule.go:756) looks
  for a started run row; an attempt between its claim and its stub has none, so the
  retry is accepted and a second worker starts beside the first.
- `CrashBudgetKept` counts the runs the sweep stamped: crashes are counted from
  job_runs, so a process that dies before its stub commits does not count towards
  MaxCrashes (docs/CONTRACT.md:27-28).
- `StatsServeEveryRun` (`lost`): a process that dies between the backfill and the
  re-roll of its hours; a duplicate Scheduler's late write of an hour whose runs
  retention has deleted; a run that finishes after its job's finalized_at and is
  deleted with it; a backfill into a stretch another walk has read; a re-rolled hour
  that would shrink, which keeps its rows without the run the backfill logged
  (stats_rollup.go:1181-1185), though RebuildStats' comment says "the order of the two
  does not matter" (stats_rollup.go:938-942); and refuseShrink compares totals, so a
  backfilled run can take the place of a deleted one in an hour's rows.
- `RetentionHolds`: the delete goes by id and does not look again at a job
  re-queued since it was selected (retention.go:346); a RebuildStats that creates
  the progress row anchors the boundary that lets older history go before the first
  pass.
- `NoFireLost` (`crossed`): a tick that spans a pause and a resume, or a change of
  the schedule (also one that was put back before the tick's write, whose columns
  then look the same), writes the cursor of the row it read; two concurrent upserts decide
  by a stale read whether the schedule changed. A Scheduler that dies between the
  enqueue and the advance loses the history entry, not the fire.
- `DrainAnswered`: a registration whose insert committed but was reported failed
  keeps `inserted` false, fails on the primary key from then on, reads stale and
  never answers a drain request.
- `PromiseKept` (`beside`): InstallIndexes takes no lock; its CREATE IF NOT EXISTS
  may meet another call's failing build and return nil over an invalid index.
- `WalkExact` (resumed): a resumed bulk call starts its stagger again and has
  forgotten which keys and barriers it used.
- `BeatDelivers` (`misled`): a progress write applied but reported failed, followed
  by a report equal to the last acknowledged one, leaves the older value in the run.
  A cancel or a sweep between a renewal and the progress write of the same beat lets
  one write follow a lost claim; a cancel of a job already reclaimed does not reach
  the old attempt (documented).
- `LogsWhole`: the last flush, or a late stub, after a DeleteJob leaves rows of a job
  that is gone.
- `TreeWhole` (`grew`): a child inserted between the count of a level and its read
  takes the place of an older one though Truncated is false. `ListingExact`:
  ChildOutputs' cursor is created_at alone and passes the children that share it; a
  listing that reads state by state may meet twice a job that was retried and ended
  again between two statements (its position has moved).

## 7. Not modelled

- `loadtest/` (11,400 lines), `cmd/` (4,100), the facade packages, examples and test
  support drive the runtime or re-export it; they hold none of its state.
- Built-in workers are subprocess and HTTP I/O; the exporters of observers are
  callbacks that change no job state; the health endpoint reads.
- Histograms, percentiles, baselines, anomalies, error groups, fingerprints and
  queue history are arithmetic over the entries `Upkeep` counts, with no state that
  guards an operation. Counts and health samples are single reads.
- Kinds, the registry, error classes, argument encoding, tags and metadata are
  static data; what depends on them (a result's class, an unregistered kind) is an
  input of the models.
- Seeding, and SQLite's migration path, which is Migrate's without concurrency.
- Abstracted from the modelled parts: every duration, outputs, priorities, per-queue
  fairness of the claim order, several queues per Runner, rate refill (the freedom
  to grant less), time zones of cron expressions, audit rows (written in the
  transaction they record; `Reads` pages through them), and log wording.
