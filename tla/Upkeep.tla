------------------------------- MODULE Upkeep -------------------------------
(***************************************************************************)
(* The statistics rollup and retention, which work on the same history     *)
(* from two sides (internal/core: stats_rollup.go, stats_progress.go,      *)
(* stats_scheduler.go, stats.go, retention.go): the rollup counts each     *)
(* closed hour's inserts and finished runs into its stored rows and        *)
(* extends the covered range over it; retention deletes the jobs, and with *)
(* them the runs, that the covered range lets go.                          *)
(*                                                                         *)
(* Each action is one statement or one transaction of the code: an hour is *)
(* aggregated by a read and stored by a later transaction, and a retention *)
(* batch selects its ids before it deletes them.  Time is the hour.  An    *)
(* hour's rows are the set of entries they count, so two recomputes of one *)
(* hour can be compared.  The clock's grace is taken as enough: no run of  *)
(* this release finishes in a closed hour (RebuildStats is the repair).    *)
(***************************************************************************)
EXTENDS Integers, FiniteSets, FiniteSetsExt

CONSTANTS
    Jobs,            \* job ids, in insert order (a UUIDv7 sorts by its time)
    MaxRun,          \* bound: attempts of one job
    LastHour,        \* bound: the clock stops after this hour closed
    Walkers,         \* schedulers rolling up and RebuildStats callers
    Operations,      \* what each runs: "rollup", "rebuild", "force"
    Pruners,         \* schedulers running retention
    StatsRetention,  \* hours of rollup rows kept
    MaxHoursPerPass, \* StatsMaxHoursPerPass
    KindOf,          \* the kind of each job
    DefaultAge,      \* RetentionMaxAge, in hours
    Rules,           \* RetentionRules: records of kind, state and age
    BatchSize,       \* RetentionOpts.BatchSize
    MaxBatches,      \* RetentionOpts.MaxBatches, 0 for no cap
    MaxRawSpan,      \* StatsParams.MaxRawSpan, in hours
    OldBinary,       \* TRUE while an older release still finalizes runs
    FailBound        \* bound: passes cut short by an error or a shutdown

Hours == 0..LastHour
Runs == 1..MaxRun
\* <<j, 0>> is the insert of job j, <<j, a>> the finish of its run a.
Entries == Jobs \X (0..MaxRun)
NoHour == -1
AnyOne == "any"         \* the empty kind or state of a rule

ASSUME SizeAssumption ==
    /\ Jobs \subseteq Nat \ {0} /\ IsFiniteSet(Jobs)
    /\ MaxRun \in Nat \ {0} /\ LastHour \in Nat
    /\ StatsRetention \in Nat \ {0} /\ MaxHoursPerPass \in Nat \ {0}
    /\ BatchSize \in Nat \ {0} /\ MaxBatches \in Nat
    /\ MaxRawSpan \in Nat \ {0} /\ FailBound \in Nat
    /\ Operations \in [Walkers -> SUBSET {"rollup", "rebuild", "force"}]
\* configureStats refuses an age shorter than an hour and the grace;
\* validateRetentionRules a rule of neither kind nor state, and a repeated one.
ASSUME RulesAssumption ==
    /\ DefaultAge \in Nat \ {0}
    /\ \A r \in Rules :
          /\ r.age \in Nat \ {0}
          /\ r.state \in {AnyOne, "succeeded", "cancelled"}
          /\ r.kind # AnyOne \/ r.state # AnyOne
          /\ \A s \in Rules : s.kind = r.kind /\ s.state = r.state => s = r

VARIABLES
    now,       \* the open hour: every earlier hour is closed
    job,       \* the jobs table: state, finalized_at's hour, attempts
    at,        \* the hour of each entry
    log,       \* job_run_finishes: the finished runs the stats can see
    rows,      \* job_stats_hourly: the entries each hour's rows count
    prog,      \* job_stats_progress: covered range and retention boundary
    walker,    \* the locals of each rollup pass, rebuild or re-roll
    pruner,    \* the locals of each retention pass
    fails,     \* history: passes cut short
    lost       \* history: entries the stats may miss, and why
vars == <<now, job, at, log, rows, prog, walker, pruner, fails, lost>>
jobVars == <<now, job, at, log>>
upkeep == <<rows, prog, walker, pruner, fails, lost>>

----------------------------------------------------------------------------
(* Rows and locals. *)

Terminal == {"succeeded", "cancelled"}
NoJob == [st |-> "absent", fin |-> NoHour, attempt |-> 0, busy |-> {}]
NoProgress == [from |-> NoHour, to |-> NoHour, retain |-> NoHour]

\* pc: idle, reroll, floor, walk, read, write, cover, prune.
NoLegs == [i \in 1..5 |-> <<0, 0>>]
Idle(backfills) ==
    [pc |-> "idle", op |-> "none", leg |-> 0, legs |-> NoLegs, left |-> 0, hour |-> NoHour,
     win |-> {}, todo |-> {}, earliest |-> 0, backfills |-> backfills]
NotPruning == [pc |-> "idle", cap |-> 0, retain |-> 0, clock |-> 0, cursor |-> 0, ids |-> {}, left |-> 0]

Covered(p) == p.from < p.to
Covers(p, h) == p.from <= h /\ h < p.to

Exists(j) == job[j].st \notin {"absent", "deleted"}

\* What aggregateWindow counts in hour h: the runs the finish log leads to and
\* the jobs whose ids fall in it, deleted jobs and their runs being gone.
Raw(h) == {e \in Entries : /\ at[e] = h /\ Exists(e[1])
                           /\ e[2] = 0 \/ e \in log}

\* The same, deleted ones included: what the hour really held.
Logged(h) == {e \in Entries : at[e] = h /\ (e[2] = 0 \/ e \in log)}

Init ==
    /\ now = 0
    /\ job = [j \in Jobs |-> NoJob]
    /\ at = [e \in Entries |-> NoHour]
    /\ log = {}
    /\ rows = [h \in Hours |-> {}]
    /\ prog = NoProgress
    /\ walker = [w \in Walkers |-> Idle(0)]
    /\ pruner = [p \in Pruners |-> NotPruning]
    /\ fails = 0
    /\ lost = {}

----------------------------------------------------------------------------
(* The jobs and the clock. *)

HourTurns ==
    /\ now <= LastHour
    /\ now' = now + 1
    /\ UNCHANGED <<job, at, log, upkeep>>

Enqueue(j) ==
    /\ now <= LastHour
    /\ job[j].st = "absent"
    /\ \A k \in Jobs : k < j => job[k].st # "absent"
    /\ job' = [job EXCEPT ![j].st = "live"]
    /\ at' = [at EXCEPT ![<<j, 0>>] = now]
    /\ UNCHANGED <<now, log, upkeep>>

Start(j) ==
    /\ job[j].st = "live" /\ job[j].attempt < MaxRun
    /\ job' = [job EXCEPT ![j].attempt = @ + 1,
                          ![j].busy = @ \cup {job[j].attempt + 1}]
    /\ UNCHANGED <<now, at, log, upkeep>>

\* The finalize of run a: of the running job it ends or retries, or of a job
\* cancelled since, whose row it leaves alone.  An older binary logs nothing.
Finish(j, a, ends, old) ==
    LET rest == job[j].busy \ {a}
    IN  /\ now <= LastHour
        /\ Exists(j) /\ a \in job[j].busy
        /\ at' = [at EXCEPT ![<<j, a>>] = now]
        /\ log' = IF old THEN log ELSE log \cup {<<j, a>>}
        /\ job' = [job EXCEPT ![j] =
                     IF ends /\ @.st = "live" /\ a = @.attempt
                     THEN [@ EXCEPT !.busy = rest, !.st = "succeeded", !.fin = now]
                     ELSE [@ EXCEPT !.busy = rest]]
        /\ UNCHANGED <<now, upkeep>>

Cancel(j) ==
    /\ now <= LastHour
    /\ job[j].st = "live"
    /\ job' = [job EXCEPT ![j].st = "cancelled", ![j].fin = now]
    /\ UNCHANGED <<now, at, log, upkeep>>

\* A forced retry of a job whose attempts have all ended.
Retry(j) ==
    /\ job[j].st \in Terminal /\ job[j].busy = {}
    /\ job[j].attempt < MaxRun
    /\ job' = [job EXCEPT ![j].st = "live", ![j].fin = NoHour]
    /\ UNCHANGED <<now, at, log, upkeep>>

----------------------------------------------------------------------------
(* The covered range. *)

\* ensureStatsProgress: the row is created covering nothing, once.
Ensured(p, h) == IF p = NoProgress THEN [from |-> h, to |-> h, retain |-> h] ELSE p

\* applyCoverageStep: each edge moves only when it stands in the step's span.
Step(p, up, down) ==
    [p EXCEPT !.to = IF up[1] <= @ /\ @ < up[2] THEN up[2] ELSE @,
              !.from = IF down[1] < @ /\ @ <= down[2] THEN down[1] ELSE @]
NoStep == <<0, 0>>

\* advanceStatsFloor: both edges are raised to the boundary.
Raised(p, earliest) ==
    [from |-> Max({p.from, earliest}), to |-> Max({p.to, earliest}), retain |-> earliest]

----------------------------------------------------------------------------
(* A walk: stretches of hours, taken one hour at a time.                     *)

\* The stretches <<lo, hi>>, in the order they are taken: the hours inside the
\* range, the gap above it, the hours above that, the gap below it, the hours
\* below that.  In a gap only the hours with activity are rolled.
Legs == 1..5
Upward(i) == i <= 3
EveryHour(i) == i \in {1, 3, 5}
Extends(i) == i # 1
OpenLegs(legs) == {i \in Legs : legs[i][1] < legs[i][2]}
Trim(legs) == [i \in Legs |-> IF legs[i][1] < legs[i][2] THEN legs[i] ELSE <<0, 0>>]

\* Mutant: the history below the range is never rolled.
ForwardOnly(p, closed, earliest) == [NoLegs EXCEPT ![2] = <<p.to, closed>>]

\* rollupPass: forward to the closed hours, then back to the retention.
RollupLegs(p, closed, earliest) ==
    [NoLegs EXCEPT ![2] = <<p.to, closed>>, ![4] = <<earliest, p.from>>]

\* rebuildRange; a stretch that ends before it starts is not walked.
RebuildLegs(p, from, end) ==
    LET start == Max({from, p.to})
        top   == Min({end, p.from})
    IN  << <<Max({from, p.from}), Min({end, p.to})>>,
           <<p.to, start>>, <<start, end>>, <<top, p.from>>, <<from, top>> >>

Guarded(op) == op \in {"rebuild", "reroll"}

\* Where a walk stands once legs are left of it.
Resume(loc, legs) ==
    IF OpenLegs(legs) # {} /\ loc.left # 0
    THEN LET i == Min(OpenLegs(legs))
         IN  [loc EXCEPT !.pc = IF EveryHour(i) THEN "read" ELSE "walk",
                         !.leg = i, !.legs = Trim(legs),
                         !.hour = IF ~EveryHour(i) THEN NoHour
                                  ELSE IF Upward(i) THEN legs[i][1] ELSE legs[i][2] - 1]
    ELSE IF loc.op = "rollup"
    THEN [Idle(loc.backfills) EXCEPT !.pc = "prune", !.op = "rollup", !.earliest = loc.earliest]
    ELSE Idle(loc.backfills)

\* rerollCoveredHours, oldest first; the pass then goes on with its floor.
Reroll(loc) ==
    IF loc.todo = {}
    THEN [Idle(loc.backfills + 1) EXCEPT !.pc = "floor"]
    ELSE Resume(loc, [NoLegs EXCEPT ![1] = <<Min(loc.todo), Min(loc.todo) + 1>>])

\* backfillIfDue: on the first pass, and once more on one ten minutes later.
StartsWithBackfill(w) ==
    /\ walker[w].pc = "idle" /\ "rollup" \in Operations[w]
    /\ OldBinary /\ walker[w].backfills < 2
StartsWithFloor(w) ==
    /\ walker[w].pc = "idle" /\ "rollup" \in Operations[w]
    /\ OldBinary => walker[w].backfills > 0

\* The hours a walk has found empty or has read, and has yet to commit.
Uncommitted(w) ==
    LET loc == walker[w]
        i   == loc.leg
    IN  {h \in Hours :
           /\ loc.pc \in {"read", "write", "cover"}
           /\ loc.legs[i][1] <= h /\ h < loc.legs[i][2]
           /\ \/ loc.pc = "cover"
              \/ IF Upward(i) THEN h < loc.hour ELSE h > loc.hour
              \/ loc.pc = "write" /\ h = loc.hour}

\* backfillWalk: the unlogged runs are logged, and their hours remembered.  A
\* run logged into an hour another walk has already looked at is not in its count.
BackfillRunFinishes(w) ==
    LET found == {e \in Entries : /\ e[2] # 0 /\ at[e] # NoHour
                                  /\ e \notin log /\ Exists(e[1])}
    IN  /\ StartsWithBackfill(w)
        /\ log' = log \cup found
        /\ walker' = [walker EXCEPT ![w] = [@ EXCEPT !.pc = "reroll", !.op = "reroll",
                                                     !.todo = {at[e] : e \in found}]]
        /\ lost' = lost \cup {e \in found : \E x \in Walkers \ {w} : at[e] \in Uncommitted(x)}
        /\ UNCHANGED <<now, job, at, rows, prog, pruner, fails>>

\* Mutant: the backfilled hours are left to a rollup that has passed them.
NoReroll(w) ==
    /\ walker[w].pc = "reroll"
    /\ walker' = [walker EXCEPT ![w] = Reroll([@ EXCEPT !.left = -1, !.todo = {}])]
    /\ UNCHANGED <<jobVars, rows, prog, pruner, fails, lost>>

\* Of the backfilled hours, those the rollups cover.
RerollCoveredHours(w) ==
    /\ walker[w].pc = "reroll"
    /\ walker' = [walker EXCEPT ![w] =
                    Reroll([@ EXCEPT !.left = -1, !.todo = {h \in walker[w].todo : Covers(prog, h)}])]
    /\ UNCHANGED <<jobVars, rows, prog, pruner, fails, lost>>

AdvanceStatsFloor(w) ==
    LET earliest == Max({0, now - StatsRetention})
        p        == Raised(Ensured(prog, earliest), earliest)
    IN  /\ StartsWithFloor(w) \/ walker[w].pc = "floor"
        /\ prog' = p
        /\ walker' = [walker EXCEPT ![w] =
                        Resume([@ EXCEPT !.op = "rollup", !.left = MaxHoursPerPass,
                                         !.earliest = earliest],
                               RollupLegs(p, now, earliest))]
        /\ UNCHANGED <<jobVars, rows, pruner, fails, lost>>

\* RebuildStats: To is clamped to the closed hours.
StartRebuild(w, op, from, end) ==
    /\ walker[w].pc = "idle" /\ op \in Operations[w]
    /\ from < end /\ end <= now
    /\ prog' = Ensured(prog, from)
    /\ walker' = [walker EXCEPT ![w] =
                    Resume([@ EXCEPT !.op = op, !.left = -1], RebuildLegs(prog', from, end))]
    /\ UNCHANGED <<jobVars, rows, pruner, fails, lost>>

\* nextActivityAt and prevActivityAt find the next hour to roll, or none.
Probe(w) ==
    LET i == walker[w].leg
        active == {h \in walker[w].legs[i][1] .. (walker[w].legs[i][2] - 1) : Raw(h) # {}}
    IN  /\ walker[w].pc = "walk"
        /\ walker' = [walker EXCEPT ![w] =
              IF active = {} THEN [@ EXCEPT !.pc = "cover"]
              ELSE [@ EXCEPT !.pc = "read",
                             !.hour = IF Upward(i) THEN Min(active) ELSE Max(active)]]
        /\ UNCHANGED <<jobVars, rows, prog, pruner, fails, lost>>

\* rollupHour aggregates the hour before its transaction begins.
AggregateWindow(w) ==
    /\ walker[w].pc = "read"
    /\ walker' = [walker EXCEPT ![w] = [@ EXCEPT !.pc = "write", !.win = Raw(walker[w].hour)]]
    /\ UNCHANGED <<jobVars, rows, prog, pruner, fails, lost>>

Shrinks(stored, win) ==
    \/ Cardinality({e \in win : e[2] # 0}) < Cardinality({e \in stored : e[2] # 0})
    \/ Cardinality({e \in win : e[2] = 0}) < Cardinality({e \in stored : e[2] = 0})

\* refuseShrink
Refuses(op, stored, win) == Guarded(op) /\ Shrinks(stored, win)

\* The hour is behind the walk.
Advanced(loc) ==
    LET i == loc.leg
        next == [loc EXCEPT !.hour = NoHour, !.win = {}, !.left = IF @ > 0 THEN @ - 1 ELSE @]
    IN  IF loc.op = "reroll" THEN Reroll([next EXCEPT !.todo = @ \ {loc.hour}])
        ELSE Resume(next, [loc.legs EXCEPT ![i] = IF Upward(i) THEN <<loc.hour + 1, @[2]>>
                                                               ELSE <<@[1], loc.hour>>])

\* The entries a write takes out of an hour's rows that nothing keeps there: a
\* forced rebuild may count less, and so may an unguarded write of an hour that
\* another walk has rolled since this one read the range; and the guard looks at
\* numbers alone, so one entry more can take the place of a deleted one.
Dropped(op, h, win) ==
    IF op = "force" \/ (op = "rollup" /\ Covers(prog, h)) THEN rows[h] \ win
    ELSE {e \in rows[h] \ win :
            Guarded(op) /\ \E f \in win \ rows[h] : (f[2] = 0) <=> (e[2] = 0)}

\* The hour is replaced and the range extended in one transaction.  A re-rolled
\* hour that would shrink keeps its rows, without the run the backfill logged.
RollupHour(w) ==
    LET loc == walker[w]
        i   == loc.leg
        h   == loc.hour
    IN  /\ loc.pc = "write"
        /\ IF Refuses(loc.op, rows[h], loc.win)
           THEN /\ walker' = [walker EXCEPT ![w] = IF loc.op = "reroll" THEN Advanced(loc)
                                                   ELSE Idle(loc.backfills)]
                /\ lost' = IF loc.op = "reroll" THEN lost \cup (loc.win \ rows[h]) ELSE lost
                /\ UNCHANGED <<rows, prog>>
           ELSE /\ rows' = [rows EXCEPT ![h] = loc.win]
                /\ prog' = IF ~Extends(i) THEN prog
                           ELSE IF Upward(i) THEN Step(prog, <<loc.legs[i][1], h + 1>>, NoStep)
                           ELSE Step(prog, NoStep, <<h, loc.legs[i][2]>>)
                /\ lost' = lost \cup Dropped(loc.op, h, loc.win)
                /\ walker' = [walker EXCEPT ![w] = Advanced(loc)]
        /\ UNCHANGED <<jobVars, pruner, fails>>

\* markCovered: the rest of the stretch had no activity.
MarkCovered(w) ==
    LET i   == walker[w].leg
        leg == walker[w].legs[i]
    IN  /\ walker[w].pc = "cover"
        /\ prog' = IF Upward(i) THEN Step(prog, leg, NoStep) ELSE Step(prog, NoStep, leg)
        /\ walker' = [walker EXCEPT ![w] = Resume(@, [@.legs EXCEPT ![i] = <<0, 0>>])]
        /\ UNCHANGED <<jobVars, rows, pruner, fails, lost>>

PruneRows(w) ==
    /\ walker[w].pc = "prune"
    /\ rows' = [h \in Hours |-> IF h < walker[w].earliest THEN {} ELSE rows[h]]
    /\ walker' = [walker EXCEPT ![w] = Idle(@.backfills)]
    /\ UNCHANGED <<jobVars, prog, pruner, fails, lost>>

\* An error, a cancelled context or the death of the process.  The backfill's
\* hours are forgotten with it.
WalkFails(w) ==
    /\ fails < FailBound
    /\ walker[w].pc # "idle"
    /\ fails' = fails + 1
    /\ walker' = [walker EXCEPT ![w] = Idle(@.backfills)]
    /\ lost' = lost \cup {e \in log : /\ at[e] \in walker[w].todo /\ Covers(prog, at[e])
                                     /\ e \notin rows[at[e]]}
    /\ UNCHANGED <<jobVars, rows, prog, pruner>>

----------------------------------------------------------------------------
(* Retention. *)

\* Mutant: the hold is the covered range's end, history below it or not.
CapAtEnd(p) == p.to

\* statsRetentionCap
Cap(p) == IF p.retain < p.from THEN p.retain ELSE p.to

Matches(r, j) == r.kind \in {AnyOne, KindOf[j]} /\ r.state \in {AnyOne, job[j].st}
Specificity(r) == (IF r.kind # AnyOne THEN 2 ELSE 0) + (IF r.state # AnyOne THEN 1 ELSE 0)

\* retentionCase: the most specific rule that matches decides a job's age.
MaxAge(j) ==
    LET matching == {r \in Rules : Matches(r, j)}
    IN  IF matching = {} THEN DefaultAge
        ELSE (CHOOSE r \in matching :
                \A s \in matching : Specificity(s) <= Specificity(r)).age

\* RetentionStatus: for each rule and for the default, the cutoff a pass would
\* use now, and the jobs that row decides and that are due.
Default == [kind |-> AnyOne, state |-> AnyOne, age |-> DefaultAge]
Decides(r, j) == /\ Matches(r, j)
                 /\ \A s \in Rules : Matches(s, j) => Specificity(s) <= Specificity(r)
RetentionStatus ==
    LET Cutoff(r) == IF Covered(prog) THEN Min({Cap(prog), now - r.age}) ELSE now - r.age
    IN  [r \in Rules \cup {Default} |->
           [cutoff |-> Cutoff(r),
            due |-> {j \in Jobs : /\ job[j].st \in Terminal /\ Decides(r, j)
                                  /\ job[j].fin < Cutoff(r)}]]

StartPrune(p) ==
    /\ pruner[p].pc = "idle"
    /\ Covered(prog)
    /\ pruner' = [pruner EXCEPT ![p] = [NotPruning EXCEPT !.pc = "select", !.cap = Cap(prog),
                                                          !.retain = prog.retain, !.clock = now, !.left = MaxBatches]]
    /\ UNCHANGED <<jobVars, rows, prog, walker, fails, lost>>

Expired(p, j) ==
    /\ job[j].st \in Terminal
    /\ job[j].fin < Min({pruner[p].cap, pruner[p].clock - MaxAge(j)})

\* deleteFinishedBatch reads its ids, in id order after the cursor.
SelectBatch(p) ==
    LET due == {j \in Jobs : j > pruner[p].cursor /\ Expired(p, j)}
        ids == {j \in due : Cardinality({k \in due : k < j}) < BatchSize}
    IN  /\ pruner[p].pc = "select"
        /\ pruner' = [pruner EXCEPT ![p] =
                        IF ids = {} THEN NotPruning
                        ELSE [@ EXCEPT !.pc = "delete", !.ids = ids, !.cursor = Max(ids)]]
        /\ UNCHANGED <<jobVars, rows, prog, walker, fails, lost>>

\* deleteJobRows deletes by id, whatever the jobs have become.
DeleteBatch(p) ==
    LET ids  == pruner[p].ids
        left == pruner[p].left
        gone == {e \in Entries : e[1] \in ids /\ Exists(e[1]) /\ at[e] # NoHour}
    IN  /\ pruner[p].pc = "delete"
        /\ job' = [j \in Jobs |-> IF j \in ids THEN [NoJob EXCEPT !.st = "deleted"] ELSE job[j]]
        /\ pruner' = [pruner EXCEPT ![p] =
                        IF @.left = 1 THEN NotPruning
                        ELSE [@ EXCEPT !.pc = "select", !.ids = {},
                                       !.left = IF left > 0 THEN left - 1 ELSE 0]]
        /\ lost' = lost \cup {e \in gone : ~Covers(prog, at[e]) \/ e \notin rows[at[e]]}
        /\ UNCHANGED <<now, at, log, rows, prog, walker, fails>>

PruneFails(p) ==
    /\ fails < FailBound
    /\ pruner[p].pc # "idle"
    /\ fails' = fails + 1
    /\ pruner' = [pruner EXCEPT ![p] = NotPruning]
    /\ UNCHANGED <<jobVars, rows, prog, walker, lost>>

----------------------------------------------------------------------------

Work == \E j \in Jobs :
            \/ Enqueue(j) \/ Start(j) \/ Cancel(j) \/ Retry(j)
            \/ \E a \in Runs, ends \in BOOLEAN, old \in {FALSE, OldBinary} :
                  Finish(j, a, ends, old)
Pass(w) ==
    \/ BackfillRunFinishes(w) \/ RerollCoveredHours(w) \/ AdvanceStatsFloor(w)
    \/ Probe(w) \/ AggregateWindow(w) \/ RollupHour(w) \/ MarkCovered(w) \/ PruneRows(w)
Rebuild(w) == \E op \in {"rebuild", "force"}, from, end \in 0..(LastHour + 1) :
                  StartRebuild(w, op, from, end)
Retain(p) == StartPrune(p) \/ SelectBatch(p) \/ DeleteBatch(p)

Next ==
    \/ HourTurns
    \/ Work
    \/ \E w \in Walkers : Rebuild(w) \/ Pass(w) \/ WalkFails(w)
    \/ \E p \in Pruners : Retain(p) \/ PruneFails(p)

Spec == Init /\ [][Next]_vars

\* The clock runs, and the scheduler's rollup and retention activities tick; a
\* RebuildStats call may be abandoned anywhere.
FairSpec ==
    /\ Spec
    /\ WF_vars(HourTurns)
    /\ \A w \in {x \in Walkers : "rollup" \in Operations[x]} : WF_vars(Pass(w))
    /\ \A p \in Pruners : WF_vars(Retain(p))

----------------------------------------------------------------------------
(* What Stats reads. *)

\* planWindow: the covered hours of the window come from their rows, and the
\* head and the tail around them raw.
PlanWindow(p, from, to) ==
    LET rolled == {h \in from..(to - 1) : Covers(p, h)}
    IN  [rolled |-> rolled, raw |-> (from..(to - 1)) \ rolled]

\* fitRawSpan: past the cap, the raw hours before the first activity among
\* them are left out, and a window still over it is refused.
FitRawSpan(raw) ==
    LET active == {h \in Min(raw)..Max(raw) : Raw(h) # {}}
        kept   == IF active = {} THEN {} ELSE {h \in raw : h >= Min(active)}
    IN  IF Cardinality(raw) <= MaxRawSpan THEN [hours |-> raw, refused |-> FALSE]
        ELSE [hours |-> kept, refused |-> Cardinality(kept) > MaxRawSpan]

LoadRolledHours(rolled) == UNION {rows[h] : h \in rolled}

Refused(from, to) == FitRawSpan(PlanWindow(prog, from, to).raw).refused

\* windowAggs
WindowAggs(from, to) ==
    LET plan == PlanWindow(prog, from, to)
    IN  LoadRolledHours(plan.rolled) \cup UNION {Raw(h) : h \in FitRawSpan(plan.raw).hours}

----------------------------------------------------------------------------
(* Correctness. *)

\* Entries a backfill has logged and has yet to roll up again.
Pending == {e \in log : \E w \in Walkers : at[e] \in walker[w].todo}

\* Stats misses nothing: over any window the rollup keeps, what it serves
\* counts every insert and every finished run of the window, jobs retention
\* has deleted included, however a rollup, a rebuild, a backfill and retention
\* interleaved, unless the raw part is refused for its length.  lost holds the
\* cases the code does not count, each marked where it happens.
StatsServeEveryRun ==
    \A from, to \in Max({0, prog.retain})..now :
        Refused(from, to) \/ \A h \in from..(to - 1) :
            (IF Covers(prog, h) THEN Logged(h) ELSE Raw(h))
                \subseteq WindowAggs(from, to) \cup lost \cup Pending

\* RetentionOpts.HoldForStatsRollup: a job's deletion takes no entry the rollup
\* has yet to count, below the hours it keeps apart.  The deletion of a job
\* that was re-queued since it was selected, and of a run that finished after
\* its job did, are outside what the hold looks at.
RetentionHolds ==
    [][\A p \in Pruners, e \in Entries :
          /\ pruner[p].pc = "delete" /\ pruner'[p] # pruner[p]
          /\ Exists(e[1]) /\ job'[e[1]].st = "deleted" /\ Expired(p, e[1])
          /\ e[2] = 0 \/ e \in log
          /\ at[e] <= job[e[1]].fin
          => \/ Covers(prog, at[e]) /\ e \in rows[at[e]] \cup lost \cup Pending
             \/ at[e] < Max({pruner[p].retain, prog.retain})]_vars

\* Rollup and retention never wait on each other for good: once the clock
\* stands still, bounded passes bring the covered range from wherever a
\* rebuild or a failed pass left it to every hour the rollup keeps, the hold
\* caps no rule's cutoff any more, and RetentionStatus reports nothing due.
UpkeepCatchesUp ==
    <>[](/\ prog.to = LastHour + 1
         /\ prog.from <= Max({0, LastHour + 1 - StatsRetention})
         /\ LET status == RetentionStatus
            IN  \A r \in DOMAIN status :
                   status[r].cutoff = LastHour + 1 - r.age /\ status[r].due = {})
=============================================================================
