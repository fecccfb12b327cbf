----------------------------- MODULE Periodics -----------------------------
(* Periodic definitions (job_periodics): the Scheduler's tick, the apply and  *)
(* the reconcile of declared definitions, UpsertPeriodic, and the operator's  *)
(* pause, resume, trigger, activate and delete.                               *)
(* (scheduler.go, scheduler_periodics.go, schedule.go, periodic_controls.go)  *)
(*                                                                            *)
(* Time is a number of seconds.  A cron expression is a divisor of the times  *)
(* it matches, and an interval is free of phase.  Kind, queue, args, source   *)
(* and audit entries of a definition are left out.  A statement is one step:  *)
(* the tick, an upsert and the reconcile each read a row in one and write it  *)
(* in another.                                                                *)
EXTENDS Naturals, Sequences, FiniteSets

CONSTANTS
    Slugs,        \* the definitions
    Schedulers,   \* the processes that run a Scheduler
    Operator,     \* who calls UpsertPeriodic and the controls
    Declared,     \* per Scheduler: SchedulerConfig.Periodics, slug -> spec
    Specs,        \* the specs the operator upserts
    Reconciling,  \* the Schedulers whose ReconcileInterval is not negative
    BackfillCap,  \* SchedulerConfig.BackfillCap
    HistorySize,  \* PeriodicHistorySize
    LastTime,     \* bound: the clock
    Edited,       \* bound: the definitions the operator touches
    EditBound,    \* bound: the operator's calls
    MishapBound,  \* bound: failed statements and restarts
    NoRow, Idle

\* PeriodicSpec.validate: one of Cron and Every, at least a second.
SpecSet == [cron : BOOLEAN, n : Nat \ {0}, active : BOOLEAN]

ASSUME PeriodicsAssumption ==
    /\ Operator \notin Schedulers /\ Reconciling \subseteq Schedulers /\ Edited \subseteq Slugs
    /\ Specs \subseteq SpecSet
    /\ \A s \in Schedulers :
          DOMAIN Declared[s] \subseteq Slugs /\ \A g \in DOMAIN Declared[s] : Declared[s][g] \in SpecSet
    /\ BackfillCap \in Nat \ {0} /\ HistorySize \in Nat \ {0}
    /\ LastTime \in Nat /\ EditBound \in Nat /\ MishapBound \in Nat

VARIABLES
    now,      \* the clock
    row,      \* per slug: its job_periodics row, or NoRow; its era is history:
              \* how often its schedule, and with it the cursor, was replaced
    ids,      \* per slug: how many rows it has had
    jobs,     \* the unique keys slug@bucket of the jobs table
    life,     \* per Scheduler: down, applying (Run's start), up
    pending,  \* per Scheduler: pendingPeriodics
    tick,     \* per Scheduler: the pass of its periodic activity
    rec,      \* per Scheduler: the apply and the reconcile pass
    up,       \* per caller of upsertPeriodic: where the call is
    edits, mishaps,
    owed,     \* history: the fire times a definition came due at
    crossed,  \* history: a write put the cursor of another schedule on the row
    landed    \* history: the declarations applied since the Scheduler started

table == <<row, ids, jobs>>
procs == <<life, pending, tick, rec, up>>
history == <<owed, crossed, landed>>
vars == <<now, table, procs, edits, mishaps, history>>

----------------------------------------------------------------------------
(* Schedules. *)

Multiple(n, t) == (t \div n + 1) * n

\* nextFireAfter, and a cron's schedule.Next.
NextFireAfter(sp, t) == IF sp.cron THEN Multiple(sp.n, t) ELSE t + sp.n

SameSchedule(a, b) == a.cron = b.cron /\ a.n = b.n

\* Mutant: the cap keeps the oldest of the missed fires, and next_run_at
\* still passes now.
IntervalBucketsOldest(start, n, t) ==
    LET k == (t - start) \div n
    IN  [buckets |-> [i \in 1..(IF k + 1 > BackfillCap THEN BackfillCap ELSE k + 1)
                        |-> start + (i - 1) * n],
         next |-> start + (k + 1) * n]

\* intervalBuckets: the closed form.
IntervalBuckets(start, n, t) ==
    LET k == (t - start) \div n
        first == IF k + 1 > BackfillCap THEN k + 1 - BackfillCap ELSE 0
    IN  [buckets |-> [i \in 1..(k - first + 1) |-> start + (first + i - 1) * n],
         next |-> start + (k + 1) * n]

\* cronBuckets: the walk from start, which need not be one of the expression's
\* times, over the times after it; the ring keeps the last of them.
CronBuckets(start, n, t) ==
    LET second == Multiple(n, start)
        k == IF second > t THEN 0 ELSE (t - second) \div n + 1
        first == IF k + 1 > BackfillCap THEN k + 1 - BackfillCap ELSE 0
    IN  [buckets |-> [i \in 1..(k - first + 1) |->
                        IF first + i = 1 THEN start ELSE second + (first + i - 2) * n],
         next |-> second + k * n]

\* fire's choice of the two, for a definition that is due at t.
Buckets(r, t) ==
    IF r.cron THEN CronBuckets(r.next, r.n, t) ELSE IntervalBuckets(r.next, r.n, t)

\* The fire times the schedule of r has from its cursor on, up to t.
FiresUpTo(r, t) ==
    {u \in r.next..t : u = r.next \/ (IF r.cron THEN u % r.n = 0 ELSE (u - r.next) % r.n = 0)}

\* resumedNextRun.
ResumedNextRun(r, t) ==
    IF r.next > t THEN r.next
    ELSE IF r.cron THEN Multiple(r.n, t)
    ELSE r.next + ((t - r.next) \div r.n + 1) * r.n

\* periodicRow.
PeriodicRow(g, sp, t) ==
    [id |-> ids[g] + 1, cron |-> sp.cron, n |-> sp.n, active |-> sp.active,
     next |-> NextFireAfter(sp, t), paused |-> FALSE, recent |-> <<>>, era |-> 0]

\* insertPeriodic, on a slug no row has.
Insert(g, sp, t) ==
    /\ row' = [row EXCEPT ![g] = PeriodicRow(g, sp, t)]
    /\ ids' = [ids EXCEPT ![g] = @ + 1]
    /\ owed' = [owed EXCEPT ![g] = {}]
    /\ crossed' = [crossed EXCEPT ![g] = FALSE]
    /\ UNCHANGED jobs

Fires(r) == r # NoRow /\ r.active /\ ~r.paused
Due(r, t) == Fires(r) /\ r.next <= t
KeyHeld(g, b) == <<g, b>> \in jobs

\* One periodicFireEntry.
Fire(t, manual) == [at |-> t, manual |-> manual]

\* prependFires: the newest first, cut to the size kept.
PrependFires(recent, fires) ==
    LET all == [i \in 1..Len(fires) |-> fires[Len(fires) + 1 - i]] \o recent
    IN  SubSeq(all, 1, IF Len(all) > HistorySize THEN HistorySize ELSE Len(all))

NoRec == [pc |-> "idle", left |-> {}, failed |-> {}, at |-> 0]

Init ==
    /\ now = 0
    /\ row = [g \in Slugs |-> NoRow]
    /\ ids = [g \in Slugs |-> 0]
    /\ jobs = {}
    /\ life = [s \in Schedulers |-> "down"]
    /\ pending = [s \in Schedulers |-> {}]
    /\ tick = [s \in Schedulers |-> Idle]
    /\ rec = [s \in Schedulers |-> NoRec]
    /\ up = [u \in Schedulers \cup {Operator} |-> Idle]
    /\ edits = 0 /\ mishaps = 0
    /\ owed = [g \in Slugs |-> {}]
    /\ crossed = [g \in Slugs |-> FALSE]
    /\ landed = [s \in Schedulers |-> {}]

\* The clock.  A definition that fires comes due at the times of its schedule.
ClockTicks ==
    /\ now < LastTime
    /\ now' = now + 1
    /\ owed' = [g \in Slugs |->
                  IF Fires(row[g]) /\ row[g].next <= now + 1 /\ now + 1 \in FiresUpTo(row[g], now + 1)
                  THEN owed[g] \cup {now + 1} ELSE owed[g]]
    /\ UNCHANGED <<table, procs, edits, mishaps, crossed, landed>>

----------------------------------------------------------------------------
(* The tick. *)

\* What a fire uses of the row the tick read.
Copy(g) == [slug |-> g, id |-> row[g].id, cron |-> row[g].cron, n |-> row[g].n, next |-> row[g].next,
            era |-> row[g].era]

\* fire of d, one of the definitions due at t.
Firing(t, due, d) ==
    LET b == Buckets(d, t)
    IN  [at |-> t, due |-> due \ {d}, def |-> d, todo |-> b.buckets, next |-> b.next, fires |-> <<>>]

\* Tick: the due definitions are read at once, and fired later from the copies.
TickReads(s) ==
    LET copies == {Copy(g) : g \in {h \in Slugs : Due(row[h], now)}}
    IN  /\ life[s] = "up" /\ tick[s] = Idle
        /\ \E d \in copies : tick' = [tick EXCEPT ![s] = Firing(now, copies, d)]
        /\ UNCHANGED <<now, table, life, pending, rec, up, edits, mishaps, history>>

\* The tick goes on with one of the definitions left, and ends with the last.
Onward(s) ==
    LET t == tick[s]
    IN  IF t.due = {} THEN tick' = [tick EXCEPT ![s] = Idle]
        ELSE \E d \in t.due : tick' = [tick EXCEPT ![s] = Firing(t.at, t.due, d)]

\* enqueueBucket: the unique key makes a bucket that was enqueued a no-op.
EnqueueBucket(s) ==
    LET t == tick[s]
        b == Head(t.todo)
    IN  /\ t # Idle /\ t.todo # <<>>
        /\ jobs' = jobs \cup {<<t.def.slug, b>>}
        /\ tick' = [tick EXCEPT ![s] =
                      [t EXCEPT !.todo = Tail(@),
                                !.fires = IF KeyHeld(t.def.slug, b) THEN @ ELSE Append(@, Fire(b, FALSE))]]
        /\ UNCHANGED <<now, row, ids, life, pending, rec, up, edits, mishaps, history>>

\* fire's last write, and advanceWithFires: by id, so a definition deleted
\* since stays deleted, but whatever its schedule and its cursor are by now.
\* The fires the cap dropped are given up.
Advance(s) ==
    LET t == tick[s]
        g == t.def.slug
        hit == row[g] # NoRow /\ row[g].id = t.def.id
    IN  /\ t # Idle /\ t.todo = <<>>
        /\ row' = IF hit
                  THEN [row EXCEPT ![g].next = t.next, ![g].recent = PrependFires(@, t.fires)]
                  ELSE row
        /\ Onward(s)
        /\ owed' = IF hit
                   THEN [owed EXCEPT ![g] = @ \ {u \in FiresUpTo(t.def, t.at) :
                            Cardinality({v \in FiresUpTo(t.def, t.at) : v > u}) >= BackfillCap}]
                   ELSE owed
        /\ crossed' = IF hit /\ row[g].era # t.def.era
                      THEN [crossed EXCEPT ![g] = TRUE] ELSE crossed
        /\ UNCHANGED <<now, ids, jobs, life, pending, rec, up, edits, mishaps, landed>>

\* An enqueue or the advance fails: the definition keeps its cursor, and the
\* tick goes on to the next.
FireFails(s) ==
    /\ tick[s] # Idle /\ mishaps < MishapBound
    /\ mishaps' = mishaps + 1
    /\ Onward(s)
    /\ UNCHANGED <<now, table, life, pending, rec, up, edits, history>>

----------------------------------------------------------------------------
(* upsertPeriodic, by the operator and by a Scheduler's apply. *)

\* What a call uses of the row it loads.
Seen(g) ==
    IF row[g] = NoRow THEN NoRow
    ELSE [id |-> row[g].id, cron |-> row[g].cron, n |-> row[g].n, paused |-> row[g].paused]

\* A call that takes its time and loads the row: loadPeriodic.
Call(g, sp) ==
    [pc |-> IF row[g] = NoRow THEN "insert" ELSE "update", slug |-> g, spec |-> sp, at |-> now,
     seen |-> Seen(g)]

\* The apply goes on to the next declaration; a failed one stays pending.
UpsertReturns(u, ok) ==
    LET g == up[u].slug
    IN  /\ up' = [up EXCEPT ![u] = Idle]
        /\ rec' = IF u = Operator THEN rec
                  ELSE [rec EXCEPT ![u].left = @ \ {g}, ![u].failed = IF ok THEN @ ELSE @ \cup {g}]
        /\ landed' = IF u = Operator \/ ~ok THEN landed
                     ELSE [landed EXCEPT ![u] = @ \cup {g}]

OperatorUpserts(g, sp) ==
    /\ edits < EditBound /\ up[Operator] = Idle
    /\ edits' = edits + 1
    /\ up' = [up EXCEPT ![Operator] = Call(g, sp)]
    /\ UNCHANGED <<now, table, life, pending, tick, rec, mishaps, history>>

\* The load that follows a lost insert: the row may be gone again.
UpsertReloads(u) ==
    LET c == up[u]
    IN  /\ c # Idle /\ c.pc = "reload"
        /\ IF row[c.slug] = NoRow THEN UpsertReturns(u, FALSE)
           ELSE /\ up' = [up EXCEPT ![u] = [c EXCEPT !.pc = "update", !.seen = Seen(c.slug)]]
                /\ UNCHANGED <<rec, landed>>
        /\ UNCHANGED <<now, table, life, pending, tick, edits, mishaps, owed, crossed>>

UpsertInserts(u) ==
    LET c == up[u]
    IN  /\ c # Idle /\ c.pc = "insert"
        /\ IF row[c.slug] = NoRow
           THEN Insert(c.slug, c.spec, c.at) /\ UpsertReturns(u, TRUE)
           ELSE /\ up' = [up EXCEPT ![u] = [c EXCEPT !.pc = "reload"]]
                /\ UNCHANGED <<table, rec, owed, crossed, landed>>
        /\ UNCHANGED <<now, life, pending, tick, edits, mishaps>>

\* Mutant: the row is saved whole, as it was loaded.
UpdatedWhole(r, c) ==
    [r EXCEPT !.cron = c.spec.cron, !.n = c.spec.n, !.active = c.spec.active, !.paused = c.seen.paused,
              !.next = IF SameSchedule(c.seen, c.spec) THEN @ ELSE NextFireAfter(c.spec, c.at),
              !.era = IF SameSchedule(c.seen, c.spec) THEN @ ELSE @ + 1]

\* updatePeriodic's columns: the cursor only when the schedule the call loaded
\* is another, never the pause nor the history.
Updated(r, c) ==
    [r EXCEPT !.cron = c.spec.cron, !.n = c.spec.n, !.active = c.spec.active,
              !.next = IF SameSchedule(c.seen, c.spec) THEN @ ELSE NextFireAfter(c.spec, c.at),
              !.era = IF SameSchedule(c.seen, c.spec) THEN @ ELSE @ + 1]

UpsertUpdates(u) ==
    LET c == up[u]
        g == c.slug
        hit == row[g] # NoRow /\ row[g].id = c.seen.id
        reset == ~SameSchedule(c.seen, c.spec)
    IN  /\ c # Idle /\ c.pc = "update"
        /\ row' = IF hit THEN [row EXCEPT ![g] = Updated(@, c)] ELSE row
        /\ owed' = IF hit /\ reset THEN [owed EXCEPT ![g] = {}] ELSE owed
        /\ crossed' = IF hit THEN [crossed EXCEPT ![g] = IF reset THEN FALSE
                                                         ELSE @ \/ ~SameSchedule(row[g], c.spec)]
                      ELSE crossed
        /\ UpsertReturns(u, TRUE)
        /\ UNCHANGED <<now, ids, jobs, life, pending, tick, edits, mishaps>>

UpsertFails(u) ==
    /\ up[u] # Idle /\ mishaps < MishapBound
    /\ mishaps' = mishaps + 1
    /\ UpsertReturns(u, FALSE)
    /\ UNCHANGED <<now, table, life, pending, tick, edits, owed, crossed>>

----------------------------------------------------------------------------
(* Run: the start-up apply, and the reconcile activity. *)

\* applyDeclaredPeriodics, before any activity.
Starts(s) ==
    /\ life[s] = "down"
    /\ life' = [life EXCEPT ![s] = "applying"]
    /\ pending' = [pending EXCEPT ![s] = DOMAIN Declared[s]]
    /\ rec' = [rec EXCEPT ![s] = [NoRec EXCEPT !.pc = "apply", !.left = DOMAIN Declared[s]]]
    /\ landed' = [landed EXCEPT ![s] = {}]
    /\ UNCHANGED <<now, table, tick, up, edits, mishaps, owed, crossed>>

\* applyPendingPeriodics: one declaration after the other.
AppliesNext(s, g) ==
    /\ rec[s].pc = "apply" /\ up[s] = Idle /\ g \in rec[s].left
    /\ up' = [up EXCEPT ![s] = Call(g, Declared[s][g])]
    /\ UNCHANGED <<now, table, life, pending, tick, rec, edits, mishaps, history>>

StillPending(s) == rec[s].failed

\* The round ends, at the start with the activities, later with the
\* reconcile's read, when the pass is on.
ApplyEnds(s) ==
    /\ rec[s].pc = "apply" /\ up[s] = Idle /\ rec[s].left = {}
    /\ pending' = [pending EXCEPT ![s] = StillPending(s)]
    /\ life' = [life EXCEPT ![s] = "up"]
    /\ rec' = [rec EXCEPT ![s] = [NoRec EXCEPT !.pc =
                 IF life[s] = "up" /\ s \in Reconciling THEN "read" ELSE "idle"]]
    /\ UNCHANGED <<now, table, tick, up, edits, mishaps, history>>

\* Mutant: a declaration the start could not apply waits for the next start.
RetriesNever(s) == FALSE /\ UNCHANGED vars

\* reconcileOnce, when there is something to retry.
RetriesPending(s) ==
    /\ life[s] = "up" /\ rec[s].pc = "idle" /\ pending[s] # {}
    /\ rec' = [rec EXCEPT ![s] = [NoRec EXCEPT !.pc = "apply", !.left = pending[s]]]
    /\ UNCHANGED <<now, table, life, pending, tick, up, edits, mishaps, history>>

Missing(s) == {g \in DOMAIN Declared[s] \ pending[s] : row[g] = NoRow}

\* reconcilePeriodics: which declarations, those still pending aside, have no
\* row.  A pass that would write nothing is left out.
ReconcileReads(s) ==
    /\ life[s] = "up" /\ s \in Reconciling
    /\ rec[s].pc = "read" \/ (rec[s].pc = "idle" /\ pending[s] = {} /\ Missing(s) # {})
    /\ rec' = [rec EXCEPT ![s] = IF Missing(s) = {} THEN NoRec
                 ELSE [NoRec EXCEPT !.pc = "insert", !.left = Missing(s), !.at = now]]
    /\ UNCHANGED <<now, table, life, pending, tick, up, edits, mishaps, history>>

\* It only inserts, and not over a row another writer inserted meanwhile.
ReconcileInserts(s, g) ==
    /\ rec[s].pc = "insert" /\ g \in rec[s].left
    /\ IF row[g] = NoRow THEN Insert(g, Declared[s][g], rec[s].at)
       ELSE UNCHANGED <<table, owed, crossed>>
    /\ rec' = [rec EXCEPT ![s] = IF @.left = {g} THEN NoRec ELSE [rec[s] EXCEPT !.left = @ \ {g}]]
    /\ UNCHANGED <<now, life, pending, tick, up, edits, mishaps, landed>>

\* A failed read ends the pass, a failed insert does not.
ReconcileFails(s) ==
    /\ rec[s].pc \in {"read", "insert"} /\ mishaps < MishapBound
    /\ mishaps' = mishaps + 1
    /\ \E g \in rec[s].left \cup {NoRow} :
          rec' = [rec EXCEPT ![s] = IF @.left \subseteq {g} THEN NoRec ELSE [rec[s] EXCEPT !.left = @ \ {g}]]
    /\ UNCHANGED <<now, table, life, pending, tick, up, edits, history>>

\* The Scheduler stops, or its process dies: what its passes had not written
\* is lost.
Dies(s) ==
    /\ life[s] # "down" /\ mishaps < MishapBound
    /\ mishaps' = mishaps + 1
    /\ life' = [life EXCEPT ![s] = "down"]
    /\ pending' = [pending EXCEPT ![s] = {}]
    /\ tick' = [tick EXCEPT ![s] = Idle]
    /\ rec' = [rec EXCEPT ![s] = NoRec]
    /\ up' = [up EXCEPT ![s] = Idle]
    /\ UNCHANGED <<now, table, edits, history>>

----------------------------------------------------------------------------
(* The operator's controls: each a transaction on the locked row. *)

Control(g) ==
    /\ edits < EditBound /\ row[g] # NoRow
    /\ edits' = edits + 1

\* PausePeriodic; on a paused definition it writes nothing.
Pause(g) ==
    /\ Control(g) /\ ~row[g].paused
    /\ row' = [row EXCEPT ![g] = [@ EXCEPT !.paused = TRUE]]
    /\ UNCHANGED <<now, ids, jobs, procs, mishaps, history>>

\* ResumePeriodic gives up the fires the pause has kept from being enqueued.
Resume(g) ==
    /\ Control(g) /\ row[g].paused
    /\ row' = [row EXCEPT ![g] = [@ EXCEPT !.paused = FALSE, !.next = ResumedNextRun(row[g], now)]]
    /\ owed' = [owed EXCEPT ![g] = {}]
    /\ UNCHANGED <<now, ids, jobs, procs, mishaps, crossed, landed>>

\* TriggerPeriodic: a job with no key, and a manual fire; the cursor, the
\* pause and the active flag stay.
Trigger(g) ==
    /\ Control(g)
    /\ row' = [row EXCEPT ![g].recent = PrependFires(@, <<Fire(now, TRUE)>>)]
    /\ UNCHANGED <<now, ids, jobs, procs, mishaps, history>>

\* SetPeriodicActive.
SetPeriodicActive(g, active) ==
    /\ Control(g) /\ row[g].active # active
    /\ row' = [row EXCEPT ![g] = [@ EXCEPT !.active = active]]
    /\ UNCHANGED <<now, ids, jobs, procs, mishaps, history>>

DeletePeriodic(g) ==
    /\ Control(g)
    /\ row' = [row EXCEPT ![g] = NoRow]
    /\ owed' = [owed EXCEPT ![g] = {}]
    /\ crossed' = [crossed EXCEPT ![g] = FALSE]
    /\ UNCHANGED <<now, ids, jobs, procs, mishaps, landed>>

OperatorActs ==
    \E g \in Edited :
        \/ Pause(g) \/ Resume(g) \/ Trigger(g) \/ DeletePeriodic(g)
        \/ \E active \in BOOLEAN : SetPeriodicActive(g, active)
        \/ \E sp \in Specs : OperatorUpserts(g, sp)

TickStep(s) == TickReads(s) \/ EnqueueBucket(s) \/ Advance(s)
UpsertStep(u) == UpsertReloads(u) \/ UpsertInserts(u) \/ UpsertUpdates(u)
ApplyStep(s) == ApplyEnds(s) \/ \E g \in rec[s].left : AppliesNext(s, g)
ReconcileStep(s) ==
    \/ RetriesPending(s) \/ ReconcileReads(s)
    \/ \E g \in rec[s].left : ReconcileInserts(s, g)

Next ==
    \/ ClockTicks \/ OperatorActs
    \/ \E u \in Schedulers \cup {Operator} : UpsertStep(u) \/ UpsertFails(u)
    \/ \E s \in Schedulers :
          \/ Starts(s) \/ Dies(s) \/ TickStep(s) \/ FireFails(s)
          \/ ApplyStep(s) \/ ReconcileStep(s) \/ ReconcileFails(s)

Spec == Init /\ [][Next]_vars

\* A host restarts its Scheduler; each activity has a goroutine of its own
\* and ticks until Run ends; a statement that was sent returns.
FairSpec ==
    /\ Spec
    /\ WF_vars(UpsertStep(Operator))
    /\ \A s \in Schedulers :
          /\ WF_vars(Starts(s)) /\ WF_vars(TickStep(s))
          /\ WF_vars(UpsertStep(s)) /\ WF_vars(ApplyStep(s)) /\ WF_vars(ReconcileStep(s))

----------------------------------------------------------------------------
(* Properties. *)

\* No fire is lost: a time at which a firing definition came due is enqueued,
\* or its cursor has not passed it, so a later tick enqueues it, whatever
\* ticks ran twice, late or half-way, unless the cap dropped it, a resume or a
\* new schedule gave it up, or a write mixed two schedules.
NoFireLost ==
    \A g \in Slugs : row[g] # NoRow /\ ~crossed[g] =>
        \A t \in owed[g] : KeyHeld(g, t) \/ t \in FiresUpTo(row[g], now)

\* A pause is lifted by ResumePeriodic alone (or goes with the row): no
\* restart, apply, upsert, reconcile or fire in progress clears it.
PauseHolds ==
    [][\A g \in Slugs :
          row[g] # NoRow /\ row[g].paused /\ row'[g] # NoRow /\ ~row'[g].paused
          => Resume(g) \/ row'[g].id # row[g].id]_vars

\* SetPeriodicActive(false) stands while the Schedulers run: a declaration
\* turns its definition on again once, when it lands after a start.
DeactivationStands ==
    [][\A g \in Slugs :
          /\ row[g] # NoRow /\ row'[g] # NoRow /\ row[g].id = row'[g].id
          /\ ~row[g].active /\ row'[g].active
          => \/ SetPeriodicActive(g, TRUE)
             \/ UpsertUpdates(Operator)
             \/ \E s \in Schedulers : g \notin landed[s] /\ g \in landed'[s]]_vars

\* What an operator said of a schedule stands, whatever restarts, applies,
\* reconciles and fires were under way when it was said.
OperatorsWordStands == PauseHolds /\ DeactivationStands

\* The schedules settle once nothing more fails and nobody edits: every
\* declared definition has a row, and every definition that fires is caught
\* up with the clock.
SchedulesSettle ==
    <>[]\A s \in Schedulers :
          /\ life[s] = "up" /\ pending[s] = {}
          /\ s \in Reconciling => \A g \in DOMAIN Declared[s] : row[g] # NoRow
          /\ \A g \in Slugs : Fires(row[g]) => row[g].next > now
=============================================================================
