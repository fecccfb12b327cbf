------------------------------ MODULE JobCore ------------------------------
(***************************************************************************)
(* The life of jobs in the runtime's database: the jobs row, its job_runs  *)
(* rows and their finish log, the attempts the runners hold in memory, the *)
(* lease sweep and the operator controls (internal/core: client.go,        *)
(* driver*.go, runner.go, lease_heartbeat.go, schedule.go,                 *)
(* job_controls.go, retention.go).                                         *)
(*                                                                         *)
(* Each action is one transaction of the code; attempts, sweeps and        *)
(* controls interleave freely between them.  Time is abstracted to what    *)
(* the guards read: whether scheduled_at has come (due) and whether        *)
(* leased_until has passed (lease).  A lease may lapse under a live worker *)
(* (a stalled heartbeat, a database it cannot reach, a skewed clock).      *)
(* Not in this module: priorities and queues (a claim takes any due rows,  *)
(* which covers every ORDER BY), unique keys, parents and barriers.        *)
(***************************************************************************)
EXTENDS Integers, FiniteSets

CONSTANTS
    Jobs,            \* job ids
    Tokens,          \* lease tokens, the values models.NewID draws from
    NoToken,         \* lease_token NULL
    MaxAttempts,     \* the max_attempts an enqueue may ask for
    MaxCrashes,      \* DriverOpts.MaxCrashes, 0 for no crash budget
    ClaimLimit,      \* rows one Dequeue call may claim
    SweepBatchSize,  \* DriverOpts.SweepBatchSize
    Results,         \* what a worker's attempt may end with
    RetryOptions,    \* the RetryOpts operators use
    Controls,        \* the other controls operators use
    AttemptBound,    \* bound: claims of one job
    BudgetBound,     \* bound: max_attempts a retry may grant
    ForceBound       \* bound: forced re-queues of one job

WaitingStates == {"available", "retryable", "scheduled", "paused"}
ClaimableStates == WaitingStates \ {"paused"}
TerminalStates == {"succeeded", "cancelled", "discarded"}
NonTerminalStates == WaitingStates \cup {"running"}
\* "absent" and "deleted": no row yet, and no row any more.
JobStates == NonTerminalStates \cup TerminalStates \cup {"absent", "deleted"}

Attempts == 1..AttemptBound

RetryOpts == [force : BOOLEAN, allowRunning : BOOLEAN, reset : BOOLEAN, budget : Nat]

ASSUME TokenAssumption == NoToken \notin Tokens
ASSUME BudgetAssumption ==
    /\ MaxAttempts \subseteq Nat \ {0}
    /\ MaxCrashes \in Nat
    /\ ClaimLimit \in Nat \ {0}
    /\ SweepBatchSize \in Nat \ {0}
ASSUME InputAssumption ==
    /\ Results \subseteq {"success", "transient", "permanent", "snooze", "cancel"}
    /\ RetryOptions \subseteq RetryOpts
    /\ Controls \subseteq {"cancel", "pause", "resume", "reschedule", "delete"}
ASSUME BoundAssumption ==
    /\ AttemptBound \in Nat \ {0}
    /\ BudgetBound \in Nat
    /\ ForceBound \in Nat

VARIABLES
    job,        \* the jobs table: its row per id
    runs,       \* the job_runs table: the row of each (job_id, attempt)
    finishLog,  \* job_run_finishes: <<job, attempt, finished_at>>
    exec,       \* the attempt each claim handed to a runner: dispatch's locals
    forced,     \* history: re-queues of a job by Force or AllowRunning
    reclaims,   \* history: reclaims of a job by the sweep
    excused     \* history: why two attempts of a job may overlap

vars == <<job, runs, finishLog, exec, forced, reclaims, excused>>
history == <<forced, reclaims, excused>>

----------------------------------------------------------------------------
(* Rows. *)

JobRow == [state : JobStates, attempt : 0..AttemptBound, maxAttempts : Nat,
           token : Tokens \cup {NoToken}, lease : {"none", "live", "lapsed"},
           due : BOOLEAN, finalized : BOOLEAN]

\* finished_at is told apart by its writer, which is all that makes two
\* finish times of one run differ; "null" is SQL NULL.
RunRow == [outcome : {"none", "started", "success", "error", "snooze",
                      "cancelled", "crashed"},
           finishedAt : {"null", "sweep", "finalize"},
           jobState : JobStates \cup {"null"},
           superseded : BOOLEAN]

\* pc: "claimed" until the run stub commits, "working" until the attempt ends,
\* then "done", or "gone" when its process died or a statement of it failed.
Exec == [pc : {"none", "claimed", "working", "done", "gone"},
         token : Tokens \cup {NoToken}, max : Nat]

NoJob == [state |-> "absent", attempt |-> 0, maxAttempts |-> 0, token |-> NoToken,
          lease |-> "none", due |-> FALSE, finalized |-> FALSE]
NoRun == [outcome |-> "none", finishedAt |-> "null", jobState |-> "null",
          superseded |-> FALSE]
\* raw, dispatch's copy of the claim, goes out of scope with the attempt.
Ended(pc) == [pc |-> pc, token |-> NoToken, max |-> 0]

Live(j, a) == exec[j][a].pc \in {"claimed", "working"}

\* Mutant: the guard asks only whether the job is running, not under which claim.
HoldsAnyClaim(j, a) == job[j].state = "running"

\* The guard of Finalize and RenewLease: the row is running under this claim.
HoldsClaim(j, a) ==
    /\ job[j].state = "running"
    /\ job[j].token = exec[j][a].token

Init ==
    /\ job = [j \in Jobs |-> NoJob]
    /\ runs = [j \in Jobs |-> [a \in Attempts |-> NoRun]]
    /\ finishLog = {}
    /\ exec = [j \in Jobs |-> [a \in Attempts |-> Ended("none")]]
    /\ forced = [j \in Jobs |-> 0]
    /\ reclaims = [j \in Jobs |-> 0]
    /\ excused = [j \in Jobs |-> {}]

----------------------------------------------------------------------------
(* Producers and the clock. *)

\* buildRow: an enqueue lands available, now or at ScheduleAt.
Insert(j, max, now) ==
    /\ job[j].state = "absent"
    /\ job' = [job EXCEPT ![j] = [NoJob EXCEPT !.state = "available",
                                               !.maxAttempts = max,
                                               !.due = now]]
    /\ UNCHANGED <<runs, finishLog, exec, history>>

\* The clock reaches scheduled_at.
TimePasses(j) ==
    /\ job[j].state \in NonTerminalStates
    /\ ~job[j].due
    /\ job' = [job EXCEPT ![j] = [@ EXCEPT !.due = TRUE]]
    /\ UNCHANGED <<runs, finishLog, exec, history>>

\* The clock passes leased_until.
LeaseLapses(j) ==
    /\ job[j].lease = "live"
    /\ job' = [job EXCEPT ![j] = [@ EXCEPT !.lease = "lapsed"]]
    /\ UNCHANGED <<runs, finishLog, exec, history>>

----------------------------------------------------------------------------
(* The claim and the attempt. *)

Claimable(j) ==
    /\ job[j].state \in ClaimableStates
    /\ job[j].due
    /\ job[j].attempt < AttemptBound

\* Mutant: the token names the runner rather than the claim.
ReusedToken(t) == TRUE

\* A new id: no row and no attempt in flight carries it.
Fresh(t) ==
    \A j \in Jobs : /\ job[j].token # t
                    /\ \A a \in Attempts : exec[j][a].token # t

ClaimUpdate(row, t) ==
    [row EXCEPT !.state = "running", !.attempt = @ + 1, !.lease = "live", !.token = t]

\* One token for the whole batch; every claimed row is handed to dispatch.
Dequeue(S, t) ==
    /\ S # {} /\ Cardinality(S) <= ClaimLimit
    /\ \A j \in S : Claimable(j)
    /\ Fresh(t)
    /\ job' = [j \in Jobs |-> IF j \in S THEN ClaimUpdate(job[j], t) ELSE job[j]]
    /\ exec' = [j \in Jobs |-> IF j \in S
                               THEN [exec[j] EXCEPT ![job[j].attempt + 1] =
                                       [pc |-> "claimed", token |-> t,
                                        max |-> job[j].maxAttempts]]
                               ELSE exec[j]]
    /\ UNCHANGED <<runs, finishLog, history>>

\* The stub commits whatever has become of the job since the claim.
InsertRunStub(j, a) ==
    /\ exec[j][a].pc = "claimed"
    /\ runs' = [runs EXCEPT ![j][a] = [NoRun EXCEPT !.outcome = "started"]]
    /\ exec' = [exec EXCEPT ![j][a] = [@ EXCEPT !.pc = "working"]]
    /\ UNCHANGED <<job, finishLog, history>>

\* A heartbeat that finds the claim gone writes nothing.
RenewLease(j, a) ==
    /\ exec[j][a].pc = "working"
    /\ HoldsClaim(j, a)
    /\ job' = [job EXCEPT ![j] = [@ EXCEPT !.lease = "live"]]
    /\ UNCHANGED <<runs, finishLog, exec, history>>

\* The process dies, or InsertRunStub or Finalize returns an error (a deleted
\* run row among its causes): dispatch returns and writes nothing more.
Abandon(j, a) ==
    /\ Live(j, a)
    /\ exec' = [exec EXCEPT ![j][a] = Ended("gone")]
    /\ UNCHANGED <<job, runs, finishLog, history>>

\* The state-machine decision for attempt a, claimed with budget max.
PlanFinalize(a, max, result) ==
    CASE result = "cancel"  -> [jobState |-> "cancelled", outcome |-> "cancelled"]
      [] result = "snooze"  -> [jobState |-> "scheduled", outcome |-> "snooze"]
      [] result = "success" -> [jobState |-> "succeeded", outcome |-> "success"]
      [] result = "permanent" -> [jobState |-> "discarded", outcome |-> "error"]
      [] OTHER -> [jobState |-> IF a >= max THEN "discarded" ELSE "retryable",
                   outcome |-> "error"]

\* jobFinalizeUpdate: a retry waits its backoff out, a snooze any delay, and
\* the snooze alone raises max_attempts.
JobFinalizeUpdate(row, plan, due) ==
    [row EXCEPT !.state = plan.jobState,
                !.token = NoToken,
                !.lease = "none",
                !.finalized = @ \/ plan.jobState \in TerminalStates,
                !.maxAttempts = IF plan.jobState = "scheduled" THEN @ + 1 ELSE @,
                !.due = CASE plan.jobState = "retryable" -> FALSE
                          [] plan.jobState = "scheduled" -> due
                          [] OTHER -> @]

\* Mutant: the state a late finalize planned is recorded though superseded.
RunClaimsState(row, plan, superseded) ==
    [row EXCEPT !.outcome = plan.outcome, !.superseded = superseded,
                !.finishedAt = IF @ = "null" THEN "finalize" ELSE @,
                !.jobState = plan.jobState]

\* runFinalizeUpdate: finished_at is write-once, and a superseded finalize
\* leaves the job_state column to the sweep that may have written it.
RunFinalizeUpdate(row, plan, superseded) ==
    [row EXCEPT !.outcome = plan.outcome,
                !.finishedAt = IF @ = "null" THEN "finalize" ELSE @,
                !.superseded = superseded,
                !.jobState = IF superseded THEN @ ELSE plan.jobState]

\* The worker has returned result; the finalize transaction records it, and
\* advances the job only under the claim the attempt still holds.
Finalize(j, a, result, due) ==
    LET plan == PlanFinalize(a, exec[j][a].max, result)
        run  == RunFinalizeUpdate(runs[j][a], plan, ~HoldsClaim(j, a))
    IN  /\ exec[j][a].pc = "working"
        /\ runs[j][a].outcome # "none"
        /\ job' = IF HoldsClaim(j, a)
                  THEN [job EXCEPT ![j] = JobFinalizeUpdate(@, plan, due)]
                  ELSE job
        /\ runs' = [runs EXCEPT ![j][a] = run]
        /\ finishLog' = finishLog \cup {<<j, a, run.finishedAt>>}
        /\ exec' = [exec EXCEPT ![j][a] = Ended("done")]
        /\ UNCHANGED history

----------------------------------------------------------------------------
(* The lease sweep. *)

\* Mutant: a late finalize over a crashed run hides the crash.
CrashedOutcome(run) == run.outcome = "crashed"

\* crashedRunCondition: crashed, or crashed and then finalized late.
CrashedRun(run) ==
    \/ run.outcome = "crashed"
    \/ run.superseded /\ run.jobState # "null"

EarlierCrashes(j) == Cardinality({a \in Attempts : CrashedRun(runs[j][a])})

\* Mutant: one attempt too many.
SpentLate(row) == row.attempt > row.maxAttempts

SpentAttempts(row) == row.attempt >= row.maxAttempts
CrashBudgetSpent(earlier) == MaxCrashes > 0 /\ 1 + earlier >= MaxCrashes

ReclaimState(j) ==
    IF SpentAttempts(job[j]) \/ CrashBudgetSpent(EarlierCrashes(j))
    THEN "discarded" ELSE "available"

\* Mutant: the reclaim leaves the token of the attempt it took the job from.
ReclaimKeepsToken(row, state) ==
    [row EXCEPT !.state = state, !.lease = "none",
                !.finalized = @ \/ state = "discarded"]

ReclaimUpdate(row, state) ==
    [row EXCEPT !.state = state, !.token = NoToken, !.lease = "none",
                !.finalized = @ \/ state = "discarded"]

\* Mutant: the stubs of the earlier attempts only.
OlderStub(j, a) == a < job[j].attempt /\ runs[j][a].outcome = "started"

\* crashStaleStubs: only the started stub of the reclaimed attempt.
StaleStub(j, a) == a = job[j].attempt /\ runs[j][a].outcome = "started"

CrashedUpdate(row, state) ==
    [row EXCEPT !.outcome = "crashed", !.finishedAt = "sweep", !.jobState = state]

Expired(j) == job[j].state = "running" /\ job[j].lease = "lapsed"

\* One batch; SKIP LOCKED may leave any of the expired rows to another sweeper.
SweepBatch(S) ==
    /\ S # {} /\ Cardinality(S) <= SweepBatchSize
    /\ \A j \in S : Expired(j)
    /\ job' = [j \in Jobs |-> IF j \in S THEN ReclaimUpdate(job[j], ReclaimState(j))
                                         ELSE job[j]]
    /\ runs' = [j \in Jobs |-> [a \in Attempts |->
                  IF j \in S /\ StaleStub(j, a)
                  THEN CrashedUpdate(runs[j][a], ReclaimState(j)) ELSE runs[j][a]]]
    /\ finishLog' = finishLog \cup
                      {f \in S \X Attempts \X {"sweep"} : StaleStub(f[1], f[2])}
    /\ reclaims' = [j \in Jobs |-> IF j \in S THEN reclaims[j] + 1 ELSE reclaims[j]]
    /\ excused' = [j \in Jobs |-> IF j \in S /\ \E a \in Attempts : Live(j, a)
                                  THEN excused[j] \cup {"lapse"} ELSE excused[j]]
    /\ UNCHANGED <<exec, forced>>

----------------------------------------------------------------------------
(* Operator controls: each reads the row under its lock, refuses a state it *)
(* does not act on, and otherwise changes it.                               *)

RetryStates(o) ==
    WaitingStates \cup (IF o.force THEN TerminalStates ELSE {})
                  \cup (IF o.allowRunning THEN {"running"} ELSE {})

\* Mutant: a cancelled job is taken for stopped.
NothingRuns(j) == FALSE

\* The only trace of a running attempt a retry looks for is its run stub.
AttemptStillRuns(j) ==
    \E a \in Attempts : a = job[j].attempt /\ runs[j][a].outcome = "started"

\* applyRetryBudget: headroom above the attempt, never a rewind of it.
RetryBudget(row, o) ==
    IF ~o.reset THEN row.maxAttempts
    ELSE row.attempt + (IF o.budget = 0 THEN row.maxAttempts ELSE o.budget)

RetryUpdate(row, o, due) ==
    [row EXCEPT !.state = "available", !.token = NoToken, !.lease = "none",
                !.finalized = FALSE, !.due = due,
                !.maxAttempts = RetryBudget(row, o)]

\* Why the re-queue may run the job beside an attempt of it, if it may.
RetryExcuse(j, o) ==
    CASE o.allowRunning /\ \E a \in Attempts : Live(j, a) -> {"allowRunning"}
      [] \E a \in Attempts : a = job[j].attempt /\ exec[j][a].pc = "claimed" -> {"window"}
      [] OTHER -> {}

RetryJob(j, o, due) ==
    /\ job[j].state \in RetryStates(o)
    /\ ~(job[j].state = "cancelled" /\ ~o.allowRunning /\ AttemptStillRuns(j))
    /\ RetryBudget(job[j], o) <= BudgetBound
    /\ job' = [job EXCEPT ![j] = RetryUpdate(@, o, due)]
    /\ forced' = IF job[j].state \in WaitingStates THEN forced
                 ELSE [forced EXCEPT ![j] = @ + 1]
    /\ forced'[j] <= ForceBound
    /\ excused' = [excused EXCEPT ![j] = @ \cup RetryExcuse(j, o)]
    /\ UNCHANGED <<runs, finishLog, exec, reclaims>>

\* Mutant: the cancel overwrites a recorded outcome.
CancelAnyJob(j) ==
    /\ job[j].state \notin {"absent", "deleted", "cancelled"}
    /\ job' = [job EXCEPT ![j] = [@ EXCEPT !.state = "cancelled", !.token = NoToken,
                                           !.lease = "none", !.finalized = TRUE]]
    /\ UNCHANGED <<runs, finishLog, exec, history>>

\* Nobody awaits a running attempt: clearing its token is what fences it.
CancelJob(j) ==
    /\ job[j].state \in NonTerminalStates
    /\ job' = [job EXCEPT ![j] = [@ EXCEPT !.state = "cancelled", !.token = NoToken,
                                           !.lease = "none", !.finalized = TRUE]]
    /\ UNCHANGED <<runs, finishLog, exec, history>>

PauseJob(j) ==
    /\ job[j].state \in ClaimableStates
    /\ job' = [job EXCEPT ![j] = [@ EXCEPT !.state = "paused"]]
    /\ UNCHANGED <<runs, finishLog, exec, history>>

ResumeJob(j) ==
    /\ job[j].state = "paused"
    /\ job' = [job EXCEPT ![j] = [@ EXCEPT !.state = "available"]]
    /\ UNCHANGED <<runs, finishLog, exec, history>>

RescheduleJob(j, due) ==
    /\ job[j].state \in WaitingStates
    /\ job' = [job EXCEPT ![j] = [@ EXCEPT !.due = due]]
    /\ UNCHANGED <<runs, finishLog, exec, history>>

\* deleteJobRows: the finish entries, the runs and the row, one transaction.
DeleteJob(j) ==
    /\ job[j].state \in TerminalStates
    /\ job' = [job EXCEPT ![j] = [NoJob EXCEPT !.state = "deleted"]]
    /\ runs' = [runs EXCEPT ![j] = [a \in Attempts |-> NoRun]]
    /\ finishLog' = {f \in finishLog : f[1] # j}
    /\ UNCHANGED <<exec, history>>

----------------------------------------------------------------------------

Produce == \E j \in Jobs, max \in MaxAttempts, now \in BOOLEAN : Insert(j, max, now)
Clock == \E j \in Jobs : TimePasses(j) \/ LeaseLapses(j)
Claim == \E S \in SUBSET Jobs, t \in Tokens : Dequeue(S, t)
Attempt == \E j \in Jobs, a \in Attempts :
              \/ InsertRunStub(j, a)
              \/ RenewLease(j, a)
              \/ Abandon(j, a)
              \/ \E r \in Results, due \in BOOLEAN : Finalize(j, a, r, due)
Sweep == \E S \in SUBSET Jobs : SweepBatch(S)
Control == \E j \in Jobs :
              \/ \E o \in RetryOptions, due \in BOOLEAN : RetryJob(j, o, due)
              \/ "cancel" \in Controls /\ CancelJob(j)
              \/ "pause" \in Controls /\ PauseJob(j)
              \/ "resume" \in Controls /\ ResumeJob(j)
              \/ "reschedule" \in Controls /\ \E due \in BOOLEAN : RescheduleJob(j, due)
              \/ "delete" \in Controls /\ DeleteJob(j)

Next == Produce \/ Clock \/ Claim \/ Attempt \/ Sweep \/ Control

Spec == Init /\ [][Next]_vars

\* Runners keep polling, the clock runs, the scheduler keeps sweeping, and an
\* attempt ends: its worker returns or its process dies.
AttemptEnds(j, a) ==
    Abandon(j, a) \/ \E r \in Results, due \in BOOLEAN : Finalize(j, a, r, due)
Fairness ==
    /\ WF_vars(Claim)
    /\ WF_vars(Sweep)
    /\ \A j \in Jobs : WF_vars(TimePasses(j)) /\ WF_vars(LeaseLapses(j))
    /\ \A j \in Jobs, a \in Attempts :
          WF_vars(InsertRunStub(j, a)) /\ WF_vars(AttemptEnds(j, a))
FairSpec == Spec /\ Fairness
----------------------------------------------------------------------------
(* Correctness. *)

\* Every variable has its shape (the columns of rows.go and dispatch's locals).
TypeOK ==
    /\ job \in [Jobs -> JobRow]
    /\ runs \in [Jobs -> [Attempts -> RunRow]]
    /\ finishLog \subseteq Jobs \X Attempts \X {"sweep", "finalize"}
    /\ exec \in [Jobs -> [Attempts -> Exec]]
    /\ forced \in [Jobs -> Nat]
    /\ reclaims \in [Jobs -> Nat]
    /\ excused \in [Jobs -> SUBSET {"lapse", "allowRunning", "window"}]

\* The fence: an attempt whose token the row carries is the row's newest
\* attempt, and the max_attempts it decides retry or discard with
\* (planFinalize reads the claim's copy) is still the row's.
FenceHolder ==
    \A j \in Jobs, a \in Attempts :
        Live(j, a) /\ HoldsClaim(j, a) =>
            /\ job[j].attempt = a
            /\ job[j].maxAttempts = exec[j][a].max

\* A row's columns agree with its state: a token and a lease exactly while it is
\* running (every transition out of running clears both), finalized_at exactly on
\* terminal jobs, so retention, which asks for both, neither misses a finished
\* job nor meets a live one.
RowConsistent ==
    \A j \in Jobs :
        /\ job[j].state = "running" <=> job[j].token # NoToken
        /\ job[j].state = "running" <=> job[j].lease # "none"
        /\ job[j].finalized <=> job[j].state \in TerminalStates

\* What the audit says of the newest attempt is what the row says: a job its
\* own attempt moved carries that attempt's job_state, a discarded one its
\* discarding run, unless the sweep reclaimed an attempt with no run stub.
StateMatchesAudit ==
    \A j \in Jobs, a \in Attempts : a = job[j].attempt =>
        /\ job[j].state \in {"succeeded", "retryable", "scheduled"} =>
              runs[j][a].jobState = job[j].state /\ ~runs[j][a].superseded
        /\ job[j].state = "discarded" =>
              \/ runs[j][a].jobState = "discarded"
              \/ /\ runs[j][a].jobState = "null" /\ reclaims[j] > 0
                 /\ runs[j][a].outcome \in {"none", "started"} \/ runs[j][a].superseded
        /\ runs[j][a].jobState \in TerminalStates /\ forced[j] = 0 =>
              job[j].state = runs[j][a].jobState

\* The finish log holds exactly one entry for each finished run, with the
\* run's own finish time: a late finalize of a crashed stub adds none.
FinishLogExact ==
    finishLog = {f \in Jobs \X Attempts \X {"sweep", "finalize"} :
                   runs[f[1]][f[2]].finishedAt = f[3]}

\* A job is claimed at most max_attempts times, once more for each time an
\* operator forced it back: failures, crashes and snoozes cannot exceed it.
RetryBudgetKept ==
    \A j \in Jobs :
        /\ job[j].attempt <= job[j].maxAttempts + forced[j]
        /\ job[j].state \in WaitingStates => job[j].attempt < job[j].maxAttempts + forced[j]

\* One reclaim is at most one crashed run, the reclaimed attempt's own stub
\* (never that of an older attempt which AllowRunning left at work); and with a
\* crash budget, the runs the sweep has stamped never exceed it, once more for
\* each forced re-queue, whatever late finalizes wrote over them.
SweptRuns(j) == {a \in Attempts : runs[j][a].finishedAt = "sweep"}
CrashBudgetKept ==
    \A j \in Jobs :
        /\ Cardinality(SweptRuns(j)) <= reclaims[j]
        /\ MaxCrashes > 0 =>
              /\ Cardinality(SweptRuns(j)) <= MaxCrashes + forced[j]
              /\ job[j].state \in NonTerminalStates =>
                    Cardinality(SweptRuns(j)) < MaxCrashes + forced[j]

Overlap(j) ==
    \E a, b \in Attempts : a # b /\ exec[j][a].pc = "working" /\ exec[j][b].pc = "working"

\* Two workers run one job at once only after a lease lapsed under a live
\* attempt, a retry asked for it with AllowRunning, or a forced retry met a
\* cancelled attempt between its claim and its run stub.
OverlapExcused == \A j \in Jobs : Overlap(j) => excused[j] # {}

\* A finalize of an attempt that is no longer the running attempt of its job
\* leaves every row of jobs as it was, whatever the worker returned.
StaleFinalizeInvisible ==
    [][\A j \in Jobs, a \in Attempts :
          /\ exec[j][a].pc = "working" /\ exec'[j][a].pc = "done"
          /\ a # job[j].attempt \/ job[j].state # "running"
          => job' = job]_vars

\* A recorded outcome stands: a terminal job changes state only by a forced
\* re-queue or a delete.
TerminalIsFinal ==
    [][\A j \in Jobs :
          job[j].state \in TerminalStates /\ job'[j].state # job[j].state =>
              job'[j].state = "deleted" \/ forced'[j] = forced[j] + 1]_vars

\* Once a run has finished, what the stats counted it as stays: its finish
\* time, the job state it applied, and whether it reads as a crash.
CountedRunStable ==
    [][\A j \in Jobs, a \in Attempts :
          runs[j][a].finishedAt # "null" /\ job'[j].state # "deleted" =>
              /\ runs'[j][a].finishedAt = runs[j][a].finishedAt
              /\ runs'[j][a].jobState = runs[j][a].jobState
              /\ CrashedRun(runs'[j][a]) = CrashedRun(runs[j][a])]_vars

\* The history of a job is exact, and written once: the newest attempt's row says
\* what the jobs row says, the finish log says when each run finished, and a run
\* the statistics have counted never changes under them.
AuditExact == [](StateMatchesAudit /\ FinishLogExact) /\ CountedRunStable

\* JobLife's variables: what the rows and the attempts in flight amount to.
Phase(state) == IF state \in WaitingStates THEN "waiting" ELSE state
Life == INSTANCE JobLife WITH
    phase <- [j \in Jobs |-> Phase(job[j].state)],
    tries <- [j \in Jobs |-> job[j].attempt],
    allowed <- [j \in Jobs |-> IF job[j].state \in {"absent", "deleted"} THEN 0
                               ELSE job[j].maxAttempts + forced[j]],
    active <- [j \in Jobs |-> {a \in Attempts : Live(j, a)}]

\* The rows, tokens, stubs and budgets implement the life JobLife promises: each
\* claim, finalize, sweep and control is one of its steps or changes nothing a
\* user can see.
ImplementsLife == Life!Spec

\* docs/CONTRACT.md: a job whose attempts fail, time out or kill their process
\* ends rather than loops.
EveryJobEnds ==
    \A j \in Jobs :
        job[j].state \in NonTerminalStates ~> job[j].state \in TerminalStates \cup {"deleted"}

\* A claim whose process died is released: the sweep takes the job from it,
\* and crashes the run stub it left (no operator cancelling the job under it).
DeadClaimReleased ==
    \A j \in Jobs, a \in Attempts :
        exec[j][a].pc = "gone" /\ job[j].state = "running" /\ job[j].attempt = a ~>
            /\ job[j].state # "running" \/ job[j].attempt # a
            /\ runs[j][a].outcome # "started"

\* No job and no claim is stuck: whatever attempts fail, lose their lease or die,
\* each job ends, and each dead attempt is taken from its job and its run closed.
NothingStuck == EveryJobEnds /\ DeadClaimReleased
=============================================================================
