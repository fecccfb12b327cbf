------------------------------ MODULE Attempt ------------------------------
(***************************************************************************)
(* One attempt from the inside (internal/core: runner.go's dispatch,       *)
(* lease_heartbeat.go, run_progress.go, run_logs.go, observer.go) and a    *)
(* caller that waits for its job (wait.go).  The dispatch goroutine runs   *)
(* the worker and finalizes; the heartbeat goroutine renews the lease,     *)
(* writes what the worker reported and finds out that the job was          *)
(* cancelled; operators, the lease sweep and other Runners act on the row  *)
(* meanwhile.                                                              *)
(*                                                                         *)
(* An action is one statement or transaction with what its goroutine does  *)
(* in memory until the next one.  Any statement may fail; one that writes  *)
(* may fail although it was applied, its answer lost.  The job's own rules *)
(* are JobCore's: here its row only says who holds it.                     *)
(***************************************************************************)
EXTENDS Integers, Sequences, FiniteSets

CONSTANTS
    Reports, NoValue,     \* the normalized RunProgress values the worker sets, in order; none yet
    Sizes,                \* sizes a log line may have, message and attributes
    MaxLines, MaxBytes,   \* RunLogCapture, resolved
    WriteBatch,           \* runLogWriteBatch
    CooperativeCancel,    \* RunnerConfig.CooperativeCancel
    WaitStates,           \* WaitOpts.States
    LastAttempt,          \* whether attempt >= max_attempts
    LineBound,            \* bound: lines logged
    ReportBound,          \* bound: lines and progress reports together
    OthersBound           \* bound: steps of operators, sweep and other Runners

Terminal == {"succeeded", "discarded", "cancelled"}
Waiting == {"available", "retryable", "scheduled"}
JobStates == Terminal \cup Waiting \cup {"running", "gone"}

\* What a worker returns: a Result that asks for nothing, a snooze or a cancel,
\* and no error or one that classify reads as ...
Returns == [result : {"none", "snooze", "cancel"},
            error : {"none", "transient", "permanent", "timeout"}]

Values == {Reports[i] : i \in DOMAIN Reports}

ASSUME AttemptAssumption ==
    /\ NoValue \notin Values /\ Reports \in Seq(Values) /\ Sizes \subseteq Nat /\ {MaxLines, MaxBytes} \subseteq Nat
    /\ WriteBatch \in Nat \ {0} /\ {CooperativeCancel, LastAttempt} \subseteq BOOLEAN
    /\ WaitStates \subseteq JobStates \ {"gone"}
    /\ {LineBound, ReportBound, OthersBound} \subseteq Nat

VARIABLES
    job,     \* the jobs row: state, whose claim, whether the lease has lapsed
    run,     \* the attempt's job_runs row
    logs,    \* its job_run_logs rows
    disp,    \* dispatch: its place, the worker's result, rows of its last write
    cause,   \* context.Cause of the worker's context
    beat,    \* the heartbeat goroutine: its place and its locals
    sink,    \* progressSink
    buf,     \* runLogBuffer
    events,  \* what the Observer was told
    wait,    \* WaitForJob: polling, failed, or told a state
    others,  \* counts up to OthersBound
    misled,  \* history: a progress write was applied and reported failed
    struck,  \* history: the job is cancelled since it was taken from the attempt
    settled  \* history: the jobs row is as this attempt's finalize left it

tables == <<job, run, logs>>
memory == <<sink, buf>>
outside == <<wait, others, misled, struck, settled>>
vars == <<job, run, logs, disp, cause, beat, sink, buf, events, wait, others, misled, struck,
          settled>>

----------------------------------------------------------------------------
(* The worker's reports: progressSink and runLogBuffer. *)

NewSink == [value |-> NoValue, version |-> 0, written |-> 0, last |-> NoValue]
NewBuffer == [lines |-> 0, bytes |-> 0, dropped |-> 0, pending |-> <<>>]

\* pending: something was set since the last write, and differs from it.
Pending == sink.version # sink.written /\ sink.value # sink.last

\* Without a change, what was set counts as written.
Settled(s) == IF Pending THEN s ELSE [s EXCEPT !.written = s.version]

\* add: a line past either bound is dropped, with all that follow it.
Added(b, size) ==
    IF b.dropped > 0 \/ b.lines + 1 > MaxLines \/ b.bytes + size > MaxBytes
    THEN [b EXCEPT !.dropped = @ + 1]
    ELSE [b EXCEPT !.lines = @ + 1, !.bytes = @ + size,
                   !.pending = Append(@, [seq |-> b.lines + 1, line |-> b.lines + b.dropped + 1,
                                          dropped |-> 0])]

\* flush's rows: what is pending and, at the last write, the truncation line.
FlushRows(final) ==
    IF final /\ buf.dropped > 0
    THEN Append(buf.pending, [seq |-> buf.lines + 1, line |-> 0, dropped |-> buf.dropped])
    ELSE buf.pending
Taken(b) == [b EXCEPT !.pending = <<>>]

\* A failed write puts its rows back in front of what came since.
Restored(b, rows) == [b EXCEPT !.pending = rows \o @]

Room == sink.version + buf.lines + buf.dropped < ReportBound

SetProgress ==
    /\ disp.pc = "work" /\ Room /\ sink.version < Len(Reports)
    /\ sink' = [sink EXCEPT !.value = Reports[sink.version + 1], !.version = @ + 1]
    /\ UNCHANGED <<tables, disp, cause, beat, buf, events, outside>>

Log(size) ==
    /\ disp.pc = "work" /\ Room /\ buf.lines + buf.dropped < LineBound
    /\ buf' = Added(buf, size)
    /\ UNCHANGED <<tables, disp, cause, beat, sink, events, outside>>

----------------------------------------------------------------------------
(* dispatch. *)

NoEvents == [start |-> 0, finish |-> 0, supersede |-> 0, retry |-> 0]
NoBeat == [pc |-> "off", stopped |-> FALSE, lost |-> FALSE, value |-> NoValue, version |-> 0,
           rows |-> <<>>, at |-> 0]

NewWait == [pc |-> "polling", state |-> "none", mine |-> FALSE]
NewDispatch == [pc |-> "stub", result |-> "none", rows |-> <<>>, at |-> 0]

\* Dequeue has just claimed the job for this attempt; the caller starts to wait.
Init ==
    /\ job = [state |-> "running", claim |-> "mine", lapsed |-> FALSE]
    /\ run = [outcome |-> "none", superseded |-> FALSE, progress |-> NoValue]
    /\ logs = {}
    /\ disp = NewDispatch
    /\ cause = "none" /\ beat = NoBeat /\ sink = NewSink /\ buf = NewBuffer
    /\ events = NoEvents /\ wait = NewWait /\ others = 0
    /\ misled = FALSE /\ struck = FALSE /\ settled = FALSE

\* InsertRunStub; a registered kind starts, with its heartbeat.
Start ==
    /\ disp.pc = "stub"
    /\ run' = [run EXCEPT !.outcome = "started"]
    /\ disp' = [disp EXCEPT !.pc = "work"]
    /\ beat' = [beat EXCEPT !.pc = "tick"]
    /\ events' = [events EXCEPT !.start = 1]
    /\ UNCHANGED <<job, logs, cause, memory, outside>>

\* unknownKindDeferral: deferred within the grace, discarded past it.
UnknownKindDeferral == {"snooze", "permanent"}

\* finalizeUnknownKind: no start and no heartbeat.
UnknownKind ==
    /\ disp.pc = "stub"
    /\ run' = [run EXCEPT !.outcome = "started"]
    /\ \E r \in UnknownKindDeferral : disp' = [disp EXCEPT !.pc = "finalize", !.result = r]
    /\ UNCHANGED <<job, logs, cause, beat, memory, events, outside>>

StubFails ==
    /\ disp.pc = "stub"
    /\ run' \in {run, [run EXCEPT !.outcome = "started"]}
    /\ disp' = [disp EXCEPT !.pc = "done"]
    /\ UNCHANGED <<job, logs, cause, beat, memory, events, outside>>

\* The execution timeout; the first cause stays.
DeadlinePasses ==
    /\ disp.pc = "work" /\ cause = "none"
    /\ cause' = "deadline"
    /\ UNCHANGED <<tables, disp, beat, memory, events, outside>>

\* What dispatch makes of it, and planFinalize: an error of a worker whose job
\* was cancelled under it is that cancel ("stopped"), whatever its Result asks;
\* else a cancel goes before a snooze, and a snooze before an error.
Classified(r) ==
    CASE cause = "cancelled" /\ r.error # "none" -> "stopped"
      [] r.result # "none" -> r.result
      [] r.error # "none" -> r.error
      [] OTHER -> "success"

\* runWork returned, or recovered a panic (a transient error).
WorkReturns ==
    /\ disp.pc = "work"
    /\ \E r \in Returns :
         /\ r.error = "timeout" => cause = "deadline"
         /\ disp' = [disp EXCEPT !.pc = "finalize", !.result = Classified(r)]
    /\ UNCHANGED <<tables, cause, beat, memory, events, outside>>

\* The state an outcome plans for the job.  The run row reads cancelled for a
\* worker's own cancel and for one that stopped, ErrJobCancelled telling them apart.
Plan(r) ==
    CASE r = "success" -> "succeeded"
      [] r \in {"cancel", "stopped"} -> "cancelled"
      [] r = "snooze" -> "scheduled"
      [] r = "permanent" -> "discarded"
      [] r \in {"transient", "timeout"} -> IF LastAttempt THEN "discarded" ELSE "retryable"

HoldsClaim == job.state = "running" /\ job.claim = "mine"

\* Finalize's transaction: it fails without the run row, advances the job under
\* the claim, and records the attempt either way.
Finalized ==
    /\ run.outcome # "none"
    /\ job' = IF HoldsClaim THEN [state |-> Plan(disp.result), claim |-> "none", lapsed |-> FALSE]
                            ELSE job
    /\ run' = [run EXCEPT !.outcome = disp.result, !.superseded = ~HoldsClaim]
    /\ settled' = HoldsClaim

\* observe: what the driver persisted.
\* Mutant: the outcome the attempt planned.
ObservedPlan(superseded) ==
    [events EXCEPT !.finish = 1, !.retry = IF Plan(disp.result) = "retryable" THEN 1 ELSE 0]
Observed(superseded) ==
    IF superseded THEN [events EXCEPT !.supersede = 1]
    ELSE [events EXCEPT !.finish = 1, !.retry = IF Plan(disp.result) = "retryable" THEN 1 ELSE 0]

\* Then the deferred stop closes the heartbeat's channel, and waits for it.
Stopping == disp' = [disp EXCEPT !.pc = "stop"] /\ beat' = [beat EXCEPT !.stopped = TRUE]

Finalize ==
    /\ disp.pc = "finalize"
    /\ Finalized
    /\ events' = Observed(~HoldsClaim)
    /\ Stopping
    /\ UNCHANGED <<logs, cause, memory, wait, others, misled, struck>>

\* Its error is returned, with no event, whether or not it was applied.
\* Mutant: it is tried again, and finds the claim it gave up gone.
FinalizeRetried ==
    /\ disp.pc = "finalize"
    /\ Finalized \/ UNCHANGED <<job, run, settled>>
    /\ UNCHANGED <<logs, disp, beat, cause, memory, events, wait, others, misled, struck>>
FinalizeFails ==
    /\ disp.pc = "finalize"
    /\ Finalized \/ UNCHANGED <<job, run, settled>>
    /\ Stopping
    /\ UNCHANGED <<logs, cause, memory, events, wait, others, misled, struck>>

\* Mutant: it does not wait.
Signalled == beat.stopped
BeatEnded == beat.stopped /\ beat.pc = "off"

\* Then the last write takes its rows.
FinalFlush ==
    /\ disp.pc = "stop" /\ BeatEnded
    /\ LET rows == FlushRows(TRUE) IN
         disp' = [disp EXCEPT !.pc = IF rows = <<>> THEN "done" ELSE "flush", !.rows = rows]
    /\ buf' = Taken(buf)
    /\ UNCHANGED <<tables, cause, beat, sink, events, outside>>

\* One statement of a write of rows, the next after the first n: those already
\* in the table are skipped.
Reached(rows, n) == IF n + WriteBatch < Len(rows) THEN n + WriteBatch ELSE Len(rows)
Insert(rows, n) == logs' = logs \cup {rows[i] : i \in (n + 1)..Reached(rows, n)}

FinalWrites ==
    /\ disp.pc = "flush"
    /\ Insert(disp.rows, disp.at)
    /\ LET n == Reached(disp.rows, disp.at) IN
         disp' = IF n = Len(disp.rows) THEN [disp EXCEPT !.pc = "done", !.rows = <<>>, !.at = 0]
                                       ELSE [disp EXCEPT !.at = n]
    /\ UNCHANGED <<job, run, cause, beat, memory, events, outside>>

\* Nobody writes what a last write leaves.
FinalWriteFails ==
    /\ disp.pc = "flush"
    /\ Insert(disp.rows, disp.at) \/ UNCHANGED logs
    /\ disp' = [disp EXCEPT !.pc = "done", !.at = 0]
    /\ UNCHANGED <<job, run, cause, beat, memory, events, outside>>

\* The process dies.
Dies ==
    /\ disp.pc \notin {"done", "dead"}
    /\ disp' = [NewDispatch EXCEPT !.pc = "dead"]
    /\ cause' = "none" /\ beat' = NoBeat /\ sink' = NewSink /\ buf' = NewBuffer
    /\ events' = NoEvents
    /\ UNCHANGED <<tables, outside>>

----------------------------------------------------------------------------
(* The heartbeat. *)

\* The rest of a beat that held the claim: the captured lines, if any.
Flushing(b) ==
    [b EXCEPT !.pc = IF buf.pending = <<>> THEN "tick" ELSE "write", !.rows = buf.pending]

\* RenewLease by the token; then writeProgress looks for a change.
BeatHeld ==
    /\ beat.pc = "tick" /\ ~beat.lost
    /\ HoldsClaim
    /\ job' = [job EXCEPT !.lapsed = FALSE]
    /\ sink' = Settled(sink)
    /\ IF Pending
       THEN /\ beat' = [beat EXCEPT !.pc = "progress", !.value = sink.value,
                                    !.version = sink.version]
            /\ UNCHANGED buf
       ELSE beat' = Flushing(beat) /\ buf' = Taken(buf)
    /\ UNCHANGED <<run, logs, disp, cause, events, outside>>

BeatFails ==
    /\ beat.pc = "tick" /\ ~beat.lost
    /\ HoldsClaim /\ job.lapsed
    /\ job' = [job EXCEPT !.lapsed = FALSE]
    /\ UNCHANGED <<run, logs, disp, cause, beat, memory, events, outside>>

\* The claim is gone: the goroutine ends, or turns to the job's state.
BeatLost ==
    /\ beat.pc = "tick" /\ ~beat.lost
    /\ ~HoldsClaim
    /\ beat' = [beat EXCEPT !.pc = IF CooperativeCancel THEN "read" ELSE "off", !.lost = TRUE]
    /\ UNCHANGED <<tables, disp, cause, memory, events, outside>>

\* writeProgress's UPDATE of the run by its id, and wrote.
Wrote(s, value, version) ==
    [s EXCEPT !.last = value, !.written = IF s.written > version THEN s.written ELSE version]
Reported == run' = IF run.outcome = "none" THEN run ELSE [run EXCEPT !.progress = beat.value]

WriteProgress ==
    /\ beat.pc = "progress"
    /\ Reported
    /\ sink' = Wrote(sink, beat.value, beat.version)
    /\ beat' = Flushing([beat EXCEPT !.value = NoValue, !.version = 0]) /\ buf' = Taken(buf)
    /\ UNCHANGED <<job, logs, disp, cause, events, outside>>

WriteProgressFails ==
    /\ beat.pc = "progress"
    /\ \/ Reported /\ misled' = TRUE
       \/ UNCHANGED <<run, misled>>
    /\ beat' = Flushing([beat EXCEPT !.value = NoValue, !.version = 0]) /\ buf' = Taken(buf)
    /\ UNCHANGED <<job, logs, disp, cause, sink, events, wait, others, struck, settled>>

WriteLogs ==
    /\ beat.pc = "write"
    /\ Insert(beat.rows, beat.at)
    /\ LET n == Reached(beat.rows, beat.at) IN
         beat' = IF n = Len(beat.rows) THEN [beat EXCEPT !.pc = "tick", !.rows = <<>>, !.at = 0]
                                       ELSE [beat EXCEPT !.at = n]
    /\ UNCHANGED <<job, run, disp, cause, memory, events, outside>>

WriteLogsFails ==
    /\ beat.pc = "write"
    /\ Insert(beat.rows, beat.at) \/ UNCHANGED logs
    /\ buf' = Restored(buf, beat.rows)
    /\ beat' = [beat EXCEPT !.pc = "tick", !.rows = <<>>, !.at = 0]
    /\ UNCHANGED <<job, run, disp, cause, sink, events, outside>>

\* cancelIfJobCancelled: any answer ends the goroutine, a cancelled job's ends
\* the worker's context too.
ReadsState ==
    /\ beat.lost /\ beat.pc \in {"read", "tick"}
    /\ cause' = IF job.state = "cancelled" /\ cause = "none" THEN "cancelled" ELSE cause
    /\ beat' = [beat EXCEPT !.pc = "off"]
    /\ UNCHANGED <<tables, disp, memory, events, outside>>

\* A failed read is tried again at the next tick.
\* Mutant: it counts as an answer.
ReadEnds == [beat EXCEPT !.pc = "off"]
ReadAgain == [beat EXCEPT !.pc = "tick"]
ReadFails ==
    /\ beat.pc = "read"
    /\ beat' = ReadAgain
    /\ UNCHANGED <<tables, disp, cause, memory, events, outside>>

BeatStops ==
    /\ beat.pc = "tick" /\ beat.stopped
    /\ beat' = [beat EXCEPT !.pc = "off"]
    /\ UNCHANGED <<tables, disp, cause, memory, events, outside>>

----------------------------------------------------------------------------
(* WaitForJob: a caller that polls the job. *)

\* stopsAt.
StopsAt(s) == s \in Terminal \cup WaitStates

\* A read that ends the wait with the job's view; one of any other state is
\* followed by the next.  mine is history: the attempt had put the job there.
WaitReads ==
    /\ wait.pc = "polling" /\ StopsAt(job.state)
    /\ wait' = [pc |-> "told", state |-> job.state, mine |-> settled]
    /\ UNCHANGED <<tables, disp, cause, beat, memory, events, others, misled, struck, settled>>

\* Its other ends, with the last view and an error: the context's, that of a read
\* (none is tried again), or ErrJobNotFound, which a job that is gone leaves alone.
WaitFails ==
    /\ wait.pc = "polling"
    /\ wait' = [wait EXCEPT !.pc = "failed"]
    /\ UNCHANGED <<tables, disp, cause, beat, memory, events, others, misled, struck, settled>>

----------------------------------------------------------------------------
(* Everybody else. *)

Move(states, j) ==
    /\ job.state \in states /\ others < OthersBound
    /\ job' = j /\ others' = others + 1
    /\ struck' = (HoldsClaim /\ j.state = "cancelled") /\ settled' = FALSE
    /\ UNCHANGED <<disp, cause, beat, memory, events, wait, misled>>

LeaseLapses ==
    /\ HoldsClaim /\ ~job.lapsed /\ others < OthersBound
    /\ job' = [job EXCEPT !.lapsed = TRUE]
    /\ UNCHANGED <<run, logs, disp, cause, beat, memory, events, outside>>

\* The lease sweep takes the claim and crashes the attempt's run.
Sweep ==
    /\ HoldsClaim /\ job.lapsed
    /\ \E s \in {"available", "discarded"} :
         Move({"running"}, [state |-> s, claim |-> "none", lapsed |-> FALSE])
    /\ run' = IF run.outcome = "started" THEN [run EXCEPT !.outcome = "crashed"] ELSE run
    /\ UNCHANGED logs

CancelJob ==
    /\ Move(Waiting \cup {"running"}, [state |-> "cancelled", claim |-> "none", lapsed |-> FALSE])
    /\ UNCHANGED <<run, logs>>

\* A forced retry, with AllowRunning where it takes that.
RetryJob ==
    /\ Move(Terminal, [job EXCEPT !.state = "available"])
    /\ UNCHANGED <<run, logs>>

OtherClaims ==
    /\ Move(Waiting, [state |-> "running", claim |-> "other", lapsed |-> FALSE])
    /\ UNCHANGED <<run, logs>>

OtherEnds ==
    /\ job.claim = "other"
    /\ \E s \in {"succeeded", "retryable"} :
         Move({"running"}, [state |-> s, claim |-> "none", lapsed |-> FALSE])
    /\ UNCHANGED <<run, logs>>

\* DeleteJob or retention, with the job's runs and their lines.
DeleteJob ==
    /\ Move(Terminal, [job EXCEPT !.state = "gone"])
    /\ run' = [outcome |-> "none", superseded |-> FALSE, progress |-> NoValue]
    /\ logs' = {}

----------------------------------------------------------------------------

Worker == \/ WorkReturns \/ SetProgress \/ \E n \in Sizes : Log(n)
Dispatch == \/ Start \/ UnknownKind \/ StubFails \/ Finalize \/ FinalizeFails
            \/ FinalFlush \/ FinalWrites \/ FinalWriteFails
Beat == \/ BeatHeld \/ BeatFails \/ BeatLost \/ WriteProgress \/ WriteProgressFails
        \/ WriteLogs \/ WriteLogsFails \/ ReadsState \/ ReadFails \/ BeatStops
Others == \/ LeaseLapses \/ Sweep \/ CancelJob \/ RetryJob \/ OtherClaims \/ OtherEnds \/ DeleteJob

Waits == WaitReads \/ WaitFails

Next == Worker \/ Dispatch \/ Beat \/ Waits \/ Others \/ DeadlinePasses \/ Dies

Spec == Init /\ [][Next]_vars

\* The heartbeat keeps running, and a statement tried again and again succeeds
\* once in a while.  Nothing makes a worker report or return.
FairSpec ==
    /\ Spec /\ WF_vars(Beat) /\ WF_vars(BeatHeld) /\ WF_vars(ReadsState) /\ SF_vars(WriteProgress)

----------------------------------------------------------------------------
(* Correctness. *)

\* An observer counts what the database holds: after a start at most one of
\* OnFinish and OnSupersede, the first only for an attempt that advanced its
\* job, OnRetry only with it; and a worker that stopped for an operator's cancel
\* never advances the job it lost, as one that asked for the cancel itself does.
EventsTrue ==
    /\ events.finish + events.supersede <= 1 /\ events.retry <= events.finish
    /\ run.outcome # "none" =>
         /\ events.finish = 1 => run.outcome = disp.result /\ ~run.superseded
         /\ events.supersede = 1 => run.outcome = disp.result /\ run.superseded
         /\ run.outcome = "stopped" => run.superseded

\* The lines in the table are always the first ones the worker logged, without a
\* gap, so that a reader who pages on from the last Seq misses none; and a last
\* write that succeeded leaves them all, with a line for those dropped.
LogsWhole ==
    job.state # "gone" =>
        /\ {r.seq : r \in logs} = 1..Cardinality(logs)
        /\ \A r \in logs : r.line = IF r.dropped = 0 THEN r.seq ELSE 0
        /\ disp.pc = "done" /\ disp.rows = <<>> =>
             /\ \A n \in 1..buf.lines : \E r \in logs : r.line = n
             /\ buf.dropped > 0 => \E r \in logs : r.seq = buf.lines + 1 /\ r.dropped = buf.dropped

\* While the attempt holds its claim, the latest progress its worker reported
\* gets to its run, unless a write that was applied had been reported failed.
ProgressArrives ==
    <>[](disp.pc = "work" /\ HoldsClaim) => <>[](misled \/ run.progress = sink.value)

\* With CooperativeCancel, a cancel that takes a job from its attempt reaches the
\* worker, however many reads fail on the way, if it stands.
CancelArrives ==
    CooperativeCancel =>
        (disp.pc = "work" /\ struck) ~> (cause # "none" \/ disp.pc # "work" \/ ~struck)

\* The heartbeat delivers both ways: the worker's progress to the database, and an
\* operator's cancel to the worker.
BeatDelivers == ProgressArrives /\ CancelArrives

\* A waiter told of an end that this attempt gave the job was told what happened:
\* for as long as the run row is there, it records the outcome that led to that
\* state and that it counted, although the finalize may have been reported failed,
\* the process may be dead, and the job retried, run again or cancelled since.
WaitTrue ==
    wait.mine /\ run.outcome # "none" =>
        /\ run.outcome \notin {"started", "crashed"} /\ ~run.superseded
        /\ Plan(run.outcome) = wait.state
=============================================================================
