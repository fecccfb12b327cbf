--------------------------- MODULE AttemptProofs ---------------------------
(* Proofs about Attempt, for any reports, log bounds and batch size, with    *)
(* and without CooperativeCancel, and any number of steps of everybody else. *)
EXTENDS Attempt, FiniteSetTheorems, SequenceTheorems, TLAPS

Results == {"success", "snooze", "cancel", "stopped", "transient", "permanent", "timeout"}
Outcomes == Results \cup {"none", "started", "crashed"}
LogRow == [seq : Nat, line : Nat, dropped : Nat]
JobRecord == [state : JobStates, claim : {"mine", "other", "none"}, lapsed : BOOLEAN]
RunRecord == [outcome : Outcomes, superseded : BOOLEAN, progress : Values \cup {NoValue}]
DispRecord == [pc : {"stub", "work", "finalize", "stop", "flush", "done", "dead"},
               result : Results \cup {"none"}, rows : Seq(LogRow), at : Nat]
BeatRecord == [pc : {"off", "tick", "progress", "write", "read"}, stopped : BOOLEAN, lost : BOOLEAN,
               value : Values \cup {NoValue}, version : Nat, rows : Seq(LogRow), at : Nat]
SinkRecord == [value : Values \cup {NoValue}, version : Nat, written : Nat,
               last : Values \cup {NoValue}]
BufRecord == [lines : Nat, bytes : Nat, dropped : Nat, pending : Seq(LogRow)]
WaitRecord == [pc : {"polling", "failed", "told"}, state : JobStates \cup {"none"}, mine : BOOLEAN]
EventRecord == [start : {0, 1}, finish : {0, 1}, supersede : {0, 1}, retry : {0, 1}]

TypeOK ==
    /\ job \in JobRecord /\ run \in RunRecord /\ logs \subseteq LogRow
    /\ disp \in DispRecord /\ cause \in {"none", "deadline", "cancelled"} /\ beat \in BeatRecord
    /\ sink \in SinkRecord /\ buf \in BufRecord /\ events \in EventRecord
    /\ wait \in WaitRecord /\ others \in Nat
    /\ misled \in BOOLEAN /\ struck \in BOOLEAN /\ settled \in BOOLEAN

----------------------------------------------------------------------------
(* What the observer is told. *)

Finishing == disp.pc \in {"stop", "flush", "done"}

\* A claim that was taken from the attempt never comes back to it, so a cancel its
\* worker has heard of, and a finalize it was told of, have the claim behind them.
ClaimOK ==
    /\ job.state # "running" => job.claim = "none"
    /\ cause = "cancelled" \/ disp.result = "stopped" => job.claim # "mine"
    /\ events.finish = 1 \/ events.supersede = 1 => job.claim # "mine"

\* Events come with the finalize, and what it recorded stays: the sweep only
\* touches a run that is still started, of a job the attempt still holds.
EventOK ==
    /\ ~Finishing => events.finish = 0 /\ events.supersede = 0 /\ events.retry = 0
    /\ disp.pc \in {"finalize", "stop"} => disp.result # "none"
    /\ events.finish = 1 \/ events.supersede = 1 => disp.result # "none"

Told == ClaimOK /\ EventOK /\ EventsTrue

----------------------------------------------------------------------------
(* What a waiter is told. *)

\* The run row records, as counted, the outcome that planned state s.
Recorded(s) == run.outcome \in Results /\ ~run.superseded /\ s = Plan(run.outcome)

\* What the attempt's finalize left is recorded, and it finalizes once: by then
\* its claim is gone, so no sweep touches its run either.
Waited ==
    /\ settled => Recorded(job.state)
    /\ wait.mine /\ run.outcome # "none" => Recorded(wait.state)
    /\ settled \/ wait.mine =>
         disp.pc \in {"stop", "flush", "done", "dead"} /\ job.claim # "mine"

----------------------------------------------------------------------------
(* The rows of the log. *)

\* The rows an attempt of m lines and d dropped ones has, in the order of Seq.
RowOf(m, d, i) == IF i <= m THEN [seq |-> i, line |-> i, dropped |-> 0]
                  ELSE [seq |-> m + 1, line |-> 0, dropped |-> d]
RowCount(m, d) == IF d > 0 THEN m + 1 ELSE m

\* rows are those from the one after `base` on.
RunFrom(rows, m, d, base) ==
    base \in Nat /\ \A i \in 1..Len(rows) : rows[i] = RowOf(m, d, base + i)
FirstRows(m, d, k) == {RowOf(m, d, i) : i \in 1..k}

\* What the buffer, the heartbeat and the last write hold are adjacent runs of rows.
PendingFrom == buf.lines - Len(buf.pending)
BeatFrom == PendingFrom - Len(beat.rows)
Total == RowCount(buf.lines, buf.dropped)
FinalFrom == Total - Len(disp.rows)

BufferOK ==
    /\ RunFrom(buf.pending, buf.lines, buf.dropped, PendingFrom)
    /\ RunFrom(beat.rows, buf.lines, buf.dropped, BeatFrom)
    /\ beat.pc = "write" => beat.at < Len(beat.rows)
    /\ beat.pc # "write" => beat.rows = <<>> /\ beat.at = 0

FinalOK ==
    /\ disp.pc \in {"stub", "dead"} => buf = NewBuffer /\ beat.pc = "off"
    /\ disp.pc \notin {"flush", "done"} => disp.rows = <<>>
    /\ disp.pc # "flush" => disp.at = 0
    /\ disp.pc = "flush" => disp.at < Len(disp.rows)
    /\ disp.pc \in {"flush", "done"} =>
         /\ beat.pc = "off" /\ buf.pending = <<>>
         /\ RunFrom(disp.rows, buf.lines, buf.dropped, FinalFrom)

\* The table holds the first k rows, at least those no one has yet to write.
TableOK ==
    /\ disp.pc = "dead" =>
         \E m, d, k \in Nat : k <= RowCount(m, d) /\ logs = FirstRows(m, d, k)
    /\ disp.pc \in {"flush", "done"} =>
         \E k \in FinalFrom + disp.at..Total : logs = FirstRows(buf.lines, buf.dropped, k)
    /\ disp.pc \notin {"flush", "done", "dead"} =>
         \E k \in BeatFrom + beat.at..buf.lines : logs = FirstRows(buf.lines, buf.dropped, k)

Logged == BufferOK /\ FinalOK /\ (job.state # "gone" => TableOK)

Inv == TypeOK /\ Told /\ Waited /\ Logged

----------------------------------------------------------------------------
(* The helpers' types. *)

LEMMA AddedType == ASSUME NEW b \in BufRecord, NEW n \in Nat PROVE Added(b, n) \in BufRecord
<1>. DEFINE new == [seq |-> b.lines + 1, line |-> b.lines + b.dropped + 1, dropped |-> 0]
<1>1. b.lines + 1 \in Nat /\ b.bytes + n \in Nat /\ b.dropped + 1 \in Nat /\ new \in LogRow
  BY DEF BufRecord, LogRow
<1>2. Append(b.pending, new) \in Seq(LogRow)  BY <1>1 DEF BufRecord
<1>3. [b EXCEPT !.dropped = @ + 1] \in BufRecord  BY <1>1 DEF BufRecord
<1>4. [b EXCEPT !.lines = @ + 1, !.bytes = @ + n, !.pending = Append(@, new)] \in BufRecord
  BY <1>1, <1>2 DEF BufRecord
<1>. QED  BY <1>3, <1>4 DEF Added

LEMMA FlushRowsType == ASSUME TypeOK, NEW f \in BOOLEAN PROVE FlushRows(f) \in Seq(LogRow)
<1>. DEFINE new == [seq |-> buf.lines + 1, line |-> 0, dropped |-> buf.dropped]
<1>1. new \in LogRow  BY DEF TypeOK, BufRecord, LogRow
<1>2. Append(buf.pending, new) \in Seq(LogRow)  BY <1>1 DEF TypeOK, BufRecord
<1>3. buf.pending \in Seq(LogRow)  BY DEF TypeOK, BufRecord
<1>. QED  BY <1>2, <1>3, Zenon DEF FlushRows

LEMMA BufferTypes ==
    ASSUME NEW b \in BufRecord, NEW rows \in Seq(LogRow)
    PROVE  Taken(b) \in BufRecord /\ Restored(b, rows) \in BufRecord
<1>1. rows \o b.pending \in Seq(LogRow)  BY ConcatProperties DEF BufRecord
<1>2. <<>> \in Seq(LogRow)  BY EmptySeq
<1>. QED  BY <1>1, <1>2 DEF Taken, Restored, BufRecord

LEMMA FlushingType ==
    ASSUME TypeOK, NEW b \in BeatRecord
    PROVE  /\ Flushing(b) \in BeatRecord
           /\ Flushing(b).rows = buf.pending /\ Flushing(b).at = b.at
           /\ Flushing(b).pc = IF buf.pending = <<>> THEN "tick" ELSE "write"
<1>. DEFINE pc == IF buf.pending = <<>> THEN "tick" ELSE "write"
<1>1. pc \in {"tick", "write"}  OBVIOUS
<1>. HIDE DEF pc
<1>2. [b EXCEPT !.pc = pc, !.rows = buf.pending] \in BeatRecord
  BY <1>1 DEF TypeOK, BufRecord, BeatRecord
<1>3. Flushing(b) = [b EXCEPT !.pc = pc, !.rows = buf.pending]  BY DEF Flushing, pc
<1>4. Flushing(b).rows = buf.pending /\ Flushing(b).at = b.at /\ Flushing(b).pc = pc
  BY <1>3 DEF BeatRecord
<1>. QED  BY <1>2, <1>3, <1>4 DEF pc

LEMMA SinkTypes ==
    ASSUME NEW s \in SinkRecord, NEW value \in Values \cup {NoValue}, NEW version \in Nat
    PROVE  Settled(s) \in SinkRecord /\ Wrote(s, value, version) \in SinkRecord
BY DEF Settled, Wrote, SinkRecord

LEMMA InsertType ==
    ASSUME TypeOK, NEW rows \in Seq(LogRow), NEW n \in Nat, n < Len(rows), Insert(rows, n)
    PROVE  logs' \subseteq LogRow /\ Reached(rows, n) \in n + 1..Len(rows)
<1>1. Reached(rows, n) \in n + 1..Len(rows)  BY AttemptAssumption DEF Reached
<1>2. \A i \in n + 1..Reached(rows, n) : rows[i] \in LogRow  BY <1>1
<1>. QED  BY <1>1, <1>2 DEF Insert, TypeOK

LEMMA PlanType == ASSUME NEW r \in Results PROVE Plan(r) \in JobStates
BY DEF Plan, Results, JobStates, Terminal, Waiting

\* Only an error under a cancel counts as stopped.
LEMMA ClassifiedType ==
    ASSUME NEW r \in Returns
    PROVE  Classified(r) \in Results /\ (Classified(r) = "stopped" => cause = "cancelled")
<1>1. r.result \in {"none", "snooze", "cancel"} /\ r.error \in {"none", "transient", "permanent", "timeout"}
  BY DEF Returns
<1>. QED  BY <1>1 DEF Classified, Results

LEMMA ObservedType ==
    ASSUME TypeOK, NEW b \in BOOLEAN
    PROVE  /\ Observed(b) \in EventRecord
           /\ b => Observed(b).finish = events.finish /\ Observed(b).supersede = 1
                    /\ Observed(b).retry = events.retry
           /\ ~b => Observed(b).finish = 1 /\ Observed(b).supersede = events.supersede
<1>. DEFINE n == IF Plan(disp.result) = "retryable" THEN 1 ELSE 0
<1>1. n \in {0, 1}  OBVIOUS
<1>2. Observed(b) = IF b THEN [events EXCEPT !.supersede = 1]
                    ELSE [events EXCEPT !.finish = 1, !.retry = n]
  BY DEF Observed
<1>. HIDE DEF n
<1>. QED  BY <1>1, <1>2 DEF TypeOK, EventRecord

----------------------------------------------------------------------------
(* Types. *)

LEMMA TypeInit == Init => TypeOK
<1>. SUFFICES ASSUME Init PROVE TypeOK  OBVIOUS
<1>1. job \in JobRecord /\ run \in RunRecord /\ disp \in DispRecord
  BY DEF Init, NewDispatch, JobRecord, JobStates, RunRecord, Outcomes, DispRecord
<1>2. beat \in BeatRecord /\ sink \in SinkRecord /\ buf \in BufRecord /\ events \in EventRecord
  BY DEF Init, NoBeat, NewSink, NewBuffer, NoEvents, BeatRecord, SinkRecord, BufRecord, EventRecord
<1>3. wait \in WaitRecord  BY DEF Init, NewWait, WaitRecord
<1>. QED  BY <1>1, <1>2, <1>3 DEF Init, TypeOK

LEMMA FinalizedType ==
    ASSUME TypeOK, disp.result # "none", Finalized \/ UNCHANGED <<job, run, settled>>
    PROVE  job' \in JobRecord /\ run' \in RunRecord /\ settled' \in BOOLEAN
<1>1. disp.result \in Results  BY DEF TypeOK, DispRecord
<1>2. Plan(disp.result) \in JobStates  BY <1>1, PlanType
<1>3. [state |-> Plan(disp.result), claim |-> "none", lapsed |-> FALSE] \in JobRecord
  BY <1>2 DEF JobRecord
<1>4. [run EXCEPT !.outcome = disp.result, !.superseded = ~HoldsClaim] \in RunRecord
  <2>1. (~HoldsClaim) \in BOOLEAN  BY DEF HoldsClaim
  <2>. QED  BY <1>1, <2>1, Zenon DEF TypeOK, RunRecord, Outcomes
<1>5. settled' \in BOOLEAN  BY Zenon DEF Finalized, HoldsClaim, TypeOK
<1>. QED  BY <1>3, <1>4, <1>5 DEF Finalized, TypeOK

LEMMA TypeWorker == TypeOK /\ (Worker \/ DeadlinePasses) => TypeOK'
<1>. SUFFICES ASSUME TypeOK, Worker \/ DeadlinePasses PROVE TypeOK'  OBVIOUS
<1>. USE DEF tables, memory, outside
<1>1. CASE SetProgress
  <2>1. sink.version + 1 \in 1..Len(Reports)  BY <1>1 DEF SetProgress, TypeOK, SinkRecord
  <2>2. Reports[sink.version + 1] \in Values  BY <2>1, AttemptAssumption
  <2>3. sink.version + 1 \in Nat /\ sink \in SinkRecord  BY DEF TypeOK, SinkRecord
  <2>4. sink' = [sink EXCEPT !.value = Reports[sink.version + 1], !.version = sink.version + 1]
    BY <1>1, <2>3 DEF SetProgress, SinkRecord
  <2>5. sink' \in SinkRecord  BY <2>2, <2>3, <2>4 DEF SinkRecord
  <2>. QED  BY <1>1, <2>5 DEF SetProgress, TypeOK
<1>2. ASSUME NEW n \in Sizes, Log(n) PROVE TypeOK'
  <2>1. buf' \in BufRecord  BY <1>2, AddedType, AttemptAssumption DEF Log, TypeOK
  <2>. QED  BY <1>2, <2>1 DEF Log, TypeOK
<1>3. CASE WorkReturns
  <2>1. PICK r \in Returns : disp' = [disp EXCEPT !.pc = "finalize", !.result = Classified(r)]
    BY <1>3 DEF WorkReturns
  <2>2. Classified(r) \in Results  BY ClassifiedType
  <2>3. disp' \in DispRecord  BY <2>1, <2>2 DEF TypeOK, DispRecord
  <2>. QED  BY <1>3, <2>3 DEF WorkReturns, TypeOK
<1>4. CASE DeadlinePasses  BY <1>4 DEF DeadlinePasses, TypeOK
<1>. QED  BY <1>1, <1>2, <1>3, <1>4 DEF Worker

LEMMA TypeDispatch ==
    ASSUME TypeOK, EventOK, FinalOK, Dispatch \/ Dies PROVE TypeOK'
<1>. USE DEF tables, memory, outside
<1>1. CASE Start
  BY <1>1 DEF Start, TypeOK, RunRecord, Outcomes, DispRecord, BeatRecord, EventRecord
<1>2. CASE UnknownKind
  BY <1>2 DEF UnknownKind, UnknownKindDeferral, TypeOK, RunRecord, Outcomes, DispRecord, Results
<1>3. CASE StubFails
  BY <1>3 DEF StubFails, TypeOK, RunRecord, Outcomes, DispRecord
<1>4. CASE Finalize \/ FinalizeFails
  <2>1. job' \in JobRecord /\ run' \in RunRecord /\ settled' \in BOOLEAN
    BY <1>4, FinalizedType DEF Finalize, FinalizeFails, EventOK
  <2>2. disp' \in DispRecord /\ beat' \in BeatRecord
    BY <1>4 DEF Finalize, FinalizeFails, Stopping, TypeOK, DispRecord, BeatRecord
  <2>3. events' \in EventRecord
    <3>1. (~HoldsClaim) \in BOOLEAN  BY DEF HoldsClaim
    <3>. QED  BY <1>4, <3>1, ObservedType DEF Finalize, FinalizeFails, TypeOK
  <2>. QED  BY <1>4, <2>1, <2>2, <2>3 DEF Finalize, FinalizeFails, TypeOK
<1>5. CASE FinalFlush
  <2>1. FlushRows(TRUE) \in Seq(LogRow)  BY FlushRowsType
  <2>2. disp' \in DispRecord  BY <1>5, <2>1 DEF FinalFlush, TypeOK, DispRecord
  <2>3. buf' \in BufRecord  BY <1>5, BufferTypes, EmptySeq DEF FinalFlush, TypeOK
  <2>. QED  BY <1>5, <2>2, <2>3 DEF FinalFlush, TypeOK
<1>6. CASE FinalWrites \/ FinalWriteFails
  <2>1. disp.rows \in Seq(LogRow) /\ disp.at \in Nat /\ disp.at < Len(disp.rows)
    BY <1>6 DEF FinalWrites, FinalWriteFails, FinalOK, TypeOK, DispRecord
  <2>2. logs' \subseteq LogRow
    BY <1>6, <2>1, InsertType DEF FinalWrites, FinalWriteFails, TypeOK
  <2>3. Reached(disp.rows, disp.at) \in Nat  BY <2>1, AttemptAssumption, SMTT(40) DEF Reached
  <2>4. disp' \in DispRecord
    <3>1. disp \in DispRecord /\ <<>> \in Seq(LogRow)  BY EmptySeq DEF TypeOK
    <3>2. CASE FinalWrites  BY <3>1, <3>2, <2>3 DEF FinalWrites, DispRecord
    <3>3. CASE FinalWriteFails  BY <3>1, <3>3 DEF FinalWriteFails, DispRecord
    <3>. QED  BY <1>6, <3>2, <3>3
  <2>. QED  BY <1>6, <2>2, <2>4 DEF FinalWrites, FinalWriteFails, TypeOK
<1>7. CASE Dies
  <2>1. disp' \in DispRecord /\ beat' \in BeatRecord
    BY <1>7, EmptySeq DEF Dies, NewDispatch, NoBeat, DispRecord, BeatRecord
  <2>2. sink' \in SinkRecord /\ buf' \in BufRecord /\ events' \in EventRecord
    BY <1>7, EmptySeq DEF Dies, NewSink, NewBuffer, NoEvents, SinkRecord, BufRecord, EventRecord
  <2>. QED  BY <1>7, <2>1, <2>2 DEF Dies, TypeOK
<1>. QED  BY <1>1, <1>2, <1>3, <1>4, <1>5, <1>6, <1>7 DEF Dispatch

LEMMA TypeBeat == ASSUME TypeOK, BufferOK, Beat PROVE TypeOK'
<1>. USE DEF tables, memory, outside
<1>1. CASE BeatHeld
  <2>1. job' \in JobRecord  BY <1>1 DEF BeatHeld, TypeOK, JobRecord
  <2>2. sink' \in SinkRecord  BY <1>1, SinkTypes DEF BeatHeld, TypeOK, SinkRecord
  <2>3. beat' \in BeatRecord /\ buf' \in BufRecord
    <3>1. CASE Pending
      BY <1>1, <3>1, ZenonT(60) DEF BeatHeld, TypeOK, BeatRecord, SinkRecord
    <3>2. CASE ~Pending
      BY <1>1, <3>2, FlushingType, BufferTypes, EmptySeq DEF BeatHeld, TypeOK
    <3>. QED  BY <3>1, <3>2
  <2>. QED  BY <1>1, <2>1, <2>2, <2>3 DEF BeatHeld, TypeOK
<1>2. CASE BeatFails  BY <1>2 DEF BeatFails, TypeOK, JobRecord
<1>3. CASE BeatLost  BY <1>3 DEF BeatLost, TypeOK, BeatRecord
<1>4. CASE WriteProgress \/ WriteProgressFails
  <2>. DEFINE b == [beat EXCEPT !.value = NoValue, !.version = 0]
  <2>1. b \in BeatRecord  BY DEF TypeOK, BeatRecord
  <2>2. beat' = Flushing(b) /\ buf' = Taken(buf)  BY <1>4 DEF WriteProgress, WriteProgressFails
  <2>. HIDE DEF b
  <2>3. beat' \in BeatRecord /\ buf' \in BufRecord
    BY <2>1, <2>2, FlushingType, BufferTypes, EmptySeq DEF TypeOK
  <2>4. beat.value \in Values \cup {NoValue} /\ beat.version \in Nat  BY DEF TypeOK, BeatRecord
  <2>5. run' \in RunRecord
    BY <1>4, <2>4 DEF WriteProgress, WriteProgressFails, Reported, TypeOK, RunRecord
  <2>6. sink' \in SinkRecord  BY <1>4, <2>4, SinkTypes DEF WriteProgress, WriteProgressFails, TypeOK
  <2>. QED  BY <1>4, <2>3, <2>5, <2>6 DEF WriteProgress, WriteProgressFails, TypeOK
<1>5. CASE WriteLogs \/ WriteLogsFails
  <2>1. beat \in BeatRecord /\ beat.rows \in Seq(LogRow) /\ beat.at \in Nat /\ beat.at < Len(beat.rows)
    BY <1>5 DEF WriteLogs, WriteLogsFails, BufferOK, TypeOK, BeatRecord
  <2>2. logs' \subseteq LogRow  BY <1>5, <2>1, InsertType DEF WriteLogs, WriteLogsFails, TypeOK
  <2>3. Reached(beat.rows, beat.at) \in Nat  BY <2>1, AttemptAssumption, SMTT(40) DEF Reached
  <2>4. <<>> \in Seq(LogRow)  BY EmptySeq
  <2>5. CASE WriteLogs
    <3>1. beat' \in BeatRecord  BY <2>1, <2>3, <2>4, <2>5 DEF WriteLogs, BeatRecord
    <3>. QED  BY <2>2, <2>5, <3>1 DEF WriteLogs, TypeOK
  <2>6. CASE WriteLogsFails
    <3>1. beat' \in BeatRecord  BY <2>1, <2>4, <2>6 DEF WriteLogsFails, BeatRecord
    <3>2. buf' \in BufRecord  BY <2>1, <2>6, BufferTypes DEF WriteLogsFails, TypeOK
    <3>. QED  BY <2>2, <2>6, <3>1, <3>2 DEF WriteLogsFails, TypeOK
  <2>. QED  BY <1>5, <2>5, <2>6
<1>6. CASE ReadsState  BY <1>6 DEF ReadsState, TypeOK, BeatRecord
<1>7. CASE ReadFails \/ BeatStops  BY <1>7 DEF ReadFails, ReadAgain, BeatStops, TypeOK, BeatRecord
<1>. QED  BY <1>1, <1>2, <1>3, <1>4, <1>5, <1>6, <1>7 DEF Beat

LEMMA MoveType ==
    ASSUME TypeOK, NEW states, NEW j \in JobRecord, Move(states, j), run' \in RunRecord,
           logs' \subseteq LogRow
    PROVE  TypeOK'
<1>1. struck' \in BOOLEAN /\ settled' \in BOOLEAN  BY DEF Move, HoldsClaim
<1>. QED  BY <1>1 DEF Move, TypeOK, memory

LEMMA TypeOthers == ASSUME TypeOK, Others \/ Waits PROVE TypeOK'
<1>. USE DEF tables, memory, outside
<1>0. job \in JobRecord /\ run \in RunRecord /\ logs \subseteq LogRow  BY DEF TypeOK
<1>1. CASE Waits
  <2>1. settled \in BOOLEAN /\ wait \in WaitRecord /\ job.state \in JobStates  BY DEF TypeOK, JobRecord
  <2>2. CASE WaitReads
    <3>1. wait' = [pc |-> "told", state |-> job.state, mine |-> settled]  BY <2>2 DEF WaitReads
    <3>2. wait' \in WaitRecord  BY <2>1, <3>1, Zenon DEF WaitRecord
    <3>. QED  BY <2>2, <3>2 DEF WaitReads, TypeOK
  <2>3. CASE WaitFails
    <3>1. wait' \in WaitRecord  BY <2>1, <2>3 DEF WaitFails, WaitRecord
    <3>. QED  BY <2>3, <3>1 DEF WaitFails, TypeOK
  <2>. QED  BY <1>1, <2>2, <2>3 DEF Waits
<1>2. CASE LeaseLapses  BY <1>2 DEF LeaseLapses, TypeOK, JobRecord
<1>3. CASE Sweep
  <2>1. PICK s \in {"available", "discarded"} :
            Move({"running"}, [state |-> s, claim |-> "none", lapsed |-> FALSE])
    BY <1>3 DEF Sweep
  <2>2. [state |-> s, claim |-> "none", lapsed |-> FALSE] \in JobRecord
    BY DEF JobRecord, JobStates, Waiting, Terminal
  <2>3. run' \in RunRecord  BY <1>0, <1>3 DEF Sweep, RunRecord, Outcomes
  <2>. QED  BY <1>0, <1>3, <2>1, <2>2, <2>3, MoveType DEF Sweep
<1>4. CASE CancelJob
  <2>1. [state |-> "cancelled", claim |-> "none", lapsed |-> FALSE] \in JobRecord
    BY DEF JobRecord, JobStates, Terminal
  <2>. QED  BY <1>0, <1>4, <2>1, MoveType DEF CancelJob
<1>5. CASE RetryJob
  <2>1. [job EXCEPT !.state = "available"] \in JobRecord  BY <1>0 DEF JobRecord, JobStates, Waiting
  <2>. QED  BY <1>0, <1>5, <2>1, MoveType DEF RetryJob
<1>6. CASE OtherClaims
  <2>1. [state |-> "running", claim |-> "other", lapsed |-> FALSE] \in JobRecord
    BY DEF JobRecord, JobStates
  <2>. QED  BY <1>0, <1>6, <2>1, MoveType DEF OtherClaims
<1>7. CASE OtherEnds
  <2>1. PICK s \in {"succeeded", "retryable"} :
            Move({"running"}, [state |-> s, claim |-> "none", lapsed |-> FALSE])
    BY <1>7 DEF OtherEnds
  <2>2. [state |-> s, claim |-> "none", lapsed |-> FALSE] \in JobRecord
    BY DEF JobRecord, JobStates, Waiting, Terminal
  <2>. QED  BY <1>0, <1>7, <2>1, <2>2, MoveType DEF OtherEnds
<1>8. CASE DeleteJob
  <2>1. [job EXCEPT !.state = "gone"] \in JobRecord  BY <1>0 DEF JobRecord, JobStates
  <2>2. run' \in RunRecord /\ logs' \subseteq LogRow  BY <1>8 DEF DeleteJob, RunRecord, Outcomes
  <2>. QED  BY <1>0, <1>8, <2>1, <2>2, MoveType DEF DeleteJob
<1>. QED  BY <1>1, <1>2, <1>3, <1>4, <1>5, <1>6, <1>7, <1>8 DEF Others

----------------------------------------------------------------------------
(* Events and claims. *)

LEMMA ToldInit == Init => Told
BY DEF Init, Told, ClaimOK, EventOK, EventsTrue, NewDispatch, NoEvents, Finishing

\* A step of the worker or the heartbeat that neither finalizes nor cancels.
LEMMA ToldBeside ==
    ASSUME TypeOK, Told, UNCHANGED <<disp, cause, events>>,
           job'.state = job.state, job'.claim = job.claim,
           run'.outcome = run.outcome, run'.superseded = run.superseded
    PROVE  Told'
BY DEF Told, ClaimOK, EventOK, EventsTrue, Finishing

LEMMA ToldWorker == ASSUME TypeOK, Told, Worker \/ DeadlinePasses PROVE Told'
<1>. USE DEF tables, memory, outside
<1>1. CASE SetProgress \/ \E n \in Sizes : Log(n)
  BY <1>1, ToldBeside DEF SetProgress, Log
<1>2. CASE WorkReturns
  <2>1. PICK r \in Returns : disp' = [disp EXCEPT !.pc = "finalize", !.result = Classified(r)]
    BY <1>2 DEF WorkReturns
  <2>2. /\ disp'.pc = "finalize" /\ disp'.result = Classified(r)
        /\ UNCHANGED <<job, run, cause, events>>
    BY <1>2, <2>1 DEF WorkReturns, TypeOK, DispRecord
  <2>3. Classified(r) # "none" /\ (Classified(r) = "stopped" => cause = "cancelled")
    BY ClassifiedType DEF Results
  <2>4. events.finish = 0 /\ events.supersede = 0 /\ events.retry = 0
    BY <1>2 DEF WorkReturns, Told, EventOK, Finishing
  <2>. QED  BY <2>2, <2>3, <2>4 DEF Told, ClaimOK, EventOK, EventsTrue, Finishing
<1>3. CASE DeadlinePasses
  BY <1>3 DEF DeadlinePasses, Told, ClaimOK, EventOK, EventsTrue, Finishing
<1>. QED  BY <1>1, <1>2, <1>3 DEF Worker

LEMMA ToldDispatch == ASSUME TypeOK, Told, Dispatch \/ Dies PROVE Told'
<1>. USE DEF tables, memory, outside
<1>1. CASE Start \/ UnknownKind \/ StubFails
  <2>1. events.finish = 0 /\ events.supersede = 0 /\ events.retry = 0
    BY <1>1 DEF Start, UnknownKind, StubFails, Told, EventOK, Finishing
  <2>2. events'.finish = 0 /\ events'.supersede = 0 /\ events'.retry = 0
    BY <1>1, <2>1 DEF Start, UnknownKind, StubFails, TypeOK, EventRecord
  <2>3. /\ disp'.pc \in {"work", "finalize", "done"}
        /\ disp'.pc = "finalize" => disp'.result \in {"snooze", "permanent"}
        /\ disp'.pc # "finalize" => disp'.result = disp.result
        /\ UNCHANGED <<job, cause>>
    BY <1>1 DEF Start, UnknownKind, UnknownKindDeferral, StubFails, TypeOK, DispRecord
  <2>4. run'.outcome = "started" \/ UNCHANGED run
    BY <1>1 DEF Start, UnknownKind, StubFails, TypeOK, RunRecord
  <2>5. ClaimOK'  BY <2>2, <2>3 DEF Told, ClaimOK
  <2>6. EventOK'  BY <2>2, <2>3 DEF EventOK, Finishing
  <2>7. EventsTrue'  BY <2>2, <2>4 DEF Told, EventsTrue
  <2>. QED  BY <2>5, <2>6, <2>7 DEF Told
<1>2. CASE Finalize \/ FinalizeFails
  <2>1. /\ disp.result # "none"
        /\ disp.result = "stopped" => ~HoldsClaim
        /\ ~HoldsClaim => job.claim # "mine"
    BY <1>2 DEF Finalize, FinalizeFails, Told, EventOK, ClaimOK, HoldsClaim
  <2>2. /\ disp'.pc = "stop" /\ disp'.result = disp.result /\ UNCHANGED cause
        /\ events.finish = 0 /\ events.supersede = 0 /\ events.retry = 0
    BY <1>2 DEF Finalize, FinalizeFails, Stopping, TypeOK, DispRecord, Told, EventOK, Finishing
  <2>3. Finalized => /\ job'.claim # "mine" /\ (job'.state # "running" => job'.claim = "none")
                     /\ run'.outcome = disp.result
                     /\ HoldsClaim => ~run'.superseded
                     /\ ~HoldsClaim => run'.superseded
    <3>1. ASSUME Finalized, HoldsClaim PROVE job'.claim = "none"  BY <3>1 DEF Finalized
    <3>2. ASSUME Finalized, ~HoldsClaim PROVE job' = job  BY <3>2 DEF Finalized
    <3>3. ASSUME Finalized PROVE run'.outcome = disp.result /\ run'.superseded = ~HoldsClaim
      BY <3>3 DEF Finalized, TypeOK, RunRecord
    <3>. QED  BY <2>1, <3>1, <3>2, <3>3 DEF Told, ClaimOK
  <2>4. CASE Finalize
    <3>1. Finalized /\ events' = Observed(~HoldsClaim)  BY <2>4 DEF Finalize
    <3>2. CASE HoldsClaim
      <4>1. events'.finish = 1 /\ events'.supersede = 0 /\ events'.retry \in {0, 1}
        <5>1. events' = Observed(FALSE)  BY <3>1, <3>2
        <5>. QED  BY <2>2, <5>1, ObservedType DEF EventRecord
      <4>. QED  BY <2>1, <2>2, <2>3, <3>1, <3>2, <4>1 DEF Told, ClaimOK, EventOK, EventsTrue, Finishing
    <3>3. CASE ~HoldsClaim
      <4>1. events'.finish = 0 /\ events'.supersede = 1 /\ events'.retry = 0
        <5>1. events' = Observed(TRUE)  BY <3>1, <3>3
        <5>. QED  BY <2>2, <5>1, ObservedType
      <4>. QED  BY <2>1, <2>2, <2>3, <3>1, <3>3, <4>1 DEF Told, ClaimOK, EventOK, EventsTrue, Finishing
    <3>. QED  BY <3>2, <3>3
  <2>5. CASE FinalizeFails
    <3>1. (Finalized \/ UNCHANGED <<job, run, settled>>) /\ UNCHANGED events  BY <2>5 DEF FinalizeFails
    <3>. QED  BY <2>1, <2>2, <2>3, <3>1 DEF Told, ClaimOK, EventOK, EventsTrue, Finishing
  <2>. QED  BY <1>2, <2>4, <2>5
<1>3. CASE FinalFlush \/ FinalWrites \/ FinalWriteFails
  <2>1. /\ disp.pc \in {"stop", "flush"} /\ disp'.pc \in {"flush", "done"} /\ disp'.result = disp.result
        /\ UNCHANGED <<job, run, cause, events>>
    BY <1>3 DEF FinalFlush, FinalWrites, FinalWriteFails, TypeOK, DispRecord
  <2>. QED  BY <2>1 DEF Told, ClaimOK, EventOK, EventsTrue, Finishing
<1>4. CASE Dies
  <2>1. /\ disp'.pc = "dead" /\ disp'.result = "none" /\ cause' = "none" /\ UNCHANGED <<job, run>>
        /\ events'.finish = 0 /\ events'.supersede = 0 /\ events'.retry = 0
    BY <1>4 DEF Dies, NewDispatch, NoEvents
  <2>. QED  BY <2>1 DEF Told, ClaimOK, EventOK, EventsTrue, Finishing
<1>. QED  BY <1>1, <1>2, <1>3, <1>4 DEF Dispatch

LEMMA ToldBeat == ASSUME TypeOK, Told, Beat PROVE Told'
<1>. USE DEF tables, memory, outside
<1>1. CASE ReadsState
  <2>1. /\ UNCHANGED <<job, run, disp, events>>
        /\ cause' = cause \/ (cause' = "cancelled" /\ job.state = "cancelled")
    BY <1>1 DEF ReadsState
  <2>. QED  BY <2>1 DEF Told, ClaimOK, EventOK, EventsTrue, Finishing
<1>2. CASE BeatHeld \/ BeatFails
  <2>1. job'.state = job.state /\ job'.claim = job.claim /\ UNCHANGED <<run, disp, cause, events>>
    BY <1>2 DEF BeatHeld, BeatFails, TypeOK, JobRecord
  <2>. QED  BY <2>1, ToldBeside
<1>3. CASE WriteProgress \/ WriteProgressFails
  <2>1. /\ run'.outcome = run.outcome /\ run'.superseded = run.superseded
        /\ UNCHANGED <<job, disp, cause, events>>
    BY <1>3 DEF WriteProgress, WriteProgressFails, Reported, TypeOK, RunRecord
  <2>. QED  BY <2>1, ToldBeside
<1>4. CASE BeatLost \/ WriteLogs \/ WriteLogsFails \/ ReadFails \/ BeatStops
  BY <1>4, ToldBeside DEF BeatLost, WriteLogs, WriteLogsFails, ReadFails, BeatStops
<1>. QED  BY <1>1, <1>2, <1>3, <1>4 DEF Beat

LEMMA ToldOthers == ASSUME TypeOK, Told, Others \/ Waits PROVE Told'
<1>. USE DEF tables, memory, outside
<1>1. CASE Waits \/ LeaseLapses
  <2>1. job'.state = job.state /\ job'.claim = job.claim /\ UNCHANGED <<run, disp, cause, events>>
    BY <1>1 DEF Waits, WaitReads, WaitFails, LeaseLapses, TypeOK, JobRecord
  <2>. QED  BY <2>1, ToldBeside
<1>2. CASE Sweep
  <2>1. /\ job.claim = "mine" /\ job'.claim = "none" /\ UNCHANGED <<disp, cause, events>>
        /\ run'.outcome = "crashed" \/ UNCHANGED run
    BY <1>2 DEF Sweep, Move, HoldsClaim, TypeOK, RunRecord
  <2>. QED  BY <2>1 DEF Told, ClaimOK, EventOK, EventsTrue, Finishing, TypeOK, EventRecord
<1>3. CASE CancelJob \/ RetryJob \/ OtherClaims \/ OtherEnds
  <2>1. /\ job'.claim # "mine" /\ (job'.state # "running" => job'.claim = "none")
        /\ UNCHANGED <<disp, cause, events, run>>
    BY <1>3 DEF CancelJob, RetryJob, OtherClaims, OtherEnds, Move, TypeOK, JobRecord, Told, ClaimOK,
                Terminal
  <2>. QED  BY <2>1 DEF Told, ClaimOK, EventOK, EventsTrue, Finishing
<1>4. CASE DeleteJob
  <2>1. /\ job'.claim = "none" /\ run'.outcome = "none" /\ UNCHANGED <<disp, cause, events>>
    BY <1>4 DEF DeleteJob, Move, TypeOK, JobRecord, Told, ClaimOK, Terminal
  <2>. QED  BY <2>1 DEF Told, ClaimOK, EventOK, EventsTrue, Finishing
<1>. QED  BY <1>1, <1>2, <1>3, <1>4 DEF Others

----------------------------------------------------------------------------
(* The waiter. *)

LEMMA WaitedInit == Init => Waited
BY DEF Init, Waited, NewWait

\* A step that neither finalizes nor moves the job.
LEMMA WaitedBeside ==
    ASSUME TypeOK, Waited, UNCHANGED <<wait, settled>>,
           job'.state = job.state, job'.claim = job.claim,
           run'.outcome = run.outcome, run'.superseded = run.superseded,
           disp'.pc = disp.pc \/ disp'.pc \in {"stop", "flush", "done", "dead"}
    PROVE  Waited'
BY DEF Waited, Recorded

LEMMA WaitedAttempt ==
    ASSUME TypeOK, Told, Waited, Worker \/ Dispatch \/ Beat \/ DeadlinePasses \/ Dies
    PROVE  Waited'
<1>. USE DEF tables, memory, outside
<1>1. CASE Worker \/ DeadlinePasses \/ Start \/ UnknownKind \/ StubFails
  <2>1. disp.pc \in {"stub", "work"} /\ UNCHANGED <<wait, settled>>
    BY <1>1, Zenon DEF Worker, SetProgress, Log, WorkReturns, DeadlinePasses, Start, UnknownKind, StubFails
  <2>2. ~settled /\ ~wait.mine  BY <2>1 DEF Waited
  <2>. QED  BY <2>1, <2>2 DEF Waited
<1>2. CASE Finalize \/ FinalizeFails
  <2>1. disp.pc = "finalize" /\ disp'.pc = "stop" /\ UNCHANGED wait
    BY <1>2 DEF Finalize, FinalizeFails, Stopping, TypeOK, DispRecord
  <2>2. ~settled /\ ~wait.mine  BY <2>1 DEF Waited
  <2>3. CASE UNCHANGED settled  BY <2>1, <2>2, <2>3 DEF Waited
  <2>4. CASE Finalized /\ HoldsClaim
    <3>1. /\ job' = [state |-> Plan(disp.result), claim |-> "none", lapsed |-> FALSE]
          /\ run' = [run EXCEPT !.outcome = disp.result, !.superseded = ~HoldsClaim]
      BY <2>4 DEF Finalized
    <3>2. disp.result \in Results  BY <2>1 DEF Told, EventOK, TypeOK, DispRecord
    <3>3. run'.outcome = disp.result  BY <3>1 DEF TypeOK, RunRecord
    <3>4. run'.superseded = ~HoldsClaim  BY <3>1 DEF TypeOK, RunRecord
    <3>5. job'.state = Plan(disp.result) /\ job'.claim = "none"  BY <3>1
    <3>6. Recorded(job.state)'  BY <2>4, <3>2, <3>3, <3>4, <3>5 DEF Recorded, Plan
    <3>. QED  BY <2>1, <2>2, <3>5, <3>6 DEF Waited
  <2>5. CASE Finalized /\ ~HoldsClaim
    <3>1. ~settled'  BY <2>5 DEF Finalized
    <3>. QED  BY <2>1, <2>2, <3>1 DEF Waited
  <2>. QED  BY <1>2, <2>3, <2>4, <2>5 DEF Finalize, FinalizeFails
<1>3. CASE FinalFlush \/ FinalWrites \/ FinalWriteFails \/ Dies
  <2>1. UNCHANGED <<job, run, wait, settled>> /\ disp'.pc \in {"stop", "flush", "done", "dead"}
    BY <1>3 DEF FinalFlush, FinalWrites, FinalWriteFails, Dies, NewDispatch, TypeOK, DispRecord
  <2>. QED  BY <2>1, WaitedBeside
<1>4. CASE Beat
  <2>1. UNCHANGED <<disp, wait, settled>> /\ job'.state = job.state /\ job'.claim = job.claim
    BY <1>4 DEF Beat, BeatHeld, BeatFails, BeatLost, WriteProgress, WriteProgressFails, WriteLogs,
                WriteLogsFails, ReadsState, ReadFails, BeatStops, TypeOK, JobRecord
  <2>2. run'.outcome = run.outcome /\ run'.superseded = run.superseded
    <3>1. UNCHANGED run \/ Reported
      BY <1>4, Zenon DEF Beat, BeatHeld, BeatFails, BeatLost, WriteProgress, WriteProgressFails, WriteLogs,
                  WriteLogsFails, ReadsState, ReadFails, BeatStops
    <3>. QED  BY <3>1 DEF Reported, TypeOK, RunRecord
  <2>. QED  BY <2>1, <2>2, WaitedBeside
<1>. QED  BY <1>1, <1>2, <1>3, <1>4 DEF Dispatch

LEMMA WaitedOthers == ASSUME TypeOK, Told, Waited, Others \/ Waits PROVE Waited'
<1>. USE DEF tables, memory, outside
<1>1. CASE WaitReads
  <2>1. /\ wait'.state = job.state /\ wait'.mine = settled /\ UNCHANGED <<job, run, disp, settled>>
    BY <1>1 DEF WaitReads
  <2>. QED  BY <2>1 DEF Waited, Recorded
<1>2. CASE WaitFails \/ LeaseLapses
  <2>1. /\ wait'.state = wait.state /\ wait'.mine = wait.mine /\ UNCHANGED <<run, disp, settled>>
        /\ job'.state = job.state /\ job'.claim = job.claim
    BY <1>2 DEF WaitFails, LeaseLapses, TypeOK, JobRecord, WaitRecord
  <2>. QED  BY <2>1 DEF Waited, Recorded
<1>3. CASE Sweep
  <2>1. job.claim = "mine" /\ ~settled' /\ UNCHANGED wait  BY <1>3 DEF Sweep, Move, HoldsClaim
  <2>2. ~wait.mine  BY <2>1 DEF Waited
  <2>. QED  BY <2>1, <2>2 DEF Waited
<1>4. CASE CancelJob \/ RetryJob \/ OtherClaims \/ OtherEnds
  <2>1. ~settled' /\ UNCHANGED <<wait, run, disp>>
    BY <1>4 DEF CancelJob, RetryJob, OtherClaims, OtherEnds, Move
  <2>2. job'.claim # "mine"
    BY <1>4 DEF CancelJob, RetryJob, OtherClaims, OtherEnds, Move, TypeOK, JobRecord, Told, ClaimOK,
                Terminal
  <2>. QED  BY <2>1, <2>2 DEF Waited, Recorded
<1>5. CASE DeleteJob
  <2>1. /\ ~settled' /\ UNCHANGED <<wait, disp>> /\ run'.outcome = "none" /\ job'.claim = job.claim
    BY <1>5 DEF DeleteJob, Move, TypeOK, JobRecord
  <2>. QED  BY <2>1 DEF Waited
<1>. QED  BY <1>1, <1>2, <1>3, <1>4, <1>5 DEF Others, Waits

----------------------------------------------------------------------------
(* Runs of rows. *)

\* A captured line's row does not depend on the lines after it.
LEMMA FirstRowsStay ==
    ASSUME NEW m \in Nat, NEW d \in Nat, NEW n \in Nat, NEW e \in Nat, m <= n, NEW k \in Nat, k <= m
    PROVE  FirstRows(m, d, k) = FirstRows(n, e, k)
<1>1. \A i \in 1..k : RowOf(m, d, i) = RowOf(n, e, i)  BY DEF RowOf
<1>. QED  BY <1>1 DEF FirstRows

LEMMA RunStays ==
    ASSUME NEW m \in Nat, NEW d \in Nat, NEW n \in Nat, NEW e \in Nat, m <= n,
           NEW rows \in Seq(LogRow), NEW base \in Nat, base + Len(rows) <= m, RunFrom(rows, m, d, base)
    PROVE  RunFrom(rows, n, e, base)
<1>1. \A i \in 1..Len(rows) : RowOf(m, d, base + i) = RowOf(n, e, base + i)  BY DEF RowOf
<1>. QED  BY <1>1 DEF RunFrom

LEMMA EmptyRun == ASSUME NEW m, NEW d, NEW base \in Nat PROVE RunFrom(<<>>, m, d, base)
BY DEF RunFrom

LEMMA AppendRow ==
    ASSUME NEW rows \in Seq(LogRow), NEW row \in LogRow
    PROVE  /\ Append(rows, row) \in Seq(LogRow) /\ Len(Append(rows, row)) = Len(rows) + 1
           /\ \A i \in 1..Len(rows) : Append(rows, row)[i] = rows[i]
           /\ Append(rows, row)[Len(rows) + 1] = row
OBVIOUS

LEMMA SomeRow == ASSUME NEW rows \in Seq(LogRow), rows # <<>> PROVE 0 < Len(rows)
OBVIOUS

\* What one statement of a write inserts.
Slice(rows, at, n) == {rows[i] : i \in at + 1..n}

\* S is the first rows, at least lo and at most hi of them.
Filled(S, m, d, lo, hi) == \E q \in lo..hi : S = FirstRows(m, d, q)

\* A statement of a write that starts within the first k rows leaves a first part.
LEMMA InsertRows ==
    ASSUME NEW m \in Nat, NEW d \in Nat, NEW k \in Nat, NEW rows \in Seq(LogRow), NEW base \in Nat,
           NEW at \in Nat, at < Len(rows), RunFrom(rows, m, d, base), base + at <= k,
           NEW hi \in Nat, k <= hi, base + Len(rows) <= hi, NEW n \in at + 1..Len(rows),
           NEW lo, lo = base + n
    PROVE  Filled(FirstRows(m, d, k) \cup Slice(rows, at, n), m, d, lo, hi)
<1>1. n \in Nat /\ at + 1 <= n /\ n <= Len(rows)  OBVIOUS
<1>2. Slice(rows, at, n) = {RowOf(m, d, j) : j \in base + at + 1..base + n}
  <2>1. ASSUME NEW i \in at + 1..n PROVE rows[i] \in {RowOf(m, d, j) : j \in base + at + 1..base + n}
    <3>1. rows[i] = RowOf(m, d, base + i) /\ base + i \in base + at + 1..base + n
      BY <1>1 DEF RunFrom
    <3>. QED  BY <3>1
  <2>2. ASSUME NEW j \in base + at + 1..base + n PROVE RowOf(m, d, j) \in {rows[i] : i \in at + 1..n}
    <3>1. j - base \in at + 1..n /\ j - base \in 1..Len(rows) /\ base + (j - base) = j  BY <1>1
    <3>2. rows[j - base] = RowOf(m, d, j)  BY <3>1 DEF RunFrom
    <3>. QED  BY <3>1, <3>2
  <2>. QED  BY <2>1, <2>2 DEF Slice
<1>. DEFINE q == IF k > base + n THEN k ELSE base + n
<1>3. q \in base + n..hi /\ 1..q = (1..k) \cup (base + at + 1..base + n)  BY <1>1
<1>. HIDE DEF q
<1>4. FirstRows(m, d, k) \cup Slice(rows, at, n) = FirstRows(m, d, q)
  BY <1>2, <1>3 DEF FirstRows
<1>. QED  BY <1>3, <1>4 DEF Filled

----------------------------------------------------------------------------
(* Logs. *)

LEMMA LoggedInit == Init => Logged
<1>. SUFFICES ASSUME Init PROVE Logged  OBVIOUS
<1>1. /\ buf.lines = 0 /\ buf.dropped = 0 /\ buf.pending = <<>> /\ beat.rows = <<>> /\ beat.at = 0
      /\ beat.pc = "off" /\ disp.rows = <<>> /\ disp.at = 0 /\ disp.pc = "stub" /\ logs = {}
      /\ buf = NewBuffer
  BY DEF Init, NewBuffer, NoBeat, NewDispatch
<1>0. Len(<<>>) = 0  BY EmptySeq
<1>2. PendingFrom = 0 /\ BeatFrom = 0
  <2>1. Len(buf.pending) = 0 /\ Len(beat.rows) = 0  BY <1>0, <1>1, Zenon
  <2>2. buf.lines = 0  BY <1>1
  <2>3. PendingFrom = 0  BY <2>1, <2>2 DEF PendingFrom
  <2>. QED  BY <2>1, <2>3 DEF BeatFrom
<1>3. BufferOK /\ FinalOK  BY <1>1, <1>2, EmptyRun DEF BufferOK, FinalOK
<1>4. FirstRows(0, 0, 0) = {}  BY DEF FirstRows
<1>. QED  BY <1>1, <1>2, <1>3, <1>4 DEF Logged, TableOK

\* A step that writes, buffers and takes no row.
LEMMA LoggedBeside ==
    ASSUME TypeOK, Logged, UNCHANGED <<logs, buf>>, UNCHANGED beat.rows, UNCHANGED beat.at,
           beat'.pc = "write" <=> beat.pc = "write",
           UNCHANGED disp.rows, UNCHANGED disp.at,
           \/ disp'.pc = disp.pc
           \/ {disp.pc, disp'.pc} \cap {"flush", "done", "dead"} = {} /\ disp'.pc # "stub",
           disp'.pc \in {"stub", "flush", "done", "dead"} => beat'.pc = beat.pc,
           job'.state # "gone" => job.state # "gone"
    PROVE  Logged'
<1>1. UNCHANGED <<PendingFrom, BeatFrom, Total, FinalFrom>>  BY DEF PendingFrom, BeatFrom, Total, FinalFrom
<1>2. BufferOK'  BY <1>1 DEF Logged, BufferOK
<1>3. FinalOK'  BY <1>1 DEF Logged, FinalOK
<1>4. job'.state # "gone" => TableOK'  BY <1>1 DEF Logged, TableOK
<1>. QED  BY <1>2, <1>3, <1>4 DEF Logged

LEMMA LoggedWorker == ASSUME TypeOK, Logged, Worker \/ DeadlinePasses PROVE Logged'
<1>. USE DEF tables, memory, outside
<1>1. CASE SetProgress \/ DeadlinePasses  BY <1>1, LoggedBeside DEF SetProgress, DeadlinePasses
<1>2. CASE WorkReturns
  <2>1. /\ disp.pc = "work" /\ disp'.pc = "finalize" /\ UNCHANGED disp.rows /\ UNCHANGED disp.at
        /\ UNCHANGED <<logs, buf, beat, job>>
    BY <1>2 DEF WorkReturns, TypeOK, DispRecord
  <2>. QED  BY <2>1, LoggedBeside
<1>3. ASSUME NEW size \in Sizes, Log(size) PROVE Logged'
  <2>. DEFINE m == buf.lines
              d == buf.dropped
              new == [seq |-> m + 1, line |-> m + d + 1, dropped |-> 0]
  <2>1. /\ disp.pc = "work" /\ UNCHANGED <<logs, disp, beat, job>> /\ buf' = Added(buf, size)
        /\ m \in Nat /\ d \in Nat /\ buf.pending \in Seq(LogRow) /\ beat.rows \in Seq(LogRow)
        /\ beat.at \in Nat
    BY <1>3 DEF Log, TypeOK, BufRecord, BeatRecord
  <2>0. /\ m \in Nat /\ d \in Nat /\ buf.pending \in Seq(LogRow) /\ beat.rows \in Seq(LogRow)
        /\ PendingFrom \in Nat /\ BeatFrom \in Nat
    BY <2>1 DEF Logged, BufferOK, RunFrom
  <2>2. /\ PendingFrom \in Nat /\ BeatFrom \in Nat
        /\ PendingFrom + Len(buf.pending) = m /\ BeatFrom + Len(beat.rows) = PendingFrom
    BY <2>1, SMTT(40) DEF Logged, BufferOK, RunFrom, PendingFrom, BeatFrom
  <2>3. RunFrom(buf.pending, m, d, PendingFrom) /\ RunFrom(beat.rows, m, d, BeatFrom)
    BY DEF Logged, BufferOK
  <2>4. CASE d > 0 \/ m + 1 > MaxLines \/ buf.bytes + size > MaxBytes
    <3>1. buf'.lines = m /\ buf'.dropped = d + 1 /\ buf'.pending = buf.pending
      BY <2>1, <2>4 DEF Added, TypeOK, BufRecord
    <3>2. UNCHANGED <<PendingFrom, BeatFrom>>  BY <2>1, <3>1 DEF PendingFrom, BeatFrom
    <3>3. RunFrom(buf.pending, m, d + 1, PendingFrom) /\ RunFrom(beat.rows, m, d + 1, BeatFrom)
      <4>. DEFINE e == d + 1
      <4>1. /\ e \in Nat /\ m <= m /\ PendingFrom + Len(buf.pending) <= m
            /\ BeatFrom + Len(beat.rows) <= m
        BY <2>1, <2>2
      <4>. HIDE DEF e
      <4>2. RunFrom(buf.pending, m, e, PendingFrom)  BY <2>0, <2>3, <4>1, RunStays
      <4>3. RunFrom(beat.rows, m, e, BeatFrom)  BY <2>0, <2>3, <4>1, RunStays
      <4>. QED  BY <4>2, <4>3 DEF e
    <3>4. BufferOK'  BY <2>1, <3>1, <3>2, <3>3 DEF Logged, BufferOK
    <3>5. FinalOK'  BY <2>1 DEF Logged, FinalOK
    <3>6. job'.state # "gone" => TableOK'
      <4>. SUFFICES ASSUME job'.state # "gone" PROVE TableOK'  OBVIOUS
      <4>1. PICK k \in BeatFrom + beat.at..m : logs = FirstRows(m, d, k)  BY <2>1 DEF Logged, TableOK
      <4>2. k \in Nat /\ k <= m /\ m <= m /\ d + 1 \in Nat  BY <2>1, <2>2, <4>1, SMTT(40)
      <4>3. logs = FirstRows(m, d + 1, k)  BY <2>1, <4>1, <4>2, FirstRowsStay
      <4>. QED  BY <2>1, <3>1, <3>2, <4>1, <4>3 DEF TableOK
    <3>. QED  BY <3>4, <3>5, <3>6 DEF Logged
  <2>5. CASE ~(d > 0 \/ m + 1 > MaxLines \/ buf.bytes + size > MaxBytes)
    <3>1. buf'.lines = m + 1 /\ buf'.dropped = 0 /\ d = 0 /\ buf'.pending = Append(buf.pending, new)
      BY <2>1, <2>5 DEF Added, TypeOK, BufRecord
    <3>2. /\ Len(buf'.pending) = Len(buf.pending) + 1
          /\ \A i \in 1..Len(buf.pending) : buf'.pending[i] = buf.pending[i]
          /\ buf'.pending[Len(buf.pending) + 1] = new
      <4>1. new \in LogRow  BY <2>1, <3>1 DEF LogRow
      <4>. QED  BY <2>1, <3>1, <4>1
    <3>3. UNCHANGED <<PendingFrom, BeatFrom>>
      <4>1. PendingFrom' = PendingFrom  BY <2>1, <3>1, <3>2, SMTT(40) DEF PendingFrom
      <4>. QED  BY <2>1, <4>1 DEF BeatFrom
    <3>4. RunFrom(buf.pending, m + 1, 0, PendingFrom) /\ RunFrom(beat.rows, m + 1, 0, BeatFrom)
      <4>1. m + 1 \in Nat /\ m <= m + 1 /\ PendingFrom + Len(buf.pending) <= m
            /\ BeatFrom + Len(beat.rows) <= m
        BY <2>1, <2>2
      <4>2. RunFrom(buf.pending, m + 1, 0, PendingFrom)  BY <2>0, <2>3, <4>1, RunStays
      <4>3. RunFrom(beat.rows, m + 1, 0, BeatFrom)  BY <2>0, <2>3, <4>1, RunStays
      <4>. QED  BY <4>2, <4>3
    <3>5. RunFrom(buf'.pending, m + 1, 0, PendingFrom)
      <4>1. new = RowOf(m + 1, 0, PendingFrom + (Len(buf.pending) + 1))  BY <2>1, <2>2, <3>1 DEF RowOf
      <4>2. \A i \in 1..Len(buf.pending) + 1 : i \in 1..Len(buf.pending) \/ i = Len(buf.pending) + 1
        BY <2>1
      <4>. QED  BY <2>2, <3>2, <3>4, <4>1, <4>2 DEF RunFrom
    <3>6. BufferOK'  BY <2>1, <3>1, <3>3, <3>4, <3>5 DEF Logged, BufferOK
    <3>7. FinalOK'  BY <2>1 DEF Logged, FinalOK
    <3>8. job'.state # "gone" => TableOK'
      <4>. SUFFICES ASSUME job'.state # "gone" PROVE TableOK'  OBVIOUS
      <4>1. PICK k \in BeatFrom + beat.at..m : logs = FirstRows(m, d, k)  BY <2>1 DEF Logged, TableOK
      <4>0. k \in Nat /\ k <= m /\ m <= m + 1 /\ m + 1 \in Nat  BY <2>1, <2>2, <4>1, SMTT(40)
      <4>2. logs = FirstRows(m + 1, 0, k)  BY <2>1, <4>0, <4>1, FirstRowsStay
      <4>3. k \in BeatFrom + beat.at..m + 1  BY <2>1, <2>2, <4>1
      <4>. QED  BY <2>1, <3>1, <3>3, <4>2, <4>3 DEF TableOK
    <3>. QED  BY <3>6, <3>7, <3>8 DEF Logged
  <2>. QED  BY <2>4, <2>5
<1>. QED  BY <1>1, <1>2, <1>3 DEF Worker

\* The heartbeat takes what is pending to write it.
LEMMA LoggedTakes ==
    ASSUME TypeOK, Logged, beat.pc \in {"tick", "progress"}, NEW b \in BeatRecord,
           b.at = beat.at, beat' = Flushing(b), buf' = Taken(buf), UNCHANGED <<logs, disp>>,
           job'.state # "gone" => job.state # "gone"
    PROVE  Logged'
<1>1. /\ beat'.rows = buf.pending /\ beat'.at = 0 /\ beat.rows = <<>> /\ beat.at = 0
      /\ beat'.pc = IF buf.pending = <<>> THEN "tick" ELSE "write"
      /\ disp.pc \notin {"stub", "flush", "done", "dead"}
  BY FlushingType DEF Logged, BufferOK, FinalOK
<1>2. /\ buf'.lines = buf.lines /\ buf'.dropped = buf.dropped /\ buf'.pending = <<>>
      /\ buf.pending \in Seq(LogRow) /\ buf.lines \in Nat /\ buf.dropped \in Nat
  BY DEF Taken, TypeOK, BufRecord
<1>3. Len(<<>>) = 0  BY EmptySeq
<1>4. PendingFrom' = buf.lines /\ BeatFrom' = PendingFrom /\ BeatFrom = PendingFrom
      /\ PendingFrom \in Nat
  <2>1. PendingFrom' = buf.lines  BY <1>2, <1>3 DEF PendingFrom
  <2>2. PendingFrom \in Nat  BY DEF Logged, BufferOK, RunFrom
  <2>. QED  BY <1>1, <1>2, <1>3, <2>1, <2>2 DEF BeatFrom, PendingFrom
<1>5. buf.pending # <<>> => 0 < Len(buf.pending)  BY <1>2
<1>6. BufferOK'
  <2>1. RunFrom(beat'.rows, buf.lines, buf.dropped, PendingFrom)  BY <1>1 DEF Logged, BufferOK
  <2>2. RunFrom(<<>>, buf.lines, buf.dropped, buf.lines)  BY <1>2, EmptyRun
  <2>3. beat'.pc = "write" => beat'.at < Len(beat'.rows)  BY <1>1, <1>5
  <2>4. beat'.pc # "write" => beat'.rows = <<>> /\ beat'.at = 0  BY <1>1
  <2>. QED  BY <1>2, <1>4, <2>1, <2>2, <2>3, <2>4 DEF BufferOK
<1>7. FinalOK'  BY <1>1 DEF Logged, FinalOK
<1>8. job'.state # "gone" => TableOK'  BY <1>1, <1>2, <1>4 DEF Logged, TableOK
<1>. QED  BY <1>6, <1>7, <1>8 DEF Logged

\* It writes them, a batch at a time, and puts them back if a statement fails.
LEMMA LoggedWrites == ASSUME TypeOK, Logged, WriteLogs \/ WriteLogsFails PROVE Logged'
<1>. USE DEF tables, memory, outside
<1>. DEFINE m == buf.lines
            d == buf.dropped
            n == Reached(beat.rows, beat.at)
<1>1. /\ beat.pc = "write" /\ UNCHANGED <<job, disp>> /\ m \in Nat /\ d \in Nat
      /\ buf.pending \in Seq(LogRow) /\ beat.rows \in Seq(LogRow) /\ beat.at \in Nat
      /\ beat.at < Len(beat.rows) /\ disp.pc \notin {"stub", "flush", "done", "dead"}
  BY DEF WriteLogs, WriteLogsFails, TypeOK, BufRecord, BeatRecord, Logged, BufferOK, FinalOK
<1>2. /\ PendingFrom \in Nat /\ BeatFrom \in Nat
      /\ PendingFrom + Len(buf.pending) = m /\ BeatFrom + Len(beat.rows) = PendingFrom
  BY <1>1, SMTT(40) DEF Logged, BufferOK, RunFrom, PendingFrom, BeatFrom
<1>3. RunFrom(buf.pending, m, d, PendingFrom) /\ RunFrom(beat.rows, m, d, BeatFrom)
  BY DEF Logged, BufferOK
<1>4. n \in beat.at + 1..Len(beat.rows)  BY <1>1, AttemptAssumption, SMTT(40) DEF Reached
<1>5. Len(<<>>) = 0  BY EmptySeq
<1>6. job.state # "gone" /\ Insert(beat.rows, beat.at) =>
        \E q \in BeatFrom + n..m : logs' = FirstRows(m, d, q)
  <2>. SUFFICES ASSUME job.state # "gone", Insert(beat.rows, beat.at)
                PROVE  \E q \in BeatFrom + n..m : logs' = FirstRows(m, d, q)
    OBVIOUS
  <2>1. PICK k \in BeatFrom + beat.at..m : logs = FirstRows(m, d, k)  BY <1>1 DEF Logged, TableOK
  <2>2. k \in Nat /\ k <= m /\ BeatFrom + beat.at <= k /\ BeatFrom + Len(beat.rows) <= m
    BY <1>1, <1>2, <2>1
  <2>3. logs' = FirstRows(m, d, k) \cup Slice(beat.rows, beat.at, n)  BY <2>1 DEF Insert, Slice
  <2>4. /\ m \in Nat /\ d \in Nat /\ beat.rows \in Seq(LogRow) /\ BeatFrom \in Nat /\ beat.at \in Nat
        /\ beat.at < Len(beat.rows) /\ RunFrom(beat.rows, m, d, BeatFrom)
    BY <1>1, <1>2, <1>3
  <2>. HIDE DEF m, d, n
  <2>5. \E q \in BeatFrom + n..m :
          FirstRows(m, d, k) \cup Slice(beat.rows, beat.at, n) = FirstRows(m, d, q)
    <3>. DEFINE rows == beat.rows
                at == beat.at
                base == BeatFrom
                lo == base + n
    <3>1. /\ m \in Nat /\ d \in Nat /\ k \in Nat /\ rows \in Seq(LogRow) /\ base \in Nat /\ at \in Nat
          /\ at < Len(rows) /\ RunFrom(rows, m, d, base) /\ base + at <= k /\ k <= m
          /\ base + Len(rows) <= m /\ n \in at + 1..Len(rows)
      BY <1>4, <2>2, <2>4
    <3>2. lo = base + n  OBVIOUS
    <3>. HIDE DEF rows, at, base, lo
    <3>3. Filled(FirstRows(m, d, k) \cup Slice(rows, at, n), m, d, lo, m)  BY <3>1, <3>2, InsertRows
    <3>. QED  BY <3>3 DEF Filled, rows, at, base, lo
  <2>. QED  BY <2>3, <2>5
<1>7. CASE WriteLogs
  <2>1. UNCHANGED <<buf, PendingFrom>>  BY <1>7 DEF WriteLogs, PendingFrom
  <2>2. FinalOK'  BY <1>1 DEF Logged, FinalOK
  <2>3. CASE n = Len(beat.rows)
    <3>1. beat'.pc = "tick" /\ beat'.rows = <<>> /\ beat'.at = 0
      BY <1>7, <2>3 DEF WriteLogs, TypeOK, BeatRecord
    <3>2. BeatFrom' = PendingFrom /\ BeatFrom + n = PendingFrom
      BY <1>2, <1>5, <2>1, <2>3, <3>1 DEF BeatFrom
    <3>3. BufferOK'  BY <1>2, <1>3, <2>1, <3>1, <3>2, EmptyRun DEF BufferOK
    <3>4. job'.state # "gone" => TableOK'
      <4>. SUFFICES ASSUME job'.state # "gone" PROVE TableOK'  OBVIOUS
      <4>1. PICK q \in PendingFrom..m : logs' = FirstRows(m, d, q)
        BY <1>1, <1>6, <1>7, <3>2 DEF WriteLogs
      <4>. QED  BY <1>1, <1>2, <2>1, <3>1, <3>2, <4>1 DEF TableOK
    <3>. QED  BY <2>2, <3>3, <3>4 DEF Logged
  <2>4. CASE n # Len(beat.rows)
    <3>1. beat'.pc = "write" /\ beat'.rows = beat.rows /\ beat'.at = n
      BY <1>1, <1>7, <2>4 DEF WriteLogs, TypeOK, BeatRecord
    <3>2. BeatFrom' = BeatFrom  BY <2>1, <3>1 DEF BeatFrom
    <3>3. n < Len(beat.rows)  BY <1>1, <1>4, <2>4
    <3>4. BufferOK'  BY <1>3, <2>1, <3>1, <3>2, <3>3 DEF BufferOK
    <3>5. job'.state # "gone" => TableOK'
      <4>. SUFFICES ASSUME job'.state # "gone" PROVE TableOK'  OBVIOUS
      <4>1. PICK q \in BeatFrom + n..m : logs' = FirstRows(m, d, q)
        BY <1>1, <1>6, <1>7 DEF WriteLogs
      <4>. QED  BY <1>1, <1>2, <2>1, <3>1, <3>2, <4>1 DEF TableOK
    <3>. QED  BY <2>2, <3>4, <3>5 DEF Logged
  <2>. QED  BY <2>3, <2>4
<1>8. CASE WriteLogsFails
  <2>1. beat'.pc = "tick" /\ beat'.rows = <<>> /\ beat'.at = 0
    BY <1>8 DEF WriteLogsFails, TypeOK, BeatRecord
  <2>2. buf'.lines = m /\ buf'.dropped = d /\ buf'.pending = beat.rows \o buf.pending
    BY <1>8 DEF WriteLogsFails, Restored, TypeOK, BufRecord
  <2>3. /\ Len(buf'.pending) = Len(beat.rows) + Len(buf.pending)
        /\ \A i \in 1..Len(beat.rows) + Len(buf.pending) : buf'.pending[i] =
              IF i <= Len(beat.rows) THEN beat.rows[i] ELSE buf.pending[i - Len(beat.rows)]
    <3>. DEFINE c == beat.rows \o buf.pending
    <3>1. /\ Len(c) = Len(beat.rows) + Len(buf.pending)
          /\ \A i \in 1..Len(beat.rows) + Len(buf.pending) : c[i] =
                IF i <= Len(beat.rows) THEN beat.rows[i] ELSE buf.pending[i - Len(beat.rows)]
      BY <1>1, ConcatProperties
    <3>2. buf'.pending = c  BY <2>2
    <3>. HIDE DEF c
    <3>. QED  BY <3>1, <3>2
  <2>4. PendingFrom' = BeatFrom /\ BeatFrom' = BeatFrom
    <3>0. /\ buf'.lines = m /\ Len(buf'.pending) = Len(beat.rows) + Len(buf.pending)
          /\ Len(beat.rows) \in Nat /\ Len(buf.pending) \in Nat
      BY <1>1, <2>2, <2>3
    <3>1. PendingFrom' = BeatFrom
      <4>1. PendingFrom' = buf'.lines - Len(buf'.pending)  BY DEF PendingFrom
      <4>. DEFINE x == Len(beat.rows)
                  y == Len(buf.pending)
                  z == Len(buf'.pending)
                  l == buf'.lines
      <4>2. /\ m \in Nat /\ x \in Nat /\ y \in Nat /\ z = x + y /\ l = m
            /\ PendingFrom + y = m /\ BeatFrom + x = PendingFrom /\ PendingFrom' = l - z
        BY <1>1, <1>2, <3>0, <4>1
      <4>. HIDE DEF m, x, y, z, l
      <4>. QED  BY <1>2, <4>2
    <3>. QED  BY <1>2, <1>5, <2>1, <3>1 DEF BeatFrom
  <2>5. RunFrom(buf'.pending, m, d, BeatFrom)
    <3>1. ASSUME NEW i \in 1..Len(buf'.pending) PROVE buf'.pending[i] = RowOf(m, d, BeatFrom + i)
      <4>0. /\ i \in 1..Len(beat.rows) + Len(buf.pending)
            /\ Len(beat.rows) \in Nat /\ Len(buf.pending) \in Nat
            /\ buf'.pending[i] = IF i <= Len(beat.rows) THEN beat.rows[i]
                                ELSE buf.pending[i - Len(beat.rows)]
        <5>1. i \in 1..Len(beat.rows) + Len(buf.pending)  BY <2>3, Zenon
        <5>2. Len(beat.rows) \in Nat /\ Len(buf.pending) \in Nat  BY <1>1
        <5>. QED  BY <2>3, <5>1, <5>2, Zenon
      <4>1. CASE i <= Len(beat.rows)
        <5>1. i \in 1..Len(beat.rows) /\ buf'.pending[i] = beat.rows[i]  BY <4>0, <4>1
        <5>. QED  BY <1>3, <5>1 DEF RunFrom
      <4>2. CASE ~(i <= Len(beat.rows))
        <5>. DEFINE j == i - Len(beat.rows)
        <5>1. buf'.pending[i] = buf.pending[j]  BY <4>0, <4>2, Zenon
        <5>2. j \in 1..Len(buf.pending) /\ PendingFrom + j = BeatFrom + i
          <6>. DEFINE x == Len(beat.rows)
                      y == Len(buf.pending)
          <6>1. /\ i \in 1..x + y /\ x \in Nat /\ y \in Nat /\ ~(i <= x) /\ j = i - x
                /\ BeatFrom + x = PendingFrom
            BY <1>2, <4>0, <4>2
          <6>. HIDE DEF x, y, j
          <6>2. j \in 1..y /\ PendingFrom + j = BeatFrom + i  BY <1>2, <6>1
          <6>. QED  BY <6>2 DEF y
        <5>. QED  BY <1>3, <5>1, <5>2 DEF RunFrom
      <4>. QED  BY <4>1, <4>2
    <3>. QED  BY <1>2, <3>1 DEF RunFrom
  <2>6. BufferOK'  BY <1>2, <2>1, <2>2, <2>4, <2>5, EmptyRun DEF BufferOK
  <2>7. FinalOK'  BY <1>1 DEF Logged, FinalOK
  <2>8. job'.state # "gone" => TableOK'
    <3>. SUFFICES ASSUME job'.state # "gone" PROVE TableOK'  OBVIOUS
    <3>1. PICK q \in BeatFrom..m : logs' = FirstRows(m, d, q)
      <4>1. CASE Insert(beat.rows, beat.at)  BY <1>1, <1>2, <1>4, <1>6, <4>1
      <4>2. CASE UNCHANGED logs
        <5>1. PICK k \in BeatFrom + beat.at..m : logs = FirstRows(m, d, k)  BY <1>1 DEF Logged, TableOK
        <5>. QED  BY <1>1, <1>2, <4>2, <5>1
      <4>. QED  BY <1>8, <4>1, <4>2 DEF WriteLogsFails
    <3>. QED  BY <1>1, <1>2, <2>1, <2>2, <2>4, <3>1 DEF TableOK
  <2>. QED  BY <2>6, <2>7, <2>8 DEF Logged
<1>. QED  BY <1>7, <1>8

LEMMA LoggedBeat == ASSUME TypeOK, Logged, Beat PROVE Logged'
<1>. USE DEF tables, memory, outside
<1>1. CASE BeatHeld
  <2>1. job'.state = job.state /\ beat.pc = "tick" /\ UNCHANGED <<logs, disp>>
    BY <1>1 DEF BeatHeld, TypeOK, JobRecord
  <2>2. CASE Pending
    <3>1. /\ UNCHANGED buf /\ UNCHANGED beat.rows /\ UNCHANGED beat.at /\ beat'.pc = "progress"
      BY <1>1, <2>2 DEF BeatHeld, TypeOK, BeatRecord
    <3>2. disp.pc \notin {"stub", "flush", "done", "dead"}  BY <2>1 DEF Logged, FinalOK
    <3>. QED  BY <2>1, <3>1, <3>2, LoggedBeside
  <2>3. CASE ~Pending
    <3>1. beat' = Flushing(beat) /\ buf' = Taken(buf) /\ beat \in BeatRecord
      BY <1>1, <2>3 DEF BeatHeld, TypeOK
    <3>. QED  BY <2>1, <3>1, LoggedTakes
  <2>. QED  BY <2>2, <2>3
<1>2. CASE BeatFails
  <2>1. job'.state = job.state /\ UNCHANGED <<logs, disp, buf, beat>>
    BY <1>2 DEF BeatFails, TypeOK, JobRecord
  <2>. QED  BY <2>1, LoggedBeside
<1>3. CASE WriteProgress \/ WriteProgressFails
  <2>. DEFINE b == [beat EXCEPT !.value = NoValue, !.version = 0]
  <2>1. b \in BeatRecord /\ b.at = beat.at  BY DEF TypeOK, BeatRecord
  <2>2. /\ beat.pc = "progress" /\ beat' = Flushing(b) /\ buf' = Taken(buf)
        /\ UNCHANGED <<job, logs, disp>>
    BY <1>3 DEF WriteProgress, WriteProgressFails
  <2>. HIDE DEF b
  <2>. QED  BY <2>1, <2>2, LoggedTakes
<1>4. CASE WriteLogs \/ WriteLogsFails  BY <1>4, LoggedWrites
<1>5. CASE BeatLost \/ ReadsState \/ ReadFails \/ BeatStops
  <2>1. /\ beat.pc \in {"tick", "read"} /\ beat'.pc \in {"tick", "read", "off"}
        /\ UNCHANGED beat.rows /\ UNCHANGED beat.at /\ UNCHANGED <<job, logs, disp, buf>>
    BY <1>5 DEF BeatLost, ReadsState, ReadFails, ReadAgain, BeatStops, TypeOK, BeatRecord
  <2>2. disp.pc \notin {"stub", "flush", "done", "dead"}  BY <2>1 DEF Logged, FinalOK
  <2>. QED  BY <2>1, <2>2, LoggedBeside
<1>. QED  BY <1>1, <1>2, <1>3, <1>4, <1>5 DEF Beat

LEMMA LoggedOthers == ASSUME TypeOK, Logged, Others \/ Waits PROVE Logged'
<1>. USE DEF tables, memory, outside
<1>1. CASE ~DeleteJob
  <2>1. /\ UNCHANGED <<logs, disp, buf, beat>>
        /\ job'.state # "gone" => job.state # "gone"
    BY <1>1 DEF Others, Waits, WaitReads, WaitFails, LeaseLapses, Sweep, CancelJob, RetryJob,
                OtherClaims, OtherEnds, Move, Waiting, Terminal, TypeOK, JobRecord
  <2>. QED  BY <2>1, LoggedBeside
<1>2. CASE DeleteJob
  <2>1. job'.state = "gone" /\ UNCHANGED <<disp, buf, beat>>
    BY <1>2 DEF DeleteJob, Move, TypeOK, JobRecord
  <2>2. UNCHANGED <<PendingFrom, BeatFrom, Total, FinalFrom>>
    BY <2>1 DEF PendingFrom, BeatFrom, Total, FinalFrom
  <2>. QED  BY <2>1, <2>2 DEF Logged, BufferOK, FinalOK
<1>. QED  BY <1>1, <1>2

\* The last write takes what is pending, and the line for what was dropped.
LEMMA LoggedFlush == ASSUME TypeOK, Logged, FinalFlush PROVE Logged'
<1>. USE DEF tables, memory, outside
<1>. DEFINE m == buf.lines
            d == buf.dropped
            rows == FlushRows(TRUE)
            last == [seq |-> m + 1, line |-> 0, dropped |-> d]
            x == Len(buf.pending)
            z == Len(rows)
<1>1. /\ disp.pc = "stop" /\ beat.pc = "off" /\ UNCHANGED <<logs, job, beat>> /\ m \in Nat /\ d \in Nat
      /\ buf'.lines = m /\ buf'.dropped = d /\ buf'.pending = <<>> /\ x \in Nat
      /\ disp'.rows = rows /\ disp'.at = disp.at /\ disp'.pc = IF rows = <<>> THEN "done" ELSE "flush"
  BY DEF FinalFlush, BeatEnded, Taken, TypeOK, BufRecord, DispRecord
<1>2. disp.at = 0 /\ beat.rows = <<>> /\ beat.at = 0  BY <1>1 DEF Logged, BufferOK, FinalOK
<1>3. /\ PendingFrom \in Nat /\ PendingFrom + x = m /\ BeatFrom = PendingFrom
      /\ RunFrom(buf.pending, m, d, PendingFrom)
  <2>1. Len(beat.rows) = 0  BY <1>2, EmptySeq
  <2>2. PendingFrom \in Nat /\ RunFrom(buf.pending, m, d, PendingFrom)  BY DEF Logged, BufferOK, RunFrom
  <2>3. PendingFrom = m - x  BY DEF PendingFrom
  <2>4. BeatFrom = PendingFrom  BY <2>1, <2>2 DEF BeatFrom
  <2>5. PendingFrom + x = m
    <3>. HIDE DEF m, x
    <3>. QED  BY <1>1, <2>3
  <2>. QED  BY <2>2, <2>4, <2>5
<1>4. /\ z = IF d > 0 THEN x + 1 ELSE x
      /\ \A i \in 1..x : rows[i] = buf.pending[i]
      /\ d > 0 => rows[x + 1] = last
      /\ rows \in Seq(LogRow)
  <2>1. last \in LogRow  BY <1>1 DEF LogRow
  <2>2. buf.pending \in Seq(LogRow)  BY DEF TypeOK, BufRecord
  <2>3. CASE d > 0
    <3>1. rows = Append(buf.pending, last)  BY <2>3 DEF FlushRows
    <3>2. rows \in Seq(LogRow) /\ z = x + 1 /\ rows[x + 1] = last
          /\ \A i \in 1..x : rows[i] = buf.pending[i]
      <4>. HIDE DEF last, rows
      <4>. QED  BY <2>1, <2>2, <3>1, AppendRow
    <3>. HIDE DEF last, rows, x, z
    <3>. QED  BY <2>3, <3>2
  <2>4. CASE ~(d > 0)
    <3>1. rows = buf.pending  BY <2>4 DEF FlushRows
    <3>. QED  BY <2>2, <2>4, <3>1
  <2>. QED  BY <2>3, <2>4
<1>5. Total' = Total /\ FinalFrom' = PendingFrom /\ Total = (IF d > 0 THEN m + 1 ELSE m)
  <2>1. Total' = Total /\ Total = (IF d > 0 THEN m + 1 ELSE m)  BY <1>1 DEF Total, RowCount
  <2>2. FinalFrom' = Total - z  BY <1>1, <2>1 DEF FinalFrom
  <2>3. z = IF d > 0 THEN x + 1 ELSE x  BY <1>4
  <2>. HIDE DEF m, d, x, z
  <2>. QED  BY <1>1, <1>3, <2>1, <2>2, <2>3
<1>6. RunFrom(rows, m, d, PendingFrom)
  <2>. SUFFICES ASSUME NEW i \in 1..z PROVE rows[i] = RowOf(m, d, PendingFrom + i)
    BY <1>3 DEF RunFrom
  <2>1. CASE i <= x
    <3>1. i \in 1..x
      <4>. HIDE DEF x, z
      <4>. QED  BY <1>1, <2>1
    <3>2. rows[i] = buf.pending[i]  BY <1>4, <3>1
    <3>. QED  BY <1>3, <3>1, <3>2 DEF RunFrom
  <2>2. CASE ~(i <= x)
    <3>1. d > 0 /\ i = x + 1 /\ PendingFrom + i = m + 1
      <4>1. z = IF d > 0 THEN x + 1 ELSE x  BY <1>4
      <4>. HIDE DEF m, d, x, z
      <4>. QED  BY <1>1, <1>3, <2>2, <4>1
    <3>2. rows[i] = last  BY <1>4, <3>1
    <3>3. last = RowOf(m, d, m + 1)  BY <1>1 DEF RowOf
    <3>. QED  BY <3>1, <3>2, <3>3
  <2>. QED  BY <2>1, <2>2
<1>7. BufferOK'
  <2>1. Len(buf'.pending) = 0 /\ Len(beat'.rows) = 0  BY <1>1, <1>2, EmptySeq
  <2>2. PendingFrom' = m
    <3>1. PendingFrom' = buf'.lines - Len(buf'.pending) /\ buf'.lines = m /\ m \in Nat
      BY <1>1 DEF PendingFrom
    <3>. HIDE DEF m
    <3>. QED  BY <2>1, <3>1
  <2>3. BeatFrom' = m  BY <1>1, <2>1, <2>2 DEF BeatFrom
  <2>. QED  BY <1>1, <1>2, <2>2, <2>3, EmptyRun DEF BufferOK
<1>8. FinalOK'
  <2>1. rows # <<>> => 0 < z
    <3>. HIDE DEF rows
    <3>. QED  BY <1>4, SomeRow
  <2>2. RunFrom(disp'.rows, buf'.lines, buf'.dropped, FinalFrom')  BY <1>1, <1>5, <1>6
  <2>3. /\ disp'.pc \in {"flush", "done"}
        /\ disp'.pc = "flush" => disp'.at < Len(disp'.rows)
    BY <1>1, <1>2, <2>1
  <2>. QED  BY <1>1, <1>2, <2>2, <2>3 DEF FinalOK
<1>9. job'.state # "gone" => TableOK'
  <2>. SUFFICES ASSUME job'.state # "gone" PROVE TableOK'  OBVIOUS
  <2>1. PICK k \in PendingFrom + 0..m : logs = FirstRows(m, d, k)
    BY <1>1, <1>2, <1>3 DEF Logged, TableOK
  <2>2. k \in FinalFrom' + disp'.at..Total'  BY <1>1, <1>2, <1>3, <1>5, <2>1
  <2>3. disp'.pc \in {"flush", "done"}  BY <1>1
  <2>. QED  BY <1>1, <2>1, <2>2, <2>3 DEF TableOK
<1>. QED  BY <1>7, <1>8, <1>9 DEF Logged

LEMMA LoggedFinal == ASSUME TypeOK, Logged, FinalWrites \/ FinalWriteFails PROVE Logged'
<1>. USE DEF tables, memory, outside
<1>. DEFINE m == buf.lines
            d == buf.dropped
            rows == disp.rows
            at == disp.at
            n == Reached(rows, at)
            base == FinalFrom
            x == Len(rows)
<1>1. /\ disp.pc = "flush" /\ UNCHANGED <<job, beat, buf>> /\ m \in Nat /\ d \in Nat
      /\ rows \in Seq(LogRow) /\ at \in Nat /\ at < x /\ RunFrom(rows, m, d, base) /\ base \in Nat
      /\ x \in Nat /\ beat.pc = "off" /\ buf.pending = <<>> /\ base = Total - x /\ Total \in Nat
  BY DEF FinalWrites, FinalWriteFails, TypeOK, BufRecord, DispRecord, Logged, FinalOK, RunFrom, FinalFrom,
         Total, RowCount
<1>2. n \in at + 1..x
  <2>1. n = IF at + WriteBatch < x THEN at + WriteBatch ELSE x  BY DEF Reached
  <2>2. at \in Nat /\ x \in Nat /\ at < x /\ WriteBatch \in Nat \ {0}  BY <1>1, AttemptAssumption
  <2>. HIDE DEF n, at, x
  <2>. QED  BY <2>1, <2>2
<1>3. job.state # "gone" => Filled(logs, m, d, base + at, Total)
  BY <1>1 DEF Logged, TableOK, Filled
<1>4. job.state # "gone" /\ Insert(rows, at) => Filled(logs', m, d, base + n, Total)
  <2>. SUFFICES ASSUME job.state # "gone", Insert(rows, at)
                PROVE  Filled(logs', m, d, base + n, Total)
    OBVIOUS
  <2>1. PICK k \in base + at..Total : logs = FirstRows(m, d, k)  BY <1>3 DEF Filled
  <2>2. k \in Nat /\ k <= Total /\ base + at <= k /\ base + x <= Total
    <3>. HIDE DEF m, d, rows, at, n, base, x
    <3>. QED  BY <1>1, <2>1
  <2>3. logs' = FirstRows(m, d, k) \cup Slice(rows, at, n)  BY <2>1 DEF Insert, Slice
  <2>. DEFINE lo == base + n
  <2>4. lo = base + n  OBVIOUS
  <2>. HIDE DEF m, d, n, rows, at, base, lo
  <2>5. Filled(FirstRows(m, d, k) \cup Slice(rows, at, n), m, d, lo, Total)
    BY <1>1, <1>2, <2>2, <2>4, InsertRows DEF x
  <2>. QED  BY <2>3, <2>4, <2>5
<1>5. UNCHANGED <<PendingFrom, BeatFrom, Total>>  BY <1>1 DEF PendingFrom, BeatFrom, Total
<1>6. BufferOK'  BY <1>1, <1>5 DEF Logged, BufferOK
<1>7. CASE FinalWrites /\ n = x
  <2>1. disp'.pc = "done" /\ disp'.rows = <<>> /\ disp'.at = 0
    BY <1>7 DEF FinalWrites, TypeOK, DispRecord
  <2>2. FinalFrom' = Total /\ base + n = Total
    <3>1. FinalFrom' = Total' - Len(disp'.rows) /\ Len(disp'.rows) = 0  BY <2>1, EmptySeq DEF FinalFrom
    <3>2. Total' = Total /\ Total \in Nat  BY <1>1, <1>5
    <3>3. FinalFrom' = Total  BY <3>1, <3>2
    <3>. HIDE DEF n, x, base
    <3>. QED  BY <1>1, <1>7, <3>3
  <2>3. FinalOK'  BY <1>1, <2>1, <2>2, EmptyRun DEF FinalOK
  <2>4. job'.state # "gone" => TableOK'
    <3>. SUFFICES ASSUME job'.state # "gone" PROVE TableOK'  OBVIOUS
    <3>1. Filled(logs', m, d, Total, Total)  BY <1>1, <1>4, <1>7, <2>2 DEF FinalWrites
    <3>2. FinalFrom' + disp'.at = Total  BY <1>1, <2>1, <2>2
    <3>. QED  BY <1>1, <1>5, <2>1, <3>1, <3>2 DEF Filled, TableOK
  <2>. QED  BY <1>6, <2>3, <2>4 DEF Logged
<1>8. CASE FinalWrites /\ n # x
  <2>1. disp'.pc = "flush" /\ disp'.rows = rows /\ disp'.at = n
    BY <1>1, <1>8 DEF FinalWrites, TypeOK, DispRecord
  <2>2. FinalFrom' = base  BY <1>5, <2>1 DEF FinalFrom
  <2>3. n < x
    <3>. HIDE DEF n, x, at
    <3>. QED  BY <1>1, <1>2, <1>8
  <2>4. FinalOK'  BY <1>1, <2>1, <2>2, <2>3 DEF FinalOK
  <2>5. job'.state # "gone" => TableOK'
    <3>. SUFFICES ASSUME job'.state # "gone" PROVE TableOK'  OBVIOUS
    <3>1. Filled(logs', m, d, base + n, Total)  BY <1>1, <1>4, <1>8 DEF FinalWrites
    <3>. QED  BY <1>1, <1>5, <2>1, <2>2, <3>1 DEF Filled, TableOK
  <2>. QED  BY <1>6, <2>4, <2>5 DEF Logged
<1>9. CASE FinalWriteFails
  <2>1. disp'.pc = "done" /\ disp'.rows = rows /\ disp'.at = 0
    BY <1>9 DEF FinalWriteFails, TypeOK, DispRecord
  <2>2. FinalFrom' = base  BY <1>5, <2>1 DEF FinalFrom
  <2>3. FinalOK'  BY <1>1, <2>1, <2>2 DEF FinalOK
  <2>4. job'.state # "gone" => TableOK'
    <3>. SUFFICES ASSUME job'.state # "gone" PROVE TableOK'  OBVIOUS
    <3>1. Filled(logs', m, d, base + n, Total) \/ Filled(logs', m, d, base + at, Total)
      BY <1>1, <1>3, <1>4, <1>9 DEF FinalWriteFails
    <3>2. PICK q \in base + 0..Total : logs' = FirstRows(m, d, q)
      <4>. HIDE DEF m, d, n, rows, at, base, x
      <4>. QED  BY <1>1, <1>2, <3>1 DEF Filled
    <3>. QED  BY <1>1, <1>5, <2>1, <2>2, <3>2 DEF TableOK
  <2>. QED  BY <1>6, <2>3, <2>4 DEF Logged
<1>. QED  BY <1>7, <1>8, <1>9

LEMMA LoggedDies == ASSUME TypeOK, Logged, Dies PROVE Logged'
<1>. USE DEF tables, memory, outside
<1>1. /\ buf' = NewBuffer /\ beat'.pc = "off" /\ beat'.rows = <<>> /\ beat'.at = 0 /\ disp'.pc = "dead"
      /\ disp'.rows = <<>> /\ disp'.at = 0 /\ UNCHANGED <<logs, job>>
      /\ disp.pc \notin {"done", "dead"} /\ buf.lines \in Nat /\ buf.dropped \in Nat
  BY DEF Dies, NoBeat, NewDispatch, TypeOK, BufRecord
<1>2. BufferOK'
  <2>1. buf'.lines = 0 /\ buf'.dropped = 0 /\ buf'.pending = <<>>  BY <1>1 DEF NewBuffer
  <2>2. Len(buf'.pending) = 0 /\ Len(beat'.rows) = 0  BY <1>1, <2>1, EmptySeq
  <2>3. PendingFrom' = 0
    <3>1. buf'.lines = 0  BY <2>1
    <3>. QED  BY <2>2, <3>1 DEF PendingFrom
  <2>4. BeatFrom' = 0  BY <2>2, <2>3 DEF BeatFrom
  <2>. QED  BY <1>1, <2>1, <2>3, <2>4, EmptyRun DEF BufferOK
<1>3. FinalOK'  BY <1>1 DEF FinalOK
<1>4. job'.state # "gone" => TableOK'
  <2>. SUFFICES ASSUME job'.state # "gone" PROVE TableOK'  OBVIOUS
  <2>1. \E k \in Nat : k <= Total /\ logs = FirstRows(buf.lines, buf.dropped, k)
    <3>0. /\ Total \in Nat /\ buf.lines <= Total /\ BeatFrom \in Nat /\ beat.at \in Nat
          /\ disp.pc = "flush" => FinalFrom \in Nat /\ disp.at \in Nat
      BY <1>1 DEF Total, RowCount, Logged, BufferOK, FinalOK, RunFrom, TypeOK, BeatRecord, DispRecord
    <3>1. CASE disp.pc = "flush"
      <4>1. PICK k \in FinalFrom + disp.at..Total : logs = FirstRows(buf.lines, buf.dropped, k)
        BY <1>1, <3>1 DEF Logged, TableOK
      <4>. QED  BY <3>0, <3>1, <4>1
    <3>2. CASE disp.pc # "flush"
      <4>1. PICK k \in BeatFrom + beat.at..buf.lines : logs = FirstRows(buf.lines, buf.dropped, k)
        BY <1>1, <3>2 DEF Logged, TableOK
      <4>. QED  BY <1>1, <3>0, <4>1
    <3>. QED  BY <3>1, <3>2
  <2>. QED  BY <1>1, <2>1 DEF TableOK, Total
<1>. QED  BY <1>2, <1>3, <1>4 DEF Logged

LEMMA LoggedDispatch == ASSUME TypeOK, Logged, Dispatch PROVE Logged'
<1>. USE DEF tables, memory, outside
<1>1. CASE Start \/ UnknownKind
  <2>1. /\ disp.pc = "stub" /\ disp'.pc \in {"work", "finalize"} /\ UNCHANGED disp.rows
        /\ UNCHANGED disp.at /\ UNCHANGED <<job, logs, buf>> /\ UNCHANGED beat.rows
        /\ UNCHANGED beat.at /\ beat'.pc \in {beat.pc, "tick"}
    BY <1>1, ZenonT(60) DEF Start, UnknownKind, TypeOK, DispRecord, BeatRecord
  <2>2. beat.pc = "off"  BY <2>1 DEF Logged, FinalOK
  <2>. QED  BY <2>1, <2>2, LoggedBeside
<1>2. CASE StubFails
  <2>1. /\ disp.pc = "stub" /\ disp'.pc = "done" /\ UNCHANGED disp.rows /\ UNCHANGED disp.at
        /\ UNCHANGED <<job, logs, buf, beat>>
    BY <1>2 DEF StubFails, TypeOK, DispRecord
  <2>2. /\ beat.pc = "off" /\ buf.lines = 0 /\ buf.dropped = 0 /\ buf.pending = <<>> /\ disp.rows = <<>>
        /\ beat.rows = <<>> /\ beat.at = 0 /\ disp.at = 0
    BY <2>1 DEF Logged, FinalOK, BufferOK, NewBuffer
  <2>3. Len(disp'.rows) = 0 /\ Len(buf.pending) = 0 /\ Len(beat.rows) = 0  BY <2>1, <2>2, EmptySeq
  <2>4. UNCHANGED <<PendingFrom, BeatFrom, Total>>  BY <2>1 DEF PendingFrom, BeatFrom, Total
  <2>5. Total = 0  BY <2>2 DEF Total, RowCount
  <2>6. FinalFrom' = 0  BY <2>3, <2>4, <2>5 DEF FinalFrom
  <2>7. PendingFrom = 0
    <3>1. buf.lines = 0  BY <2>2
    <3>. QED  BY <2>3, <3>1 DEF PendingFrom
  <2>8. BeatFrom = 0  BY <2>3, <2>7 DEF BeatFrom
  <2>9. BufferOK'  BY <2>1, <2>4 DEF Logged, BufferOK
  <2>10. FinalOK'  BY <2>1, <2>2, <2>6, EmptyRun DEF FinalOK
  <2>11. job'.state # "gone" => TableOK'
    <3>. SUFFICES ASSUME job'.state # "gone" PROVE TableOK'  OBVIOUS
    <3>1. PICK k \in 0 + 0..0 : logs = FirstRows(0, 0, k)  BY <2>1, <2>2, <2>8 DEF Logged, TableOK
    <3>. QED  BY <2>1, <2>2, <2>4, <2>5, <2>6, <3>1 DEF TableOK
  <2>. QED  BY <2>9, <2>10, <2>11 DEF Logged
<1>3. CASE Finalize \/ FinalizeFails
  <2>1. /\ disp.pc = "finalize" /\ disp'.pc = "stop" /\ UNCHANGED disp.rows /\ UNCHANGED disp.at
        /\ UNCHANGED <<logs, buf>> /\ UNCHANGED beat.rows /\ UNCHANGED beat.at /\ UNCHANGED beat.pc
    BY <1>3 DEF Finalize, FinalizeFails, Stopping, TypeOK, DispRecord, BeatRecord
  <2>2. job'.state # "gone" => job.state # "gone"
    BY <1>3 DEF Finalize, FinalizeFails, Finalized, HoldsClaim
  <2>. QED  BY <2>1, <2>2, LoggedBeside
<1>. QED  BY <1>1, <1>2, <1>3, LoggedFlush, LoggedFinal DEF Dispatch

----------------------------------------------------------------------------

LEMMA InvInit == Init => Inv
BY TypeInit, ToldInit, WaitedInit, LoggedInit DEF Inv

LEMMA InvStep == Inv /\ [Next]_vars => Inv'
<1>. SUFFICES ASSUME Inv, [Next]_vars PROVE Inv'  OBVIOUS
<1>1. TypeOK /\ Told /\ Waited /\ Logged  BY DEF Inv
<1>2. CASE Next
  <2>1. TypeOK'
    BY <1>1, <1>2, TypeWorker, TypeDispatch, TypeBeat, TypeOthers DEF Next, Told, Logged
  <2>2. Told'  BY <1>1, <1>2, ToldWorker, ToldDispatch, ToldBeat, ToldOthers DEF Next
  <2>3. Logged'
    BY <1>1, <1>2, LoggedWorker, LoggedDispatch, LoggedDies, LoggedBeat, LoggedOthers DEF Next
  <2>4. Waited'  BY <1>1, <1>2, WaitedAttempt, WaitedOthers DEF Next
  <2>. QED  BY <2>1, <2>2, <2>3, <2>4 DEF Inv
<1>3. CASE UNCHANGED vars
  <2>1. TypeOK'  BY <1>1, <1>3 DEF vars, TypeOK
  <2>2. Told'  BY <1>1, <1>3, ToldBeside DEF vars
  <2>3. Logged'  BY <1>1, <1>3, LoggedBeside DEF vars
  <2>4. Waited'  BY <1>1, <1>3, WaitedBeside DEF vars
  <2>. QED  BY <2>1, <2>2, <2>3, <2>4 DEF Inv
<1>. QED  BY <1>2, <1>3

LEMMA Invariance == Spec => []Inv
BY InvInit, InvStep, PTL DEF Spec

\* Whatever operators, the sweep and other Runners do to the row meanwhile,
\* OnFinish and OnSupersede say what Finalize's transaction recorded.
THEOREM EventSafety == Spec => []EventsTrue
<1>1. Inv => EventsTrue  BY DEF Inv, Told
<1>. QED  BY <1>1, Invariance, PTL

\* What WaitForJob told its caller of an end this attempt made is what the run
\* row records, as long as there is one: Finalize runs once, applied or not, and
\* neither the sweep nor a later attempt touches the run of an attempt that gave
\* its claim up.
THEOREM WaitSafety == Spec => []WaitTrue
<1>1. Inv => WaitTrue  BY DEF Inv, Waited, Recorded, Results, WaitTrue
<1>. QED  BY <1>1, Invariance, PTL

\* The first k rows have Seq 1 to k, and are k.
LEMMA FirstRowsCount ==
    ASSUME NEW m \in Nat, NEW d \in Nat, NEW k \in Nat, k <= RowCount(m, d)
    PROVE  /\ {r.seq : r \in FirstRows(m, d, k)} = 1..k
           /\ Cardinality(FirstRows(m, d, k)) = k
           /\ \A r \in FirstRows(m, d, k) : r.line = IF r.dropped = 0 THEN r.seq ELSE 0
<1>1. \A i \in 1..k : /\ RowOf(m, d, i).seq = i
                      /\ RowOf(m, d, i).line = IF RowOf(m, d, i).dropped = 0 THEN i ELSE 0
  <2>. SUFFICES ASSUME NEW i \in 1..k
                PROVE  /\ RowOf(m, d, i).seq = i
                       /\ RowOf(m, d, i).line = IF RowOf(m, d, i).dropped = 0 THEN i ELSE 0
    OBVIOUS
  <2>1. CASE i <= m  BY <2>1 DEF RowOf
  <2>2. CASE ~(i <= m)
    <3>1. d > 0 /\ i = m + 1  BY <2>2 DEF RowCount
    <3>. QED  BY <2>2, <3>1 DEF RowOf
  <2>. QED  BY <2>1, <2>2
<1>2. {r.seq : r \in FirstRows(m, d, k)} = 1..k  BY <1>1 DEF FirstRows
<1>3. Cardinality(FirstRows(m, d, k)) = k
  <2>. DEFINE f == [i \in 1..k |-> RowOf(m, d, i)]
  <2>1. f \in Bijection(1..k, FirstRows(m, d, k))
    <3>1. f \in [1..k -> FirstRows(m, d, k)]  BY DEF FirstRows
    <3>2. \A i, j \in 1..k : f[i] = f[j] => i = j  BY <1>1
    <3>3. \A r \in FirstRows(m, d, k) : \E i \in 1..k : f[i] = r  BY DEF FirstRows
    <3>. QED  BY <3>1, <3>2, <3>3 DEF Bijection, Injection, Surjection, IsInjective
  <2>2. ExistsBijection(1..k, FirstRows(m, d, k))  BY <2>1 DEF ExistsBijection
  <2>3. IsFiniteSet(1..k) /\ Cardinality(1..k) = k  BY FS_Interval
  <2>. QED  BY <2>2, <2>3, FS_Bijection
<1>. QED  BY <1>1, <1>2, <1>3 DEF FirstRows

\* For any caps and batch size, and wherever a write fails, was applied without
\* an answer or is the last of a process, job_run_logs holds the first lines the
\* worker logged without a gap, and all of them after a last write that succeeded.
THEOREM LogSafety == Spec => []LogsWhole
<1>1. ASSUME Inv PROVE LogsWhole
  <2>. SUFFICES ASSUME job.state # "gone"
                PROVE  /\ {r.seq : r \in logs} = 1..Cardinality(logs)
                       /\ \A r \in logs : r.line = IF r.dropped = 0 THEN r.seq ELSE 0
                       /\ disp.pc = "done" /\ disp.rows = <<>> =>
                            /\ \A n \in 1..buf.lines : \E r \in logs : r.line = n
                            /\ buf.dropped > 0 =>
                                 \E r \in logs : r.seq = buf.lines + 1 /\ r.dropped = buf.dropped
    BY DEF LogsWhole
  <2>1. /\ TypeOK /\ Logged /\ TableOK /\ buf.lines \in Nat /\ buf.dropped \in Nat /\ disp.at \in Nat
        /\ beat.at \in Nat /\ BeatFrom \in Nat
    BY <1>1 DEF Inv, Logged, TypeOK, BufRecord, DispRecord, BeatRecord, BufferOK, RunFrom
  <2>2. Total \in Nat /\ buf.lines <= Total /\ Total = RowCount(buf.lines, buf.dropped)
    BY <2>1 DEF Total, RowCount
  <2>3. \E m, d, k \in Nat : k <= RowCount(m, d) /\ logs = FirstRows(m, d, k)
    <3>1. CASE disp.pc = "dead"  BY <2>1, <3>1 DEF TableOK
    <3>2. CASE disp.pc \in {"flush", "done"}
      <4>1. PICK k \in FinalFrom + disp.at..Total : logs = FirstRows(buf.lines, buf.dropped, k)
        BY <2>1, <3>2 DEF TableOK
      <4>2. FinalFrom \in Nat  BY <2>1, <3>2 DEF Logged, FinalOK, RunFrom
      <4>. QED  BY <2>1, <2>2, <4>1, <4>2
    <3>3. CASE disp.pc \notin {"flush", "done", "dead"}
      <4>1. PICK k \in BeatFrom + beat.at..buf.lines : logs = FirstRows(buf.lines, buf.dropped, k)
        BY <2>1, <3>3 DEF TableOK
      <4>. QED  BY <2>1, <2>2, <4>1
    <3>. QED  BY <3>1, <3>2, <3>3
  <2>4. PICK m, d, k \in Nat : k <= RowCount(m, d) /\ logs = FirstRows(m, d, k)  BY <2>3
  <2>5. /\ {r.seq : r \in logs} = 1..Cardinality(logs)
        /\ \A r \in logs : r.line = IF r.dropped = 0 THEN r.seq ELSE 0
    BY <2>4, FirstRowsCount
  <2>6. ASSUME disp.pc = "done", disp.rows = <<>>
        PROVE  /\ \A n \in 1..buf.lines : \E r \in logs : r.line = n
               /\ buf.dropped > 0 =>
                    \E r \in logs : r.seq = buf.lines + 1 /\ r.dropped = buf.dropped
    <3>1. FinalFrom + disp.at = Total
      <4>1. Len(disp.rows) = 0  BY <2>6, EmptySeq
      <4>2. disp.at = 0  BY <2>1, <2>6 DEF Logged, FinalOK
      <4>. QED  BY <2>2, <4>1, <4>2 DEF FinalFrom
    <3>2. logs = FirstRows(buf.lines, buf.dropped, Total)
      <4>1. PICK q \in Total..Total : logs = FirstRows(buf.lines, buf.dropped, q)
        BY <2>1, <2>6, <3>1 DEF TableOK
      <4>. QED  BY <2>2, <4>1
    <3>3. ASSUME NEW n \in 1..buf.lines PROVE \E r \in logs : r.line = n
      <4>1. n \in 1..Total /\ RowOf(buf.lines, buf.dropped, n).line = n  BY <2>1, <2>2 DEF RowOf
      <4>. QED  BY <3>2, <4>1 DEF FirstRows
    <3>4. ASSUME buf.dropped > 0
          PROVE  \E r \in logs : r.seq = buf.lines + 1 /\ r.dropped = buf.dropped
      <4>. DEFINE r == RowOf(buf.lines, buf.dropped, buf.lines + 1)
      <4>1. Total = buf.lines + 1 /\ buf.lines + 1 \in 1..Total  BY <2>1, <2>2, <3>4 DEF RowCount
      <4>2. r.seq = buf.lines + 1 /\ r.dropped = buf.dropped  BY <2>1 DEF RowOf
      <4>3. r \in logs  BY <3>2, <4>1 DEF FirstRows
      <4>. QED  BY <4>2, <4>3
    <3>. QED  BY <3>3, <3>4
  <2>. QED  BY <2>5, <2>6
<1>. QED  BY <1>1, Invariance, PTL
=============================================================================
