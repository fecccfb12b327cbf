--------------------------- MODULE JobCoreProofs ---------------------------
(* Proofs about JobCore, for every set of jobs, every set of tokens and     *)
(* every value of the bounds.                                               *)
EXTENDS JobCore, FiniteSetTheorems, TLAPS

ConstantAssumptions ==
    /\ NoToken \notin Tokens
    /\ MaxAttempts \subseteq Nat \ {0}
    /\ RetryOptions \subseteq RetryOpts
    /\ AttemptBound \in Nat \ {0}

LEMMA Constants == ConstantAssumptions
BY TokenAssumption, BudgetAssumption, InputAssumption, BoundAssumption
   DEF ConstantAssumptions

----------------------------------------------------------------------------
(* The row updates keep rows rows. *)

LEMMA EndedType == \A pc \in {"none", "done", "gone"} : Ended(pc) \in Exec
BY DEF Ended, Exec

LEMMA ClaimUpdateType ==
    ASSUME NEW row \in JobRow, NEW t \in Tokens, row.attempt < AttemptBound
    PROVE  ClaimUpdate(row, t) \in JobRow
<1>1. row.attempt + 1 \in 0..AttemptBound
  BY Constants DEF JobRow, ConstantAssumptions
<1>2. "running" \in JobStates
  BY DEF JobStates, NonTerminalStates
<1> QED
  BY <1>1, <1>2 DEF ClaimUpdate, JobRow

LEMMA PlanType ==
    ASSUME NEW a, NEW max, NEW r
    PROVE  PlanFinalize(a, max, r) \in
             [jobState : TerminalStates \cup {"scheduled", "retryable"},
              outcome : {"cancelled", "snooze", "success", "error"}]
BY DEF PlanFinalize, TerminalStates

LEMMA JobFinalizeUpdateType ==
    ASSUME NEW row \in JobRow, NEW due \in BOOLEAN, NEW plan,
           plan.jobState \in TerminalStates \cup {"scheduled", "retryable"}
    PROVE  JobFinalizeUpdate(row, plan, due) \in JobRow
<1> DEFINE fin == row.finalized \/ plan.jobState \in TerminalStates
           max == IF plan.jobState = "scheduled" THEN row.maxAttempts + 1 ELSE row.maxAttempts
           when == CASE plan.jobState = "retryable" -> FALSE
                     [] plan.jobState = "scheduled" -> due
                     [] OTHER -> row.due
<1>1. fin \in BOOLEAN
  BY DEF JobRow
<1>2. max \in Nat
  BY DEF JobRow
<1>3. when \in BOOLEAN
  BY DEF JobRow
<1>4. plan.jobState \in JobStates
  BY DEF JobStates, NonTerminalStates, WaitingStates
<1>5. JobFinalizeUpdate(row, plan, due) =
        [row EXCEPT !.state = plan.jobState, !.token = NoToken, !.lease = "none",
                    !.finalized = fin, !.maxAttempts = max, !.due = when]
  BY DEF JobFinalizeUpdate
<1> HIDE DEF fin, max, when
<1> QED
  BY <1>1, <1>2, <1>3, <1>4, <1>5 DEF JobRow

LEMMA RunFinalizeUpdateType ==
    ASSUME NEW row \in RunRow, NEW superseded \in BOOLEAN, NEW plan,
           plan.jobState \in TerminalStates \cup {"scheduled", "retryable"},
           plan.outcome \in {"cancelled", "snooze", "success", "error"}
    PROVE  /\ RunFinalizeUpdate(row, plan, superseded) \in RunRow
           /\ RunFinalizeUpdate(row, plan, superseded).finishedAt \in {"sweep", "finalize"}
BY ZenonT(60) DEF RunFinalizeUpdate, RunRow, JobStates, NonTerminalStates, WaitingStates, TerminalStates

LEMMA ReclaimUpdateType ==
    ASSUME NEW row \in JobRow, NEW state \in {"available", "discarded"}
    PROVE  ReclaimUpdate(row, state) \in JobRow
BY DEF ReclaimUpdate, JobRow, JobStates, NonTerminalStates, WaitingStates, TerminalStates

LEMMA RetryBudgetType ==
    ASSUME NEW row \in JobRow, NEW o \in RetryOpts
    PROVE  RetryBudget(row, o) \in Nat
BY DEF RetryBudget, JobRow, RetryOpts

LEMMA RetryUpdateType ==
    ASSUME NEW row \in JobRow, NEW o \in RetryOpts, NEW due \in BOOLEAN
    PROVE  RetryUpdate(row, o, due) \in JobRow
BY RetryBudgetType DEF RetryUpdate, JobRow, JobStates, NonTerminalStates, WaitingStates

LEMMA NoJobType == NoJob \in JobRow
BY Constants DEF NoJob, JobRow, JobStates, ConstantAssumptions

LEMMA NoRunType == NoRun \in RunRow
BY DEF NoRun, RunRow

----------------------------------------------------------------------------
(* Type correctness. *)

LEMMA TypeInit == Init => TypeOK
BY NoJobType, NoRunType, EndedType DEF Init, TypeOK

LEMMA TypeProduce == TypeOK /\ Produce => TypeOK'
<1> SUFFICES ASSUME TypeOK, NEW j \in Jobs, NEW max \in MaxAttempts, NEW now \in BOOLEAN,
                    Insert(j, max, now)
             PROVE  TypeOK'
  BY DEF Produce
<1>1. [NoJob EXCEPT !.state = "available", !.maxAttempts = max, !.due = now] \in JobRow
  <2>1. max \in Nat /\ "available" \in JobStates
    BY Constants DEF ConstantAssumptions, JobStates, NonTerminalStates, WaitingStates
  <2> QED
    BY <2>1, NoJobType DEF JobRow
<1> QED
  BY <1>1 DEF TypeOK, Insert, history

LEMMA TypeClock == TypeOK /\ Clock => TypeOK'
<1> SUFFICES ASSUME TypeOK, NEW j \in Jobs, TimePasses(j) \/ LeaseLapses(j)
             PROVE  TypeOK'
  BY DEF Clock
<1>1. job[j] \in JobRow
  BY DEF TypeOK
<1>2. /\ [job[j] EXCEPT !.due = TRUE] \in JobRow
      /\ [job[j] EXCEPT !.lease = "lapsed"] \in JobRow
  BY <1>1 DEF JobRow
<1>3. CASE TimePasses(j)
  BY <1>2, <1>3 DEF TypeOK, TimePasses, history
<1>4. CASE LeaseLapses(j)
  BY <1>2, <1>4 DEF TypeOK, LeaseLapses, history
<1> QED
  BY <1>3, <1>4

LEMMA TypeClaim == TypeOK /\ Claim => TypeOK'
<1> SUFFICES ASSUME TypeOK, NEW S \in SUBSET Jobs, NEW t \in Tokens, Dequeue(S, t)
             PROVE  TypeOK'
  BY DEF Claim
<1>1. \A j \in S : job[j] \in JobRow /\ ClaimUpdate(job[j], t) \in JobRow
  BY ClaimUpdateType DEF TypeOK, Dequeue, Claimable
<1>2. job' \in [Jobs -> JobRow]
  BY <1>1 DEF TypeOK, Dequeue
<1>3. \A j \in Jobs : [pc |-> "claimed", token |-> t, max |-> job[j].maxAttempts] \in Exec
  BY DEF TypeOK, JobRow, Exec
<1>4. exec' \in [Jobs -> [Attempts -> Exec]]
  BY <1>3 DEF TypeOK, Dequeue
<1> QED
  BY <1>2, <1>4 DEF TypeOK, Dequeue, history

LEMMA TypeAttempt == TypeOK /\ Attempt => TypeOK'
<1> SUFFICES ASSUME TypeOK, NEW j \in Jobs, NEW a \in Attempts,
                    \/ InsertRunStub(j, a)
                    \/ RenewLease(j, a)
                    \/ Abandon(j, a)
                    \/ \E r \in Results, due \in BOOLEAN : Finalize(j, a, r, due)
             PROVE  TypeOK'
  BY DEF Attempt
<1>1. /\ job[j] \in JobRow
      /\ runs[j][a] \in RunRow
      /\ exec[j][a] \in Exec
  BY DEF TypeOK
<1>2. CASE InsertRunStub(j, a)
  <2>1. [NoRun EXCEPT !.outcome = "started"] \in RunRow
    BY DEF NoRun, RunRow
  <2>2. [exec[j][a] EXCEPT !.pc = "working"] \in Exec
    BY <1>1 DEF Exec
  <2> QED
    BY <1>2, <2>1, <2>2 DEF TypeOK, InsertRunStub, history
<1>3. CASE RenewLease(j, a)
  <2>1. [job[j] EXCEPT !.lease = "live"] \in JobRow
    BY <1>1 DEF JobRow
  <2> QED
    BY <1>3, <2>1 DEF TypeOK, RenewLease, history
<1>4. CASE Abandon(j, a)
  BY <1>4, EndedType DEF TypeOK, Abandon, history
<1>5. ASSUME NEW r \in Results, NEW due \in BOOLEAN, Finalize(j, a, r, due)
      PROVE  TypeOK'
  <2> DEFINE plan == PlanFinalize(a, exec[j][a].max, r)
             run == RunFinalizeUpdate(runs[j][a], plan, ~HoldsClaim(j, a))
  <2>1. /\ plan.jobState \in TerminalStates \cup {"scheduled", "retryable"}
        /\ plan.outcome \in {"cancelled", "snooze", "success", "error"}
    BY PlanType
  <2>2. JobFinalizeUpdate(job[j], plan, due) \in JobRow
    BY <1>1, <2>1, JobFinalizeUpdateType
  <2>3. run \in RunRow /\ run.finishedAt \in {"sweep", "finalize"}
    <3> HIDE DEF plan
    <3> QED
      BY <1>1, <2>1, RunFinalizeUpdateType
  <2>4. job' \in [Jobs -> JobRow]
    BY <1>5, <2>2 DEF TypeOK, Finalize
  <2>5. /\ runs' = [runs EXCEPT ![j][a] = run]
        /\ finishLog' = finishLog \cup {<<j, a, run.finishedAt>>}
        /\ exec' = [exec EXCEPT ![j][a] = Ended("done")]
        /\ UNCHANGED history
    BY <1>5 DEF Finalize
  <2> HIDE DEF run
  <2> QED
    BY <2>3, <2>4, <2>5, EndedType DEF TypeOK, history
<1> QED
  BY <1>2, <1>3, <1>4, <1>5

LEMMA TypeSweep == TypeOK /\ Sweep => TypeOK'
<1> SUFFICES ASSUME TypeOK, NEW S \in SUBSET Jobs, SweepBatch(S)
             PROVE  TypeOK'
  BY DEF Sweep
<1>1. \A j \in Jobs : ReclaimState(j) \in {"available", "discarded"}
  BY DEF ReclaimState
<1>2. job' \in [Jobs -> JobRow]
  <2>1. \A j \in S : ReclaimUpdate(job[j], ReclaimState(j)) \in JobRow
    BY <1>1, ReclaimUpdateType DEF TypeOK
  <2> QED
    BY <2>1 DEF TypeOK, SweepBatch
<1>3. runs' \in [Jobs -> [Attempts -> RunRow]]
  <2>1. \A j \in Jobs, a \in Attempts : CrashedUpdate(runs[j][a], ReclaimState(j)) \in RunRow
    <3> TAKE j \in Jobs, a \in Attempts
    <3>1. runs[j][a] \in RunRow
      BY DEF TypeOK
    <3>2. ReclaimState(j) \in JobStates
      BY <1>1 DEF JobStates, NonTerminalStates, WaitingStates, TerminalStates
    <3> QED
      BY <3>1, <3>2 DEF CrashedUpdate, RunRow
  <2> QED
    BY <2>1 DEF TypeOK, SweepBatch
<1>4. finishLog' \subseteq Jobs \X Attempts \X {"sweep", "finalize"}
  BY DEF TypeOK, SweepBatch
<1>5. reclaims' \in [Jobs -> Nat] /\ excused' \in [Jobs -> SUBSET {"lapse", "allowRunning", "window"}]
  BY DEF TypeOK, SweepBatch
<1> QED
  BY <1>2, <1>3, <1>4, <1>5 DEF TypeOK, SweepBatch

LEMMA TypeControl == TypeOK /\ Control => TypeOK'
<1> SUFFICES ASSUME TypeOK, NEW j \in Jobs,
                    \/ \E o \in RetryOptions, due \in BOOLEAN : RetryJob(j, o, due)
                    \/ CancelJob(j) \/ PauseJob(j) \/ ResumeJob(j)
                    \/ \E due \in BOOLEAN : RescheduleJob(j, due)
                    \/ DeleteJob(j)
             PROVE  TypeOK'
  BY DEF Control
<1>1. job[j] \in JobRow
  BY DEF TypeOK
<1>2. ASSUME NEW o \in RetryOptions, NEW due \in BOOLEAN, RetryJob(j, o, due)
      PROVE  TypeOK'
  <2>1. RetryUpdate(job[j], o, due) \in JobRow
    BY <1>1, Constants, RetryUpdateType DEF ConstantAssumptions
  <2>2. job' \in [Jobs -> JobRow]
    BY <1>2, <2>1 DEF TypeOK, RetryJob
  <2>3. forced' \in [Jobs -> Nat]
    BY <1>2 DEF TypeOK, RetryJob
  <2>4. RetryExcuse(j, o) \subseteq {"lapse", "allowRunning", "window"}
    BY DEF RetryExcuse
  <2>5. excused' \in [Jobs -> SUBSET {"lapse", "allowRunning", "window"}]
    BY <1>2, <2>4 DEF TypeOK, RetryJob
  <2> QED
    BY <1>2, <2>2, <2>3, <2>5 DEF TypeOK, RetryJob
<1>3. CASE CancelJob(j)
  <2>1. [job[j] EXCEPT !.state = "cancelled", !.token = NoToken,
                       !.lease = "none", !.finalized = TRUE] \in JobRow
    BY <1>1 DEF JobRow, JobStates, TerminalStates
  <2> QED
    BY <1>3, <2>1 DEF TypeOK, CancelJob, history
<1>4. CASE PauseJob(j)
  <2>1. [job[j] EXCEPT !.state = "paused"] \in JobRow
    BY <1>1 DEF JobRow, JobStates, NonTerminalStates, WaitingStates
  <2> QED
    BY <1>4, <2>1 DEF TypeOK, PauseJob, history
<1>5. CASE ResumeJob(j)
  <2>1. [job[j] EXCEPT !.state = "available"] \in JobRow
    BY <1>1 DEF JobRow, JobStates, NonTerminalStates, WaitingStates
  <2> QED
    BY <1>5, <2>1 DEF TypeOK, ResumeJob, history
<1>6. ASSUME NEW due \in BOOLEAN, RescheduleJob(j, due)
      PROVE  TypeOK'
  <2>1. [job[j] EXCEPT !.due = due] \in JobRow
    BY <1>1 DEF JobRow
  <2> QED
    BY <1>6, <2>1 DEF TypeOK, RescheduleJob, history
<1>7. CASE DeleteJob(j)
  <2>1. [NoJob EXCEPT !.state = "deleted"] \in JobRow
    BY NoJobType DEF JobRow, JobStates
  <2>2. [a \in Attempts |-> NoRun] \in [Attempts -> RunRow]
    BY NoRunType
  <2> QED
    BY <1>7, <2>1, <2>2 DEF TypeOK, DeleteJob, history
<1> QED
  BY <1>2, <1>3, <1>4, <1>5, <1>6, <1>7

\* The type invariant holds in every reachable state: every transaction of
\* the runtime leaves rows of the tables' shapes, with the attempt counter
\* within its bound.
THEOREM TypeCorrect == Spec => []TypeOK
<1>1. TypeOK /\ [Next]_vars => TypeOK'
  <2> SUFFICES ASSUME TypeOK, [Next]_vars PROVE TypeOK'
    OBVIOUS
  <2>1. CASE UNCHANGED vars
    BY <2>1 DEF TypeOK, vars
  <2> QED
    BY <2>1, TypeProduce, TypeClock, TypeClaim, TypeAttempt, TypeSweep, TypeControl DEF Next
<1> QED
  BY <1>1, TypeInit, PTL DEF Spec

----------------------------------------------------------------------------
(* The row invariant: what one row says by itself, f counting its forced    *)
(* re-queues.  Its conjuncts are those of RowConsistent and RetryBudgetKept, *)
(* and that no attempt is counted before the enqueue.                        *)

RowOK(row, f) ==
    /\ row.state = "running" <=> row.token # NoToken
    /\ row.state = "running" <=> row.lease # "none"
    /\ row.finalized <=> row.state \in TerminalStates
    /\ row.attempt <= row.maxAttempts + f
    /\ row.state \in WaitingStates => row.attempt < row.maxAttempts + f
    /\ row.state = "absent" => row.attempt = 0

RowInv == \A j \in Jobs : RowOK(job[j], forced[j])

LEMMA RowInvMeaning ==
    RowInv => RowConsistent /\ RetryBudgetKept
BY DEF RowInv, RowOK, RowConsistent, RetryBudgetKept

LEMMA InsertRow ==
    ASSUME NEW max \in MaxAttempts, NEW now \in BOOLEAN, NEW f \in Nat
    PROVE  /\ RowOK([NoJob EXCEPT !.state = "available", !.maxAttempts = max, !.due = now], f)
           /\ RowOK(NoJob, f)
           /\ RowOK([NoJob EXCEPT !.state = "deleted"], f)
BY Constants DEF ConstantAssumptions, RowOK, NoJob, TerminalStates, WaitingStates

LEMMA ClaimRow ==
    ASSUME NEW row \in JobRow, NEW t \in Tokens, NEW f \in Nat, RowOK(row, f),
           row.state \in ClaimableStates
    PROVE  RowOK(ClaimUpdate(row, t), f)
<1> DEFINE new == ClaimUpdate(row, t)
<1>1. /\ new.state = "running" /\ new.token = t /\ new.lease = "live"
      /\ new.attempt = row.attempt + 1
      /\ new.maxAttempts = row.maxAttempts /\ new.finalized = row.finalized
  BY DEF ClaimUpdate, JobRow
<1>2. row.attempt < row.maxAttempts + f /\ ~row.finalized
  BY DEF RowOK, ClaimableStates, WaitingStates, TerminalStates
<1>3. new.attempt <= new.maxAttempts + f
  BY <1>1, <1>2 DEF JobRow
<1> QED
  BY <1>1, <1>2, <1>3, Constants DEF RowOK, ConstantAssumptions, TerminalStates, WaitingStates

\* The finalize of the claim's holder: planned from the row's own budget.
LEMMA FinalizeRow ==
    ASSUME NEW row \in JobRow, NEW f \in Nat, RowOK(row, f), row.state = "running",
           NEW r, NEW due \in BOOLEAN
    PROVE  RowOK(JobFinalizeUpdate(row, PlanFinalize(row.attempt, row.maxAttempts, r), due), f)
<1> DEFINE plan == PlanFinalize(row.attempt, row.maxAttempts, r)
           new == JobFinalizeUpdate(row, plan, due)
<1>1. /\ plan.jobState \in TerminalStates \cup {"scheduled", "retryable"}
      /\ plan.jobState = "retryable" => ~(row.attempt >= row.maxAttempts)
  BY DEF PlanFinalize, TerminalStates
<1>2. ~row.finalized /\ row.attempt <= row.maxAttempts + f
  BY DEF RowOK, TerminalStates
<1> HIDE DEF plan
<1>3. /\ new.state = plan.jobState /\ new.token = NoToken /\ new.lease = "none"
      /\ new.attempt = row.attempt
      /\ new.finalized = (row.finalized \/ plan.jobState \in TerminalStates)
      /\ new.maxAttempts = IF plan.jobState = "scheduled" THEN row.maxAttempts + 1
                           ELSE row.maxAttempts
  BY DEF JobFinalizeUpdate, JobRow
<1>4. /\ row.attempt \in Nat /\ row.maxAttempts \in Nat
  BY Constants DEF JobRow, ConstantAssumptions
<1> HIDE DEF new
<1>5. /\ new.attempt <= new.maxAttempts + f
      /\ new.state \in WaitingStates => new.attempt < new.maxAttempts + f
  BY <1>1, <1>2, <1>3, <1>4 DEF WaitingStates, TerminalStates
<1>6. RowOK(new, f)
  BY <1>1, <1>2, <1>3, <1>5 DEF RowOK, TerminalStates
<1> QED
  BY <1>6 DEF new, plan

LEMMA ReclaimRow ==
    ASSUME NEW row \in JobRow, NEW f \in Nat, RowOK(row, f), row.state = "running",
           NEW state \in {"available", "discarded"},
           SpentAttempts(row) => state = "discarded"
    PROVE  RowOK(ReclaimUpdate(row, state), f)
<1> DEFINE new == ReclaimUpdate(row, state)
<1>1. /\ new.state = state /\ new.token = NoToken /\ new.lease = "none"
      /\ new.attempt = row.attempt /\ new.maxAttempts = row.maxAttempts
      /\ new.finalized = (row.finalized \/ state = "discarded")
  BY DEF ReclaimUpdate, JobRow
<1>2. ~row.finalized /\ row.attempt <= row.maxAttempts + f
  BY DEF RowOK, TerminalStates
<1>3. state = "available" => row.attempt < row.maxAttempts + f
  BY Constants DEF SpentAttempts, JobRow, ConstantAssumptions
<1> HIDE DEF new
<1>4. RowOK(new, f)
  BY <1>1, <1>2, <1>3 DEF RowOK, TerminalStates, WaitingStates
<1> QED
  BY <1>4 DEF new

\* A retry of a waiting job keeps the count of forced re-queues, any other
\* raises it.
LEMMA RetryRow ==
    ASSUME NEW row \in JobRow, NEW f \in Nat, RowOK(row, f), NEW g \in Nat,
           g = IF row.state \in WaitingStates THEN f ELSE f + 1,
           NEW o \in RetryOpts, NEW due \in BOOLEAN
    PROVE  RowOK(RetryUpdate(row, o, due), g)
<1> DEFINE new == RetryUpdate(row, o, due)
<1>1. /\ new.state = "available" /\ new.token = NoToken /\ new.lease = "none"
      /\ new.attempt = row.attempt /\ new.maxAttempts = RetryBudget(row, o)
      /\ new.finalized = FALSE
  BY DEF RetryUpdate, JobRow
<1>2. row.attempt < row.maxAttempts + g
  BY Constants DEF RowOK, JobRow, ConstantAssumptions
<1>3. row.attempt < RetryBudget(row, o) + g
  BY <1>2, Constants DEF RetryBudget, RetryOpts, JobRow, ConstantAssumptions
<1>4. /\ RetryBudget(row, o) \in Nat /\ row.attempt \in Nat
  BY RetryBudgetType, Constants DEF JobRow, ConstantAssumptions
<1> HIDE DEF new
<1>5. RowOK(new, g)
  BY <1>1, <1>3, <1>4 DEF RowOK, TerminalStates, WaitingStates
<1> QED
  BY <1>5 DEF new

\* The controls that write other columns, and the two clock steps.
LEMMA ControlRow ==
    ASSUME NEW row \in JobRow, NEW f \in Nat, RowOK(row, f), NEW due \in BOOLEAN
    PROVE  /\ row.state \in NonTerminalStates =>
                 RowOK([row EXCEPT !.state = "cancelled", !.token = NoToken,
                                   !.lease = "none", !.finalized = TRUE], f)
           /\ row.state \in ClaimableStates => RowOK([row EXCEPT !.state = "paused"], f)
           /\ row.state = "paused" => RowOK([row EXCEPT !.state = "available"], f)
           /\ RowOK([row EXCEPT !.due = due], f)
           /\ row.lease = "live" => RowOK([row EXCEPT !.lease = "lapsed"], f)
           /\ row.state = "running" => RowOK([row EXCEPT !.lease = "live"], f)
BY DEF RowOK, JobRow, NonTerminalStates, ClaimableStates, WaitingStates, TerminalStates

----------------------------------------------------------------------------
(* The inductive invariant.  FenceHolder alone is what lets a finalize be   *)
(* taken for one planned from the row (FinalizeRow): without it an old      *)
(* attempt could decide with a max_attempts a retry has since changed.      *)

Inv == TypeOK /\ RowInv /\ FenceHolder

LEMMA InvInit == Init => Inv
<1> SUFFICES ASSUME Init PROVE Inv
  OBVIOUS
<1>1. TypeOK
  BY TypeInit
<1>2. \A j \in Jobs : job[j] = NoJob /\ forced[j] = 0
  BY DEF Init
<1>3. \A f \in Nat : RowOK(NoJob, f)
  BY DEF RowOK, NoJob, TerminalStates, WaitingStates
<1>4. RowInv
  BY <1>2, <1>3 DEF RowInv
<1>5. FenceHolder
  BY <1>2 DEF FenceHolder, HoldsClaim, NoJob
<1> QED
  BY <1>1, <1>4, <1>5 DEF Inv

LEMMA InvProduce == Inv /\ Produce => Inv'
<1> SUFFICES ASSUME Inv, NEW j \in Jobs, NEW max \in MaxAttempts, NEW now \in BOOLEAN,
                    Insert(j, max, now)
             PROVE  Inv'
  BY DEF Produce
<1> USE DEF Inv
<1>1. TypeOK'
  BY TypeProduce DEF Produce
<1>2. RowInv'
  BY InsertRow DEF RowInv, Insert, history, TypeOK
<1>3. job'[j].state # "running"
  BY DEF Insert, TypeOK, NoJob
<1>4. FenceHolder'
  BY <1>3 DEF FenceHolder, Live, HoldsClaim, Insert, TypeOK
<1> QED
  BY <1>1, <1>2, <1>4

LEMMA InvClock == Inv /\ Clock => Inv'
<1> SUFFICES ASSUME Inv, NEW j \in Jobs, TimePasses(j) \/ LeaseLapses(j)
             PROVE  Inv'
  BY DEF Clock
<1> USE DEF Inv
<1>1. TypeOK'
  BY TypeClock DEF Clock
<1>2. job[j] \in JobRow /\ forced[j] \in Nat /\ RowOK(job[j], forced[j])
  BY DEF TypeOK, RowInv
<1>3. PICK new \in {[job[j] EXCEPT !.due = TRUE], [job[j] EXCEPT !.lease = "lapsed"]} :
        /\ job' = [job EXCEPT ![j] = new]
        /\ UNCHANGED <<exec, forced>>
        /\ RowOK(new, forced[j])
  BY <1>2, ControlRow DEF TimePasses, LeaseLapses, history
<1>4. RowInv'
  BY <1>3 DEF RowInv, TypeOK
<1>5. /\ new.state = job[j].state /\ new.token = job[j].token
      /\ new.attempt = job[j].attempt /\ new.maxAttempts = job[j].maxAttempts
  BY <1>2 DEF JobRow
<1>6. FenceHolder'
  BY <1>3, <1>5 DEF FenceHolder, Live, HoldsClaim, TypeOK
<1> QED
  BY <1>1, <1>4, <1>6

LEMMA InvClaim == Inv /\ Claim => Inv'
<1> SUFFICES ASSUME Inv, NEW S \in SUBSET Jobs, NEW t \in Tokens, Dequeue(S, t)
             PROVE  Inv'
  BY DEF Claim
<1> USE DEF Inv
<1>1. TypeOK'
  BY TypeClaim DEF Claim
<1>2. RowInv'
  <2>1. \A j \in S : RowOK(ClaimUpdate(job[j], t), forced[j])
    BY ClaimRow DEF TypeOK, RowInv, Dequeue, Claimable
  <2>2. \A j \in Jobs : /\ forced'[j] = forced[j]
                        /\ job'[j] = IF j \in S THEN ClaimUpdate(job[j], t) ELSE job[j]
    BY DEF Dequeue, history
  <2> QED
    BY <2>1, <2>2 DEF RowInv
<1>3. FenceHolder'
  <2> SUFFICES ASSUME NEW j \in Jobs, NEW a \in Attempts, Live(j, a)', HoldsClaim(j, a)'
               PROVE  job'[j].attempt = a /\ job'[j].maxAttempts = exec'[j][a].max
    BY DEF FenceHolder
  <2>1. CASE j \notin S
    <3>1. job'[j] = job[j] /\ exec'[j] = exec[j]
      BY <2>1 DEF Dequeue
    <3> QED
      BY <3>1 DEF FenceHolder, Live, HoldsClaim
  <2>2. CASE j \in S
    <3>1. job'[j] = ClaimUpdate(job[j], t) /\ job[j] \in JobRow
      BY <2>2 DEF Dequeue, TypeOK
    <3>2. /\ job'[j].token = t /\ job'[j].attempt = job[j].attempt + 1
          /\ job'[j].maxAttempts = job[j].maxAttempts
      BY <3>1 DEF ClaimUpdate, JobRow
    <3>3. exec'[j] = [exec[j] EXCEPT ![job[j].attempt + 1] =
                         [pc |-> "claimed", token |-> t, max |-> job[j].maxAttempts]]
      BY <2>2 DEF Dequeue
    <3>4. exec[j] \in [Attempts -> Exec] /\ exec[j][a].token # t
      BY DEF Dequeue, Fresh, TypeOK
    <3>5. exec'[j][a].token = t
      BY <3>2 DEF HoldsClaim
    <3>6. a = job[j].attempt + 1
      BY <3>3, <3>4, <3>5
    <3>7. exec'[j][a].max = job[j].maxAttempts
      BY <3>3, <3>4, <3>6
    <3> QED
      BY <3>2, <3>6, <3>7
  <2> QED
    BY <2>1, <2>2
<1> QED
  BY <1>1, <1>2, <1>3

LEMMA InvAttempt == Inv /\ Attempt => Inv'
<1> SUFFICES ASSUME Inv, NEW j \in Jobs, NEW a \in Attempts,
                    \/ InsertRunStub(j, a)
                    \/ RenewLease(j, a)
                    \/ Abandon(j, a)
                    \/ \E r \in Results, due \in BOOLEAN : Finalize(j, a, r, due)
             PROVE  Inv'
  BY DEF Attempt
<1> USE DEF Inv
<1>1. TypeOK'
  BY TypeAttempt DEF Attempt
<1>2. job[j] \in JobRow /\ forced[j] \in Nat /\ RowOK(job[j], forced[j])
  BY DEF TypeOK, RowInv
<1>3. CASE InsertRunStub(j, a)
  <2>1. RowInv'
    BY <1>3 DEF RowInv, InsertRunStub, history
  <2>2. \A k \in Jobs, b \in Attempts :
          /\ Live(k, b)' => Live(k, b)
          /\ exec'[k][b].token = exec[k][b].token
          /\ exec'[k][b].max = exec[k][b].max
    BY <1>3 DEF InsertRunStub, Live, TypeOK, Exec
  <2>3. FenceHolder'
    BY <1>3, <2>2 DEF FenceHolder, HoldsClaim, InsertRunStub
  <2> QED
    BY <1>1, <2>1, <2>3
<1>4. CASE RenewLease(j, a)
  <2> DEFINE new == [job[j] EXCEPT !.lease = "live"]
  <2>1. /\ job' = [job EXCEPT ![j] = new] /\ UNCHANGED <<exec, forced>>
        /\ RowOK(new, forced[j])
    BY <1>2, <1>4, ControlRow DEF RenewLease, HoldsClaim, history
  <2>2. /\ new.state = job[j].state /\ new.token = job[j].token
        /\ new.attempt = job[j].attempt /\ new.maxAttempts = job[j].maxAttempts
    BY <1>2 DEF JobRow
  <2> HIDE DEF new
  <2>3. RowInv'
    BY <2>1 DEF RowInv, TypeOK
  <2>4. FenceHolder'
    BY <2>1, <2>2 DEF FenceHolder, Live, HoldsClaim, TypeOK
  <2> QED
    BY <1>1, <2>3, <2>4
<1>5. CASE Abandon(j, a)
  <2>1. RowInv'
    BY <1>5 DEF RowInv, Abandon, history
  <2>2. \A k \in Jobs, b \in Attempts :
          Live(k, b)' => Live(k, b) /\ exec'[k][b] = exec[k][b]
    BY <1>5 DEF Abandon, Live, Ended, TypeOK
  <2>3. FenceHolder'
    BY <1>5, <2>2 DEF FenceHolder, HoldsClaim, Abandon
  <2> QED
    BY <1>1, <2>1, <2>3
<1>6. ASSUME NEW r \in Results, NEW due \in BOOLEAN, Finalize(j, a, r, due)
      PROVE  Inv'
  <2> DEFINE plan == PlanFinalize(a, exec[j][a].max, r)
             new == JobFinalizeUpdate(job[j], plan, due)
  <2>1. /\ exec[j][a].pc = "working"
        /\ job' = IF HoldsClaim(j, a) THEN [job EXCEPT ![j] = new] ELSE job
        /\ exec' = [exec EXCEPT ![j][a] = Ended("done")]
        /\ forced' = forced
    BY <1>6 DEF Finalize, history
  <2>2. HoldsClaim(j, a) => /\ job[j].state = "running"
                            /\ job[j].attempt = a
                            /\ job[j].maxAttempts = exec[j][a].max
    BY <2>1 DEF FenceHolder, Live, HoldsClaim
  <2>3. HoldsClaim(j, a) => RowOK(new, forced[j])
    BY <1>2, <2>2, FinalizeRow
  <2>4. new.state # "running"
    <3>1. plan.jobState # "running"
      BY PlanType DEF TerminalStates
    <3> HIDE DEF plan
    <3> QED
      BY <1>2, <3>1 DEF JobFinalizeUpdate, JobRow
  <2> HIDE DEF new
  <2>5. RowInv'
    BY <2>1, <2>3 DEF RowInv, TypeOK
  <2>6. \A k \in Jobs, b \in Attempts :
          Live(k, b)' => Live(k, b) /\ exec'[k][b] = exec[k][b]
    BY <2>1 DEF Live, Ended, TypeOK
  <2>7. \A k \in Jobs : job'[k].state = "running" => job'[k] = job[k]
    BY <2>1, <2>4 DEF TypeOK
  <2>8. FenceHolder'
    BY <2>6, <2>7 DEF FenceHolder, HoldsClaim
  <2> QED
    BY <1>1, <2>5, <2>8
<1> QED
  BY <1>3, <1>4, <1>5, <1>6

LEMMA InvSweep == Inv /\ Sweep => Inv'
<1> SUFFICES ASSUME Inv, NEW S \in SUBSET Jobs, SweepBatch(S)
             PROVE  Inv'
  BY DEF Sweep
<1> USE DEF Inv
<1>1. TypeOK'
  BY TypeSweep DEF Sweep
<1>2. \A j \in Jobs : /\ job'[j] = IF j \in S THEN ReclaimUpdate(job[j], ReclaimState(j))
                                   ELSE job[j]
                      /\ forced'[j] = forced[j] /\ exec'[j] = exec[j]
                      /\ ReclaimState(j) \in {"available", "discarded"}
                      /\ SpentAttempts(job[j]) => ReclaimState(j) = "discarded"
  BY DEF SweepBatch, ReclaimState
<1>3. \A j \in S : RowOK(ReclaimUpdate(job[j], ReclaimState(j)), forced[j])
  <2> TAKE j \in S
  <2>1. /\ job[j] \in JobRow /\ forced[j] \in Nat /\ RowOK(job[j], forced[j])
        /\ job[j].state = "running"
    BY DEF TypeOK, RowInv, SweepBatch, Expired
  <2> QED
    BY <1>2, <2>1, ReclaimRow
<1>4. RowInv'
  BY <1>2, <1>3 DEF RowInv
<1>5. \A j \in S : job'[j].state # "running"
  BY <1>2 DEF ReclaimUpdate, TypeOK, JobRow
<1>6. FenceHolder'
  BY <1>2, <1>5 DEF FenceHolder, Live, HoldsClaim
<1> QED
  BY <1>1, <1>4, <1>6

LEMMA InvControl == Inv /\ Control => Inv'
<1> SUFFICES ASSUME Inv, NEW j \in Jobs,
                    \/ \E o \in RetryOptions, due \in BOOLEAN : RetryJob(j, o, due)
                    \/ CancelJob(j) \/ PauseJob(j) \/ ResumeJob(j)
                    \/ \E due \in BOOLEAN : RescheduleJob(j, due)
                    \/ DeleteJob(j),
                    TypeOK'
             PROVE  Inv'
  BY TypeControl DEF Control, Inv
<1> USE DEF Inv
<1>1. job[j] \in JobRow /\ forced[j] \in Nat /\ RowOK(job[j], forced[j])
  BY DEF TypeOK, RowInv
\* Whatever the control, it writes one row, which it leaves not running.
<1>2. SUFFICES ASSUME NEW new, NEW g,
                      job' = [job EXCEPT ![j] = new], exec' = exec,
                      forced' = [forced EXCEPT ![j] = g],
                      RowOK(new, g), new.state # "running"
               PROVE  RowInv' /\ FenceHolder'
  <2>1. ASSUME NEW o \in RetryOptions, NEW due \in BOOLEAN, RetryJob(j, o, due)
        PROVE  Inv'
    <3> DEFINE g == IF job[j].state \in WaitingStates THEN forced[j] ELSE forced[j] + 1
               new == RetryUpdate(job[j], o, due)
    <3>1. /\ job' = [job EXCEPT ![j] = new] /\ exec' = exec
          /\ forced' = [forced EXCEPT ![j] = g]
      BY <2>1 DEF RetryJob, TypeOK
    <3>2. g \in Nat /\ o \in RetryOpts
      BY <1>1, Constants DEF ConstantAssumptions
    <3>3. RowOK(new, g)
      BY <1>1, <3>2, RetryRow
    <3>4. new.state # "running"
      BY <1>1 DEF RetryUpdate, JobRow
    <3> QED
      BY <1>2, <3>1, <3>3, <3>4
  <2>2. forced = [forced EXCEPT ![j] = forced[j]]
    BY DEF TypeOK
  <2>3. CASE CancelJob(j)
    <3> DEFINE new == [job[j] EXCEPT !.state = "cancelled", !.token = NoToken,
                                     !.lease = "none", !.finalized = TRUE]
    <3>1. /\ job' = [job EXCEPT ![j] = new] /\ exec' = exec /\ forced' = forced
          /\ job[j].state \in NonTerminalStates
      BY <2>3 DEF CancelJob, history
    <3>2. RowOK(new, forced[j]) /\ new.state # "running"
      BY <1>1, <3>1, ControlRow DEF JobRow
    <3> QED
      BY <1>2, <2>2, <3>1, <3>2
  <2>4. CASE PauseJob(j)
    <3> DEFINE new == [job[j] EXCEPT !.state = "paused"]
    <3>1. /\ job' = [job EXCEPT ![j] = new] /\ exec' = exec /\ forced' = forced
          /\ job[j].state \in ClaimableStates
      BY <2>4 DEF PauseJob, history
    <3>2. RowOK(new, forced[j]) /\ new.state # "running"
      BY <1>1, <3>1, ControlRow DEF JobRow
    <3> QED
      BY <1>2, <2>2, <3>1, <3>2
  <2>5. CASE ResumeJob(j)
    <3> DEFINE new == [job[j] EXCEPT !.state = "available"]
    <3>1. /\ job' = [job EXCEPT ![j] = new] /\ exec' = exec /\ forced' = forced
          /\ job[j].state = "paused"
      BY <2>5 DEF ResumeJob, history
    <3>2. RowOK(new, forced[j]) /\ new.state # "running"
      BY <1>1, <3>1, ControlRow DEF JobRow
    <3> QED
      BY <1>2, <2>2, <3>1, <3>2
  <2>6. ASSUME NEW due \in BOOLEAN, RescheduleJob(j, due)
        PROVE  Inv'
    <3> DEFINE new == [job[j] EXCEPT !.due = due]
    <3>1. /\ job' = [job EXCEPT ![j] = new] /\ exec' = exec /\ forced' = forced
          /\ job[j].state \in WaitingStates
      BY <2>6 DEF RescheduleJob, history
    <3>2. RowOK(new, forced[j]) /\ new.state # "running"
      BY <1>1, <3>1, ControlRow DEF JobRow, WaitingStates
    <3> QED
      BY <1>2, <2>2, <3>1, <3>2
  <2>7. CASE DeleteJob(j)
    <3> DEFINE new == [NoJob EXCEPT !.state = "deleted"]
    <3>1. /\ job' = [job EXCEPT ![j] = new] /\ exec' = exec /\ forced' = forced
      BY <2>7 DEF DeleteJob, history
    <3>2. RowOK(new, forced[j]) /\ new.state # "running"
      BY <1>1 DEF RowOK, NoJob, TerminalStates, WaitingStates
    <3> QED
      BY <1>2, <2>2, <3>1, <3>2
  <2> QED
    BY <2>1, <2>3, <2>4, <2>5, <2>6, <2>7
<1>3. RowInv'
  BY <1>2 DEF RowInv, TypeOK
<1>4. FenceHolder'
  BY <1>2 DEF FenceHolder, Live, HoldsClaim, TypeOK
<1> QED
  BY <1>3, <1>4

LEMMA InvNext == Inv /\ [Next]_vars => Inv'
<1> SUFFICES ASSUME Inv, [Next]_vars PROVE Inv'
  OBVIOUS
<1>1. CASE UNCHANGED vars
  BY <1>1 DEF Inv, TypeOK, RowInv, FenceHolder, Live, HoldsClaim, vars
<1> QED
  BY <1>1, InvProduce, InvClock, InvClaim, InvAttempt, InvSweep, InvControl DEF Next

LEMMA Invariance == Spec => []Inv
BY InvInit, InvNext, PTL DEF Spec

----------------------------------------------------------------------------
(* What follows. *)

\* In every reachable state an attempt whose token the row carries is the
\* newest attempt of its job and holds a current copy of its budget: the
\* token fence of Finalize and RenewLease means what it is there to mean.
THEOREM FenceSafety == Spec => []FenceHolder
BY Invariance, PTL DEF Inv

\* A row carries a lease and a token exactly while it is running, and
\* finalized_at exactly once it is terminal.
THEOREM RowSafety == Spec => []RowConsistent
<1>1. Inv => RowConsistent
  BY RowInvMeaning DEF Inv
<1> QED
  BY <1>1, Invariance, PTL

\* No job is claimed more often than its budget and its forced re-queues
\* allow, however its attempts fail, crash, snooze and are swept.
THEOREM BudgetSafety == Spec => []RetryBudgetKept
<1>1. Inv => RetryBudgetKept
  BY RowInvMeaning DEF Inv
<1> QED
  BY <1>1, Invariance, PTL

\* The finalize of an attempt that has lost its claim changes no jobs row.
THEOREM StaleFinalizeSafety == Spec => StaleFinalizeInvisible
<1> DEFINE Step == \A j \in Jobs, a \in Attempts :
                     /\ exec[j][a].pc = "working" /\ exec'[j][a].pc = "done"
                     /\ a # job[j].attempt \/ job[j].state # "running"
                     => job' = job
<1>1. Inv /\ [Next]_vars => [Step]_vars
  <2> SUFFICES ASSUME Inv, Next, NEW j \in Jobs, NEW a \in Attempts,
                      exec[j][a].pc = "working", exec'[j][a].pc = "done",
                      a # job[j].attempt \/ job[j].state # "running"
               PROVE  job' = job
    OBVIOUS
  <2>1. TypeOK /\ FenceHolder
    BY DEF Inv
  <2>2. ~HoldsClaim(j, a)
    BY <2>1 DEF FenceHolder, Live, HoldsClaim
  <2>3. ASSUME NEW k \in Jobs, NEW b \in Attempts, NEW r \in Results, NEW due \in BOOLEAN,
               Finalize(k, b, r, due)
        PROVE  job' = job
    <3>1. k = j /\ b = a
      BY <2>1, <2>3 DEF Finalize, TypeOK
    <3> QED
      BY <2>2, <2>3, <3>1 DEF Finalize
  <2>4. CASE Claim
    BY <2>1, <2>4, SMTT(40) DEF Claim, Dequeue, TypeOK
  <2>5. CASE Produce \/ Clock \/ Sweep \/ Control
    BY <2>5 DEF Produce, Insert, Clock, TimePasses, LeaseLapses, Sweep, SweepBatch,
                Control, RetryJob, CancelJob, PauseJob, ResumeJob, RescheduleJob, DeleteJob
  <2>6. ASSUME NEW k \in Jobs, NEW b \in Attempts,
               InsertRunStub(k, b) \/ RenewLease(k, b) \/ Abandon(k, b)
        PROVE  job' = job
    BY <2>1, <2>6 DEF InsertRunStub, RenewLease, Abandon, Ended, TypeOK, Exec
  <2> QED
    BY <2>3, <2>4, <2>5, <2>6 DEF Next, Attempt
<1> QED
  BY <1>1, Invariance, PTL DEF Spec, StaleFinalizeInvisible

\* A recorded outcome is overwritten by nothing but a forced re-queue and a
\* delete: no late finalize, sweep, claim or other control changes it.
THEOREM TerminalSafety == Spec => TerminalIsFinal
<1> DEFINE Step == \A j \in Jobs :
                     job[j].state \in TerminalStates /\ job'[j].state # job[j].state =>
                       job'[j].state = "deleted" \/ forced'[j] = forced[j] + 1
<1>1. TypeOK /\ [Next]_vars => [Step]_vars
  <2> SUFFICES ASSUME TypeOK, Next, NEW j \in Jobs, job[j].state \in TerminalStates,
                      job'[j].state # job[j].state
               PROVE  job'[j].state = "deleted" \/ forced'[j] = forced[j] + 1
    OBVIOUS
  <2>1. /\ job[j].state \notin NonTerminalStates
        /\ job[j].state # "absent"
    BY DEF TerminalStates, NonTerminalStates, WaitingStates
  <2>2. job \in [Jobs -> JobRow] /\ job[j] \in JobRow
    BY DEF TypeOK
  <2>3. CASE Produce
    BY <2>1, <2>2, <2>3 DEF Produce, Insert
  <2>4. CASE Clock
    BY <2>1, <2>2, <2>4 DEF Clock, TimePasses, LeaseLapses, JobRow
  <2>5. CASE Claim
    BY <2>1, <2>5 DEF Claim, Dequeue, Claimable, ClaimableStates, NonTerminalStates
  <2>6. CASE Attempt
    BY <2>1, <2>2, <2>6 DEF Attempt, InsertRunStub, RenewLease, Abandon, Finalize, HoldsClaim,
                            NonTerminalStates
  <2>7. CASE Sweep
    BY <2>1, <2>7 DEF Sweep, SweepBatch, Expired, NonTerminalStates
  <2>8. ASSUME NEW k \in Jobs, NEW o \in RetryOptions, NEW due \in BOOLEAN, RetryJob(k, o, due)
        PROVE  forced'[j] = forced[j] + 1
    <3>1. k = j
      BY <2>2, <2>8 DEF RetryJob
    <3> QED
      BY <2>1, <2>8, <3>1 DEF RetryJob, TypeOK, NonTerminalStates
  <2>9. ASSUME NEW k \in Jobs, \/ CancelJob(k) \/ PauseJob(k) \/ ResumeJob(k)
                               \/ \E due \in BOOLEAN : RescheduleJob(k, due)
        PROVE  FALSE
    BY <2>1, <2>2, <2>9 DEF CancelJob, PauseJob, ResumeJob, RescheduleJob, JobRow,
                            NonTerminalStates, WaitingStates, ClaimableStates
  <2>10. ASSUME NEW k \in Jobs, DeleteJob(k)
         PROVE  job'[j].state = "deleted"
    BY <2>2, <2>10 DEF DeleteJob, NoJob
  <2>11. CASE Control
    BY <2>8, <2>9, <2>10, <2>11 DEF Control
  <2> QED
    BY <2>3, <2>4, <2>5, <2>6, <2>7, <2>11 DEF Next
<1> QED
  BY <1>1, TypeCorrect, PTL DEF Spec, TerminalIsFinal

----------------------------------------------------------------------------
(* JobCore implements JobLife: the rows, tokens, leases, stubs and budgets  *)
(* of the runtime are, to a user, the life JobLife promises.  The mapping   *)
(* is the one JobCore's Life instance names; Inv is what makes a finalize   *)
(* under the fence the newest attempt's own.  First, the mapping, one job   *)
(* at a time.                                                               *)

PhaseOf(j) == Phase(job[j].state)
TriesOf(j) == job[j].attempt
AllowedOf(j) == IF job[j].state \in {"absent", "deleted"} THEN 0
                ELSE job[j].maxAttempts + forced[j]
ActiveOf(j) == {a \in Attempts : Live(j, a)}

\* Nothing a user can see of job j changes.
Quiet(j) ==
    /\ PhaseOf(j)' = PhaseOf(j) /\ TriesOf(j)' = TriesOf(j)
    /\ AllowedOf(j)' = AllowedOf(j) /\ ActiveOf(j)' = ActiveOf(j)

LEMMA QuietStep ==
    ASSUME \A j \in Jobs : Quiet(j)
    PROVE  UNCHANGED Life!vars
BY DEF Life!vars, Quiet, PhaseOf, TriesOf, AllowedOf, ActiveOf

LEMMA SubmitStep ==
    ASSUME NEW j \in Jobs, \A k \in Jobs \ {j} : Quiet(k),
           PhaseOf(j) = "absent", PhaseOf(j)' = "waiting", AllowedOf(j)' > 0,
           TriesOf(j)' = TriesOf(j), ActiveOf(j)' = ActiveOf(j)
    PROVE  Life!Submit(j)
BY DEF Life!Submit, Quiet, PhaseOf, TriesOf, AllowedOf, ActiveOf

LEMMA BeginStep ==
    ASSUME NEW S \in SUBSET Jobs, \A k \in Jobs \ S : Quiet(k),
           \A j \in S : /\ PhaseOf(j) = "waiting" /\ TriesOf(j) < AllowedOf(j)
                        /\ PhaseOf(j)' = "running" /\ TriesOf(j)' = TriesOf(j) + 1
                        /\ AllowedOf(j)' = AllowedOf(j)
                        /\ ActiveOf(j)' = ActiveOf(j) \cup {TriesOf(j) + 1}
    PROVE  Life!Begin(S)
BY DEF Life!Begin, Quiet, PhaseOf, TriesOf, AllowedOf, ActiveOf

LEMMA SettleStep ==
    ASSUME NEW j \in Jobs, \A k \in Jobs \ {j} : Quiet(k), NEW p, NEW extra \in {0, 1},
           PhaseOf(j) = "running", TriesOf(j) \in ActiveOf(j),
           p = "waiting" => TriesOf(j) < AllowedOf(j) + extra,
           extra > 0 => p = "waiting",
           PhaseOf(j)' = p, AllowedOf(j)' = AllowedOf(j) + extra,
           ActiveOf(j)' = ActiveOf(j) \ {TriesOf(j)}, TriesOf(j)' = TriesOf(j)
    PROVE  Life!Settle(j, p, extra)
BY ZenonT(60) DEF Life!Settle, Quiet, PhaseOf, TriesOf, AllowedOf, ActiveOf

LEMMA VanishStep ==
    ASSUME NEW j \in Jobs, \A k \in Jobs \ {j} : Quiet(k), NEW a \in ActiveOf(j),
           ActiveOf(j)' = ActiveOf(j) \ {a},
           PhaseOf(j)' = PhaseOf(j), TriesOf(j)' = TriesOf(j), AllowedOf(j)' = AllowedOf(j)
    PROVE  Life!Vanish(j, a)
BY DEF Life!Vanish, Quiet, PhaseOf, TriesOf, AllowedOf, ActiveOf

LEMMA ReclaimStep ==
    ASSUME NEW S \in SUBSET Jobs, NEW T \in SUBSET S, \A k \in Jobs \ S : Quiet(k),
           \A j \in S : /\ PhaseOf(j) = "running" /\ TriesOf(j)' = TriesOf(j)
                        /\ AllowedOf(j)' = AllowedOf(j) /\ ActiveOf(j)' = ActiveOf(j),
           \A j \in T : PhaseOf(j)' = "discarded",
           \A j \in S \ T : TriesOf(j) < AllowedOf(j) /\ PhaseOf(j)' = "waiting"
    PROVE  Life!Reclaim(S, T)
BY DEF Life!Reclaim, Quiet, PhaseOf, TriesOf, AllowedOf, ActiveOf

LEMMA CancelStep ==
    ASSUME NEW j \in Jobs, \A k \in Jobs \ {j} : Quiet(k),
           PhaseOf(j) \in {"waiting", "running"}, PhaseOf(j)' = "cancelled",
           TriesOf(j)' = TriesOf(j), AllowedOf(j)' = AllowedOf(j), ActiveOf(j)' = ActiveOf(j)
    PROVE  Life!Cancel(j)
BY ZenonT(60) DEF Life!Cancel, Quiet, PhaseOf, TriesOf, AllowedOf, ActiveOf

LEMMA RequeueStep ==
    ASSUME NEW j \in Jobs, \A k \in Jobs \ {j} : Quiet(k),
           PhaseOf(j) \in {"waiting", "running"} \cup TerminalStates,
           PhaseOf(j)' = "waiting", AllowedOf(j)' > TriesOf(j),
           TriesOf(j)' = TriesOf(j), ActiveOf(j)' = ActiveOf(j)
    PROVE  Life!Requeue(j)
BY DEF Life!Requeue, Life!Outcomes, TerminalStates, Quiet, PhaseOf, TriesOf, AllowedOf, ActiveOf

LEMMA DeleteStep ==
    ASSUME NEW j \in Jobs, \A k \in Jobs \ {j} : Quiet(k),
           PhaseOf(j) \in TerminalStates, PhaseOf(j)' = "deleted",
           TriesOf(j)' = 0, AllowedOf(j)' = 0, ActiveOf(j)' = ActiveOf(j)
    PROVE  Life!Delete(j)
BY DEF Life!Delete, Life!Outcomes, TerminalStates, Quiet, PhaseOf, TriesOf, AllowedOf, ActiveOf

----------------------------------------------------------------------------
(* Every transaction is a step of JobLife, or quiet. *)

LifeStep == Life!Next \/ UNCHANGED Life!vars

\* A job whose row, attempts and forced re-queues are left alone is quiet.
LEMMA Untouched ==
    ASSUME NEW j \in Jobs, job'[j] = job[j], exec'[j] = exec[j], forced'[j] = forced[j]
    PROVE  Quiet(j)
BY DEF Quiet, PhaseOf, TriesOf, AllowedOf, ActiveOf, Live

\* One whose attempts alone are left alone keeps its active ones.
LEMMA SameActive ==
    ASSUME NEW j \in Jobs, exec'[j] = exec[j]
    PROVE  ActiveOf(j)' = ActiveOf(j)
BY DEF ActiveOf, Live

LEMMA EndActive ==
    ASSUME TypeOK, NEW j \in Jobs, NEW a \in Attempts, NEW pc \in {"done", "gone"},
           exec' = [exec EXCEPT ![j][a] = Ended(pc)]
    PROVE  /\ ActiveOf(j)' = ActiveOf(j) \ {a}
           /\ \A k \in Jobs \ {j} : exec'[k] = exec[k]
BY DEF ActiveOf, Live, TypeOK, Ended

LEMMA LifeProduce == Inv /\ Produce => LifeStep
<1> SUFFICES ASSUME Inv, NEW j \in Jobs, NEW max \in MaxAttempts, NEW now \in BOOLEAN,
                    Insert(j, max, now)
             PROVE  Life!Submit(j)
  BY DEF Produce, LifeStep, Life!Next
<1> USE DEF Inv
<1>1. /\ job[j].state = "absent" /\ job[j].attempt = 0
      /\ job'[j] = [NoJob EXCEPT !.state = "available", !.maxAttempts = max, !.due = now]
      /\ exec' = exec /\ forced' = forced
      /\ \A k \in Jobs \ {j} : job'[k] = job[k]
  BY DEF Insert, history, TypeOK, RowInv, RowOK
<1>2. \A k \in Jobs \ {j} : Quiet(k)
  BY <1>1, Untouched
<1>3. max \in Nat /\ max > 0 /\ forced[j] \in Nat
  BY Constants DEF ConstantAssumptions, TypeOK
<1>4. /\ PhaseOf(j) = "absent" /\ PhaseOf(j)' = "waiting" /\ AllowedOf(j)' > 0
      /\ TriesOf(j)' = TriesOf(j)
  BY <1>1, <1>3 DEF PhaseOf, Phase, AllowedOf, TriesOf, NoJob, WaitingStates
<1> QED
  BY <1>1, <1>2, <1>4, SubmitStep, SameActive

LEMMA LifeClock == Inv /\ Clock => LifeStep
<1> SUFFICES ASSUME Inv, NEW j \in Jobs, TimePasses(j) \/ LeaseLapses(j)
             PROVE  \A k \in Jobs : Quiet(k)
  BY QuietStep DEF Clock, LifeStep
<1>1. /\ exec' = exec /\ forced' = forced
      /\ \A k \in Jobs \ {j} : job'[k] = job[k]
      /\ job'[j] \in {[job[j] EXCEPT !.due = TRUE], [job[j] EXCEPT !.lease = "lapsed"]}
  BY DEF TimePasses, LeaseLapses, history, Inv, TypeOK
<1>2. job[j] \in JobRow
  BY DEF Inv, TypeOK
<1>3. /\ job'[j].state = job[j].state /\ job'[j].attempt = job[j].attempt
      /\ job'[j].maxAttempts = job[j].maxAttempts
  BY <1>1, <1>2 DEF JobRow
<1>4. Quiet(j)
  BY <1>1, <1>3, SameActive DEF Quiet, PhaseOf, TriesOf, AllowedOf
<1> QED
  BY <1>1, <1>4, Untouched

LEMMA LifeClaim == Inv /\ Claim => LifeStep
<1> SUFFICES ASSUME Inv, NEW S \in SUBSET Jobs, NEW t \in Tokens, Dequeue(S, t)
             PROVE  Life!Begin(S)
  BY DEF Claim, LifeStep, Life!Next
<1>1. /\ forced' = forced
      /\ \A j \in Jobs \ S : job'[j] = job[j] /\ exec'[j] = exec[j]
  BY DEF Dequeue, history
<1>2. \A j \in Jobs \ S : Quiet(j)
  BY <1>1, Untouched
<1>3. ASSUME NEW j \in S
      PROVE  /\ PhaseOf(j) = "waiting" /\ TriesOf(j) < AllowedOf(j)
             /\ PhaseOf(j)' = "running" /\ TriesOf(j)' = TriesOf(j) + 1
             /\ AllowedOf(j)' = AllowedOf(j)
             /\ ActiveOf(j)' = ActiveOf(j) \cup {TriesOf(j) + 1}
  <2>1. /\ job[j] \in JobRow /\ RowOK(job[j], forced[j])
        /\ job[j].state \in ClaimableStates /\ job[j].attempt < AttemptBound
    BY DEF Inv, TypeOK, RowInv, Dequeue, Claimable
  <2>2. job'[j] = ClaimUpdate(job[j], t)
    BY DEF Dequeue
  <2>3. /\ job'[j].state = "running" /\ job'[j].attempt = job[j].attempt + 1
        /\ job'[j].maxAttempts = job[j].maxAttempts
    BY <2>1, <2>2 DEF ClaimUpdate, JobRow
  <2>4. job[j].attempt < job[j].maxAttempts + forced[j]
    BY <2>1 DEF RowOK, ClaimableStates
  <2>5. /\ PhaseOf(j) = "waiting" /\ TriesOf(j) < AllowedOf(j)
        /\ PhaseOf(j)' = "running" /\ TriesOf(j)' = TriesOf(j) + 1
        /\ AllowedOf(j)' = AllowedOf(j)
    BY <1>1, <2>1, <2>3, <2>4
       DEF PhaseOf, Phase, TriesOf, AllowedOf, ClaimableStates, WaitingStates
  <2>6. exec'[j] = [exec[j] EXCEPT ![job[j].attempt + 1] =
                       [pc |-> "claimed", token |-> t, max |-> job[j].maxAttempts]]
    BY DEF Dequeue
  <2>7. job[j].attempt + 1 \in Attempts /\ exec[j] \in [Attempts -> Exec]
    BY <2>1, Constants DEF Attempts, JobRow, ConstantAssumptions, Inv, TypeOK
  <2>8. ActiveOf(j)' = ActiveOf(j) \cup {TriesOf(j) + 1}
    BY <2>6, <2>7 DEF ActiveOf, Live, TriesOf
  <2> QED
    BY <2>5, <2>8
<1> QED
  BY <1>2, <1>3, BeginStep

LEMMA LifeFinalize ==
    ASSUME Inv, NEW j \in Jobs, NEW a \in Attempts, NEW r \in Results, NEW due \in BOOLEAN,
           Finalize(j, a, r, due)
    PROVE  LifeStep
<1> DEFINE plan == PlanFinalize(a, exec[j][a].max, r)
           new == JobFinalizeUpdate(job[j], plan, due)
           extra == IF plan.jobState = "scheduled" THEN 1 ELSE 0
<1>1. /\ exec[j][a].pc = "working" /\ forced' = forced
      /\ job' = IF HoldsClaim(j, a) THEN [job EXCEPT ![j] = new] ELSE job
      /\ exec' = [exec EXCEPT ![j][a] = Ended("done")]
  BY DEF Finalize, history
<1>2. job[j] \in JobRow /\ job \in [Jobs -> JobRow] /\ forced[j] \in Nat
  BY DEF Inv, TypeOK
<1>3. /\ ActiveOf(j)' = ActiveOf(j) \ {a} /\ a \in ActiveOf(j)
      /\ \A k \in Jobs \ {j} : Quiet(k)
  BY <1>1, <1>2, EndActive, Untouched DEF ActiveOf, Live, Inv
<1>4. CASE ~HoldsClaim(j, a)
  <2>1. /\ PhaseOf(j)' = PhaseOf(j) /\ TriesOf(j)' = TriesOf(j) /\ AllowedOf(j)' = AllowedOf(j)
    BY <1>1, <1>4 DEF PhaseOf, TriesOf, AllowedOf
  <2>2. Life!Vanish(j, a)
    BY <1>3, <2>1, VanishStep
  <2> QED
    BY <2>2 DEF LifeStep, Life!Next
<1>5. CASE HoldsClaim(j, a)
  <2>1. /\ job[j].state = "running" /\ job[j].attempt = a
        /\ job[j].maxAttempts = exec[j][a].max
    BY <1>1, <1>5 DEF Inv, FenceHolder, Live, HoldsClaim
  <2>2. job'[j] = new
    BY <1>1, <1>2, <1>5
  <2>3. /\ plan.jobState \in TerminalStates \cup {"scheduled", "retryable"}
        /\ plan.jobState = "retryable" => ~(a >= exec[j][a].max)
    BY DEF PlanFinalize, TerminalStates
  <2> HIDE DEF plan
  <2>4. /\ new.state = plan.jobState /\ new.attempt = job[j].attempt
        /\ new.maxAttempts = job[j].maxAttempts + extra
    BY <1>2 DEF JobFinalizeUpdate, JobRow
  <2>5. RowOK(job[j], forced[j])
    BY DEF Inv, RowInv
  <2>6. job[j].attempt \in Nat /\ job[j].maxAttempts \in Nat
    BY <1>2, Constants DEF JobRow, ConstantAssumptions
  <2> HIDE DEF new
  <2>7. /\ PhaseOf(j) = "running" /\ PhaseOf(j)' = Phase(plan.jobState)
        /\ TriesOf(j) = a /\ TriesOf(j)' = a
        /\ AllowedOf(j) = job[j].maxAttempts + forced[j]
        /\ AllowedOf(j)' = AllowedOf(j) + extra
    BY <1>1, <1>2, <2>1, <2>2, <2>3, <2>4, <2>6
       DEF PhaseOf, Phase, TriesOf, AllowedOf, WaitingStates, TerminalStates
  <2>8. Phase(plan.jobState) = "waiting" => TriesOf(j) < AllowedOf(j) + extra
    BY <1>2, <2>1, <2>3, <2>5, <2>6, <2>7 DEF Phase, RowOK, WaitingStates, TerminalStates
  <2>9. /\ extra \in {0, 1} /\ (extra > 0 => Phase(plan.jobState) = "waiting")
        /\ Phase(plan.jobState) \in {"waiting"} \cup Life!Outcomes
    BY <2>3 DEF Phase, WaitingStates, TerminalStates, Life!Outcomes
  <2> HIDE DEF extra
  <2> PICK p \in {"waiting"} \cup Life!Outcomes, e \in {0, 1} :
            p = Phase(plan.jobState) /\ e = extra
    BY <2>9
  <2>10. Life!Settle(j, p, e)
    BY <1>3, <2>7, <2>8, <2>9, SettleStep
  <2> QED
    BY <2>10 DEF LifeStep, Life!Next
<1> QED
  BY <1>4, <1>5

LEMMA LifeAttempt == Inv /\ Attempt => LifeStep
<1> SUFFICES ASSUME Inv, NEW j \in Jobs, NEW a \in Attempts,
                    \/ InsertRunStub(j, a)
                    \/ RenewLease(j, a)
                    \/ Abandon(j, a)
                    \/ \E r \in Results, due \in BOOLEAN : Finalize(j, a, r, due)
             PROVE  LifeStep
  BY DEF Attempt
<1>1. TypeOK /\ job[j] \in JobRow
  BY DEF Inv, TypeOK
<1>2. CASE InsertRunStub(j, a)
  <2>1. /\ job' = job /\ forced' = forced
        /\ \A k \in Jobs, b \in Attempts : Live(k, b)' <=> Live(k, b)
    BY <1>1, <1>2 DEF InsertRunStub, history, Live, TypeOK, Exec
  <2>2. \A k \in Jobs : Quiet(k)
    BY <2>1 DEF Quiet, PhaseOf, TriesOf, AllowedOf, ActiveOf
  <2> QED
    BY <2>2, QuietStep DEF LifeStep
<1>3. CASE RenewLease(j, a)
  <2>1. /\ exec' = exec /\ forced' = forced
        /\ job'[j] = [job[j] EXCEPT !.lease = "live"]
        /\ \A k \in Jobs \ {j} : job'[k] = job[k]
    BY <1>1, <1>3 DEF RenewLease, history, TypeOK
  <2>2. /\ job'[j].state = job[j].state /\ job'[j].attempt = job[j].attempt
        /\ job'[j].maxAttempts = job[j].maxAttempts
    BY <1>1, <2>1 DEF JobRow
  <2>3. Quiet(j)
    BY <2>1, <2>2, SameActive DEF Quiet, PhaseOf, TriesOf, AllowedOf
  <2> QED
    BY <2>1, <2>3, Untouched, QuietStep DEF LifeStep
<1>4. CASE Abandon(j, a)
  <2>1. /\ exec' = [exec EXCEPT ![j][a] = Ended("gone")] /\ a \in ActiveOf(j)
        /\ job' = job /\ forced' = forced
    BY <1>4 DEF Abandon, history, ActiveOf
  <2>2. /\ ActiveOf(j)' = ActiveOf(j) \ {a}
        /\ \A k \in Jobs \ {j} : Quiet(k)
    BY <1>1, <2>1, EndActive, Untouched
  <2>3. /\ PhaseOf(j)' = PhaseOf(j) /\ TriesOf(j)' = TriesOf(j) /\ AllowedOf(j)' = AllowedOf(j)
    BY <2>1 DEF PhaseOf, TriesOf, AllowedOf
  <2>4. Life!Vanish(j, a)
    BY <2>1, <2>2, <2>3, VanishStep
  <2> QED
    BY <2>4 DEF LifeStep, Life!Next
<1> QED
  BY <1>2, <1>3, <1>4, LifeFinalize

LEMMA LifeSweep == Inv /\ Sweep => LifeStep
<1> SUFFICES ASSUME Inv, NEW S \in SUBSET Jobs, SweepBatch(S)
             PROVE  \E T \in SUBSET S : Life!Reclaim(S, T)
  BY DEF Sweep, LifeStep, Life!Next
<1>1. /\ exec' = exec /\ forced' = forced
      /\ \A j \in Jobs \ S : job'[j] = job[j]
      /\ \A j \in S : job'[j] = ReclaimUpdate(job[j], ReclaimState(j))
  BY DEF SweepBatch
<1>2. \A j \in Jobs \ S : Quiet(j)
  BY <1>1, Untouched
<1> PICK T \in SUBSET S : T = {j \in S : ReclaimState(j) = "discarded"}
  OBVIOUS
<1>3. ASSUME NEW j \in S
      PROVE  /\ PhaseOf(j) = "running" /\ TriesOf(j)' = TriesOf(j)
             /\ AllowedOf(j)' = AllowedOf(j) /\ ActiveOf(j)' = ActiveOf(j)
             /\ j \in T => PhaseOf(j)' = "discarded"
             /\ j \notin T => TriesOf(j) < AllowedOf(j) /\ PhaseOf(j)' = "waiting"
  <2>1. /\ job[j] \in JobRow /\ forced[j] \in Nat /\ job[j].state = "running"
        /\ j \in T <=> ReclaimState(j) = "discarded"
    BY DEF Inv, TypeOK, SweepBatch, Expired
  <2>2. /\ ReclaimState(j) \in {"available", "discarded"}
        /\ ReclaimState(j) = "available" => job[j].attempt < job[j].maxAttempts + forced[j]
    BY <2>1, Constants DEF ReclaimState, SpentAttempts, JobRow, ConstantAssumptions
  <2>3. /\ job'[j].state = ReclaimState(j) /\ job'[j].attempt = job[j].attempt
        /\ job'[j].maxAttempts = job[j].maxAttempts
    BY <1>1, <2>1 DEF ReclaimUpdate, JobRow
  <2> QED
    BY <1>1, <2>1, <2>2, <2>3, SameActive
       DEF PhaseOf, Phase, TriesOf, AllowedOf, WaitingStates
<1>4. Life!Reclaim(S, T)
  BY <1>2, <1>3, ReclaimStep
<1> QED
  BY <1>4

LEMMA LifeControl == Inv /\ Control => LifeStep
<1> SUFFICES ASSUME Inv, NEW j \in Jobs,
                    \/ \E o \in RetryOptions, due \in BOOLEAN : RetryJob(j, o, due)
                    \/ CancelJob(j) \/ PauseJob(j) \/ ResumeJob(j)
                    \/ \E due \in BOOLEAN : RescheduleJob(j, due)
                    \/ DeleteJob(j)
             PROVE  LifeStep
  BY DEF Control
<1>1. /\ TypeOK /\ job[j] \in JobRow /\ forced[j] \in Nat /\ RowOK(job[j], forced[j])
  BY DEF Inv, TypeOK, RowInv
<1>2. ASSUME NEW o \in RetryOptions, NEW due \in BOOLEAN, RetryJob(j, o, due)
      PROVE  Life!Requeue(j)
  <2> DEFINE g == IF job[j].state \in WaitingStates THEN forced[j] ELSE forced[j] + 1
             new == RetryUpdate(job[j], o, due)
  <2>1. /\ job'[j] = new /\ exec' = exec /\ forced'[j] = g
        /\ \A k \in Jobs \ {j} : job'[k] = job[k] /\ forced'[k] = forced[k]
        /\ job[j].state \in RetryStates(o)
    BY <1>1, <1>2 DEF RetryJob, TypeOK
  <2>2. g \in Nat /\ o \in RetryOpts
    BY <1>1, Constants DEF ConstantAssumptions
  <2>3. RowOK(new, g)
    BY <1>1, <2>2, RetryRow
  <2>4. new.state = "available" /\ new.attempt = job[j].attempt
    BY <1>1 DEF RetryUpdate, JobRow
  <2>5. \A k \in Jobs \ {j} : Quiet(k)
    BY <2>1, Untouched
  <2>6. new.attempt < new.maxAttempts + g
    BY <2>3, <2>4 DEF RowOK, WaitingStates
  <2> HIDE DEF new, g
  <2>7. /\ PhaseOf(j) \in {"waiting", "running"} \cup TerminalStates
        /\ PhaseOf(j)' = "waiting" /\ AllowedOf(j)' > TriesOf(j) /\ TriesOf(j)' = TriesOf(j)
    <3>1. PhaseOf(j) \in {"waiting", "running"} \cup TerminalStates
      BY <2>1 DEF PhaseOf, Phase, RetryStates
    <3>2. PhaseOf(j)' = "waiting" /\ TriesOf(j)' = TriesOf(j)
      BY <2>1, <2>4 DEF PhaseOf, Phase, TriesOf, WaitingStates
    <3>3. AllowedOf(j)' = new.maxAttempts + g
      BY <2>1, <2>4 DEF AllowedOf
    <3>4. new.maxAttempts \in Nat /\ new.attempt \in Nat
      BY <1>1, <2>2, RetryUpdateType, Constants DEF new, JobRow, ConstantAssumptions
    <3> QED
      BY <2>2, <2>4, <2>6, <3>1, <3>2, <3>3, <3>4 DEF TriesOf
  <2> QED
    BY <2>1, <2>5, <2>7, SameActive, RequeueStep
\* A control other than the retry writes job j alone.
<1>3. ASSUME \/ CancelJob(j) \/ PauseJob(j) \/ ResumeJob(j)
             \/ \E due \in BOOLEAN : RescheduleJob(j, due)
             \/ DeleteJob(j)
      PROVE  /\ \A k \in Jobs \ {j} : Quiet(k)
             /\ exec' = exec /\ forced' = forced /\ ActiveOf(j)' = ActiveOf(j)
  <2>1. /\ exec' = exec /\ forced' = forced
        /\ \A k \in Jobs \ {j} : job'[k] = job[k]
    BY <1>1, <1>3 DEF CancelJob, PauseJob, ResumeJob, RescheduleJob, DeleteJob, history, TypeOK
  <2> QED
    BY <2>1, Untouched, SameActive
<1>4. CASE CancelJob(j)
  <2>1. /\ job'[j].state = "cancelled" /\ job'[j].attempt = job[j].attempt
        /\ job'[j].maxAttempts = job[j].maxAttempts /\ job[j].state \in NonTerminalStates
    BY <1>1, <1>4 DEF CancelJob, TypeOK, JobRow
  <2>2. Life!Cancel(j)
    BY <1>3, <1>4, <2>1, CancelStep
       DEF PhaseOf, Phase, TriesOf, AllowedOf, NonTerminalStates, WaitingStates
  <2> QED
    BY <2>2 DEF LifeStep, Life!Next
<1>5. CASE PauseJob(j) \/ ResumeJob(j) \/ \E due \in BOOLEAN : RescheduleJob(j, due)
  <2>1. /\ job'[j].attempt = job[j].attempt /\ job'[j].maxAttempts = job[j].maxAttempts
        /\ job[j].state \in WaitingStates /\ job'[j].state \in WaitingStates
    <3>1. CASE PauseJob(j) \/ ResumeJob(j)
      BY <1>1, <3>1 DEF PauseJob, ResumeJob, TypeOK, JobRow, ClaimableStates, WaitingStates
    <3>2. CASE \E due \in BOOLEAN : RescheduleJob(j, due)
      BY <1>1, <3>2 DEF RescheduleJob, TypeOK, JobRow
    <3> QED
      BY <1>5, <3>1, <3>2
  <2>2. Quiet(j)
    BY <1>3, <1>5, <2>1 DEF Quiet, PhaseOf, Phase, TriesOf, AllowedOf, WaitingStates
  <2> QED
    BY <1>3, <1>5, <2>2, QuietStep DEF LifeStep
<1>6. CASE DeleteJob(j)
  <2>1. /\ job'[j].state = "deleted" /\ job'[j].attempt = 0
        /\ job[j].state \in TerminalStates
    BY <1>1, <1>6 DEF DeleteJob, TypeOK, NoJob
  <2>2. Life!Delete(j)
    BY <1>3, <1>6, <2>1, DeleteStep
       DEF PhaseOf, Phase, TriesOf, AllowedOf, TerminalStates, WaitingStates
  <2> QED
    BY <2>2 DEF LifeStep, Life!Next
<1> QED
  BY <1>2, <1>4, <1>5, <1>6 DEF LifeStep, Life!Next

\* JobCore implements JobLife: every claim, stub, heartbeat, finalize, sweep and
\* control is one step of the promised life or leaves what a user sees alone, so
\* a job leaves running only by its newest attempt's word, a reclaim or an
\* operator, and is never begun past its allowance.
THEOREM LifeRefinement == Spec => ImplementsLife
<1>1. Init => Life!Init
  BY DEF Init, Life!Init, NoJob, Ended, Live, Phase, WaitingStates
<1>2. Inv /\ [Next]_vars => [Life!Next]_(Life!vars)
  <2> SUFFICES ASSUME Inv, [Next]_vars PROVE LifeStep
    BY DEF LifeStep
  <2>1. CASE UNCHANGED vars
    <3>1. \A j \in Jobs : Quiet(j)
      BY <2>1, Untouched DEF vars
    <3> QED
      BY <3>1, QuietStep DEF LifeStep
  <2> QED
    BY <2>1, LifeProduce, LifeClock, LifeClaim, LifeAttempt, LifeSweep, LifeControl DEF Next
<1> QED
  BY <1>1, <1>2, Invariance, PTL DEF Spec, ImplementsLife, Life!Spec

----------------------------------------------------------------------------
(* What JobCore keeps of a job's past: its job_runs rows, the finish log and *)
(* the crash budget counted from them, and which attempts of one job may be  *)
(* at work together.                                                         *)

(* The audit invariant, one attempt at a time: its run row by itself, then   *)
(* the run beside the jobs row and the attempt's runner.                     *)

\* An unfinished run says nothing yet, and the sweep's stamp is on exactly
\* the runs that count as crashes.
RunOK(run) ==
    /\ run.outcome \in {"none", "started"} <=> run.finishedAt = "null"
    /\ run.finishedAt = "null" => run.jobState = "null" /\ ~run.superseded
    /\ run.outcome = "crashed" => run.jobState # "null"
    /\ CrashedRun(run) <=> run.finishedAt = "sweep"

\* Where an attempt is in its life: none past the counter, no run before the
\* stub, and a run still open under the claim that holds the row.
PlaceOK(a, row, run, ex) ==
    /\ row.state # "deleted" /\ a > row.attempt => ex.pc = "none"
    /\ ex.pc \in {"none", "claimed"} => run.outcome = "none"
    /\ ex.pc = "working" => /\ run.outcome \in {"none", "started", "crashed"}
                            /\ run.outcome = "none" => row.state = "deleted"
    /\ row.state = "running" /\ a = row.attempt =>
          /\ run.outcome \in {"none", "started"}
          /\ ex.pc \in {"claimed", "working"} => ex.token = row.token
    /\ row.state \in {"succeeded", "retryable", "scheduled"} /\ a = row.attempt => ex.pc = "done"

\* StateMatchesAudit for one attempt: f counts the forced re-queues of its job,
\* n its reclaims.
MatchOK(a, row, run, f, n) ==
    a = row.attempt =>
        /\ row.state \in {"succeeded", "retryable", "scheduled"} =>
              run.jobState = row.state /\ ~run.superseded
        /\ row.state = "discarded" =>
              \/ run.jobState = "discarded"
              \/ /\ run.jobState = "null" /\ n > 0
                 /\ run.outcome \in {"none", "started"} \/ run.superseded
        /\ run.jobState \in TerminalStates /\ f = 0 => row.state = run.jobState

AttemptOK(a, row, run, ex, f, n) ==
    RunOK(run) /\ PlaceOK(a, row, run, ex) /\ MatchOK(a, row, run, f, n)

AuditInv ==
    \A j \in Jobs, a \in Attempts :
        AttemptOK(a, job[j], runs[j][a], exec[j][a], forced[j], reclaims[j])

\* A job with no excuse has one attempt at work at most: the newest, under a
\* row no retry will take from it unnoticed.
AloneOK(j) ==
    excused[j] = {} =>
        /\ \A a \in Attempts : Live(j, a) /\ job[j].state # "deleted" =>
              /\ a = job[j].attempt /\ job[j].state \in {"running", "cancelled"}
              /\ exec[j][a].pc = "working" => runs[j][a].outcome = "started"
        /\ \A a, b \in Attempts : Live(j, a) /\ Live(j, b) => a = b

Alone == \A j \in Jobs : AloneOK(j)

----------------------------------------------------------------------------
(* What each transaction does to one attempt. *)

LEMMA AttemptNumbers == Attempts \subseteq Nat \ {0} /\ IsFiniteSet(Attempts)
BY Constants, FS_Interval DEF Attempts, ConstantAssumptions

\* A row written elsewhere than in state, attempt and token.
LEMMA SameRow ==
    ASSUME NEW a, NEW row, NEW new, NEW run, NEW ex, NEW f, NEW n,
           AttemptOK(a, row, run, ex, f, n),
           new.state = row.state, new.attempt = row.attempt, new.token = row.token
    PROVE  AttemptOK(a, new, run, ex, f, n)
BY DEF AttemptOK, PlaceOK, MatchOK

\* A change of state is no matter of an attempt other than the newest.
LEMMA OlderAttempt ==
    ASSUME NEW a, NEW row, NEW new, NEW run, NEW ex, NEW f, NEW n, NEW m,
           AttemptOK(a, row, run, ex, f, n), row.state # "deleted",
           new.attempt = row.attempt, a # row.attempt
    PROVE  AttemptOK(a, new, run, ex, f, m)
BY DEF AttemptOK, PlaceOK, MatchOK

LEMMA ClaimAttempt ==
    ASSUME NEW a \in Nat, NEW row, NEW new, NEW run, NEW ex, NEW nex, NEW f, NEW n,
           AttemptOK(a, row, run, ex, f, n), row.attempt \in Nat, row.state # "deleted",
           new.state = "running", new.attempt = row.attempt + 1,
           nex = IF a = row.attempt + 1
                 THEN [pc |-> "claimed", token |-> new.token, max |-> new.maxAttempts] ELSE ex
    PROVE  AttemptOK(a, new, run, nex, f, n)
<1>1. CASE a = row.attempt + 1
  <2>1. nex.pc = "claimed" /\ nex.token = new.token
    BY <1>1
  <2>2. run.outcome = "none" /\ run.jobState = "null" /\ RunOK(run)
    BY <1>1 DEF AttemptOK, PlaceOK, RunOK
  <2> QED
    BY <1>1, <2>1, <2>2 DEF AttemptOK, PlaceOK, MatchOK, TerminalStates
<1>2. CASE a # row.attempt + 1
  BY <1>2 DEF AttemptOK, PlaceOK, MatchOK
<1> QED
  BY <1>1, <1>2

LEMMA StubAttempt ==
    ASSUME NEW a, NEW row, NEW run, NEW new, NEW ex, NEW nex, NEW f, NEW n,
           AttemptOK(a, row, run, ex, f, n), ex.pc = "claimed",
           nex.pc = "working", nex.token = ex.token,
           new = [NoRun EXCEPT !.outcome = "started"]
    PROVE  AttemptOK(a, row, new, nex, f, n)
<1>1. /\ new.outcome = "started" /\ new.finishedAt = "null" /\ new.jobState = "null"
      /\ new.superseded = FALSE
  BY DEF NoRun
<1>2. run.outcome = "none" /\ run.jobState = "null" /\ ~run.superseded
  BY DEF AttemptOK, PlaceOK, RunOK
<1>3. RunOK(new)
  BY <1>1 DEF RunOK, CrashedRun
<1>4. PlaceOK(a, row, new, nex)
  BY <1>1 DEF AttemptOK, PlaceOK
<1>5. MatchOK(a, row, new, f, n)
  BY <1>1, <1>2 DEF AttemptOK, MatchOK, TerminalStates
<1> QED
  BY <1>3, <1>4, <1>5 DEF AttemptOK

\* A run dispatch walks away from keeps what it says.
LEMMA AbandonAttempt ==
    ASSUME NEW a, NEW row, NEW run, NEW ex, NEW f, NEW n,
           AttemptOK(a, row, run, ex, f, n), ex.pc \in {"claimed", "working"}
    PROVE  AttemptOK(a, row, run, Ended("gone"), f, n)
<1>1. Ended("gone").pc = "gone"
  BY DEF Ended
<1>2. PlaceOK(a, row, run, Ended("gone"))
  BY <1>1 DEF AttemptOK, PlaceOK
<1> QED
  BY <1>2 DEF AttemptOK

PlanOK(plan) ==
    /\ plan.jobState \in TerminalStates \cup {"scheduled", "retryable"}
    /\ plan.outcome \in {"cancelled", "snooze", "success", "error"}

\* The finalize of the claim's holder: its run is open, and ends as the row does.
LEMMA SettleAttempt ==
    ASSUME NEW a, NEW row, NEW new, NEW run \in RunRow, NEW nrun, NEW ex, NEW nex,
           NEW f, NEW n, NEW plan, PlanOK(plan),
           AttemptOK(a, row, run, ex, f, n), row.state = "running", row.attempt = a,
           ex.pc = "working", new.state = plan.jobState, new.attempt = a, ~(a > new.attempt),
           nrun = RunFinalizeUpdate(run, plan, FALSE), nex = Ended("done")
    PROVE  AttemptOK(a, new, nrun, nex, f, n)
<1>1. run.outcome = "started" /\ run.finishedAt = "null"
  BY DEF AttemptOK, PlaceOK, RunOK
<1>2. /\ nrun.outcome = plan.outcome /\ nrun.finishedAt = "finalize"
      /\ nrun.superseded = FALSE /\ nrun.jobState = plan.jobState
  BY <1>1 DEF RunFinalizeUpdate, RunRow
<1>3. nex.pc = "done"
  BY DEF Ended
<1>4. RunOK(nrun)
  BY <1>2 DEF RunOK, CrashedRun, PlanOK
<1>5. PlaceOK(a, new, nrun, nex)
  <2>1. new.state # "running"
    BY DEF PlanOK, TerminalStates
  <2> QED
    BY <1>3, <2>1 DEF PlaceOK
<1>6. MatchOK(a, new, nrun, f, n)
  BY <1>2 DEF MatchOK, PlanOK, TerminalStates
<1> QED
  BY <1>4, <1>5, <1>6 DEF AttemptOK

\* A superseded finalize: the row is another's, or nobody's.
LEMMA LateAttempt ==
    ASSUME NEW a, NEW row, NEW run \in RunRow, NEW ex, NEW f, NEW n, NEW plan, PlanOK(plan),
           AttemptOK(a, row, run, ex, f, n), ex.pc = "working", run.outcome # "none",
           ~(row.state = "running" /\ row.token = ex.token)
    PROVE  AttemptOK(a, row, RunFinalizeUpdate(run, plan, TRUE), Ended("done"), f, n)
<1> DEFINE nrun == RunFinalizeUpdate(run, plan, TRUE)
<1>1. run.outcome \in {"started", "crashed"} /\ RunOK(run)
  BY DEF AttemptOK, PlaceOK
<1>2. /\ nrun.outcome = plan.outcome /\ nrun.superseded = TRUE /\ nrun.jobState = run.jobState
      /\ nrun.finishedAt = IF run.finishedAt = "null" THEN "finalize" ELSE run.finishedAt
  BY DEF RunFinalizeUpdate, RunRow
<1>3. Ended("done").pc = "done"
  BY DEF Ended
<1> HIDE DEF nrun
<1>4. RunOK(nrun)
  BY <1>1, <1>2 DEF RunOK, CrashedRun, PlanOK
<1>5. PlaceOK(a, row, nrun, Ended("done"))
  BY <1>2, <1>3 DEF AttemptOK, PlaceOK
<1>6. MatchOK(a, row, nrun, f, n)
  BY <1>2 DEF AttemptOK, PlaceOK, MatchOK
<1>7. AttemptOK(a, row, nrun, Ended("done"), f, n)
  BY <1>4, <1>5, <1>6 DEF AttemptOK
<1> QED
  BY <1>7 DEF nrun

\* A reclaim crashes the open run of the newest attempt; one without a run yet
\* leaves only the count of reclaims to tell.
LEMMA SweepAttempt ==
    ASSUME NEW a, NEW row, NEW new, NEW run \in RunRow, NEW nrun, NEW ex, NEW f, NEW n \in Nat,
           NEW state \in {"available", "discarded"},
           AttemptOK(a, row, run, ex, f, n), row.state = "running",
           new.state = state, new.attempt = row.attempt,
           nrun = IF a = row.attempt /\ run.outcome = "started"
                  THEN CrashedUpdate(run, state) ELSE run
    PROVE  AttemptOK(a, new, nrun, ex, f, n + 1)
<1>1. CASE a # row.attempt
  BY <1>1, OlderAttempt
<1>2. CASE a = row.attempt /\ run.outcome = "started"
  <2>1. /\ nrun.outcome = "crashed" /\ nrun.finishedAt = "sweep" /\ nrun.jobState = state
        /\ nrun.superseded = run.superseded /\ run.superseded = FALSE
    BY <1>2 DEF CrashedUpdate, RunRow, AttemptOK, RunOK
  <2>2. RunOK(nrun)
    BY <2>1 DEF RunOK, CrashedRun
  <2>3. PlaceOK(a, new, nrun, ex)
    BY <1>2, <2>1 DEF AttemptOK, PlaceOK
  <2>4. MatchOK(a, new, nrun, f, n + 1)
    BY <1>2, <2>1 DEF MatchOK, TerminalStates
  <2> QED
    BY <2>2, <2>3, <2>4 DEF AttemptOK
<1>3. CASE a = row.attempt /\ run.outcome # "started"
  <2>1. nrun = run /\ run.outcome = "none" /\ run.jobState = "null" /\ RunOK(run)
    BY <1>3 DEF AttemptOK, PlaceOK, RunOK
  <2>2. PlaceOK(a, new, nrun, ex)
    BY <1>3, <2>1 DEF AttemptOK, PlaceOK
  <2>3. MatchOK(a, new, nrun, f, n + 1)
    BY <1>3, <2>1 DEF MatchOK, TerminalStates
  <2> QED
    BY <2>1, <2>2, <2>3 DEF AttemptOK
<1> QED
  BY <1>1, <1>2, <1>3

\* The controls that set a state an attempt does not write: the enqueue's row,
\* which counts no attempt yet, is one more.
LEMMA RestateAttempt ==
    ASSUME NEW a, NEW row, NEW new, NEW run, NEW ex, NEW f, NEW g, NEW n,
           AttemptOK(a, row, run, ex, f, n), row.state # "deleted",
           new.attempt = row.attempt, new.state \in {"available", "paused", "cancelled"},
           g = 0 => f = 0 /\ row.state \notin TerminalStates
    PROVE  AttemptOK(a, new, run, ex, g, n)
BY DEF AttemptOK, PlaceOK, MatchOK

LEMMA DeleteAttempt ==
    ASSUME NEW a \in Nat \ {0}, NEW row, NEW new, NEW run, NEW ex, NEW f, NEW n,
           AttemptOK(a, row, run, ex, f, n), new.state = "deleted", new.attempt = 0
    PROVE  AttemptOK(a, new, NoRun, ex, f, n)
<1>1. RunOK(NoRun)
  BY DEF RunOK, NoRun, CrashedRun
<1>2. NoRun.outcome = "none"
  BY DEF NoRun
<1>3. PlaceOK(a, new, NoRun, ex)
  BY <1>2 DEF AttemptOK, PlaceOK
<1> QED
  BY <1>1, <1>3 DEF AttemptOK, MatchOK

----------------------------------------------------------------------------
(* The audit invariant is inductive. *)

\* What an action need not prove of a job it leaves alone.
LEMMA SameAttempt ==
    ASSUME AuditInv, NEW j \in Jobs, NEW a \in Attempts, job'[j] = job[j],
           runs'[j][a] = runs[j][a], exec'[j][a] = exec[j][a],
           forced'[j] = forced[j], reclaims'[j] = reclaims[j]
    PROVE  AttemptOK(a, job[j], runs[j][a], exec[j][a], forced[j], reclaims[j])'
BY DEF AuditInv

LEMMA AuditInit == Init => AuditInv
<1> SUFFICES ASSUME Init, NEW j \in Jobs, NEW a \in Attempts
             PROVE  AttemptOK(a, NoJob, NoRun, Ended("none"), 0, 0)
  BY DEF Init, AuditInv
<1>1. RunOK(NoRun)
  BY DEF RunOK, NoRun, CrashedRun
<1>2. PlaceOK(a, NoJob, NoRun, Ended("none"))
  BY DEF PlaceOK, NoJob, NoRun, Ended
<1>3. MatchOK(a, NoJob, NoRun, 0, 0)
  BY AttemptNumbers DEF MatchOK, NoJob
<1> QED
  BY <1>1, <1>2, <1>3 DEF AttemptOK

LEMMA AuditProduce == Inv /\ AuditInv /\ Produce => AuditInv'
<1> SUFFICES ASSUME Inv, AuditInv, NEW j \in Jobs, NEW max \in MaxAttempts, NEW now \in BOOLEAN,
                    Insert(j, max, now), NEW k \in Jobs, NEW a \in Attempts
             PROVE  AttemptOK(a, job[k], runs[k][a], exec[k][a], forced[k], reclaims[k])'
  BY DEF Produce, AuditInv
<1>1. /\ UNCHANGED <<runs, exec, forced, reclaims>>
      /\ k # j => job'[k] = job[k]
      /\ job'[j] = [NoJob EXCEPT !.state = "available", !.maxAttempts = max, !.due = now]
      /\ job[j].state = "absent" /\ job[j].attempt = 0
  BY DEF Insert, history, Inv, TypeOK, RowInv, RowOK
<1>2. job'[j].state = "available" /\ job'[j].attempt = 0
  BY <1>1 DEF NoJob
<1>3. CASE k = j
  <2>1. AttemptOK(a, job[j], runs[j][a], exec[j][a], forced[j], reclaims[j])
    BY DEF AuditInv
  <2>2. job[j].state \notin TerminalStates /\ job[j].state # "deleted"
    BY <1>1 DEF TerminalStates
  <2> QED
    BY <1>1, <1>2, <1>3, <2>1, <2>2, RestateAttempt, ZenonT(60)
<1> QED
  BY <1>1, <1>3, SameAttempt

LEMMA AuditClock == Inv /\ AuditInv /\ Clock => AuditInv'
<1> SUFFICES ASSUME Inv, AuditInv, NEW j \in Jobs, TimePasses(j) \/ LeaseLapses(j),
                    NEW k \in Jobs, NEW a \in Attempts
             PROVE  AttemptOK(a, job[k], runs[k][a], exec[k][a], forced[k], reclaims[k])'
  BY DEF Clock, AuditInv
<1>1. /\ UNCHANGED <<runs, exec, forced, reclaims>>
      /\ k # j => job'[k] = job[k]
      /\ job'[j] \in {[job[j] EXCEPT !.due = TRUE], [job[j] EXCEPT !.lease = "lapsed"]}
  BY DEF TimePasses, LeaseLapses, history, Inv, TypeOK
<1>2. /\ job'[j].state = job[j].state /\ job'[j].attempt = job[j].attempt
      /\ job'[j].token = job[j].token
  BY <1>1 DEF Inv, TypeOK, JobRow
<1>3. CASE k = j
  BY <1>1, <1>2, <1>3, SameRow DEF AuditInv
<1> QED
  BY <1>1, <1>3, SameAttempt

LEMMA AuditClaim == Inv /\ AuditInv /\ Claim => AuditInv'
<1> SUFFICES ASSUME Inv, AuditInv, NEW S \in SUBSET Jobs, NEW t \in Tokens, Dequeue(S, t),
                    NEW j \in Jobs, NEW a \in Attempts
             PROVE  AttemptOK(a, job[j], runs[j][a], exec[j][a], forced[j], reclaims[j])'
  BY DEF Claim, AuditInv
<1>1. /\ UNCHANGED <<runs, forced, reclaims>>
      /\ j \notin S => job'[j] = job[j] /\ exec'[j] = exec[j]
      /\ j \in S => /\ job'[j] = ClaimUpdate(job[j], t)
                     /\ exec'[j] = [exec[j] EXCEPT ![job[j].attempt + 1] =
                                       [pc |-> "claimed", token |-> t,
                                        max |-> job[j].maxAttempts]]
  BY DEF Dequeue, history
<1>2. job[j] \in JobRow /\ exec[j] \in [Attempts -> Exec]
  BY DEF Inv, TypeOK
<1>3. CASE j \in S
  <2>1. /\ job'[j].state = "running" /\ job'[j].attempt = job[j].attempt + 1
        /\ job'[j].token = t /\ job'[j].maxAttempts = job[j].maxAttempts
    BY <1>1, <1>2, <1>3 DEF ClaimUpdate, JobRow
  <2>2. exec'[j][a] = IF a = job[j].attempt + 1
                      THEN [pc |-> "claimed", token |-> job'[j].token, max |-> job'[j].maxAttempts]
                      ELSE exec[j][a]
    BY <1>1, <1>2, <1>3, <2>1
  <2>3. job[j].state # "deleted" /\ job[j].attempt \in Nat /\ a \in Nat
    BY <1>2, <1>3, AttemptNumbers, Constants
       DEF Dequeue, Claimable, ClaimableStates, WaitingStates, JobRow, ConstantAssumptions
  <2>4. AttemptOK(a, job[j], runs[j][a], exec[j][a], forced[j], reclaims[j])
    BY DEF AuditInv
  <2> QED
    BY <1>1, <2>1, <2>2, <2>3, <2>4, ClaimAttempt
<1> QED
  BY <1>1, <1>3, SameAttempt

LEMMA AuditAttempt == Inv /\ AuditInv /\ Attempt => AuditInv'
<1> SUFFICES ASSUME Inv, AuditInv, NEW j \in Jobs, NEW a \in Attempts,
                    \/ InsertRunStub(j, a)
                    \/ RenewLease(j, a)
                    \/ Abandon(j, a)
                    \/ \E r \in Results, due \in BOOLEAN : Finalize(j, a, r, due),
                    NEW k \in Jobs, NEW b \in Attempts
             PROVE  AttemptOK(b, job[k], runs[k][b], exec[k][b], forced[k], reclaims[k])'
  BY DEF Attempt, AuditInv
<1>1. /\ job[j] \in JobRow /\ runs[j][a] \in RunRow /\ exec[j][a] \in Exec /\ a \in Nat
      /\ job \in [Jobs -> JobRow] /\ runs \in [Jobs -> [Attempts -> RunRow]]
      /\ exec \in [Jobs -> [Attempts -> Exec]]
  BY AttemptNumbers DEF Inv, TypeOK
<1>2. AttemptOK(a, job[j], runs[j][a], exec[j][a], forced[j], reclaims[j])
  BY DEF AuditInv
<1>3. CASE InsertRunStub(j, a)
  <2>1. /\ UNCHANGED <<job, forced, reclaims>> /\ exec[j][a].pc = "claimed"
        /\ runs'[j][a] = [NoRun EXCEPT !.outcome = "started"]
        /\ exec'[j][a] = [exec[j][a] EXCEPT !.pc = "working"]
        /\ <<k, b>> # <<j, a>> => runs'[k][b] = runs[k][b] /\ exec'[k][b] = exec[k][b]
    BY <1>1, <1>3 DEF InsertRunStub, history
  <2>2. exec'[j][a].pc = "working" /\ exec'[j][a].token = exec[j][a].token
    BY <1>1, <2>1 DEF Exec
  <2>3. AttemptOK(a, job[j], runs'[j][a], exec'[j][a], forced[j], reclaims[j])
    BY <1>2, <2>1, <2>2, StubAttempt
  <2>4. CASE k = j /\ b = a
    BY <2>1, <2>3, <2>4
  <2> QED
    BY <2>1, <2>4, SameAttempt
<1>4. CASE RenewLease(j, a)
  <2>1. /\ UNCHANGED <<runs, exec, forced, reclaims>>
        /\ k # j => job'[k] = job[k]
        /\ job'[j] = [job[j] EXCEPT !.lease = "live"]
    BY <1>1, <1>4 DEF RenewLease, history
  <2>2. /\ job'[j].state = job[j].state /\ job'[j].attempt = job[j].attempt
        /\ job'[j].token = job[j].token
    BY <1>1, <2>1 DEF JobRow
  <2>3. CASE k = j
    BY <2>1, <2>2, <2>3, SameRow DEF AuditInv
  <2> QED
    BY <2>1, <2>3, SameAttempt
<1>5. CASE Abandon(j, a)
  <2>1. /\ UNCHANGED <<job, runs, forced, reclaims>>
        /\ exec[j][a].pc \in {"claimed", "working"}
        /\ exec'[j][a] = Ended("gone")
        /\ <<k, b>> # <<j, a>> => exec'[k][b] = exec[k][b]
    BY <1>1, <1>5 DEF Abandon, Live, history
  <2>2. CASE k = j /\ b = a
    BY <1>2, <2>1, <2>2, AbandonAttempt
  <2> QED
    BY <2>1, <2>2, SameAttempt
<1>6. ASSUME NEW r \in Results, NEW due \in BOOLEAN, Finalize(j, a, r, due)
      PROVE  AttemptOK(b, job[k], runs[k][b], exec[k][b], forced[k], reclaims[k])'
  <2> DEFINE plan == PlanFinalize(a, exec[j][a].max, r)
             new == JobFinalizeUpdate(job[j], plan, due)
  <2>1. /\ exec[j][a].pc = "working" /\ runs[j][a].outcome # "none"
        /\ UNCHANGED <<forced, reclaims>>
        /\ job' = IF HoldsClaim(j, a) THEN [job EXCEPT ![j] = new] ELSE job
        /\ runs'[j][a] = RunFinalizeUpdate(runs[j][a], plan, ~HoldsClaim(j, a))
        /\ exec'[j][a] = Ended("done")
        /\ <<k, b>> # <<j, a>> => runs'[k][b] = runs[k][b] /\ exec'[k][b] = exec[k][b]
    BY <1>1, <1>6 DEF Finalize, history
  <2>2. PlanOK(plan)
    BY PlanType DEF PlanOK
  <2> HIDE DEF plan
  <2>3. CASE ~HoldsClaim(j, a)
    <3>1. job' = job /\ runs'[j][a] = RunFinalizeUpdate(runs[j][a], plan, TRUE)
      BY <2>1, <2>3
    <3>2. CASE k = j /\ b = a
      BY <1>1, <1>2, <2>1, <2>2, <2>3, <3>1, <3>2, LateAttempt DEF HoldsClaim
    <3> QED
      BY <2>1, <3>1, <3>2, SameAttempt
  <2>4. CASE HoldsClaim(j, a)
    <3>1. job[j].attempt = a /\ job[j].state = "running"
      BY <2>1, <2>4 DEF Inv, FenceHolder, Live, HoldsClaim
    <3>2. /\ job'[j] = new /\ (k # j => job'[k] = job[k])
          /\ runs'[j][a] = RunFinalizeUpdate(runs[j][a], plan, FALSE)
      BY <1>1, <2>1, <2>4
    <3>3. new.state = plan.jobState /\ new.attempt = job[j].attempt
      BY <1>1 DEF JobFinalizeUpdate, JobRow
    <3> HIDE DEF new
    <3>4. CASE k = j /\ b = a
      <4>1. AttemptOK(a, job'[j], runs'[j][a], exec'[j][a], forced[j], reclaims[j])
        <5>1. /\ job'[j].state = plan.jobState /\ job'[j].attempt = a
              /\ ~(a > job'[j].attempt)
          BY <1>1, <3>1, <3>2, <3>3
        <5>2. runs[j][a] \in RunRow /\ exec[j][a].pc = "working" /\ exec'[j][a] = Ended("done")
          BY <1>1, <2>1
        <5>3. runs'[j][a] = RunFinalizeUpdate(runs[j][a], plan, FALSE)
          BY <3>2
        <5> QED
          BY <1>2, <2>2, <3>1, <5>1, <5>2, <5>3, SettleAttempt
      <4> QED
        BY <2>1, <3>4, <4>1
    <3>5. CASE k = j /\ b # a
      BY <2>1, <3>1, <3>2, <3>3, <3>5, OlderAttempt DEF AuditInv
    <3> QED
      BY <2>1, <3>2, <3>4, <3>5, SameAttempt
  <2> QED
    BY <2>3, <2>4
<1> QED
  BY <1>3, <1>4, <1>5, <1>6

LEMMA AuditSweep == Inv /\ AuditInv /\ Sweep => AuditInv'
<1> SUFFICES ASSUME Inv, AuditInv, NEW S \in SUBSET Jobs, SweepBatch(S),
                    NEW j \in Jobs, NEW a \in Attempts
             PROVE  AttemptOK(a, job[j], runs[j][a], exec[j][a], forced[j], reclaims[j])'
  BY DEF Sweep, AuditInv
<1>1. /\ exec' = exec /\ forced' = forced
      /\ job'[j] = IF j \in S THEN ReclaimUpdate(job[j], ReclaimState(j)) ELSE job[j]
      /\ reclaims'[j] = IF j \in S THEN reclaims[j] + 1 ELSE reclaims[j]
      /\ j \in S => job[j].state = "running"
  BY DEF SweepBatch, Expired
<1>2. runs'[j][a] = IF j \in S /\ StaleStub(j, a)
                    THEN CrashedUpdate(runs[j][a], ReclaimState(j)) ELSE runs[j][a]
  BY DEF SweepBatch
<1>3. /\ job[j] \in JobRow /\ runs[j][a] \in RunRow /\ reclaims[j] \in Nat
      /\ ReclaimState(j) \in {"available", "discarded"}
  BY DEF Inv, TypeOK, ReclaimState
<1>4. CASE j \in S
  <2>1. job'[j].state = ReclaimState(j) /\ job'[j].attempt = job[j].attempt
    BY <1>1, <1>3, <1>4 DEF ReclaimUpdate, JobRow
  <2>2. AttemptOK(a, job[j], runs[j][a], exec[j][a], forced[j], reclaims[j])
    BY DEF AuditInv
  <2> QED
    <3>1. runs'[j][a] = IF a = job[j].attempt /\ runs[j][a].outcome = "started"
                        THEN CrashedUpdate(runs[j][a], ReclaimState(j)) ELSE runs[j][a]
      BY <1>4, <1>2 DEF StaleStub
    <3>2. AttemptOK(a, job'[j], runs'[j][a], exec[j][a], forced[j], reclaims[j] + 1)
      BY <1>1, <1>3, <1>4, <2>1, <2>2, <3>1, SweepAttempt
    <3> QED
      BY <1>1, <1>4, <3>2
<1> QED
  BY <1>1, <1>4, <1>2, SameAttempt

LEMMA AuditControl == Inv /\ AuditInv /\ Control => AuditInv'
<1> SUFFICES ASSUME Inv, AuditInv, NEW j \in Jobs,
                    \/ \E o \in RetryOptions, due \in BOOLEAN : RetryJob(j, o, due)
                    \/ CancelJob(j) \/ PauseJob(j) \/ ResumeJob(j)
                    \/ \E due \in BOOLEAN : RescheduleJob(j, due)
                    \/ DeleteJob(j),
                    NEW k \in Jobs, NEW a \in Attempts
             PROVE  AttemptOK(a, job[k], runs[k][a], exec[k][a], forced[k], reclaims[k])'
  BY DEF Control, AuditInv
<1>1. /\ job[j] \in JobRow /\ forced[j] \in Nat
      /\ job \in [Jobs -> JobRow] /\ forced \in [Jobs -> Nat]
      /\ runs \in [Jobs -> [Attempts -> RunRow]]
  BY DEF Inv, TypeOK
<1>2. AttemptOK(a, job[j], runs[j][a], exec[j][a], forced[j], reclaims[j])
  BY DEF AuditInv
<1>3. ASSUME NEW o \in RetryOptions, NEW due \in BOOLEAN, RetryJob(j, o, due)
      PROVE  AttemptOK(a, job[k], runs[k][a], exec[k][a], forced[k], reclaims[k])'
  <2>1. /\ UNCHANGED <<runs, exec, reclaims>>
        /\ k # j => job'[k] = job[k] /\ forced'[k] = forced[k]
        /\ job'[j] = RetryUpdate(job[j], o, due)
        /\ forced'[j] = IF job[j].state \in WaitingStates THEN forced[j] ELSE forced[j] + 1
        /\ job[j].state \in RetryStates(o)
    BY <1>1, <1>3 DEF RetryJob
  <2>2. job'[j].state = "available" /\ job'[j].attempt = job[j].attempt
    BY <1>1, <2>1 DEF RetryUpdate, JobRow
  <2>3. job[j].state # "deleted" /\ (forced'[j] = 0 => forced[j] = 0 /\ job[j].state \notin TerminalStates)
    BY <1>1, <2>1 DEF RetryStates, WaitingStates, TerminalStates
  <2>4. CASE k = j
    BY <1>2, <2>1, <2>2, <2>3, <2>4, RestateAttempt
  <2> QED
    BY <2>1, <2>4, SameAttempt
<1>4. CASE CancelJob(j) \/ PauseJob(j) \/ ResumeJob(j)
  <2>1. /\ UNCHANGED <<runs, exec, forced, reclaims>>
        /\ k # j => job'[k] = job[k]
        /\ job[j].state \in NonTerminalStates
    BY <1>1, <1>4 DEF CancelJob, PauseJob, ResumeJob, history, ClaimableStates,
                      NonTerminalStates, WaitingStates
  <2>2. /\ job'[j].state \in {"available", "paused", "cancelled"}
        /\ job'[j].attempt = job[j].attempt
    <3>1. CASE CancelJob(j)
      BY <1>1, <3>1 DEF CancelJob, JobRow
    <3>2. CASE PauseJob(j) \/ ResumeJob(j)
      BY <1>1, <3>2 DEF PauseJob, ResumeJob, JobRow
    <3> QED
      BY <1>4, <3>1, <3>2
  <2>3. job[j].state # "deleted" /\ job[j].state \notin TerminalStates
    BY <2>1 DEF NonTerminalStates, WaitingStates, TerminalStates
  <2>4. CASE k = j
    BY <1>2, <2>1, <2>2, <2>3, <2>4, RestateAttempt
  <2> QED
    BY <2>1, <2>4, SameAttempt
<1>5. ASSUME NEW due \in BOOLEAN, RescheduleJob(j, due)
      PROVE  AttemptOK(a, job[k], runs[k][a], exec[k][a], forced[k], reclaims[k])'
  <2>1. /\ UNCHANGED <<runs, exec, forced, reclaims>>
        /\ k # j => job'[k] = job[k]
        /\ job'[j] = [job[j] EXCEPT !.due = due]
    BY <1>1, <1>5 DEF RescheduleJob, history
  <2>2. /\ job'[j].state = job[j].state /\ job'[j].attempt = job[j].attempt
        /\ job'[j].token = job[j].token
    BY <1>1, <2>1 DEF JobRow
  <2>3. CASE k = j
    BY <1>2, <2>1, <2>2, <2>3, SameRow
  <2> QED
    BY <2>1, <2>3, SameAttempt
<1>6. CASE DeleteJob(j)
  <2>1. /\ UNCHANGED <<exec, forced, reclaims>>
        /\ k # j => job'[k] = job[k] /\ runs'[k][a] = runs[k][a]
        /\ runs'[j][a] = NoRun
        /\ job'[j].state = "deleted" /\ job'[j].attempt = 0
    BY <1>1, <1>6 DEF DeleteJob, history, NoJob
  <2>2. CASE k = j
    BY <1>2, <2>1, <2>2, DeleteAttempt, AttemptNumbers
  <2> QED
    BY <2>1, <2>2, SameAttempt
<1> QED
  BY <1>3, <1>4, <1>5, <1>6

LEMMA AuditNext == Inv /\ AuditInv /\ [Next]_vars => AuditInv'
<1> SUFFICES ASSUME Inv, AuditInv, [Next]_vars PROVE AuditInv'
  OBVIOUS
<1>1. CASE UNCHANGED vars
  BY <1>1 DEF AuditInv, vars
<1> QED
  BY <1>1, AuditProduce, AuditClock, AuditClaim, AuditAttempt, AuditSweep, AuditControl DEF Next

LEMMA AuditInvariance == Spec => []AuditInv
BY AuditInit, AuditNext, Invariance, PTL DEF Spec

----------------------------------------------------------------------------
(* The finish log, and what the statistics counted. *)

LEMMA AuditMeaning == AuditInv => StateMatchesAudit
BY DEF AuditInv, AttemptOK, MatchOK, StateMatchesAudit

LogEntries ==
    \A j \in Jobs, a \in Attempts, w \in {"sweep", "finalize"} :
        <<j, a, w>> \in finishLog <=> runs[j][a].finishedAt = w

LEMMA LogMeaning == TypeOK => (FinishLogExact <=> LogEntries)
<1> SUFFICES ASSUME TypeOK PROVE FinishLogExact <=> LogEntries
  OBVIOUS
<1>1. finishLog \subseteq Jobs \X Attempts \X {"sweep", "finalize"}
  BY DEF TypeOK
<1>2. ASSUME FinishLogExact PROVE LogEntries
  BY <1>2 DEF FinishLogExact, LogEntries
<1>3. ASSUME LogEntries PROVE FinishLogExact
  <2>1. ASSUME NEW f \in Jobs \X Attempts \X {"sweep", "finalize"}
        PROVE  f \in finishLog <=> runs[f[1]][f[2]].finishedAt = f[3]
    <3>1. f = <<f[1], f[2], f[3]>> /\ f[1] \in Jobs /\ f[2] \in Attempts
          /\ f[3] \in {"sweep", "finalize"}
      BY <2>1
    <3> QED
      BY <1>3, <3>1 DEF LogEntries
  <2> QED
    BY <1>1, <2>1 DEF FinishLogExact
<1> QED
  BY <1>2, <1>3

\* The actions that leave every run and the log alone.
LEMMA RunsUntouched ==
    ASSUME Inv, Next, ~Sweep,
           ~\E j \in Jobs, a \in Attempts : InsertRunStub(j, a),
           ~\E j \in Jobs, a \in Attempts, r \in Results, due \in BOOLEAN : Finalize(j, a, r, due),
           ~\E j \in Jobs : DeleteJob(j)
    PROVE  runs' = runs /\ finishLog' = finishLog
<1>1. CASE Produce \/ Clock \/ Claim
  BY <1>1 DEF Produce, Insert, Clock, TimePasses, LeaseLapses, Claim, Dequeue
<1>2. CASE Attempt
  BY <1>2 DEF Attempt, RenewLease, Abandon
<1>3. CASE Control
  BY <1>3 DEF Control, RetryJob, CancelJob, PauseJob, ResumeJob, RescheduleJob
<1> QED
  BY <1>1, <1>2, <1>3 DEF Next

\* The transactions that write a run, and how.
StubWrite(j, a) ==
    /\ runs[j][a].outcome = "none" /\ runs'[j][a] = [NoRun EXCEPT !.outcome = "started"]
    /\ \A k \in Jobs, b \in Attempts : <<k, b>> # <<j, a>> => runs'[k][b] = runs[k][b]
    /\ finishLog' = finishLog

FinalizeWrite(j, a, plan) ==
    /\ PlanOK(plan)
    /\ \/ runs[j][a].outcome = "started"
       \/ runs[j][a].outcome = "crashed" /\ ~HoldsClaim(j, a)
    /\ runs'[j][a] = RunFinalizeUpdate(runs[j][a], plan, ~HoldsClaim(j, a))
    /\ \A k \in Jobs, b \in Attempts : <<k, b>> # <<j, a>> => runs'[k][b] = runs[k][b]
    /\ finishLog' = finishLog \cup {<<j, a, runs'[j][a].finishedAt>>}

LEMMA StubWrites ==
    ASSUME Inv, AuditInv, NEW j \in Jobs, NEW a \in Attempts, InsertRunStub(j, a)
    PROVE  StubWrite(j, a)
<1>1. AttemptOK(a, job[j], runs[j][a], exec[j][a], forced[j], reclaims[j])
  BY DEF AuditInv
<1>2. runs \in [Jobs -> [Attempts -> RunRow]]
  BY DEF Inv, TypeOK
<1> QED
  BY <1>1, <1>2 DEF StubWrite, InsertRunStub, AttemptOK, PlaceOK

LEMMA FinalizeWrites ==
    ASSUME Inv, AuditInv, NEW j \in Jobs, NEW a \in Attempts, NEW r \in Results,
           NEW due \in BOOLEAN, Finalize(j, a, r, due)
    PROVE  \E plan : FinalizeWrite(j, a, plan)
<1> DEFINE plan == PlanFinalize(a, exec[j][a].max, r)
           run == RunFinalizeUpdate(runs[j][a], plan, ~HoldsClaim(j, a))
<1>1. AttemptOK(a, job[j], runs[j][a], exec[j][a], forced[j], reclaims[j])
  BY DEF AuditInv
<1>2. /\ exec[j][a].pc = "working" /\ runs[j][a].outcome # "none"
      /\ runs' = [runs EXCEPT ![j][a] = run]
      /\ finishLog' = finishLog \cup {<<j, a, run.finishedAt>>}
  BY DEF Finalize
<1>3. PlanOK(plan)
  BY PlanType DEF PlanOK
<1>4. HoldsClaim(j, a) => job[j].state = "running" /\ job[j].attempt = a
  BY <1>2 DEF Inv, FenceHolder, Live, HoldsClaim
<1>5. \/ runs[j][a].outcome = "started"
      \/ runs[j][a].outcome = "crashed" /\ ~HoldsClaim(j, a)
  BY <1>1, <1>2, <1>4 DEF AttemptOK, PlaceOK
<1> HIDE DEF plan, run
<1>6. /\ runs'[j][a] = run
      /\ \A k \in Jobs, b \in Attempts : <<k, b>> # <<j, a>> => runs'[k][b] = runs[k][b]
  BY <1>2 DEF Inv, TypeOK
<1>7. run = RunFinalizeUpdate(runs[j][a], plan, ~HoldsClaim(j, a))
  BY DEF run
<1>8. FinalizeWrite(j, a, plan)
  BY <1>2, <1>3, <1>5, <1>6, <1>7 DEF FinalizeWrite
<1> QED
  BY <1>8

LEMMA SweepWrites ==
    ASSUME Inv, NEW S \in SUBSET Jobs, SweepBatch(S), NEW j \in Jobs, NEW a \in Attempts
    PROVE  /\ j \in S /\ StaleStub(j, a) =>
                 runs'[j][a] = CrashedUpdate(runs[j][a], ReclaimState(j))
           /\ ~(j \in S /\ StaleStub(j, a)) => runs'[j][a] = runs[j][a]
           /\ \A w : <<j, a, w>> \in finishLog' <=>
                   <<j, a, w>> \in finishLog \/ (w = "sweep" /\ j \in S /\ StaleStub(j, a))
<1>1. runs'[j][a] = IF j \in S /\ StaleStub(j, a)
                    THEN CrashedUpdate(runs[j][a], ReclaimState(j)) ELSE runs[j][a]
  BY DEF SweepBatch
<1>2. finishLog' = finishLog \cup
                     {f \in S \X Attempts \X {"sweep"} : StaleStub(f[1], f[2])}
  BY DEF SweepBatch
<1>3. ASSUME NEW w
      PROVE  <<j, a, w>> \in finishLog' <=>
               <<j, a, w>> \in finishLog \/ (w = "sweep" /\ j \in S /\ StaleStub(j, a))
  BY <1>2
<1> QED
  BY <1>1, <1>3

\* A finalize stamps an unfinished run, and changes nothing counted of a
\* crashed one.
LEMMA FinalizeRun ==
    ASSUME TypeOK, AuditInv, NEW j \in Jobs, NEW a \in Attempts, NEW plan,
           FinalizeWrite(j, a, plan)
    PROVE  /\ runs[j][a].finishedAt = "null" => runs'[j][a].finishedAt = "finalize"
           /\ runs[j][a].finishedAt # "null" =>
                 /\ runs'[j][a].finishedAt = runs[j][a].finishedAt
                 /\ runs'[j][a].jobState = runs[j][a].jobState
                 /\ CrashedRun(runs'[j][a]) /\ CrashedRun(runs[j][a])
<1> DEFINE run == runs[j][a]
           late == ~HoldsClaim(j, a)
<1>1. run \in RunRow /\ RunOK(run)
  BY DEF TypeOK, AuditInv, AttemptOK
<1>2. runs'[j][a] = RunFinalizeUpdate(run, plan, late)
  BY DEF FinalizeWrite
<1>3. run.finishedAt # "null" => late /\ run.outcome = "crashed"
  BY <1>1 DEF FinalizeWrite, RunOK
<1> HIDE DEF run, late
<1>4. /\ runs'[j][a].superseded = late
      /\ runs'[j][a].finishedAt = IF run.finishedAt = "null" THEN "finalize" ELSE run.finishedAt
      /\ runs'[j][a].jobState = IF late THEN run.jobState ELSE plan.jobState
  BY <1>1, <1>2 DEF RunFinalizeUpdate, RunRow
<1>5. /\ run.finishedAt = "null" => runs'[j][a].finishedAt = "finalize"
      /\ run.finishedAt # "null" =>
                 /\ runs'[j][a].finishedAt = run.finishedAt
                 /\ runs'[j][a].jobState = run.jobState
                 /\ CrashedRun(runs'[j][a]) /\ CrashedRun(run)
  BY <1>1, <1>3, <1>4 DEF CrashedRun, RunOK
<1> QED
  BY <1>5 DEF run

LEMMA StaleStubOpen ==
    ASSUME AuditInv, NEW j \in Jobs, NEW a \in Attempts, StaleStub(j, a)
    PROVE  runs[j][a].finishedAt = "null"
BY DEF AuditInv, AttemptOK, RunOK, StaleStub

LEMMA LogNext == Inv /\ AuditInv /\ FinishLogExact /\ [Next]_vars => FinishLogExact'
<1> SUFFICES ASSUME Inv, AuditInv, LogEntries, [Next]_vars
             PROVE  LogEntries'
  <2>1. (TypeOK => (FinishLogExact <=> LogEntries))'
    BY LogMeaning, PTL
  <2> QED
    BY <2>1, InvNext, LogMeaning DEF Inv
<1> SUFFICES ASSUME NEW k \in Jobs, NEW b \in Attempts, NEW w \in {"sweep", "finalize"}
             PROVE  <<k, b, w>> \in finishLog' <=> runs'[k][b].finishedAt = w
  BY DEF LogEntries
<1>1. <<k, b, w>> \in finishLog <=> runs[k][b].finishedAt = w
  BY DEF LogEntries
<1>2. TypeOK /\ RunOK(runs[k][b]) /\ runs[k][b] \in RunRow
  BY DEF Inv, TypeOK, AuditInv, AttemptOK
<1>3. ASSUME NEW j \in Jobs, NEW a \in Attempts, InsertRunStub(j, a)
      PROVE  <<k, b, w>> \in finishLog' <=> runs'[k][b].finishedAt = w
  <2>1. StubWrite(j, a)
    BY <1>3, StubWrites
  <2>2. CASE k = j /\ b = a
    BY <1>1, <1>2, <2>1, <2>2 DEF StubWrite, RunOK, NoRun
  <2> QED
    BY <1>1, <2>1, <2>2 DEF StubWrite
<1>4. ASSUME NEW j \in Jobs, NEW a \in Attempts, NEW r \in Results, NEW due \in BOOLEAN,
             Finalize(j, a, r, due)
      PROVE  <<k, b, w>> \in finishLog' <=> runs'[k][b].finishedAt = w
  <2> PICK plan : FinalizeWrite(j, a, plan)
    BY <1>4, FinalizeWrites
  <2>1. finishLog' = finishLog \cup {<<j, a, runs'[j][a].finishedAt>>}
    BY DEF FinalizeWrite
  <2>2. CASE k = j /\ b = a
    <3>1. \/ runs[j][a].finishedAt = "null"
          \/ runs'[j][a].finishedAt = runs[j][a].finishedAt
      BY <1>2, FinalizeRun
    <3> QED
      BY <1>1, <2>1, <2>2, <3>1
  <2>3. CASE <<k, b>> # <<j, a>>
    BY <1>1, <2>1, <2>3 DEF FinalizeWrite
  <2> QED
    BY <2>2, <2>3
<1>5. CASE Sweep
  <2> PICK S \in SUBSET Jobs : SweepBatch(S)
    BY <1>5 DEF Sweep
  <2>1. CASE k \in S /\ StaleStub(k, b)
    <3>1. runs'[k][b] = CrashedUpdate(runs[k][b], ReclaimState(k))
      BY <2>1, SweepWrites
    <3>2. runs'[k][b].finishedAt = "sweep"
      BY <1>2, <3>1 DEF CrashedUpdate, RunRow
    <3>3. runs[k][b].finishedAt = "null"
      BY <2>1, StaleStubOpen
    <3> QED
      BY <1>1, <2>1, <3>2, <3>3, SweepWrites
  <2>2. CASE ~(k \in S /\ StaleStub(k, b))
    BY <1>1, <2>2, SweepWrites
  <2> QED
    BY <2>1, <2>2
<1>6. ASSUME NEW j \in Jobs, DeleteJob(j)
      PROVE  <<k, b, w>> \in finishLog' <=> runs'[k][b].finishedAt = w
  BY <1>1, <1>2, <1>6 DEF DeleteJob, NoRun, TypeOK
<1>7. CASE runs' = runs /\ finishLog' = finishLog
  BY <1>1, <1>7
<1> QED
  BY <1>3, <1>4, <1>5, <1>6, <1>7, RunsUntouched DEF vars

\* The statistics' step: what CountedRunStable asks of one transaction.
CountedStep ==
    \A j \in Jobs, a \in Attempts :
        runs[j][a].finishedAt # "null" /\ job'[j].state # "deleted" =>
            /\ runs'[j][a].finishedAt = runs[j][a].finishedAt
            /\ runs'[j][a].jobState = runs[j][a].jobState
            /\ CrashedRun(runs'[j][a]) = CrashedRun(runs[j][a])

LEMMA CountedNext == Inv /\ AuditInv /\ [Next]_vars => CountedStep
<1> SUFFICES ASSUME Inv, AuditInv, [Next]_vars, NEW k \in Jobs, NEW b \in Attempts,
                    runs[k][b].finishedAt # "null", job'[k].state # "deleted",
                    runs'[k][b] # runs[k][b]
             PROVE  /\ runs'[k][b].finishedAt = runs[k][b].finishedAt
                    /\ runs'[k][b].jobState = runs[k][b].jobState
                    /\ CrashedRun(runs'[k][b]) = CrashedRun(runs[k][b])
  BY DEF CountedStep
<1>1. TypeOK /\ RunOK(runs[k][b])
  BY DEF Inv, AuditInv, AttemptOK
<1>2. ASSUME NEW j \in Jobs, NEW a \in Attempts, InsertRunStub(j, a)
      PROVE  FALSE
  BY <1>1, <1>2, StubWrites DEF StubWrite, RunOK
<1>3. ASSUME NEW j \in Jobs, NEW a \in Attempts, NEW r \in Results, NEW due \in BOOLEAN,
             Finalize(j, a, r, due)
      PROVE  /\ runs'[k][b].finishedAt = runs[k][b].finishedAt
             /\ runs'[k][b].jobState = runs[k][b].jobState
             /\ CrashedRun(runs'[k][b]) = CrashedRun(runs[k][b])
  <2> PICK plan : FinalizeWrite(j, a, plan)
    BY <1>3, FinalizeWrites
  <2>1. k = j /\ b = a
    BY DEF FinalizeWrite
  <2>2. /\ runs'[k][b].finishedAt = runs[k][b].finishedAt
        /\ runs'[k][b].jobState = runs[k][b].jobState
        /\ CrashedRun(runs'[k][b]) /\ CrashedRun(runs[k][b])
    BY <1>1, <2>1, FinalizeRun
  <2>3. CrashedRun(runs'[k][b]) \in BOOLEAN /\ CrashedRun(runs[k][b]) \in BOOLEAN
    BY DEF CrashedRun
  <2> QED
    BY <2>2, <2>3
<1>4. CASE Sweep
  <2> PICK S \in SUBSET Jobs : SweepBatch(S)
    BY <1>4 DEF Sweep
  <2>1. StaleStub(k, b)
    BY SweepWrites
  <2> QED
    BY <2>1, StaleStubOpen
<1>5. ASSUME NEW j \in Jobs, DeleteJob(j)
      PROVE  FALSE
  BY <1>1, <1>5 DEF DeleteJob, TypeOK, NoJob
<1> QED
  BY <1>2, <1>3, <1>4, <1>5, RunsUntouched DEF vars

\* The audit is exact in every reachable state and never rewritten: the newest
\* attempt's run says what the jobs row says, the finish log holds one entry per
\* finished run with that run's own time, and a late finalize, a sweep or a retry
\* changes nothing the statistics have counted.
THEOREM AuditSafety == Spec => AuditExact
<1>1. Init => FinishLogExact
  BY DEF Init, FinishLogExact, NoRun
<1>2. Spec => []FinishLogExact
  BY <1>1, LogNext, Invariance, AuditInvariance, PTL DEF Spec
<1>3. Spec => [][CountedStep]_vars
  BY CountedNext, Invariance, AuditInvariance, PTL DEF Spec
<1>4. Spec => []StateMatchesAudit
  BY AuditMeaning, AuditInvariance, PTL
<1> QED
  BY <1>2, <1>3, <1>4, PTL DEF AuditExact, CountedRunStable, CountedStep

----------------------------------------------------------------------------
(* Which attempts of one job may be at work together. *)

\* A job none of whose attempts are at work meets the invariant.
LEMMA NoneLive ==
    ASSUME NEW j \in Jobs, \A a \in Attempts : ~Live(j, a)'
    PROVE  AloneOK(j)'
BY DEF AloneOK

\* Attempts may end; nothing else the invariant reads changes.
LEMMA FewerLive ==
    ASSUME NEW j \in Jobs, AloneOK(j), excused'[j] = excused[j],
           job'[j].state = job[j].state, job'[j].attempt = job[j].attempt,
           \A a \in Attempts : Live(j, a)' => /\ Live(j, a) /\ exec'[j][a].pc = exec[j][a].pc
                                              /\ runs'[j][a].outcome = runs[j][a].outcome
    PROVE  AloneOK(j)'
BY DEF AloneOK

\* A waiting, absent or finished job with no excuse has nobody at work.
LEMMA Idle ==
    ASSUME NEW j \in Jobs, AloneOK(j), excused[j] = {},
           job[j].state \notin {"running", "cancelled", "deleted"}
    PROVE  \A a \in Attempts : ~Live(j, a)
BY DEF AloneOK

LEMMA AloneInit == Init => Alone
<1> SUFFICES ASSUME Init, NEW j \in Jobs, NEW a \in Attempts PROVE ~Live(j, a)
  BY DEF Alone, AloneOK
<1> QED
  BY DEF Init, Live, Ended

LEMMA AloneProduce == Inv /\ Alone /\ Produce => Alone'
<1> SUFFICES ASSUME Inv, Alone, NEW j \in Jobs, NEW max \in MaxAttempts, NEW now \in BOOLEAN,
                    Insert(j, max, now), NEW k \in Jobs
             PROVE  AloneOK(k)'
  BY DEF Produce, Alone
<1>1. /\ UNCHANGED <<runs, exec, excused>> /\ job[j].state = "absent"
      /\ k # j => job'[k] = job[k]
  BY DEF Insert, history, Inv, TypeOK
<1>2. AloneOK(k)
  BY DEF Alone
<1>3. CASE k = j
  <2>1. excused[j] = {} => \A a \in Attempts : ~Live(j, a)
    BY <1>1, <1>2, <1>3, Idle
  <2> QED
    BY <1>1, <1>3, <2>1 DEF AloneOK, Live
<1>4. CASE k # j
  BY <1>1, <1>2, <1>4, FewerLive DEF Live
<1> QED
  BY <1>3, <1>4

LEMMA AloneClock == Inv /\ Alone /\ Clock => Alone'
<1> SUFFICES ASSUME Inv, Alone, NEW j \in Jobs, TimePasses(j) \/ LeaseLapses(j), NEW k \in Jobs
             PROVE  AloneOK(k)'
  BY DEF Clock, Alone
<1>1. /\ UNCHANGED <<runs, exec, excused>>
      /\ k # j => job'[k] = job[k]
      /\ job'[j] \in {[job[j] EXCEPT !.due = TRUE], [job[j] EXCEPT !.lease = "lapsed"]}
  BY DEF TimePasses, LeaseLapses, history, Inv, TypeOK
<1>2. job'[k].state = job[k].state /\ job'[k].attempt = job[k].attempt
  BY <1>1 DEF Inv, TypeOK, JobRow
<1> QED
  BY <1>1, <1>2, FewerLive DEF Alone, Live

LEMMA AloneClaim == Inv /\ Alone /\ Claim => Alone'
<1> SUFFICES ASSUME Inv, Alone, NEW S \in SUBSET Jobs, NEW t \in Tokens, Dequeue(S, t),
                    NEW j \in Jobs
             PROVE  AloneOK(j)'
  BY DEF Claim, Alone
<1>1. /\ UNCHANGED <<runs, excused>>
      /\ j \notin S => job'[j] = job[j] /\ exec'[j] = exec[j]
      /\ j \in S => /\ job'[j] = ClaimUpdate(job[j], t)
                     /\ exec'[j] = [exec[j] EXCEPT ![job[j].attempt + 1] =
                                       [pc |-> "claimed", token |-> t,
                                        max |-> job[j].maxAttempts]]
                     /\ job[j].state \in ClaimableStates
  BY DEF Dequeue, Claimable, history
<1>2. AloneOK(j) /\ job[j] \in JobRow /\ exec[j] \in [Attempts -> Exec]
  BY DEF Alone, Inv, TypeOK
<1>3. CASE j \notin S
  BY <1>1, <1>2, <1>3, FewerLive DEF Live
<1>4. CASE j \in S /\ excused[j] = {}
  <2>1. \A a \in Attempts : ~Live(j, a)
    BY <1>1, <1>2, <1>4, Idle DEF ClaimableStates, WaitingStates
  <2>2. job'[j].state = "running" /\ job'[j].attempt = job[j].attempt + 1
    BY <1>1, <1>2, <1>4 DEF ClaimUpdate, JobRow
  <2>3. \A a \in Attempts : Live(j, a)' => a = job[j].attempt + 1 /\ exec'[j][a].pc = "claimed"
    BY <1>1, <1>2, <1>4, <2>1 DEF Live
  <2> QED
    BY <2>2, <2>3 DEF AloneOK
<1> QED
  BY <1>1, <1>3, <1>4 DEF AloneOK

LEMMA AloneAttempt == Inv /\ Alone /\ Attempt => Alone'
<1> SUFFICES ASSUME Inv, Alone, NEW j \in Jobs, NEW a \in Attempts,
                    \/ InsertRunStub(j, a)
                    \/ RenewLease(j, a)
                    \/ Abandon(j, a)
                    \/ \E r \in Results, due \in BOOLEAN : Finalize(j, a, r, due),
                    NEW k \in Jobs
             PROVE  AloneOK(k)'
  BY DEF Attempt, Alone
<1>1. /\ AloneOK(k) /\ job \in [Jobs -> JobRow] /\ runs \in [Jobs -> [Attempts -> RunRow]]
      /\ exec \in [Jobs -> [Attempts -> Exec]] /\ job[j] \in JobRow /\ exec[j][a] \in Exec
  BY DEF Alone, Inv, TypeOK
<1>2. CASE InsertRunStub(j, a)
  <2>1. /\ UNCHANGED <<job, excused>> /\ exec[j][a].pc = "claimed"
        /\ runs'[j][a].outcome = "started" /\ exec'[j][a].pc = "working"
        /\ \A b \in Attempts : <<k, b>> # <<j, a>> =>
              runs'[k][b] = runs[k][b] /\ exec'[k][b] = exec[k][b]
    BY <1>1, <1>2 DEF InsertRunStub, history, NoRun, Exec
  <2>2. \A b \in Attempts : Live(k, b)' <=> Live(k, b)
    BY <2>1 DEF Live
  <2>3. \A b \in Attempts : exec'[k][b].pc = "working" /\ runs'[k][b].outcome # "started" =>
           exec[k][b].pc = "working" /\ runs[k][b].outcome # "started"
    BY <2>1
  <2> QED
    BY <1>1, <2>1, <2>2, <2>3 DEF AloneOK
<1>3. CASE RenewLease(j, a)
  <2>1. /\ UNCHANGED <<runs, exec, excused>> /\ (k # j => job'[k] = job[k])
        /\ job'[j] = [job[j] EXCEPT !.lease = "live"]
    BY <1>1, <1>3 DEF RenewLease, history
  <2>2. job'[k].state = job[k].state /\ job'[k].attempt = job[k].attempt
    BY <1>1, <2>1 DEF JobRow
  <2> QED
    BY <1>1, <2>1, <2>2, FewerLive DEF Live
<1>4. CASE Abandon(j, a)
  <2>1. /\ UNCHANGED <<job, runs, excused>>
        /\ \A b \in Attempts : Live(k, b)' => exec'[k][b] = exec[k][b]
    BY <1>1, <1>4 DEF Abandon, Live, Ended, history
  <2> QED
    BY <1>1, <2>1, FewerLive DEF Live
<1>5. ASSUME NEW r \in Results, NEW due \in BOOLEAN, Finalize(j, a, r, due)
      PROVE  AloneOK(k)'
  <2>1. /\ exec[j][a].pc = "working" /\ excused' = excused
        /\ exec' = [exec EXCEPT ![j][a] = Ended("done")]
        /\ k # j => job'[k] = job[k]
        /\ \A b \in Attempts : <<k, b>> # <<j, a>> => runs'[k][b] = runs[k][b]
    BY <1>1, <1>5 DEF Finalize, history
  <2>2. \A b \in Attempts : Live(k, b)' => <<k, b>> # <<j, a>> /\ exec'[k][b] = exec[k][b]
    BY <1>1, <2>1 DEF Live, Ended
  <2>3. CASE k # j
    BY <1>1, <2>1, <2>2, <2>3, FewerLive DEF Live
  <2>4. CASE k = j /\ excused[j] = {}
    <3>1. \A b \in Attempts : Live(j, b) => b = a
      BY <1>1, <2>1, <2>4 DEF AloneOK, Live
    <3> QED
      BY <2>2, <2>4, <3>1, NoneLive DEF Live
  <2> QED
    BY <2>1, <2>3, <2>4 DEF AloneOK
<1> QED
  BY <1>2, <1>3, <1>4, <1>5

LEMMA AloneSweep == Inv /\ Alone /\ Sweep => Alone'
<1> SUFFICES ASSUME Inv, Alone, NEW S \in SUBSET Jobs, SweepBatch(S), NEW j \in Jobs
             PROVE  AloneOK(j)'
  BY DEF Sweep, Alone
<1>1. /\ exec' = exec
      /\ excused'[j] = IF j \in S /\ \E a \in Attempts : Live(j, a)
                       THEN excused[j] \cup {"lapse"} ELSE excused[j]
      /\ j \notin S => job'[j] = job[j]
      /\ j \notin S => \A a \in Attempts : runs'[j][a] = runs[j][a]
  BY DEF SweepBatch
<1>2. CASE j \in S /\ \E a \in Attempts : Live(j, a)
  BY <1>1, <1>2 DEF AloneOK
<1>3. CASE \A a \in Attempts : ~Live(j, a)
  BY <1>1, <1>3, NoneLive DEF Live
<1>4. CASE j \notin S
  BY <1>1, <1>4, FewerLive DEF Alone, Live
<1> QED
  BY <1>2, <1>3, <1>4

LEMMA AloneControl == Inv /\ Alone /\ Control => Alone'
<1> SUFFICES ASSUME Inv, Alone, NEW j \in Jobs,
                    \/ \E o \in RetryOptions, due \in BOOLEAN : RetryJob(j, o, due)
                    \/ CancelJob(j) \/ PauseJob(j) \/ ResumeJob(j)
                    \/ \E due \in BOOLEAN : RescheduleJob(j, due)
                    \/ DeleteJob(j),
                    NEW k \in Jobs
             PROVE  AloneOK(k)'
  BY DEF Control, Alone
<1>1. /\ AloneOK(k) /\ job[j] \in JobRow /\ job \in [Jobs -> JobRow]
      /\ runs \in [Jobs -> [Attempts -> RunRow]]
      /\ excused \in [Jobs -> SUBSET {"lapse", "allowRunning", "window"}]
  BY DEF Alone, Inv, TypeOK
\* No control touches an attempt, or another job.
<1>2. /\ exec' = exec
      /\ k # j => /\ job'[k] = job[k] /\ excused'[k] = excused[k]
                  /\ \A a \in Attempts : runs'[k][a] = runs[k][a]
  BY <1>1 DEF RetryJob, CancelJob, PauseJob, ResumeJob, RescheduleJob, DeleteJob, history
<1>3. CASE k # j
  BY <1>1, <1>2, <1>3, FewerLive DEF Live
<1>4. ASSUME NEW o \in RetryOptions, NEW due \in BOOLEAN, RetryJob(j, o, due), k = j
      PROVE  AloneOK(j)'
  <2> SUFFICES ASSUME excused[j] = {}, RetryExcuse(j, o) = {}, NEW a \in Attempts, Live(j, a)
               PROVE  FALSE
    <3>1. excused'[j] = excused[j] \cup RetryExcuse(j, o)
      BY <1>1, <1>4 DEF RetryJob
    <3> QED
      BY <1>2, <3>1 DEF AloneOK, Live
  <2>1. /\ job[j].state \in RetryStates(o)
        /\ ~(job[j].state = "cancelled" /\ ~o.allowRunning /\ AttemptStillRuns(j))
    BY <1>4 DEF RetryJob
  <2>2. /\ a = job[j].attempt /\ job[j].state \in {"running", "cancelled"}
        /\ exec[j][a].pc = "working" => runs[j][a].outcome = "started"
    BY <1>1, <1>4, <2>1 DEF AloneOK, RetryStates, WaitingStates, TerminalStates
  <2>3. ~o.allowRunning /\ exec[j][a].pc # "claimed"
    BY <2>2 DEF RetryExcuse
  <2>4. exec[j][a].pc = "working" /\ job[j].state = "cancelled"
    BY <2>1, <2>2, <2>3 DEF Live, RetryStates, WaitingStates, TerminalStates
  <2> QED
    BY <2>1, <2>2, <2>3, <2>4 DEF AttemptStillRuns
<1>5. CASE CancelJob(j) /\ k = j
  <2>1. /\ UNCHANGED <<runs, excused>> /\ job'[j].state = "cancelled"
        /\ job'[j].attempt = job[j].attempt /\ job[j].state # "deleted"
    BY <1>1, <1>5 DEF CancelJob, history, JobRow, NonTerminalStates, WaitingStates
  <2> QED
    BY <1>1, <1>2, <1>5, <2>1 DEF AloneOK, Live
<1>6. CASE (PauseJob(j) \/ ResumeJob(j) \/ \E due \in BOOLEAN : RescheduleJob(j, due)) /\ k = j
  <2>1. UNCHANGED excused /\ job[j].state \in WaitingStates
    BY <1>6 DEF PauseJob, ResumeJob, RescheduleJob, history, ClaimableStates, WaitingStates
  <2>2. excused[j] = {} => \A a \in Attempts : ~Live(j, a)
    BY <1>1, <1>6, <2>1, Idle DEF WaitingStates
  <2> QED
    BY <1>2, <1>6, <2>1, <2>2 DEF AloneOK, Live
<1>7. CASE DeleteJob(j) /\ k = j
  <2>1. UNCHANGED excused /\ job'[j].state = "deleted"
    BY <1>1, <1>7 DEF DeleteJob, history, NoJob
  <2> QED
    BY <1>1, <1>2, <1>7, <2>1 DEF AloneOK, Live
<1> QED
  BY <1>3, <1>4, <1>5, <1>6, <1>7

\* Two workers run one job at once only where the contract says they may: a
\* lease lapsed under a live attempt, AllowRunning, or the window between a
\* claim and its run stub.
THEOREM OverlapSafety == Spec => []OverlapExcused
<1>1. Inv /\ Alone /\ [Next]_vars => Alone'
  <2> SUFFICES ASSUME Inv, Alone, [Next]_vars PROVE Alone'
    OBVIOUS
  <2>1. CASE UNCHANGED vars
    BY <2>1 DEF Alone, AloneOK, Live, vars
  <2> QED
    BY <2>1, AloneProduce, AloneClock, AloneClaim, AloneAttempt, AloneSweep, AloneControl DEF Next
<1>2. Alone => OverlapExcused
  BY DEF Alone, AloneOK, OverlapExcused, Overlap, Live
<1> QED
  BY <1>1, <1>2, AloneInit, Invariance, PTL DEF Spec

----------------------------------------------------------------------------
(* The crash budget: the sweep counts a job's crashed runs, and AuditInv     *)
(* says those are exactly the runs it stamped.                               *)

CrashOK(j) ==
    /\ Cardinality(SweptRuns(j)) <= reclaims[j]
    /\ MaxCrashes > 0 =>
          /\ Cardinality(SweptRuns(j)) <= MaxCrashes + forced[j]
          /\ job[j].state \in NonTerminalStates =>
                Cardinality(SweptRuns(j)) < MaxCrashes + forced[j]

LEMMA SweptFinite ==
    ASSUME NEW S \in SUBSET Attempts
    PROVE  IsFiniteSet(S) /\ Cardinality(S) \in Nat
BY AttemptNumbers, FS_Subset, FS_CardinalityType

\* No stamp added or taken away: the budget holds as before, or better.
LEMMA SameSwept ==
    ASSUME Inv, NEW j \in Jobs, CrashOK(j), SweptRuns(j)' = SweptRuns(j),
           reclaims'[j] = reclaims[j], forced'[j] \in {forced[j], forced[j] + 1},
           job'[j].state \in NonTerminalStates =>
               \/ job[j].state \in NonTerminalStates
               \/ forced'[j] = forced[j] + 1
               \/ SweptRuns(j) = {}
    PROVE  CrashOK(j)'
<1>1. /\ Cardinality(SweptRuns(j)) \in Nat /\ forced[j] \in Nat /\ reclaims[j] \in Nat
      /\ MaxCrashes \in Nat
  BY SweptFinite, BudgetAssumption DEF SweptRuns, Inv, TypeOK
<1>2. SweptRuns(j) = {} => Cardinality(SweptRuns(j)) = 0
  BY FS_EmptySet
<1>3. Cardinality(SweptRuns(j))' = Cardinality(SweptRuns(j))
  OBVIOUS
<1> QED
  BY <1>1, <1>2, <1>3 DEF CrashOK

LEMMA SweptUntouched ==
    ASSUME NEW j \in Jobs, \A a \in Attempts : runs'[j][a].finishedAt = "sweep" <=> runs[j][a].finishedAt = "sweep"
    PROVE  SweptRuns(j)' = SweptRuns(j)
BY DEF SweptRuns

LEMMA CrashInit == Init => CrashBudgetKept
<1> SUFFICES ASSUME Init, NEW j \in Jobs PROVE CrashOK(j)
  BY DEF CrashBudgetKept, CrashOK
<1>1. SweptRuns(j) = {}
  BY DEF Init, SweptRuns, NoRun
<1>2. Cardinality(SweptRuns(j)) = 0
  BY <1>1, FS_EmptySet
<1> QED
  BY <1>2, BudgetAssumption DEF Init, CrashOK, NoJob

LEMMA CrashSweep ==
    ASSUME Inv, AuditInv, CrashBudgetKept, NEW S \in SUBSET Jobs, SweepBatch(S), NEW j \in Jobs
    PROVE  CrashOK(j)'
<1>1. /\ forced' = forced
      /\ job'[j] = IF j \in S THEN ReclaimUpdate(job[j], ReclaimState(j)) ELSE job[j]
      /\ reclaims'[j] = IF j \in S THEN reclaims[j] + 1 ELSE reclaims[j]
      /\ j \in S => job[j].state = "running"
  BY DEF SweepBatch, Expired
<1>2. CrashOK(j) /\ job[j] \in JobRow /\ \A a \in Attempts : runs[j][a] \in RunRow
  BY DEF CrashBudgetKept, CrashOK, Inv, TypeOK
<1>3. CASE j \notin S
  <2>1. SweptRuns(j)' = SweptRuns(j)
    BY <1>3, SweepWrites, SweptUntouched
  <2> QED
    BY <1>1, <1>2, <1>3, <2>1, SameSwept
<1>4. CASE j \in S
  <2> DEFINE n == Cardinality(SweptRuns(j))
             m == Cardinality(SweptRuns(j)')
  <2>1. n \in Nat /\ m \in Nat /\ IsFiniteSet(SweptRuns(j))
    BY SweptFinite DEF SweptRuns
  <2>2. SweptRuns(j)' \subseteq SweptRuns(j) \cup {job[j].attempt}
    <3> SUFFICES ASSUME NEW a \in Attempts, runs'[j][a].finishedAt = "sweep",
                        runs[j][a].finishedAt # "sweep"
                 PROVE  a = job[j].attempt
      BY DEF SweptRuns
    <3>1. StaleStub(j, a)
      BY SweepWrites
    <3> QED
      BY <3>1 DEF StaleStub
  <2>3. m <= n + 1
    <3>1. /\ IsFiniteSet(SweptRuns(j) \cup {job[j].attempt})
          /\ Cardinality(SweptRuns(j) \cup {job[j].attempt}) \in {n, n + 1}
      BY <2>1, FS_AddElement
    <3>2. m <= Cardinality(SweptRuns(j) \cup {job[j].attempt})
      BY <2>2, <3>1, FS_Subset
    <3> HIDE DEF n, m
    <3> QED
      BY <2>1, <3>1, <3>2
  <2>4. EarlierCrashes(j) = n
    <3>1. \A a \in Attempts : CrashedRun(runs[j][a]) <=> runs[j][a].finishedAt = "sweep"
      BY DEF AuditInv, AttemptOK, RunOK
    <3>2. {a \in Attempts : CrashedRun(runs[j][a])} = SweptRuns(j)
      BY <3>1 DEF SweptRuns
    <3> QED
      BY <3>2 DEF EarlierCrashes
  <2>5. /\ ReclaimState(j) \in {"available", "discarded"}
        /\ ReclaimState(j) = "available" => ~(MaxCrashes > 0 /\ 1 + n >= MaxCrashes)
    BY <2>4 DEF ReclaimState, CrashBudgetSpent
  <2>6. job'[j].state = ReclaimState(j)
    BY <1>1, <1>2, <1>4 DEF ReclaimUpdate, JobRow
  <2>7. /\ n <= reclaims[j]
        /\ MaxCrashes > 0 => n < MaxCrashes + forced[j]
    BY <1>1, <1>2, <1>4 DEF CrashOK, NonTerminalStates
  <2>8. forced[j] \in Nat /\ reclaims[j] \in Nat /\ MaxCrashes \in Nat
    BY BudgetAssumption DEF Inv, TypeOK
  <2> HIDE DEF n, m
  <2>9. m <= reclaims[j] + 1
    BY <2>1, <2>3, <2>7, <2>8
  <2>10. MaxCrashes > 0 => /\ m <= MaxCrashes + forced[j]
                           /\ ReclaimState(j) = "available" => m < MaxCrashes + forced[j]
    BY <2>1, <2>3, <2>5, <2>7, <2>8
  <2>11. job'[j].state \in NonTerminalStates => ReclaimState(j) = "available"
    BY <2>5, <2>6 DEF NonTerminalStates, WaitingStates
  <2> QED
    BY <1>1, <1>4, <2>9, <2>10, <2>11 DEF CrashOK, m
<1> QED
  BY <1>3, <1>4

LEMMA CrashControl ==
    ASSUME Inv, AuditInv, CrashBudgetKept, Control, NEW k \in Jobs
    PROVE  CrashOK(k)'
<1> PICK j \in Jobs : \/ \E o \in RetryOptions, due \in BOOLEAN : RetryJob(j, o, due)
                      \/ CancelJob(j) \/ PauseJob(j) \/ ResumeJob(j)
                      \/ \E due \in BOOLEAN : RescheduleJob(j, due)
                      \/ DeleteJob(j)
  BY DEF Control
<1>1. /\ CrashOK(k) /\ job[j] \in JobRow /\ job \in [Jobs -> JobRow]
      /\ forced \in [Jobs -> Nat] /\ runs \in [Jobs -> [Attempts -> RunRow]]
      /\ forced[k] \in Nat /\ reclaims[k] \in Nat
  BY DEF CrashBudgetKept, CrashOK, Inv, TypeOK
<1>2. CASE DeleteJob(j) /\ k = j
  <2>1. SweptRuns(j)' = {}
    BY <1>1, <1>2 DEF DeleteJob, SweptRuns, NoRun
  <2>2. Cardinality(SweptRuns(j)') = 0
    BY <2>1, FS_EmptySet
  <2>3. UNCHANGED <<forced, reclaims>> /\ job'[j].state = "deleted"
    BY <1>1, <1>2 DEF DeleteJob, history, NoJob
  <2> QED
    BY <1>1, <1>2, <2>2, <2>3, BudgetAssumption DEF CrashOK, NonTerminalStates, WaitingStates
<1>3. CASE ~(DeleteJob(j) /\ k = j)
  <2>1. \A a \in Attempts : runs'[k][a] = runs[k][a]
    BY <1>1, <1>3 DEF RetryJob, CancelJob, PauseJob, ResumeJob, RescheduleJob, DeleteJob
  <2>2. reclaims' = reclaims /\ (k # j => job'[k] = job[k] /\ forced'[k] = forced[k])
    BY <1>1 DEF RetryJob, CancelJob, PauseJob, ResumeJob, RescheduleJob, DeleteJob, history
  <2>3. CASE k # j
    BY <1>1, <2>1, <2>2, <2>3, SameSwept, SweptUntouched
  <2>4. ASSUME NEW o \in RetryOptions, NEW due \in BOOLEAN, RetryJob(j, o, due), k = j
        PROVE  CrashOK(k)'
    <3>1. forced'[k] = IF job[k].state \in WaitingStates THEN forced[k] ELSE forced[k] + 1
      BY <1>1, <2>4 DEF RetryJob
    <3> QED
      BY <1>1, <2>1, <2>2, <3>1, SameSwept, SweptUntouched DEF NonTerminalStates
  <2>5. CASE k = j /\ ~\E o \in RetryOptions, due \in BOOLEAN : RetryJob(j, o, due)
    <3>1. forced'[k] = forced[k] /\ job[k].state \in NonTerminalStates
      BY <1>3, <2>5 DEF CancelJob, PauseJob, ResumeJob, RescheduleJob, history, ClaimableStates,
                        NonTerminalStates, WaitingStates
    <3> QED
      BY <1>1, <2>1, <2>2, <3>1, SameSwept, SweptUntouched
  <2> QED
    BY <2>3, <2>4, <2>5
<1> QED
  BY <1>2, <1>3

LEMMA CrashAttempt ==
    ASSUME Inv, AuditInv, CrashBudgetKept, Attempt, NEW k \in Jobs
    PROVE  CrashOK(k)'
<1> PICK j \in Jobs, a \in Attempts :
            \/ InsertRunStub(j, a)
            \/ RenewLease(j, a)
            \/ Abandon(j, a)
            \/ \E r \in Results, due \in BOOLEAN : Finalize(j, a, r, due)
  BY DEF Attempt
<1>1. CrashOK(k) /\ TypeOK /\ job[j] \in JobRow
  BY DEF CrashBudgetKept, CrashOK, Inv, TypeOK
<1>2. UNCHANGED <<forced, reclaims>>
  BY DEF InsertRunStub, RenewLease, Abandon, Finalize, history
<1>3. job'[k].state \in NonTerminalStates => job[k].state \in NonTerminalStates
  <2>1. job'[k] = job[k] \/ (k = j /\ job[k].state = "running")
    BY <1>1 DEF InsertRunStub, RenewLease, Abandon, Finalize, HoldsClaim, TypeOK
  <2> QED
    BY <2>1 DEF NonTerminalStates
<1>4. \A b \in Attempts : runs'[k][b].finishedAt = "sweep" <=> runs[k][b].finishedAt = "sweep"
  <2> TAKE b \in Attempts
  <2>1. CASE InsertRunStub(j, a)
    <3>1. StubWrite(j, a) /\ RunOK(runs[j][a])
      BY <2>1, StubWrites DEF AuditInv, AttemptOK
    <3>2. CASE k = j /\ b = a
      BY <3>1, <3>2 DEF StubWrite, RunOK, NoRun
    <3> QED
      BY <3>1, <3>2 DEF StubWrite
  <2>2. ASSUME NEW r \in Results, NEW due \in BOOLEAN, Finalize(j, a, r, due)
        PROVE  runs'[k][b].finishedAt = "sweep" <=> runs[k][b].finishedAt = "sweep"
    <3> PICK plan : FinalizeWrite(j, a, plan)
      BY <2>2, FinalizeWrites
    <3>1. CASE k = j /\ b = a
      BY <1>1, <3>1, FinalizeRun
    <3> QED
      BY <3>1 DEF FinalizeWrite
  <2>3. CASE RenewLease(j, a) \/ Abandon(j, a)
    BY <2>3 DEF RenewLease, Abandon
  <2> QED
    BY <2>1, <2>2, <2>3
<1> QED
  BY <1>1, <1>2, <1>3, <1>4, SameSwept, SweptUntouched

LEMMA CrashOther ==
    ASSUME Inv, AuditInv, CrashBudgetKept, Produce \/ Clock \/ Claim, NEW k \in Jobs
    PROVE  CrashOK(k)'
<1>1. CrashOK(k) /\ TypeOK
  BY DEF CrashBudgetKept, CrashOK, Inv
<1>2. UNCHANGED <<runs, forced, reclaims>>
  BY DEF Produce, Insert, Clock, TimePasses, LeaseLapses, Claim, Dequeue, history
<1>3. SweptRuns(k)' = SweptRuns(k)
  BY <1>2 DEF SweptRuns
<1>4. job'[k] = job[k] \/ job[k].state \in NonTerminalStates \/ job[k].state = "absent"
      \/ job'[k].state = job[k].state
  <2>1. CASE Produce
    BY <1>1, <2>1 DEF Produce, Insert, TypeOK
  <2>2. CASE Clock
    BY <1>1, <2>2 DEF Clock, TimePasses, LeaseLapses, TypeOK, JobRow
  <2>3. CASE Claim
    BY <2>3 DEF Claim, Dequeue, Claimable, ClaimableStates, NonTerminalStates
  <2> QED
    BY <2>1, <2>2, <2>3
<1>5. job[k].state = "absent" => SweptRuns(k) = {}
  <2> SUFFICES ASSUME job[k].state = "absent", NEW a \in Attempts
               PROVE  runs[k][a].finishedAt # "sweep"
    BY DEF SweptRuns
  <2>1. job[k].attempt = 0 /\ a > 0
    BY AttemptNumbers DEF Inv, RowInv, RowOK
  <2>2. AttemptOK(a, job[k], runs[k][a], exec[k][a], forced[k], reclaims[k])
    BY DEF AuditInv
  <2>3. exec[k][a].pc = "none"
    BY <2>1, <2>2 DEF AttemptOK, PlaceOK
  <2>4. runs[k][a].outcome = "none"
    BY <2>2, <2>3 DEF AttemptOK, PlaceOK
  <2> QED
    BY <2>2, <2>4 DEF AttemptOK, RunOK
<1> QED
  BY <1>1, <1>2, <1>3, <1>4, <1>5, SameSwept

\* One reclaim stamps one run at most, the reclaimed attempt's own, and with a
\* crash budget no job outlives it: whatever late finalizes write over crashed
\* runs, the sweep goes on counting them.
THEOREM CrashBudgetSafety == Spec => []CrashBudgetKept
<1>1. Inv /\ AuditInv /\ CrashBudgetKept /\ [Next]_vars => CrashBudgetKept'
  <2> SUFFICES ASSUME Inv, AuditInv, CrashBudgetKept, [Next]_vars, NEW k \in Jobs
               PROVE  CrashOK(k)'
    BY DEF CrashBudgetKept, CrashOK
  <2>1. CASE UNCHANGED vars
    BY <2>1 DEF CrashBudgetKept, CrashOK, SweptRuns, vars
  <2>2. CASE Sweep
    BY <2>2, CrashSweep DEF Sweep
  <2> QED
    BY <2>1, <2>2, CrashOther, CrashAttempt, CrashControl DEF Next
<1> QED
  BY <1>1, CrashInit, Invariance, AuditInvariance, PTL DEF Spec
=============================================================================
