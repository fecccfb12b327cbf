------------------------------- MODULE Cohort -------------------------------
(***************************************************************************)
(* A call that walks a cohort of jobs in batches (internal/core: replay.go,*)
(* bulk.go, schedule.go's ByParent controls), beside the enqueues, attempts*)
(* and single-job controls of everybody else (client.go, batch.go,         *)
(* schedule.go).  A replay and a bulk call go by id behind a cursor, a     *)
(* ByParent control takes whatever is left; each batch reads its jobs and  *)
(* then changes those that still qualify, in a transaction that a rival    *)
(* for a UniqueActiveKey, or a deadlock, can make roll back.               *)
(*                                                                         *)
(* A job is its state and how far its latest attempt is: the claim and the *)
(* run stub, which the guards look for, are two transactions.  The waiting *)
(* states other than paused are one, due times are the job's place in the  *)
(* stagger.  Barriers are Barrier's; leases are JobCore's, and only that   *)
(* of an attempt that died lapses here.                                    *)
(***************************************************************************)
EXTENDS Integers, FiniteSetsExt

CONSTANTS
    Ids,            \* job ids, in the order of their minting
    Enqueued,       \* the jobs that exist when the call starts
    Keys, NoKey,    \* UniqueActiveKeys
    Key,            \* each job's, or NoKey
    InitialStates,  \* the states those jobs may be in when the call starts
    Ops,            \* the calls: see Engine
    States,         \* ReplayOpts.States
    Filter,         \* the states BulkSpec.Query selects
    BatchSize, MaxJobs,
    ReplayBatchRetries,
    OthersBound     \* bound: steps of the other actors that change a job

Waiting == {"available", "paused"}
Terminal == {"succeeded", "discarded", "cancelled"}
Live == Waiting \cup {"running"}

\* A job's latest attempt: over, between its claim and its run stub, or past it.
Runs == {"no", "claimed", "started"}
ByParent == {"pauseByParent", "resumeByParent", "cancelByParent"}
Bulk == {"retry", "preview", "cancel", "delete", "reschedule", "pause", "resume"}

ASSUME CohortAssumption ==
    /\ Ids \subseteq Nat \ {0} /\ IsFiniteSet(Ids) /\ Enqueued \subseteq Ids
    /\ NoKey \notin Keys /\ Key \in [Ids -> Keys \cup {NoKey}]
    /\ InitialStates \subseteq Live \cup Terminal
    /\ Ops \subseteq ByParent \cup Bulk \cup {"replay"}
    /\ States \subseteq Terminal /\ Filter \subseteq Live \cup Terminal
    /\ {BatchSize, MaxJobs} \subseteq Nat \ {0} /\ {ReplayBatchRetries, OthersBound} \subseteq Nat

VARIABLES
    job,     \* the jobs rows
    call,    \* the walk: its locals and its result so far
    others,  \* counts up to OthersBound
    due,     \* history: the jobs the call, run at once when it counted, would change
    cohort,  \* history: the jobs it would place in its stagger then
    total,   \* history: the jobs its result accounts for then
    moved,   \* history: the jobs it changed
    slips,   \* history: it changed a job twice, or gave it another's place
    touched  \* history: the jobs other actors changed or added since

world == <<job, others, touched>>
history == <<due, cohort, total, moved, slips>>
vars == <<job, call, others, due, cohort, total, moved, slips, touched>>

----------------------------------------------------------------------------
(* The rows, and the two unique indexes' rule. *)

Holders(k) == {j \in Ids : Key[j] = k /\ job[j].state \in Live}

\* activeKeyHeld: another live job has j's key.
Held(j) == Key[j] # NoKey /\ Holders(Key[j]) \ {j} # {}

\* cancelledAttemptStillRuns: the run at the job's attempt reads started.
StillRuns(j) == job[j].state = "cancelled" /\ job[j].runs = "started"

\* j in state s, its attempt as it was; a deleted job has none.
Row(j, s) == [state |-> s, runs |-> IF s = "absent" THEN "no" ELSE job[j].runs]

\* The first n of the ids in S, in id order.
First(S, n) == {j \in S : Cardinality({i \in S : i < j}) < n}

\* liveReplayCandidates: per key, the first row that is not held.
LiveCandidates(S, held) ==
    {j \in S \ held : Key[j] # NoKey => \A i \in S \ held : Key[i] = Key[j] => i >= j}

NewCall(op) ==
    [op |-> op, pc |-> "count", cursor |-> 0, batch |-> {}, live |-> {}, races |-> 0,
     passed |-> 0, taken |-> {}, resumed |-> FALSE,
     changed |-> 0, key |-> 0, running |-> 0, terminal |-> 0, state |-> 0]

\* Any mix of states the unique index allows.
Init ==
    /\ job \in {f \in [Ids -> [state : InitialStates \cup {"absent"}, runs : Runs]] :
                  \A j \in Ids :
                    /\ f[j].state = "absent" <=> j \notin Enqueued
                    /\ f[j].state = "running" => f[j].runs # "no"
                    /\ f[j].runs # "no" => f[j].state \in {"running", "cancelled"}
                    /\ Key[j] = NoKey \/ f[j].state \notin Live
                         \/ \A i \in Ids \ {j} : Key[i] = Key[j] => f[i].state \notin Live}
    /\ call \in {NewCall(op) : op \in Ops}
    /\ others = 0 /\ due = {} /\ cohort = {} /\ total = 0 /\ moved = {} /\ slips = {}
    /\ touched = {}

----------------------------------------------------------------------------
(* What each call changes, and from which states. *)

Source(op) ==
    CASE op = "replay" -> States
      [] op \in {"retry", "preview"} -> Waiting \cup Terminal
      [] op \in {"cancel", "cancelByParent", "reschedule"} -> Waiting
      [] op = "delete" -> Terminal
      [] op \in {"pause", "pauseByParent"} -> {"available"}
      [] op \in {"resume", "resumeByParent"} -> {"paused"}

Target(op, s) ==
    CASE op \in {"replay", "retry", "resume", "resumeByParent"} -> "available"
      [] op \in {"cancel", "cancelByParent"} -> "cancelled"
      [] op = "delete" -> "absent"
      [] op \in {"pause", "pauseByParent"} -> "paused"
      [] op = "reschedule" -> s

\* The calls that put terminal jobs live again: a replay, and a bulk retry with
\* Force, for real or as a dry run.
Reviving(op) == op \in {"replay", "retry", "preview"}

Changeable(j) == job[j].state \in Source(call.op) /\ (Reviving(call.op) => ~StillRuns(j))

\* selection: the query's filter; every statement of a bulk call goes through it.
Selected(j) == job[j].state \in Filter

Exists == {j \in Ids : job[j].state # "absent"}
InState(S) == {j \in Ids : job[j].state \in S}

\* Of the jobs the call may change, those a key keeps as they are.  A live job
\* holds its own key.
KeyRuled(j) == Key[j] # NoKey /\ job[j].state \in Terminal /\ Reviving(call.op)

\* Mutant: a bulk call forgets the keys its earlier batches took.
KeyTakenNow(j) == Held(j)
KeyTaken(j) == Held(j) \/ Key[j] \in call.taken

Free(S) ==
    LET ruled == {j \in S : KeyRuled(j)}
    IN  (S \ ruled) \cup LiveCandidates(ruled, {j \in ruled : KeyTaken(j)})

----------------------------------------------------------------------------
(* The walk. *)

\* ErrBulkTooLarge: an apply, not a dry run, over more than MaxJobs.
TooMany(S) == call.op \in Bulk \ {"preview"} /\ Cardinality(S) > MaxJobs

\* What the call leaves alone, counted before it runs; what it would do at once,
\* a dry run to the first MaxJobs matches.
Count ==
    LET op == call.op
        scope == IF op = "preview" THEN First({j \in Ids : Selected(j)}, MaxJobs)
                 ELSE IF op \in Bulk THEN {j \in Ids : Selected(j)} ELSE Exists
        untargeted == IF op = "replay" THEN Terminal \ States ELSE Terminal
    IN  /\ call.pc = "count" /\ ~call.resumed
        /\ call' = [call EXCEPT
             !.pc = IF TooMany(scope) THEN "refused" ELSE "read",
             !.running = IF op \in Bulk THEN 0
                         ELSE Cardinality(InState({"running"}))
                              + Cardinality({j \in Ids : op = "replay" /\ StillRuns(j)
                                                         /\ job[j].state \in States}),
             !.terminal = IF op \in Bulk THEN 0 ELSE Cardinality(InState(untargeted))]
        /\ due' = Free({j \in scope : Changeable(j)})
        /\ cohort' = IF op \in Bulk THEN scope ELSE {j \in scope : Changeable(j)}
        /\ total' = CASE op \in Bulk -> Cardinality(scope)
                      [] op = "replay" -> Cardinality(InState(Terminal \cup {"running"}))
                      [] OTHER -> Cardinality(InState(Source(op) \cup Terminal \cup {"running"}))
        /\ UNCHANGED <<world, moved, slips>>

\* A resumed bulk call counts again, from After on.
Recount ==
    /\ call.pc = "count" /\ call.resumed
    /\ call' = [call EXCEPT !.pc =
         IF TooMany({j \in Ids : Selected(j) /\ j > call.cursor}) THEN "refused" ELSE "read"]
    /\ UNCHANGED <<world, history>>

\* The most a batch reads.
Size == IF call.op \in Bulk THEN Min({BatchSize, MaxJobs - call.passed}) ELSE BatchSize

Past(j) == j > call.cursor

\* The batch a replay's SELECT or a bulk's readBatch returns.
Page == First({j \in Ids : Past(j) /\ (IF call.op = "replay" THEN Changeable(j) ELSE Selected(j))}, Size)

Walked == [call EXCEPT !.pc = "read", !.batch = {}, !.live = {}, !.races = 0]
Ended == [Walked EXCEPT !.pc = "done"]

\* Mutant: a page that is just full ends the walk.
PassedEarly(c, rows) ==
    [c EXCEPT !.cursor = IF rows = {} THEN @ ELSE Max(rows),
              !.passed = @ + Cardinality(rows), !.pc = "done"]

\* A short page is the last; a full one moves the cursor on.
Passed(c, rows) ==
    [c EXCEPT !.cursor = IF rows = {} THEN @ ELSE Max(rows),
              !.passed = @ + Cardinality(rows),
              !.pc = IF Cardinality(rows) < Size THEN "done" ELSE "read"]

\* replayBatch up to its lock: the page, and the rows a key leaves terminal.
ReplayReads ==
    LET live == Free(Page)
    IN  /\ call.pc = "read" /\ call.op = "replay"
        /\ call' = IF live = {}
                   THEN [Passed(Walked, Page) EXCEPT !.key = @ + Cardinality(Page)]
                   ELSE [call EXCEPT !.pc = "write", !.batch = Page, !.live = live]
        /\ UNCHANGED <<world, history>>

\* The update's guard.
StillReplays(j) == Changeable(j) /\ ~Held(j)

\* What a committed batch leaves behind; a selected row keeps its place in the
\* stagger whether or not the rows before it changed.
Place(rows, j) == call.passed + Cardinality({i \in rows : i < j})
Misplaced(rows, j) ==
    call.op \notin ByParent /\ ~call.resumed /\ touched = {} /\ Place(rows, j) # Cardinality({i \in cohort : i < j})
Moves(S, rows) ==
    /\ job' = [j \in Ids |-> IF j \in S THEN Row(j, Target(call.op, job[j].state)) ELSE job[j]]
    /\ moved' = moved \cup S
    /\ slips' = slips \cup (IF S \cap moved # {} THEN {"twice"} ELSE {})
                     \cup (IF \E j \in S : Misplaced(rows, j) THEN {"place"} ELSE {})
    /\ UNCHANGED <<others, touched, due, cohort, total>>

ReplayWrites ==
    LET S == {j \in call.live : StillReplays(j)}
    IN  /\ call.pc = "write" /\ call.op = "replay"
        /\ Moves(S, call.batch)
        /\ call' = [Passed(Walked, call.batch) EXCEPT
             !.changed = @ + Cardinality(S),
             !.key = @ + Cardinality(call.batch \ call.live)]

\* readBatch; at MaxJobs a probe for one match more, which a dry run spares.
BulkReads ==
    /\ call.pc = "read" /\ call.op \in Bulk /\ (Size = 0 \/ Page = {} \/ call.op # "preview")
    /\ call' = IF Size = 0
               THEN [call EXCEPT !.pc = IF call.op # "preview" /\ \E j \in Ids : Past(j) /\ Selected(j)
                                        THEN "refused" ELSE "done"]
               ELSE IF Page = {} THEN Ended
               ELSE [call EXCEPT !.pc = "write", !.batch = Page]
    /\ UNCHANGED <<world, history>>

\* classify, tally and take: rows counted by the state they are in.
Tallied(rows) ==
    LET able == {j \in rows : Changeable(j)}
        skipped == rows \ able
        run == {j \in skipped : job[j].state = "running" \/ (Reviving(call.op) /\ StillRuns(j))}
        term == {j \in skipped \ run : job[j].state \in Terminal}
    IN  [Passed(Walked, rows) EXCEPT
          !.changed = @ + Cardinality(Free(able)),
          !.key = @ + Cardinality(able \ Free(able)),
          !.running = @ + Cardinality(run),
          !.terminal = @ + Cardinality(term),
          !.state = @ + Cardinality(skipped \ (run \cup term)),
          !.taken = @ \cup (IF Reviving(call.op) THEN {Key[j] : j \in Free(able)} \ {NoKey} ELSE {})]

\* preview: a dry run counts what it read.
Previews ==
    /\ call.pc = "read" /\ call.op = "preview" /\ Size > 0 /\ Page # {}
    /\ call' = Tallied(Page)
    /\ UNCHANGED <<world, history>>

\* applyBatch: the rows still selected, by the state they are in under its lock.
BulkWrites ==
    LET locked == {j \in call.batch : Selected(j)}
    IN  /\ call.pc = "write" /\ call.op \in Bulk
        /\ Moves(Free({j \in locked : Changeable(j)}), call.batch)
        /\ LET passed == Passed(Walked, call.batch)
           IN  call' = [Tallied(locked) EXCEPT !.cursor = passed.cursor, !.passed = passed.passed,
                                               !.pc = passed.pc]

\* scopeBatch: any page of the children left, for the read is not ordered.
ScopeReads ==
    /\ call.pc = "read" /\ call.op \in ByParent
    /\ \E rows \in SUBSET InState(Source(call.op)) :
         /\ Cardinality(rows) = Min({BatchSize, Cardinality(InState(Source(call.op)))})
         /\ call' = IF rows = {} THEN Ended ELSE [call EXCEPT !.pc = "write", !.batch = rows]
    /\ UNCHANGED <<world, history>>

ScopeWrites ==
    LET S == {j \in call.batch : Changeable(j)}
    IN  /\ call.pc = "write" /\ call.op \in ByParent
        /\ Moves(S, call.batch)
        /\ call' = [Walked EXCEPT !.changed = @ + Cardinality(S),
                                  !.pc = IF Cardinality(call.batch) < BatchSize THEN "done" ELSE "read"]

\* Mutant: a batch that loses a race runs again as often as it loses.
LosesRaceUnbounded ==
    /\ call.pc = "write" /\ call.op \in Bulk \cup {"replay"}
    /\ call' = [call EXCEPT !.pc = IF call.op = "replay" THEN "read" ELSE "write"]
    /\ UNCHANGED <<world, history>>

\* A batch that loses a race for a key, or a deadlock, rolls back and runs again.
LosesRace ==
    /\ call.pc = "write" /\ call.op \in Bulk \cup {"replay"}
    /\ call' = IF call.races < ReplayBatchRetries
               THEN [call EXCEPT !.races = @ + 1,
                                 !.pc = IF call.op = "replay" THEN "read" ELSE "write"]
               ELSE [Walked EXCEPT !.pc = "failed"]
    /\ UNCHANGED <<world, history>>

\* The call's context ends between two batches, or in one, which rolls back.
Interrupted ==
    /\ call.pc \in {"read", "write"} /\ ~call.resumed
    /\ call' = [Walked EXCEPT !.pc = "stopped"]
    /\ UNCHANGED <<world, history>>

\* A bulk call made again with After at the stopped one's ResumeAfter: what the
\* first part took and placed is forgotten.
Resumes ==
    /\ call.pc \in {"stopped", "failed"} /\ call.op \in Bulk \ {"preview"} /\ ~call.resumed
    /\ call' = [call EXCEPT !.pc = "count", !.resumed = TRUE, !.passed = 0, !.taken = {}]
    /\ UNCHANGED <<world, history>>

----------------------------------------------------------------------------
(* The other actors, while the call walks: what they do between a stopped    *)
(* call and its resumption they may as well do just before it stops.         *)

Others(j, row) ==
    /\ call.pc \in {"read", "write"}
    /\ others < OthersBound /\ others' = others + 1
    /\ job' = [job EXCEPT ![j] = row]
    /\ touched' = touched \cup {j}
    /\ UNCHANGED <<call, history>>

\* Insert, Enqueue and InsertMany, one row: a key that is held skips it.
Enqueue(j) ==
    job[j].state = "absent" /\ j \notin touched \cup Enqueued /\ ~Held(j) /\ Others(j, Row(j, "available"))

\* An attempt: Dequeue's claim, and InsertRunStub's row, which asks nothing of the job.
Claim(j) ==
    job[j].state = "available" /\ Others(j, [state |-> "running", runs |-> "claimed"])
Stub(j) == job[j].runs = "claimed" /\ Others(j, [job[j] EXCEPT !.runs = "started"])

\* Its end, which needs the stub, and the sweep of one that died.
EndRun(j, s) ==
    /\ job[j].state = "running" /\ (s = "succeeded" => job[j].runs = "started")
    /\ Others(j, [state |-> s, runs |-> "no"])

\* The end of one that lost its job.
EndFenced(j) ==
    job[j].state # "running" /\ job[j].runs # "no" /\ Others(j, [job[j] EXCEPT !.runs = "no"])

CancelJob(j) == job[j].state \in Live /\ Others(j, Row(j, "cancelled"))

\* RetryJobWithOptions with Force, and with AllowRunning or without; the unique
\* index refuses it beside a holder.
RetryJob(j, allowRunning) ==
    /\ job[j].state \in Terminal \cup (IF allowRunning THEN {"running"} ELSE {})
    /\ (StillRuns(j) => allowRunning) /\ ~Held(j)
    /\ Others(j, Row(j, "available"))
PauseJob(j) == job[j].state = "available" /\ Others(j, Row(j, "paused"))
ResumeJob(j) == job[j].state = "paused" /\ Others(j, Row(j, "available"))
DeleteJob(j) == job[j].state \in Terminal /\ Others(j, Row(j, "absent"))

Other(j) == \/ Enqueue(j) \/ Claim(j) \/ Stub(j) \/ EndFenced(j) \/ CancelJob(j)
            \/ PauseJob(j) \/ ResumeJob(j) \/ DeleteJob(j)
            \/ \E allowRunning \in BOOLEAN : RetryJob(j, allowRunning)
            \/ \E s \in {"available", "succeeded", "discarded"} : EndRun(j, s)

Walk == \/ Count \/ Recount \/ ReplayReads \/ ReplayWrites \/ BulkReads \/ Previews \/ BulkWrites
        \/ ScopeReads \/ ScopeWrites
Next == Walk \/ LosesRace \/ Interrupted \/ Resumes \/ \E j \in Ids : Other(j)

Spec == Init /\ [][Next]_vars
FairSpec == Spec /\ WF_vars(Walk)

----------------------------------------------------------------------------
(* Correctness. *)

Finished == call.pc = "done"

\* The result adds up, and batches make no difference: a call nobody races
\* changes exactly what it would have changed at once (a dry run counts it),
\* accounts for every job it looked at, and gives each the place in the stagger
\* its rank among them has.  Beside rivals it still reaches every keyless job of
\* its cohort they left alone, and, interrupted and resumed or not, changes no
\* job twice, though jobs it put live finish and come back while it walks.
WalkExact ==
    /\ call.op \notin ByParent => slips = {}
    /\ Finished =>
        /\ call.op # "preview" => {j \in due \ touched : Key[j] = NoKey} \subseteq moved
        /\ touched = {} =>
             /\ moved = IF call.op = "preview" THEN {} ELSE due
             /\ call.changed = Cardinality(due)
             /\ call.changed + call.key + call.running + call.terminal + call.state = total

\* Whatever happened since a batch's read, no replay and no bulk retry puts a job
\* live beside an attempt of it whose run has started (one between its claim and
\* its stub it does not see); no retry at all, single ones included, puts one live
\* beside a live holder of its key, so the unique index is met only in a race with
\* a write; and one run of a forced bulk retry puts one job live per
\* UniqueActiveKey, also when that job has finished before the walk reaches
\* another with its key.
RevivalsHold ==
    [][\A j \in Ids : job[j].state \in Terminal /\ job'[j].state \in Live =>
          /\ call' # call => job[j].runs # "started"
          /\ \A i \in Ids \ {j} : Key[i] = Key[j] /\ Key[i] # NoKey => job'[i].state \notin Live
          /\ call.op = "retry" /\ ~call.resumed /\ call' # call =>
               \A i \in moved' \ {j} : Key[i] = Key[j] => Key[j] = NoKey]_vars

\* What schedule.go says of the guard that a retry under Force and a replay share:
\* neither can start a second attempt beside one still running, however far that
\* one is.  The code does not keep it (README, Findings): a job cancelled between
\* its claim and its run stub has no started run.
RevivalsAlone ==
    [][\A j \in Ids : call' # call /\ job[j].state \in Terminal /\ job'[j].state \in Live =>
          job[j].runs = "no"]_vars

\* Every call comes to an end: behind its cursor nothing is read again, a race
\* is run again a bounded number of times, and a ByParent control, which has no
\* cursor, takes jobs from no state it moves them to (its rivals being bounded).
WalkEnds == <>(call.pc \in {"done", "refused", "failed", "stopped"})
=============================================================================
