------------------------------ MODULE Barrier ------------------------------
(***************************************************************************)
(* The fan-in barrier of one parent job (internal/core: driver.go,         *)
(* schedule.go, bulk.go).  The parent's finalize declares a barrier and    *)
(* inserts its follow-ups; every transaction that ends children of the     *)
(* parent then checks whether they were the last pending ones, and if so   *)
(* enqueues the continuation and clears the barrier.                       *)
(*                                                                         *)
(* Each action is one statement of a transaction under PostgreSQL's READ   *)
(* COMMITTED: a statement reads the rows committed before it began and its *)
(* own transaction's writes, and waits for a row another transaction has   *)
(* locked.  So parent and row hold what is committed, and a transaction    *)
(* keeps its own writes (own, fire) until it commits.  SQLite's single     *)
(* writer allows a subset of these behaviours.  How a job comes to its end *)
(* is JobCore's; here an attempt ends, returns, or is cancelled.           *)
(***************************************************************************)
EXTENDS Integers, FiniteSets

CONSTANTS
    Children,       \* the follow-ups the parent may return, by unique key
    Continuation,   \* the job keyed "barrier:<parent id>"
    Taken,          \* follow-ups whose unique key a job elsewhere holds
    Txs,            \* the database sessions that end children
    NoTx,           \* nobody holds the parent row
    BatchSize,      \* ScopeOpts.BatchSize, BulkSpec.BatchSize
    MishapBound     \* bound: returned attempts, forced retries and failed transactions

ASSUME NameAssumption == Continuation \notin Children /\ NoTx \notin Txs
ASSUME TakenAssumption == Taken \subseteq Children
ASSUME BarrierBounds == BatchSize \in Nat \ {0} /\ MishapBound \in Nat

Rows == Children \cup {Continuation}
WaitingRow == {"waiting"}
PendingRow == {"waiting", "running"}

VARIABLES
    parent,   \* the parent's row: its state, whether barrier_kind is set, and
              \* whether the finalize in progress sets it
    holder,   \* the session that has locked the parent row
    row,      \* the state of each child row
    landing,  \* the follow-ups the parent's uncommitted finalize inserted
    tx,       \* what each session's transaction has done
    call,     \* the CancelByParent or bulk cancel in progress
    landed,   \* history: the follow-ups the declared barrier's finalize inserted
    raced,    \* history: a child was ending unchecked as the barrier was declared
    ended,    \* history: the rows that have ended since they were last enqueued
    mishaps   \* counts up to MishapBound

vars == <<parent, holder, row, landing, tx, call, landed, raced, ended, mishaps>>

Idle == [pc |-> "idle", by |-> "job", sel |-> {}, own |-> {}, fire |-> FALSE]
NoCall == [kind |-> "none", fired |-> FALSE]

Init ==
    /\ parent = [state |-> "running", barrier |-> FALSE, declares |-> FALSE]
    /\ holder = NoTx
    /\ row = [c \in Rows |-> "absent"]
    /\ landing = {}
    /\ tx = [t \in Txs |-> Idle]
    /\ call = NoCall
    /\ landed = {}
    /\ raced = FALSE
    /\ ended = {}
    /\ mishaps = 0

\* The row locks a session holds are those of the rows it has ended.
Unlocked(c) == \A t \in Txs : c \notin tx[t].own

----------------------------------------------------------------------------
(* The parent. *)

\* validateBarrier: a barrier covers at least one child.
Declarable(F) == F # {}

\* conflictInsertChunk: ON CONFLICT DO NOTHING skips every follow-up whose
\* unique key is taken, and the rest land.
Landing(F) == {c \in F \ Taken : row[c] = "absent"}

\* resolveBarrierColumns: a finalize that declares no barrier leaves an unfired
\* one in its columns.
BarrierColumns == parent.barrier \/ parent.declares

\* Finalize of the parent, up to its commit: the state advance under the claim
\* (locking the row), with the barrier's columns when its result declares one,
\* and insertFollowUps.
FinalizeParent(F, declares) ==
    /\ parent.state = "running" /\ holder = NoTx
    /\ declares => Declarable(F)
    /\ parent' = [parent EXCEPT !.state = "finalizing", !.declares = declares]
    /\ landing' = Landing(F)
    /\ UNCHANGED <<holder, row, tx, call, landed, raced, ended, mishaps>>

CommitParent ==
    /\ parent.state = "finalizing"
    /\ parent' = [state |-> "succeeded", barrier |-> BarrierColumns,
                  declares |-> FALSE]
    /\ row' = [c \in Rows |-> IF c \in landing THEN "waiting" ELSE row[c]]
    /\ landed' = IF parent.declares THEN landing ELSE landed
    /\ raced' = IF parent.declares THEN \E t \in Txs : tx[t].pc = "commit" /\ tx[t].own # {}
                ELSE raced
    /\ ended' = ended \ landing
    /\ landing' = {}
    /\ UNCHANGED <<holder, tx, call, mishaps>>

\* RetryJob with Force on the parent: its barrier columns stay as they are.
RetryParent ==
    /\ parent.state = "succeeded" /\ holder = NoTx
    /\ mishaps < MishapBound
    /\ parent' = [parent EXCEPT !.state = "running"]
    /\ mishaps' = mishaps + 1
    /\ UNCHANGED <<holder, row, landing, tx, call, landed, raced, ended>>

\* DeleteJob, or retention: an unfired barrier goes with its row.
DeleteParent ==
    /\ parent.state = "succeeded" /\ holder = NoTx
    /\ parent' = [state |-> "deleted", barrier |-> FALSE, declares |-> FALSE]
    /\ UNCHANGED <<holder, row, landing, tx, call, landed, raced, ended, mishaps>>

----------------------------------------------------------------------------
(* The children, while they are pending. *)

\* Insert with InsertOpts.Parent, by the parent's worker or anyone else.
EnqueueChild(c) ==
    /\ c \in Children \ (Taken \cup landing) /\ row[c] = "absent"
    /\ row' = [row EXCEPT ![c] = "waiting"]
    /\ UNCHANGED <<parent, holder, landing, tx, call, landed, raced, ended, mishaps>>

Claim(c) ==
    /\ row[c] = "waiting" /\ Unlocked(c)
    /\ row' = [row EXCEPT ![c] = "running"]
    /\ UNCHANGED <<parent, holder, landing, tx, call, landed, raced, ended, mishaps>>

\* An attempt ends in a retry or a snooze, or the sweep returns its job.
Return(c) ==
    /\ row[c] = "running" /\ Unlocked(c)
    /\ mishaps < MishapBound
    /\ row' = [row EXCEPT ![c] = "waiting"]
    /\ mishaps' = mishaps + 1
    /\ UNCHANGED <<parent, holder, landing, tx, call, landed, raced, ended>>

\* RetryJob with Force on an ended child.
Requeue(c) ==
    /\ row[c] = "ended" /\ Unlocked(c)
    /\ mishaps < MishapBound
    /\ row' = [row EXCEPT ![c] = "waiting"]
    /\ mishaps' = mishaps + 1
    /\ UNCHANGED <<parent, holder, landing, tx, call, landed, raced, ended>>

----------------------------------------------------------------------------
(* The transactions that end children. *)

\* Every one of them locks its rows and makes them terminal, then checks.
Begin(t, S) ==
    /\ tx[t].pc = "idle"
    /\ \A c \in S : Unlocked(c)
    /\ tx' = [tx EXCEPT ![t] = [Idle EXCEPT !.pc = "gate", !.own = S]]
    /\ UNCHANGED <<parent, holder, row, landing, call, landed, raced, ended, mishaps>>

FinalizeChild(t, c) == row[c] = "running" /\ Begin(t, {c})
CancelChild(t, c) == row[c] \in PendingRow /\ Begin(t, {c})
SweepDiscards(t, S) == S # {} /\ (\A c \in S : row[c] = "running") /\ Begin(t, S)

\* fireBarrierIfComplete, its gate: a plain read of the committed barrier_kind.
Gate(t) ==
    /\ tx[t].pc = "gate"
    /\ tx' = [tx EXCEPT ![t] = [@ EXCEPT !.pc = IF parent.barrier THEN "lock" ELSE "commit"]]
    /\ UNCHANGED <<parent, holder, row, landing, call, landed, raced, ended, mishaps>>

\* Mutant: the check runs without locking the parent row.
SkipLock(t) ==
    /\ tx[t].pc = "lock"
    /\ tx' = [tx EXCEPT ![t] = [@ EXCEPT !.pc = IF parent.barrier THEN "count" ELSE "commit"]]
    /\ UNCHANGED <<parent, holder, row, landing, call, landed, raced, ended, mishaps>>

\* SELECT ... FOR UPDATE of the parent: waits for its holder, then re-reads.
LockParent(t) ==
    /\ tx[t].pc = "lock"
    /\ holder = NoTx /\ parent.state # "finalizing"
    /\ holder' = t
    /\ tx' = [tx EXCEPT ![t] = [@ EXCEPT !.pc = IF parent.barrier THEN "count" ELSE "commit"]]
    /\ UNCHANGED <<parent, row, landing, call, landed, raced, ended, mishaps>>

\* Mutant: a running child does not hold its generation open.
RemainingWaiting(t) == {c \in Rows \ tx[t].own : row[c] = "waiting"}

\* The count of the parent's children not in a terminal state.
Remaining(t) == {c \in Rows \ tx[t].own : row[c] \in PendingRow}

\* With none left, the continuation is inserted and the barrier cleared.
CountAndFire(t) ==
    /\ tx[t].pc = "count"
    /\ tx' = [tx EXCEPT ![t] = [@ EXCEPT !.pc = "commit", !.fire = Remaining(t) = {}]]
    /\ UNCHANGED <<parent, holder, row, landing, call, landed, raced, ended, mishaps>>

Release(t) == holder' = IF holder = t THEN NoTx ELSE holder

\* Mutant: a batch that fired the barrier is followed by another.
CallWalksOn(t) ==
    IF tx[t].by = "job" THEN call
    ELSE IF Cardinality(tx[t].sel) < BatchSize THEN NoCall
    ELSE [call EXCEPT !.fired = @ \/ tx[t].fire]

\* After a batch: a short one is the last, a CancelByParent stops at the batch
\* that fired the barrier, and a bulk cancel notes the parent it fired.
CallAfter(t) ==
    IF tx[t].by = "job" THEN call
    ELSE IF Cardinality(tx[t].sel) < BatchSize \/ (tx[t].fire /\ call.kind = "scope") THEN NoCall
    ELSE [call EXCEPT !.fired = @ \/ tx[t].fire]

\* ON CONFLICT DO NOTHING: an existing continuation is left as it is.
Commit(t) ==
    /\ tx[t].pc = "commit"
    /\ row' = [c \in Rows |->
                 IF c \in tx[t].own THEN "ended"
                 ELSE IF c = Continuation /\ tx[t].fire /\ row[c] = "absent" THEN "waiting"
                 ELSE row[c]]
    /\ parent' = IF tx[t].fire THEN [parent EXCEPT !.barrier = FALSE] ELSE parent
    /\ ended' = ended \cup tx[t].own
    /\ call' = CallAfter(t)
    /\ Release(t)
    /\ tx' = [tx EXCEPT ![t] = Idle]
    /\ UNCHANGED <<landing, landed, raced, mishaps>>

\* The transaction fails or its process dies: PostgreSQL rolls it back.  A
\* CancelByParent returns the error; a bulk cancel may run the batch again.
Abort(t) ==
    /\ tx[t].pc # "idle"
    /\ mishaps < MishapBound
    /\ mishaps' = mishaps + 1
    /\ call' = IF tx[t].by = "call" /\ call.kind = "scope" THEN NoCall ELSE call
    /\ Release(t)
    /\ tx' = [tx EXCEPT ![t] = Idle]
    /\ UNCHANGED <<parent, row, landing, landed, raced, ended>>

AbortParent ==
    /\ parent.state = "finalizing"
    /\ mishaps < MishapBound
    /\ mishaps' = mishaps + 1
    /\ parent' = [parent EXCEPT !.state = "running", !.declares = FALSE]
    /\ landing' = {}
    /\ UNCHANGED <<holder, row, tx, call, landed, raced, ended>>

----------------------------------------------------------------------------
(* The batched cancels: scopeByParent and a bulk cancel of the children.    *)

StartCall(kind) ==
    /\ call = NoCall
    /\ call' = [kind |-> kind, fired |-> FALSE]
    /\ UNCHANGED <<parent, holder, row, landing, tx, landed, raced, ended, mishaps>>

\* continuation: a bulk walk leaves out the continuation it enqueued.
OwnContinuation(c) == call.kind = "bulk" /\ call.fired /\ c = Continuation
Selectable == {c \in Rows : row[c] \in WaitingRow /\ ~OwnContinuation(c)}

\* The batch's first read takes no lock; one that finds nothing ends the call.
SelectBatch(t, S) ==
    /\ call # NoCall
    /\ tx[t].pc = "idle" /\ \A u \in Txs : tx[u].by # "call"
    /\ S \subseteq Selectable
    /\ Cardinality(S) <= BatchSize
    /\ Cardinality(S) < BatchSize => S = Selectable
    /\ IF S = {}
       THEN call' = NoCall /\ UNCHANGED tx
       ELSE /\ tx' = [tx EXCEPT ![t] = [Idle EXCEPT !.pc = "update", !.by = "call", !.sel = S]]
            /\ UNCHANGED call
    /\ UNCHANGED <<parent, holder, row, landing, landed, raced, ended, mishaps>>

\* lockJobStates waits for every selected row, and the update takes those still
\* waiting; a batch that changed nothing checks no barrier.
UpdateBatch(t) ==
    LET own == {c \in tx[t].sel : row[c] \in WaitingRow}
    IN  /\ tx[t].pc = "update"
        /\ \A c \in tx[t].sel : Unlocked(c)
        /\ tx' = [tx EXCEPT ![t] = [@ EXCEPT !.own = own,
                                             !.pc = IF own = {} THEN "commit" ELSE "gate"]]
        /\ UNCHANGED <<parent, holder, row, landing, call, landed, raced, ended, mishaps>>

----------------------------------------------------------------------------

ParentStep ==
    \/ \E F \in SUBSET Children, declares \in BOOLEAN : FinalizeParent(F, declares)
    \/ CommitParent \/ AbortParent \/ RetryParent \/ DeleteParent
ChildStep == \E c \in Rows : EnqueueChild(c) \/ Claim(c) \/ Return(c) \/ Requeue(c)
EndStep == \E t \in Txs :
    \/ \E c \in Rows : FinalizeChild(t, c) \/ CancelChild(t, c)
    \/ \E S \in SUBSET Rows : SweepDiscards(t, S)
CheckStep == \E t \in Txs :
    Gate(t) \/ LockParent(t) \/ CountAndFire(t) \/ Commit(t) \/ Abort(t)
CallStep ==
    \/ \E kind \in {"scope", "bulk"} : StartCall(kind)
    \/ \E t \in Txs : UpdateBatch(t) \/ \E S \in SUBSET Rows : SelectBatch(t, S)

Next == ParentStep \/ ChildStep \/ EndStep \/ CheckStep \/ CallStep

Spec == Init /\ [][Next]_vars

\* Transactions make progress, runners claim, and an attempt that is not lost
\* comes to its finalize (a child's attempts are finite: JobCore).  Weak fairness
\* is enough, as the transactions that could starve another are finite too.
Fairness ==
    /\ WF_vars(CommitParent)
    /\ \A c \in Rows : WF_vars(Claim(c)) /\ WF_vars(\E t \in Txs : FinalizeChild(t, c))
    /\ \A t \in Txs : WF_vars(Gate(t) \/ LockParent(t) \/ CountAndFire(t) \/ Commit(t)
                              \/ UpdateBatch(t))
FairSpec == Spec /\ Fairness

----------------------------------------------------------------------------
(* Correctness. *)

\* Every variable has its shape.
TypeOK ==
    /\ parent \in [state : {"running", "finalizing", "succeeded", "deleted"},
                   barrier : BOOLEAN, declares : BOOLEAN]
    /\ holder \in Txs \cup {NoTx}
    /\ row \in [Rows -> {"absent", "waiting", "running", "ended"}]
    /\ landing \subseteq Children
    /\ tx \in [Txs -> [pc : {"idle", "update", "gate", "lock", "count", "commit"},
                       by : {"job", "call"}, sel : SUBSET Rows, own : SUBSET Rows,
                       fire : BOOLEAN]]
    /\ call \in [kind : {"none", "scope", "bulk"}, fired : BOOLEAN]
    /\ landed \subseteq Children
    /\ raced \in BOOLEAN
    /\ ended \subseteq Rows
    /\ mishaps \in 0..MishapBound

\* A declared barrier that inserted a child still has one pending to fire it:
\* of the transactions that end the last children at once, one sees them all.
\* (Excepted: a child enqueued before the barrier that was ending, its gate
\* already passed, as the barrier was declared.)
BarrierHasPending ==
    parent.barrier /\ landed # {} /\ ~raced => \E c \in Rows : row[c] \in PendingRow

\* The barrier fires only after every follow-up of the generation has ended,
\* whichever transactions ended them.
FiresAfterGeneration ==
    [][parent.barrier /\ ~parent'.barrier /\ parent'.state # "deleted" =>
          landed \subseteq ended']_vars

\* A batched cancel never cancels the continuation it enqueued itself.
NoSelfCancel ==
    \A t \in Txs : tx[t].by = "call" /\ Continuation \in tx[t].own => ~call.fired

\* fireBarrierIfComplete's comment: every path that makes a child terminal runs
\* the check, and the continuation runs whichever way the last child ended.
BarrierNeverMissed ==
    parent.barrier /\ landed # {} => \E c \in Rows : row[c] \in PendingRow

\* A declared barrier that inserted a child fires, unless its parent is deleted.
BarrierFires ==
    parent.barrier /\ landed # {} /\ ~raced ~>
        ~parent.barrier /\ (row[Continuation] # "absent" \/ parent.state = "deleted")
=============================================================================
