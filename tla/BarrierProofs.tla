--------------------------- MODULE BarrierProofs ---------------------------
(* Proofs about Barrier, for every set of children and of sessions, every   *)
(* batch size and every bound.                                              *)
EXTENDS Barrier, TLAPS

TxRecord == [pc : {"idle", "update", "gate", "lock", "count", "commit"},
             by : {"job", "call"}, sel : SUBSET Rows, own : SUBSET Rows, fire : BOOLEAN]

\* What the row locks mean: only a transaction that has ended rows holds theirs,
\* a count and a fire happen under the parent's lock, and the parent's own
\* finalize holds that lock until it commits.
LocksOK ==
    /\ \A t \in Txs : tx[t].pc \in {"idle", "update"} => tx[t].own = {}
    /\ \A t \in Txs : tx[t].pc = "count" \/ tx[t].fire => holder = t
    /\ \A t \in Txs : tx[t].fire => tx[t].pc = "commit"
    /\ parent.state = "finalizing" => holder = NoTx

\* The heart of the argument: under a declared barrier, a transaction about to
\* end children without firing has counted a pending child of another and still
\* holds the parent's lock, so that child cannot end before it commits.
CheckOK ==
    parent.barrier /\ ~raced =>
        \A t \in Txs : tx[t].pc = "commit" /\ tx[t].own # {} /\ ~tx[t].fire =>
            holder = t /\ Remaining(t) # {}

\* What a fire has seen: every follow-up has ended, or ends with this commit.
FireOK ==
    /\ \A c \in Rows : row[c] = "ended" => c \in ended
    /\ \A c \in landed : row[c] # "absent"
    /\ \A t \in Txs : tx[t].fire => landed \subseteq ended \cup tx[t].own

\* What a batched cancel knows of the continuation it enqueued.
CallOK ==
    /\ call.kind = "none" => call = NoCall
    /\ call.fired => call.kind = "bulk"
    /\ \A t \in Txs : tx[t].by = "call" =>
          /\ call.kind # "none"
          /\ tx[t].own \subseteq tx[t].sel
          /\ call.fired => Continuation \notin tx[t].sel
    /\ \A t, u \in Txs : tx[t].by = "call" /\ tx[u].by = "call" => t = u

Inv == TypeOK /\ LocksOK /\ CheckOK /\ FireOK /\ CallOK /\ BarrierHasPending

----------------------------------------------------------------------------
(* Type correctness. *)

LEMMA IdleType == Idle \in TxRecord
BY DEF Idle, TxRecord

LEMMA UpdateType ==
    ASSUME NEW r \in TxRecord, NEW S \in SUBSET Rows, NEW p \in {"gate", "commit"}
    PROVE  [r EXCEPT !.own = S, !.pc = p] \in TxRecord
BY DEF TxRecord

LEMMA CountType ==
    ASSUME NEW r \in TxRecord, NEW b \in BOOLEAN
    PROVE  [r EXCEPT !.pc = "commit", !.fire = b] \in TxRecord
BY DEF TxRecord

LEMMA TypeInit == Init => TypeOK
<1> SUFFICES ASSUME Init PROVE TypeOK
  OBVIOUS
<1>1. tx \in [Txs -> TxRecord]
  BY IdleType DEF Init
<1>2. mishaps \in 0..MishapBound
  BY BarrierBounds DEF Init
<1>3. call \in [kind : {"none", "scope", "bulk"}, fired : BOOLEAN]
  BY DEF Init, NoCall
<1> QED
  BY <1>1, <1>2, <1>3 DEF Init, TypeOK, TxRecord

LEMMA TypeStep == TypeOK /\ [Next]_vars => TypeOK'
<1> SUFFICES ASSUME TypeOK, [Next]_vars PROVE TypeOK'
  OBVIOUS
<1> USE BarrierBounds
<1>0. tx \in [Txs -> TxRecord] /\ \A t \in Txs : tx[t] \in TxRecord
  BY DEF TypeOK, TxRecord
<1>1. CASE ParentStep
  <2>1. ASSUME NEW F \in SUBSET Children, NEW b \in BOOLEAN, FinalizeParent(F, b)
        PROVE  TypeOK'
    BY <2>1 DEF FinalizeParent, Landing, Declarable, TypeOK
  <2>2. CASE CommitParent
    BY <2>2 DEF CommitParent, BarrierColumns, TypeOK, Rows
  <2>3. CASE AbortParent
    <3>1. parent' \in [state : {"running", "finalizing", "succeeded", "deleted"},
                       barrier : BOOLEAN, declares : BOOLEAN]
      BY <2>3 DEF AbortParent, TypeOK
    <3> QED
      BY <2>3, <3>1 DEF AbortParent, TypeOK
  <2>4. CASE RetryParent
    BY <2>4 DEF RetryParent, TypeOK
  <2>5. CASE DeleteParent
    BY <2>5 DEF DeleteParent, TypeOK
  <2> QED
    BY <1>1, <2>1, <2>2, <2>3, <2>4, <2>5 DEF ParentStep
<1>2. CASE ChildStep
  BY <1>2 DEF ChildStep, EnqueueChild, Claim, Return, Requeue, TypeOK
<1>3. ASSUME NEW t \in Txs, NEW S \in SUBSET Rows, Begin(t, S)
      PROVE  TypeOK'
  <2>1. [Idle EXCEPT !.pc = "gate", !.own = S] \in TxRecord
    BY DEF Idle, TxRecord
  <2> QED
    BY <1>3, <2>1 DEF Begin, TypeOK, TxRecord
<1>4. CASE EndStep
  BY <1>3, <1>4 DEF EndStep, FinalizeChild, CancelChild, SweepDiscards
<1>5. ASSUME NEW t \in Txs, Gate(t) \/ LockParent(t) \/ CountAndFire(t)
      PROVE  TypeOK'
  <2>1. tx' \in [Txs -> TxRecord]
    <3>1. CASE Gate(t) \/ LockParent(t)
      BY <1>0, <3>1, SMTT(40) DEF Gate, LockParent, TypeOK, TxRecord
    <3>2. CASE CountAndFire(t)
      <4>1. (Remaining(t) = {}) \in BOOLEAN
        OBVIOUS
      <4> QED
        BY <1>0, <3>2, <4>1, CountType DEF CountAndFire
    <3> QED
      BY <1>5, <3>1, <3>2
  <2> QED
    BY <1>5, <2>1 DEF Gate, LockParent, CountAndFire, TypeOK, TxRecord
<1>6. ASSUME NEW t \in Txs, Commit(t)
      PROVE  TypeOK'
  <2>1. call' \in [kind : {"none", "scope", "bulk"}, fired : BOOLEAN]
    BY <1>0, <1>6 DEF Commit, CallAfter, NoCall, TypeOK, TxRecord
  <2>2. tx' \in [Txs -> TxRecord] /\ holder' \in Txs \cup {NoTx}
    BY <1>6, IdleType DEF Commit, Release, TypeOK, TxRecord
  <2>3. /\ parent' \in [state : {"running", "finalizing", "succeeded", "deleted"},
                        barrier : BOOLEAN, declares : BOOLEAN]
        /\ row' \in [Rows -> {"absent", "waiting", "running", "ended"}]
        /\ ended' \subseteq Rows
    BY <1>0, <1>6 DEF Commit, TypeOK, TxRecord
  <2> QED
    BY <1>6, <2>1, <2>2, <2>3 DEF Commit, TypeOK, TxRecord
<1>7. ASSUME NEW t \in Txs, Abort(t)
      PROVE  TypeOK'
  <2>1. tx' \in [Txs -> TxRecord] /\ holder' \in Txs \cup {NoTx}
    BY <1>7, IdleType DEF Abort, Release, TypeOK, TxRecord
  <2> QED
    BY <1>7, <2>1 DEF Abort, NoCall, TypeOK, TxRecord
<1>8. CASE CheckStep
  BY <1>5, <1>6, <1>7, <1>8 DEF CheckStep
<1>a. NoCall \in [kind : {"none", "scope", "bulk"}, fired : BOOLEAN]
  BY DEF NoCall
<1>9. ASSUME NEW t \in Txs, NEW S \in SUBSET Rows, SelectBatch(t, S)
      PROVE  TypeOK'
  <2>1. [Idle EXCEPT !.pc = "update", !.by = "call", !.sel = S] \in TxRecord
    BY DEF Idle, TxRecord
  <2>2. tx' \in [Txs -> TxRecord]
    BY <1>9, <2>1, ZenonT(60) DEF SelectBatch, TypeOK, TxRecord
  <2>3. call' \in [kind : {"none", "scope", "bulk"}, fired : BOOLEAN]
    BY <1>9, <1>a DEF SelectBatch, TypeOK
  <2> QED
    BY <1>9, <2>2, <2>3 DEF SelectBatch, TypeOK, TxRecord
<1>10. ASSUME NEW t \in Txs, UpdateBatch(t)
       PROVE  TypeOK'
  <2> DEFINE own == {c \in tx[t].sel : row[c] \in WaitingRow}
  <2>1. own \in SUBSET Rows
    BY <1>0 DEF TxRecord
  <2>2. tx' = [tx EXCEPT ![t] = [tx[t] EXCEPT !.own = own,
                                      !.pc = IF own = {} THEN "commit" ELSE "gate"]]
    BY <1>10 DEF UpdateBatch
  <2> HIDE DEF own
  <2>3. tx' \in [Txs -> TxRecord]
    BY <1>0, <2>1, <2>2, UpdateType
  <2> QED
    BY <1>10, <2>3 DEF UpdateBatch, TypeOK, TxRecord
<1>11. ASSUME NEW kind \in {"scope", "bulk"}, StartCall(kind)
       PROVE  TypeOK'
  BY <1>11 DEF StartCall, TypeOK
<1>12. CASE CallStep
  BY <1>9, <1>10, <1>11, <1>12 DEF CallStep
<1>13. CASE UNCHANGED vars
  BY <1>13 DEF vars, TypeOK
<1> QED
  BY <1>1, <1>2, <1>4, <1>8, <1>12, <1>13 DEF Next

----------------------------------------------------------------------------
(* The inductive invariant. *)

LEMMA InvInit == Init => Inv
<1> SUFFICES ASSUME Init PROVE Inv
  OBVIOUS
<1>1. \A t \in Txs : tx[t] = Idle
  BY DEF Init
<1> QED
  BY <1>1, TypeInit, NameAssumption
     DEF Init, Inv, LocksOK, CheckOK, FireOK, CallOK, BarrierHasPending, Idle, NoCall, Rows

LEMMA InvParent == Inv /\ TypeOK' /\ ParentStep => Inv'
<1> SUFFICES ASSUME Inv, TypeOK', ParentStep PROVE Inv'
  OBVIOUS
<1> USE DEF Inv
<1>0. NoTx \notin Txs
  BY NameAssumption
<1>1. ASSUME NEW F \in SUBSET Children, NEW b \in BOOLEAN, FinalizeParent(F, b)
      PROVE  Inv'
  BY <1>0, <1>1 DEF FinalizeParent, Landing, Declarable, TypeOK, LocksOK, CheckOK, Remaining, FireOK, CallOK,
                    BarrierHasPending
<1>2. CASE CommitParent
  <2>1. LocksOK'
    BY <1>2 DEF CommitParent, BarrierColumns, LocksOK
  <2>a. /\ parent.declares => (raced' <=> \E t \in Txs : tx[t].pc = "commit" /\ tx[t].own # {})
        /\ ~parent.declares => (parent'.barrier <=> parent.barrier) /\ (raced' <=> raced)
        /\ landed' = IF parent.declares THEN landing ELSE landed
        /\ UNCHANGED <<tx, holder>>
    BY <1>2 DEF CommitParent, BarrierColumns
  <2>b. \A c \in Rows : row'[c] = IF c \in landing THEN "waiting" ELSE row[c]
    BY <1>2 DEF CommitParent, BarrierColumns
  <2>2. CheckOK'
    <3>1. \A t \in Txs : Remaining(t) # {} => Remaining(t)' # {}
      BY <2>a, <2>b DEF Remaining, PendingRow
    <3> QED
      BY <2>a, <3>1 DEF CheckOK
  <2>3. \A t \in Txs : ~tx[t].fire
    BY <1>0, <1>2 DEF CommitParent, BarrierColumns, LocksOK
  <2>4. FireOK'
    BY <1>2, <2>3 DEF CommitParent, BarrierColumns, FireOK, TypeOK, Rows
  <2>5. CallOK'
    BY <1>2 DEF CommitParent, BarrierColumns, CallOK
  <2>6. BarrierHasPending'
    <3>1. landing \subseteq Rows
      BY DEF TypeOK, Rows
    <3>2. CASE parent.declares
      BY <2>a, <2>b, <3>1, <3>2 DEF BarrierHasPending, PendingRow
    <3>3. CASE ~parent.declares
      BY <2>a, <2>b, <3>3 DEF BarrierHasPending, PendingRow
    <3> QED
      BY <3>2, <3>3
  <2> QED
    BY <2>1, <2>2, <2>4, <2>5, <2>6
<1>3. CASE AbortParent
  BY <1>3 DEF AbortParent, TypeOK, LocksOK, CheckOK, Remaining, FireOK, CallOK, BarrierHasPending
<1>4. CASE RetryParent
  BY <1>4 DEF RetryParent, TypeOK, LocksOK, CheckOK, Remaining, FireOK, CallOK, BarrierHasPending
<1>5. CASE DeleteParent
  BY <1>5 DEF DeleteParent, TypeOK, LocksOK, CheckOK, FireOK, CallOK, BarrierHasPending
<1> QED
  BY <1>1, <1>2, <1>3, <1>4, <1>5 DEF ParentStep

LEMMA InvChild == Inv /\ TypeOK' /\ ChildStep => Inv'
<1> SUFFICES ASSUME Inv, TypeOK', NEW c \in Rows,
                    EnqueueChild(c) \/ Claim(c) \/ Return(c) \/ Requeue(c)
             PROVE  Inv'
  BY DEF ChildStep
<1> USE DEF Inv
<1>1. /\ row' = [row EXCEPT ![c] = row'[c]]
      /\ row'[c] \in PendingRow
      /\ UNCHANGED <<parent, holder, landing, tx, call, landed, raced, ended>>
  BY DEF EnqueueChild, Claim, Return, Requeue, PendingRow, TypeOK
<1>2. LocksOK' /\ CallOK'
  BY <1>1 DEF LocksOK, CallOK
<1>3. \A t \in Txs : Remaining(t) # {} => Remaining(t)' # {}
  BY <1>1 DEF Remaining, TypeOK
<1>4. CheckOK'
  BY <1>1, <1>3 DEF CheckOK
<1>5. FireOK'
  BY <1>1 DEF FireOK, PendingRow, TypeOK, Rows
<1>6. BarrierHasPending'
  BY <1>1 DEF BarrierHasPending, TypeOK
<1> QED
  BY <1>2, <1>4, <1>5, <1>6

\* The steps that change a session's record and no row: its other sessions'
\* records, and what they have counted, stay.
LEMMA InvEnd == Inv /\ TypeOK' /\ EndStep => Inv'
<1> SUFFICES ASSUME Inv, TypeOK', NEW t \in Txs, NEW S \in SUBSET Rows, Begin(t, S)
             PROVE  Inv'
  BY DEF EndStep, FinalizeChild, CancelChild, SweepDiscards
<1> USE DEF Inv
<1>1. /\ tx'[t].pc = "gate" /\ tx'[t].by = "job" /\ ~tx'[t].fire
      /\ \A u \in Txs : u # t => tx'[u] = tx[u]
      /\ UNCHANGED <<parent, holder, row, call, landed, raced, ended>>
  BY DEF Begin, TypeOK, Idle
<1>2. LocksOK'
  BY <1>1 DEF LocksOK
<1>3. CheckOK'
  BY <1>1 DEF CheckOK, Remaining
<1>4. FireOK'
  BY <1>1 DEF FireOK
<1>5. CallOK'
  BY <1>1 DEF CallOK
<1> QED
  BY <1>1, <1>2, <1>3, <1>4, <1>5 DEF BarrierHasPending

LEMMA InvCheck ==
    ASSUME Inv, TypeOK', NEW t \in Txs, Gate(t) \/ LockParent(t) \/ CountAndFire(t)
    PROVE  Inv'
<1> USE DEF Inv
<1>0. NoTx \notin Txs
  BY NameAssumption
<1>1. /\ tx'[t].by = tx[t].by /\ tx'[t].own = tx[t].own /\ tx'[t].sel = tx[t].sel
      /\ \A u \in Txs : u # t => tx'[u] = tx[u]
      /\ UNCHANGED <<parent, row, call, landed, raced, ended>>
  <2>1. tx \in [Txs -> TxRecord]
    BY DEF TypeOK, TxRecord
  <2>2. CASE Gate(t) \/ LockParent(t)
    BY <2>1, <2>2 DEF Gate, LockParent, TxRecord
  <2>3. CASE CountAndFire(t)
    <3> DEFINE none == Remaining(t) = {}
    <3>1. /\ tx' = [tx EXCEPT ![t] = [tx[t] EXCEPT !.pc = "commit", !.fire = none]]
          /\ UNCHANGED <<parent, row, call, landed, raced, ended>>
      BY <2>3 DEF CountAndFire
    <3> HIDE DEF none
    <3> QED
      BY <2>1, <3>1 DEF TxRecord
  <2> QED
    BY <2>2, <2>3
<1>2. \A u \in Txs : Remaining(u)' = Remaining(u)
  BY <1>1 DEF Remaining
<1>3. CallOK' /\ BarrierHasPending'
  BY <1>1 DEF CallOK, BarrierHasPending
<1>4. CASE Gate(t)
  <2>1. /\ holder' = holder /\ tx'[t].fire = tx[t].fire
        /\ tx'[t].pc = IF parent.barrier THEN "lock" ELSE "commit"
    BY <1>4 DEF Gate, TypeOK
  <2>2. LocksOK' /\ CheckOK' /\ FireOK'
    BY <1>1, <1>2, <1>4, <2>1 DEF Gate, LocksOK, CheckOK, FireOK
  <2> QED
    BY <1>3, <2>2
<1>5. CASE LockParent(t)
  <2>1. /\ holder' = t /\ holder = NoTx /\ tx'[t].fire = tx[t].fire
        /\ tx'[t].pc = IF parent.barrier THEN "count" ELSE "commit"
        /\ parent.state # "finalizing"
    BY <1>5 DEF LockParent, TypeOK
  <2>2. LocksOK' /\ CheckOK' /\ FireOK'
    BY <1>0, <1>1, <1>2, <1>5, <2>1 DEF LockParent, LocksOK, CheckOK, FireOK
  <2> QED
    BY <1>3, <2>2
<1>6. CASE CountAndFire(t)
  <2>1. /\ holder' = holder /\ tx'[t].fire = (Remaining(t) = {})
        /\ tx'[t].pc = "commit" /\ tx[t].pc = "count"
    <3> DEFINE none == Remaining(t) = {}
    <3>1. /\ tx' = [tx EXCEPT ![t] = [tx[t] EXCEPT !.pc = "commit", !.fire = none]]
          /\ holder' = holder /\ tx[t].pc = "count"
      BY <1>6 DEF CountAndFire
    <3>2. tx \in [Txs -> TxRecord]
      BY DEF TypeOK, TxRecord
    <3>3. tx'[t].fire = none
      <4> HIDE DEF none
      <4> QED
        BY <3>1, <3>2 DEF TxRecord
    <3>4. tx'[t].pc = "commit"
      <4> HIDE DEF none
      <4> QED
        BY <3>1, <3>2 DEF TxRecord
    <3> QED
      BY <3>1, <3>3, <3>4
  <2>2. LocksOK' /\ CheckOK'
    BY <1>1, <1>2, <2>1, ZenonT(60) DEF LocksOK, CheckOK
  <2>3. FireOK'
    <3>1. ASSUME Remaining(t) = {}, NEW c \in landed
          PROVE  c \in ended \cup tx[t].own
      BY <3>1 DEF Remaining, FireOK, TypeOK, PendingRow, Rows
    <3> QED
      BY <1>1, <2>1, <3>1 DEF FireOK
  <2> QED
    BY <1>3, <2>2, <2>3
<1> QED
  BY <1>4, <1>5, <1>6

LEMMA InvCommit ==
    ASSUME Inv, TypeOK', NEW t \in Txs, Commit(t)
    PROVE  Inv'
<1> USE DEF Inv
<1>0. NoTx \notin Txs
  BY NameAssumption
<1>1. /\ tx'[t] = Idle
      /\ \A u \in Txs : u # t => tx'[u] = tx[u]
      /\ tx[t].pc = "commit"
      /\ holder' = IF holder = t THEN NoTx ELSE holder
      /\ ended' = ended \cup tx[t].own
      /\ UNCHANGED <<landing, landed, raced>>
  BY DEF Commit, Release, TypeOK
<1>2. \A c \in Rows : row'[c] = IF c \in tx[t].own THEN "ended"
                                ELSE IF c = Continuation /\ tx[t].fire /\ row[c] = "absent"
                                     THEN "waiting" ELSE row[c]
  BY DEF Commit
<1>3. parent'.state = parent.state /\ parent'.barrier = (parent.barrier /\ ~tx[t].fire)
  BY DEF Commit, TypeOK
<1>4. LocksOK'
  BY <1>0, <1>1, <1>3 DEF LocksOK, Idle
<1>5. CheckOK'
  <2> SUFFICES ASSUME parent'.barrier, ~raced, NEW u \in Txs, tx'[u].pc = "commit",
                      tx'[u].own # {}, ~tx'[u].fire
               PROVE  holder' = u /\ Remaining(u)' # {}
    BY <1>1 DEF CheckOK
  <2>1. u # t /\ tx'[u] = tx[u]
    BY <1>1 DEF Idle
  <2>2. parent.barrier /\ ~tx[t].fire
    BY <1>3
  <2>3. holder = u /\ Remaining(u) # {}
    BY <2>1, <2>2 DEF CheckOK
  <2>4. tx[t].own = {}
    BY <1>1, <2>1, <2>2, <2>3 DEF CheckOK
  <2>5. \A c \in Rows : row'[c] = row[c]
    BY <1>2, <2>2, <2>4
  <2> QED
    BY <1>1, <2>1, <2>3, <2>5 DEF Remaining
<1>6. FireOK'
  <2>1. \A c \in Rows : row'[c] = "ended" => c \in ended'
    BY <1>1, <1>2 DEF FireOK
  <2>2. \A c \in landed' : row'[c] # "absent"
    BY <1>1, <1>2 DEF FireOK, TypeOK, Rows
  <2>3. \A u \in Txs : tx'[u].fire => landed' \subseteq ended' \cup tx'[u].own
    BY <1>1 DEF FireOK, Idle
  <2> QED
    BY <2>1, <2>2, <2>3 DEF FireOK
<1>7. CallOK'
  <2>1. CASE tx[t].by = "job"
    BY <1>1, <2>1 DEF Commit, CallAfter, CallOK, Idle
  <2>2. CASE tx[t].by = "call"
    <3>1. \A u \in Txs : tx'[u].by = "job"
      BY <1>1, <2>2 DEF CallOK, Idle, TypeOK
    <3>2. call' = NoCall \/ (call' = [call EXCEPT !.fired = call.fired \/ tx[t].fire]
                             /\ ~(tx[t].fire /\ call.kind = "scope"))
      BY <2>2 DEF Commit, CallAfter
    <3>3. call.kind \in {"scope", "bulk"} /\ (call.fired => call.kind = "bulk")
      BY <2>2 DEF CallOK, TypeOK
    <3> QED
      BY <3>1, <3>2, <3>3 DEF CallOK, NoCall, TypeOK
  <2> QED
    BY <2>1, <2>2 DEF TypeOK
<1>8. BarrierHasPending'
  <2> SUFFICES ASSUME parent'.barrier, landed # {}, ~raced
               PROVE  \E c \in Rows : row'[c] \in PendingRow
    BY <1>1 DEF BarrierHasPending
  <2>1. parent.barrier /\ ~tx[t].fire
    BY <1>3
  <2>2. CASE tx[t].own = {}
    <3>1. PICK c \in Rows : row[c] \in PendingRow
      BY <2>1 DEF BarrierHasPending
    <3> QED
      BY <1>2, <2>1, <2>2, <3>1
  <2>3. CASE tx[t].own # {}
    <3>1. PICK c \in Remaining(t) : TRUE
      BY <1>1, <2>1, <2>3 DEF CheckOK
    <3> QED
      BY <1>2, <2>1, <3>1 DEF Remaining
  <2> QED
    BY <2>2, <2>3
<1> QED
  BY <1>4, <1>5, <1>6, <1>7, <1>8

LEMMA InvAbort ==
    ASSUME Inv, TypeOK', NEW t \in Txs, Abort(t)
    PROVE  Inv'
<1> USE DEF Inv
<1>0. NoTx \notin Txs
  BY NameAssumption
<1>1. /\ tx'[t] = Idle
      /\ \A u \in Txs : u # t => tx'[u] = tx[u]
      /\ holder' = IF holder = t THEN NoTx ELSE holder
      /\ UNCHANGED <<parent, row, landing, landed, raced, ended>>
  BY DEF Abort, Release, TypeOK
<1>2. LocksOK'
  BY <1>0, <1>1 DEF LocksOK, Idle
<1>3. CheckOK'
  BY <1>0, <1>1 DEF CheckOK, Remaining, Idle
<1>4. FireOK'
  BY <1>1 DEF FireOK, Idle
<1>5. CallOK'
  <2>1. CASE call' = call
    BY <1>1, <2>1 DEF CallOK, Idle
  <2>2. CASE tx[t].by = "call" /\ call' = NoCall
    <3>1. \A u \in Txs : tx'[u].by = "job"
      BY <1>1, <2>2 DEF CallOK, Idle, TypeOK
    <3> QED
      BY <2>2, <3>1 DEF CallOK, NoCall
  <2> QED
    BY <2>1, <2>2 DEF Abort
<1> QED
  BY <1>1, <1>2, <1>3, <1>4, <1>5 DEF BarrierHasPending

LEMMA InvCall == Inv /\ TypeOK' /\ CallStep => Inv'
<1> SUFFICES ASSUME Inv, TypeOK', CallStep PROVE Inv'
  OBVIOUS
<1> USE DEF Inv
<1>1. ASSUME NEW kind \in {"scope", "bulk"}, StartCall(kind)
      PROVE  Inv'
  BY <1>1 DEF StartCall, NoCall, LocksOK, CheckOK, Remaining, FireOK, CallOK, BarrierHasPending
<1>2. ASSUME NEW t \in Txs, NEW S \in SUBSET Rows, SelectBatch(t, S), S = {}
      PROVE  Inv'
  <2>1. \A u \in Txs : tx[u].by = "job"
    BY <1>2 DEF SelectBatch, TypeOK
  <2>2. CallOK'
    BY <1>2, <2>1 DEF SelectBatch, CallOK, NoCall
  <2> QED
    BY <1>2, <2>2 DEF SelectBatch, LocksOK, CheckOK, Remaining, FireOK, BarrierHasPending
<1>3. ASSUME NEW t \in Txs, NEW S \in SUBSET Rows, SelectBatch(t, S), S # {}
      PROVE  Inv'
  <2>1. /\ tx'[t].pc = "update" /\ tx'[t].by = "call" /\ ~tx'[t].fire
        /\ tx'[t].own = {} /\ tx'[t].sel = S
        /\ \A u \in Txs : u # t => tx'[u] = tx[u]
        /\ UNCHANGED <<parent, holder, row, call, landed, raced, ended>>
    <3> DEFINE r == [Idle EXCEPT !.pc = "update", !.by = "call", !.sel = S]
    <3>1. /\ tx' = [tx EXCEPT ![t] = r]
          /\ UNCHANGED <<parent, holder, row, call, landed, raced, ended>>
      BY <1>3 DEF SelectBatch
    <3>2. r.pc = "update" /\ r.by = "call" /\ ~r.fire /\ r.own = {} /\ r.sel = S
      BY DEF Idle
    <3> HIDE DEF r
    <3> QED
      BY <3>1, <3>2 DEF TypeOK
  <2>2. \A u \in Txs : tx[u].by = "job"
    BY <1>3 DEF SelectBatch, TypeOK
  <2>3. call.kind # "none" /\ (call.fired => Continuation \notin S)
    BY <1>3 DEF SelectBatch, CallOK, Selectable, OwnContinuation
  <2>4. CallOK'
    BY <2>1, <2>2, <2>3 DEF CallOK
  <2>5. LocksOK' /\ CheckOK' /\ FireOK'
    BY <2>1 DEF LocksOK, CheckOK, Remaining, FireOK
  <2> QED
    BY <2>1, <2>4, <2>5 DEF BarrierHasPending
<1>4. ASSUME NEW t \in Txs, UpdateBatch(t)
      PROVE  Inv'
  <2>1. /\ tx'[t].own \subseteq tx[t].sel /\ tx'[t].sel = tx[t].sel
        /\ tx'[t].by = tx[t].by /\ tx'[t].fire = tx[t].fire /\ tx[t].pc = "update"
        /\ tx'[t].pc = IF tx'[t].own = {} THEN "commit" ELSE "gate"
        /\ \A u \in Txs : u # t => tx'[u] = tx[u]
        /\ UNCHANGED <<parent, holder, row, call, landed, raced, ended>>
    <3> DEFINE own == {c \in tx[t].sel : row[c] \in WaitingRow}
    <3>1. /\ tx' = [tx EXCEPT ![t] = [tx[t] EXCEPT !.own = own,
                                        !.pc = IF own = {} THEN "commit" ELSE "gate"]]
          /\ tx[t].pc = "update"
          /\ UNCHANGED <<parent, holder, row, call, landed, raced, ended>>
      BY <1>4 DEF UpdateBatch
    <3>2. tx \in [Txs -> TxRecord] /\ own \subseteq tx[t].sel
      BY DEF TypeOK, TxRecord
    <3> HIDE DEF own
    <3> QED
      BY <3>1, <3>2 DEF TxRecord
  <2>2. LocksOK' /\ CheckOK' /\ FireOK'
    BY <2>1 DEF LocksOK, CheckOK, Remaining, FireOK
  <2>3. CallOK'
    BY <2>1 DEF CallOK
  <2> QED
    BY <2>1, <2>2, <2>3 DEF BarrierHasPending
<1> QED
  BY <1>1, <1>2, <1>3, <1>4 DEF CallStep

LEMMA InvNext == Inv /\ [Next]_vars => Inv'
<1> SUFFICES ASSUME Inv, [Next]_vars PROVE Inv'
  OBVIOUS
<1>1. TypeOK'
  BY TypeStep DEF Inv
<1>2. CASE CheckStep
  BY <1>1, <1>2, InvCheck, InvCommit, InvAbort DEF CheckStep
<1>3. CASE UNCHANGED vars
  BY <1>1, <1>3 DEF vars, Inv, LocksOK, CheckOK, Remaining, FireOK, CallOK, BarrierHasPending
<1> QED
  BY <1>1, <1>2, <1>3, InvParent, InvChild, InvEnd, InvCall DEF Next

LEMMA Invariance == Spec => []Inv
BY InvInit, InvNext, PTL DEF Spec

----------------------------------------------------------------------------
(* The theorems. *)

\* A declared barrier that inserted a child, and raced with none, always has a
\* pending child left to fire it: fireBarrierIfComplete loses no last child.
THEOREM PendingSafety == Spec => []BarrierHasPending
BY Invariance, PTL DEF Inv

\* No CancelByParent and no bulk cancel takes the continuation it enqueued.
THEOREM SelfCancelSafety == Spec => []NoSelfCancel
<1>1. Inv => NoSelfCancel
  BY DEF Inv, CallOK, NoSelfCancel
<1> QED
  BY <1>1, Invariance, PTL

\* The barrier fires only once every follow-up of its generation has ended.
THEOREM FireSafety == Spec => FiresAfterGeneration
<1> DEFINE Step == parent.barrier /\ ~parent'.barrier /\ parent'.state # "deleted" =>
                     landed \subseteq ended'
<1>1. Inv /\ [Next]_vars => [Step]_vars
  <2> SUFFICES ASSUME Inv, Next, parent.barrier, ~parent'.barrier, parent'.state # "deleted"
               PROVE  landed \subseteq ended'
    OBVIOUS
  <2>1. ASSUME NEW t \in Txs, Commit(t)
        PROVE  landed \subseteq ended'
    BY <2>1 DEF Commit, Inv, FireOK
  <2>2. ASSUME NEW t \in Txs, Gate(t) \/ LockParent(t) \/ CountAndFire(t) \/ Abort(t)
        PROVE  FALSE
    <3>1. parent' = parent
      BY <2>2 DEF Gate, LockParent, CountAndFire, Abort
    <3> QED
      BY <3>1
  <2>3. CASE ParentStep
    <3>1. parent \in [state : {"running", "finalizing", "succeeded", "deleted"},
                      barrier : BOOLEAN, declares : BOOLEAN]
      BY DEF Inv, TypeOK
    <3>2. CASE \/ \E F \in SUBSET Children, b \in BOOLEAN : FinalizeParent(F, b)
               \/ AbortParent \/ RetryParent
      BY <3>1, <3>2 DEF FinalizeParent, Landing, Declarable, AbortParent, RetryParent
    <3>3. CASE CommitParent
      BY <3>3 DEF CommitParent, BarrierColumns
    <3>4. CASE DeleteParent
      BY <3>4 DEF DeleteParent
    <3> QED
      BY <2>3, <3>2, <3>3, <3>4 DEF ParentStep
  <2>4. CASE ChildStep \/ EndStep \/ CallStep
    BY <2>4 DEF ChildStep, EnqueueChild, Claim, Return, Requeue, EndStep, FinalizeChild,
                CancelChild, SweepDiscards, Begin, CallStep, StartCall, UpdateBatch, SelectBatch
  <2> QED
    BY <2>1, <2>2, <2>3, <2>4 DEF Next, CheckStep
<1> QED
  BY <1>1, Invariance, PTL DEF Spec, FiresAfterGeneration
=============================================================================
