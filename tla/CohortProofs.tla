---------------------------- MODULE CohortProofs ----------------------------
(* Proofs about Cohort, for any jobs, keys, batches and bounds: no replay or *)
(* bulk retry puts a job live beside an attempt of it whose run has started, *)
(* nothing puts one live beside a live holder of its key, and a walk in      *)
(* batches changes and counts what one statement over the whole cohort would *)
(* have.                                                                     *)
EXTENDS Cohort, FiniteSetTheorems, WellFoundedInduction, NaturalsInduction, TLAPS

AllStates == Live \cup Terminal \cup {"absent"}

CallFields == {"op", "pc", "cursor", "batch", "live", "races", "passed", "taken", "resumed",
               "changed", "key", "running", "terminal", "state"}

\* The rows, and the locals of the walk that decide which of them it changes.
CohortShape ==
    /\ job \in [Ids -> [state : AllStates, runs : Runs]]
    /\ DOMAIN call = CallFields
    /\ call.op \in Ops
    /\ call.batch \subseteq Ids /\ call.live \subseteq Ids
    /\ moved \subseteq Ids

\* An attempt outlives its claim in a cancelled job, and in one made live again
\* before the attempt's stub.
RunsOK == \A j \in Ids : job[j].runs # "no" => job[j].state \in Live \cup {"cancelled"}

\* The unique index's rule.
OneLive ==
    \A i, j \in Ids : i # j /\ Key[i] = Key[j] /\ Key[j] # NoKey
        => job[i].state \notin Live \/ job[j].state \notin Live

\* A batch that is about to be written: a dry run has none, and a replay's holds
\* one row per key.
WriteOK ==
    call.pc = "write" =>
        /\ call.op # "preview"
        /\ call.op = "replay" =>
             \A i, j \in call.live : i # j /\ Key[i] = Key[j] => Key[j] = NoKey

\* The keys of the jobs one run of a bulk retry put live.
TakenOK ==
    call.op = "retry" /\ ~call.resumed => \A i \in moved : Key[i] # NoKey => Key[i] \in call.taken

CohortInv == CohortShape /\ RunsOK /\ OneLive /\ WriteOK /\ TakenOK

----------------------------------------------------------------------------
(* The call's record. *)

\* A record that is still this call, with the same memory of the keys it took.
SameCall(c) ==
    /\ DOMAIN c = CallFields
    /\ c.op = call.op /\ c.resumed = call.resumed
    /\ c.batch \subseteq Ids /\ c.live \subseteq Ids

LEMMA WalkedCall ==
    ASSUME CohortShape
    PROVE  /\ SameCall(Walked) /\ Walked.pc = "read" /\ Walked.taken = call.taken
           /\ SameCall(Ended) /\ Ended.pc = "done" /\ Ended.taken = call.taken
BY DEF CohortShape, Walked, Ended, SameCall, CallFields

LEMMA PassedCall ==
    ASSUME NEW c, SameCall(c), NEW rows
    PROVE  /\ SameCall(Passed(c, rows)) /\ Passed(c, rows).pc \in {"done", "read"}
           /\ Passed(c, rows).taken = c.taken
BY DEF Passed, SameCall, CallFields

\* A step that changes no job and, if it goes on to write, has read a batch as
\* WriteOK says.
LEMMA ReadStep ==
    ASSUME CohortInv, job' = job, moved' = moved, SameCall(call'), call'.taken = call.taken,
           call'.pc = "write" =>
              /\ call'.op # "preview"
              /\ call'.op = "replay" =>
                   \A i, j \in call'.live : i # j /\ Key[i] = Key[j] => Key[j] = NoKey
    PROVE  CohortInv'
<1>1. CohortShape'
  BY DEF CohortInv, CohortShape, SameCall
<1>2. RunsOK' /\ OneLive'
  BY DEF CohortInv, RunsOK, OneLive
<1>3. WriteOK'
  BY DEF WriteOK
<1>4. TakenOK'
  BY DEF CohortInv, TakenOK, SameCall
<1> QED
  BY <1>1, <1>2, <1>3, <1>4 DEF CohortInv

----------------------------------------------------------------------------
(* One job per key. *)

\* Of rows that are all terminal, Free leaves one for each key.
LEMMA OnePerKey ==
    ASSUME CohortShape, NEW S \in SUBSET Ids, Reviving(call.op),
           \A j \in S : job[j].state \in Terminal,
           NEW i \in Free(S), NEW j \in Free(S), i # j, Key[i] = Key[j]
    PROVE  Key[j] = NoKey
<1>1. SUFFICES ASSUME Key[j] # NoKey PROVE FALSE
  OBVIOUS
<1> DEFINE ruled == {k \in S : KeyRuled(k)}
           held == {k \in ruled : KeyTaken(k)}
<1>2. i \in S /\ j \in S
  BY DEF Free, LiveCandidates
<1>3. i \in ruled /\ j \in ruled
  BY <1>1, <1>2 DEF KeyRuled
<1>4. i \in LiveCandidates(ruled, held) /\ j \in LiveCandidates(ruled, held)
  BY <1>3 DEF Free
<1>5. i >= j /\ j >= i
  BY <1>1, <1>4 DEF LiveCandidates
<1>6. i \in Nat /\ j \in Nat
  BY <1>2, CohortAssumption
<1> QED
  BY <1>5, <1>6

\* A terminal row that Free leaves is not kept by its key, and no other row that
\* it leaves has that key.
LEMMA FreeRow ==
    ASSUME CohortShape, NEW S \in SUBSET Ids, Reviving(call.op),
           \A k \in S : job[k].state \in Waiting \cup Terminal,
           NEW j \in Free(S), job[j].state \in Terminal
    PROVE  /\ ~Held(j)
           /\ Key[j] # NoKey => Key[j] \notin call.taken
           /\ \A i \in Free(S) : i # j /\ Key[i] = Key[j] => Key[j] = NoKey
<1> DEFINE ruled == {k \in S : KeyRuled(k)}
           held == {k \in ruled : KeyTaken(k)}
<1>1. j \in S
  BY DEF Free, LiveCandidates
<1>2. CASE Key[j] = NoKey
  BY <1>2 DEF Held
<1>3. CASE Key[j] # NoKey
  <2>1. j \in ruled
    BY <1>1, <1>3 DEF KeyRuled
  <2>2. j \in LiveCandidates(ruled, held)
    BY <2>1 DEF Free
  <2>3. j \notin held
    BY <2>2 DEF LiveCandidates
  <2>4. ~KeyTaken(j)
    BY <2>1, <2>3
  <2>5. ~Held(j) /\ Key[j] \notin call.taken
    BY <2>4 DEF KeyTaken
  <2>6. ASSUME NEW i \in Free(S), i # j, Key[i] = Key[j] PROVE FALSE
    <3>1. i \in S
      BY DEF Free, LiveCandidates
    <3>2. CASE i \in ruled
      <4>1. i \in LiveCandidates(ruled, held)
        BY <3>2 DEF Free
      <4>2. i >= j /\ j >= i
        BY <1>3, <2>2, <2>6, <4>1 DEF LiveCandidates
      <4>3. i \in Nat /\ j \in Nat
        BY <1>1, <3>1, CohortAssumption
      <4> QED
        BY <2>6, <4>2, <4>3
    <3>3. CASE i \notin ruled
      <4>1. job[i].state \notin Terminal
        BY <1>3, <2>6, <3>1, <3>3 DEF KeyRuled
      <4>2. job[i].state \in Live
        BY <3>1, <4>1 DEF Live
      <4>3. i \in Holders(Key[j]) \ {j}
        BY <2>6, <3>1, <4>2 DEF Holders
      <4> QED
        BY <1>3, <2>5, <4>3 DEF Held
    <3> QED
      BY <3>2, <3>3
  <2> QED
    BY <2>5, <2>6
<1> QED
  BY <1>2, <1>3

\* The first and the second part of RevivalsHold.
Alone(j) ==
    job[j].state \in Terminal /\ job'[j].state \in Live =>
        /\ call' # call => job[j].runs # "started"
        /\ \A i \in Ids \ {j} : Key[i] = Key[j] /\ Key[i] # NoKey => job'[i].state \notin Live

\* A batch whose rows stay live, end, or are revived alone.
LEMMA MovesHold ==
    ASSUME CohortInv, NEW S \in SUBSET Ids, NEW rows, Moves(S, rows),
           \A j \in S :
              LET s == Target(call.op, job[j].state)
              IN  /\ s \in Live \cup {"cancelled", "absent"}
                  /\ s \in Live =>
                        \/ job[j].state \in Live
                        \/ /\ job[j].runs # "started" /\ ~Held(j)
                           /\ \A i \in S : i # j /\ Key[i] = Key[j] => Key[j] = NoKey
    PROVE  /\ job' \in [Ids -> [state : AllStates, runs : Runs]]
           /\ RunsOK' /\ OneLive'
           /\ \A j \in Ids : Alone(j)
           /\ moved' \subseteq Ids
<1> DEFINE T(j) == Target(call.op, job[j].state)
<1>1. /\ job' = [j \in Ids |-> IF j \in S THEN Row(j, T(j)) ELSE job[j]]
      /\ moved' = moved \cup S
  BY DEF Moves
<1>2. /\ job \in [Ids -> [state : AllStates, runs : Runs]] /\ moved \subseteq Ids
      /\ RunsOK /\ OneLive
  BY DEF CohortInv, CohortShape
<1>3. \A j \in S : /\ T(j) \in Live \cup {"cancelled", "absent"}
                   /\ T(j) \in Live =>
                        \/ job[j].state \in Live
                        \/ /\ job[j].runs # "started" /\ ~Held(j)
                           /\ \A i \in S : i # j /\ Key[i] = Key[j] => Key[j] = NoKey
  OBVIOUS
<1> HIDE DEF T
<1>4. /\ \A j \in S : /\ job'[j].state = T(j)
                       /\ job'[j].runs = IF T(j) = "absent" THEN "no" ELSE job[j].runs
      /\ \A j \in Ids \ S : job'[j] = job[j]
  BY <1>1 DEF Row
<1>5. job' \in [Ids -> [state : AllStates, runs : Runs]]
  <2>1. \A j \in S : Row(j, T(j)) \in [state : AllStates, runs : Runs]
    BY <1>2, <1>3 DEF Row, Runs, AllStates, Terminal
  <2> QED
    BY <1>1, <1>2, <2>1
<1>6. RunsOK'
  <2> SUFFICES ASSUME NEW j \in Ids, job'[j].runs # "no"
               PROVE  job'[j].state \in Live \cup {"cancelled"}
    BY DEF RunsOK
  <2>1. CASE j \in S
    BY <1>3, <1>4, <2>1
  <2>2. CASE j \notin S
    BY <1>2, <1>4, <2>2 DEF RunsOK
  <2> QED
    BY <2>1, <2>2
<1>7. ASSUME NEW j \in S, T(j) \in Live, job[j].state \notin Live,
             NEW i \in Ids, i # j, Key[i] = Key[j], Key[j] # NoKey
      PROVE  job'[i].state \notin Live
  <2>1. ~Held(j) /\ i \notin S
    BY <1>3, <1>7
  <2>2. job[i].state \notin Live
    BY <1>7, <2>1 DEF Held, Holders
  <2> QED
    BY <1>4, <2>1, <2>2
<1>8. \A j \in Ids : job'[j].state \in Live /\ job[j].state \notin Live => j \in S /\ T(j) \in Live
  BY <1>4
<1>9. OneLive'
  <2> SUFFICES ASSUME NEW i \in Ids, NEW j \in Ids, i # j, Key[i] = Key[j], Key[j] # NoKey,
                      job'[i].state \in Live, job'[j].state \in Live
               PROVE  FALSE
    BY DEF OneLive
  <2>1. job[i].state \in Live /\ job[j].state \in Live
    BY <1>7, <1>8
  <2> QED
    BY <1>2, <2>1 DEF OneLive
<1>10. ASSUME NEW j \in Ids PROVE Alone(j)
  <2> SUFFICES ASSUME job[j].state \in Terminal, job'[j].state \in Live
               PROVE  /\ job[j].runs # "started"
                      /\ \A i \in Ids \ {j} : Key[i] = Key[j] /\ Key[i] # NoKey
                                               => job'[i].state \notin Live
    BY DEF Alone
  <2>1. job[j].state \notin Live
    BY DEF Live, Waiting, Terminal
  <2>2. j \in S /\ T(j) \in Live
    BY <1>8, <2>1
  <2> QED
    BY <1>3, <1>7, <2>1, <2>2
<1> QED
  BY <1>1, <1>2, <1>5, <1>6, <1>9, <1>10

----------------------------------------------------------------------------
(* The walk's steps. *)

\* The third part: one run of a bulk retry puts one job live per key.
OncePerKey(j) ==
    job[j].state \in Terminal /\ job'[j].state \in Live =>
        (call.op = "retry" /\ ~call.resumed /\ call' # call =>
             \A i \in moved' \ {j} : Key[i] = Key[j] => Key[j] = NoKey)

Revivals == \A j \in Ids : Alone(j) /\ OncePerKey(j)

LEMMA NoRevival ==
    ASSUME job' = job
    PROVE  Revivals
BY DEF Revivals, Alone, OncePerKey, Live, Waiting, Terminal

LEMMA CountStep ==
    ASSUME CohortInv, Count \/ Recount
    PROVE  CohortInv' /\ Revivals
<1>0. CohortShape
  BY DEF CohortInv
<1>1. job' = job /\ moved' = moved
  BY DEF Count, Recount, world, history
<1>2. SameCall(call') /\ call'.taken = call.taken /\ call'.pc \in {"refused", "read"}
  BY <1>0 DEF Count, Recount, SameCall, CohortShape, CallFields
<1> QED
  BY <1>1, <1>2, ReadStep, NoRevival

LEMMA ReplayReadsStep ==
    ASSUME CohortInv, ReplayReads
    PROVE  CohortInv' /\ Revivals
<1>0. CohortShape
  BY DEF CohortInv
<1>1. job' = job /\ moved' = moved /\ call.op = "replay"
  BY DEF ReplayReads, world, history
<1>2. Page \subseteq Ids /\ \A j \in Page : job[j].state \in Terminal
  <2>1. \A j \in Page : j \in Ids /\ Changeable(j)
    BY <1>1 DEF Page, First
  <2> QED
    BY <1>1, <2>1, CohortAssumption DEF Changeable, Source
<1>3. Free(Page) \subseteq Ids
  BY <1>2 DEF Free, LiveCandidates
<1>4. CASE Free(Page) = {}
  <2>1. call' = [Passed(Walked, Page) EXCEPT !.key = @ + Cardinality(Page)]
    BY <1>4 DEF ReplayReads
  <2>2. /\ SameCall(Passed(Walked, Page)) /\ Passed(Walked, Page).pc \in {"done", "read"}
        /\ Passed(Walked, Page).taken = call.taken
    BY <1>0, WalkedCall, PassedCall
  <2>3. SameCall(call') /\ call'.taken = call.taken /\ call'.pc # "write"
    BY <2>1, <2>2 DEF SameCall, CallFields
  <2> QED
    BY <1>1, <2>3, ReadStep, NoRevival
<1>5. CASE Free(Page) # {}
  <2>1. call' = [call EXCEPT !.pc = "write", !.batch = Page, !.live = Free(Page)]
    BY <1>5 DEF ReplayReads
  <2>2. /\ SameCall(call') /\ call'.taken = call.taken /\ call'.op = "replay"
        /\ call'.live = Free(Page)
    BY <1>0, <1>1, <1>2, <1>3, <2>1 DEF SameCall, CohortShape, CallFields
  <2>3. Reviving(call.op)
    BY <1>1 DEF Reviving
  <2>4. \A i, j \in call'.live : i # j /\ Key[i] = Key[j] => Key[j] = NoKey
    BY <1>0, <1>2, <2>2, <2>3, OnePerKey
  <2> QED
    BY <1>1, <2>2, <2>4, ReadStep, NoRevival
<1> QED
  BY <1>4, <1>5

LEMMA OtherReads ==
    ASSUME CohortInv, BulkReads \/ ScopeReads
    PROVE  CohortInv' /\ Revivals
<1>0. CohortShape
  BY DEF CohortInv
<1>1. job' = job /\ moved' = moved
  BY DEF BulkReads, ScopeReads, world, history
<1>2. Page \subseteq Ids
  BY DEF Page, First
<1>3. \A rows \in SUBSET Ids : SameCall([call EXCEPT !.pc = "write", !.batch = rows])
                               /\ [call EXCEPT !.pc = "write", !.batch = rows].taken = call.taken
  BY <1>0 DEF SameCall, CohortShape, CallFields
<1>4. CASE BulkReads
  <2>1. call.op \in Bulk /\ call.op # "replay"
    BY <1>4 DEF BulkReads, Bulk
  <2>2. CASE Size = 0
    <3>1. SameCall(call') /\ call'.taken = call.taken /\ call'.pc # "write"
      BY <1>0, <1>4, <2>2 DEF BulkReads, SameCall, CohortShape, CallFields
    <3> QED
      BY <1>1, <3>1, ReadStep, NoRevival
  <2>3. CASE Size # 0 /\ Page = {}
    <3>1. call' = Ended
      BY <1>4, <2>3 DEF BulkReads
    <3>2. SameCall(call') /\ call'.taken = call.taken /\ call'.pc # "write"
      BY <1>0, <3>1, WalkedCall
    <3> QED
      BY <1>1, <3>2, ReadStep, NoRevival
  <2>4. CASE Size # 0 /\ Page # {}
    <3>1. call' = [call EXCEPT !.pc = "write", !.batch = Page] /\ call.op # "preview"
      BY <1>4, <2>4 DEF BulkReads
    <3>2. SameCall(call') /\ call'.taken = call.taken
      BY <1>2, <1>3, <3>1
    <3>3. call'.op # "preview" /\ call'.op # "replay"
      BY <2>1, <3>1, <3>2 DEF SameCall
    <3> QED
      BY <1>1, <3>2, <3>3, ReadStep, NoRevival
  <2> QED
    BY <2>2, <2>3, <2>4
<1>5. CASE ScopeReads
  <2>1. call.op \in ByParent
    BY <1>5 DEF ScopeReads
  <2>2. PICK rows \in SUBSET InState(Source(call.op)) :
          call' = IF rows = {} THEN Ended ELSE [call EXCEPT !.pc = "write", !.batch = rows]
    BY <1>5 DEF ScopeReads
  <2>3. rows \in SUBSET Ids
    BY DEF InState
  <2>4. SameCall(call') /\ call'.taken = call.taken
    BY <1>0, <1>3, <2>2, <2>3, WalkedCall
  <2>5. call'.op # "preview" /\ call'.op # "replay"
    BY <2>1, <2>4 DEF SameCall, ByParent
  <2> QED
    BY <1>1, <2>4, <2>5, ReadStep, NoRevival
<1> QED
  BY <1>4, <1>5

\* What a tally leaves of the call.
LEMMA TalliedCall ==
    ASSUME CohortShape, NEW rows
    PROVE  LET able == {j \in rows : Changeable(j)}
               keys == IF Reviving(call.op) THEN {Key[j] : j \in Free(able)} \ {NoKey} ELSE {}
           IN  /\ SameCall(Tallied(rows)) /\ Tallied(rows).pc \in {"done", "read"}
               /\ Tallied(rows).taken = call.taken \cup keys
<1> DEFINE w == Passed(Walked, rows)
<1>1. SameCall(w) /\ w.pc \in {"done", "read"} /\ w.taken = call.taken
  BY WalkedCall, PassedCall
<1>2. DOMAIN w = CallFields
  BY <1>1 DEF SameCall
<1> QED
  BY <1>1, <1>2 DEF Tallied, SameCall, CallFields

LEMMA PreviewsStep ==
    ASSUME CohortInv, Previews
    PROVE  CohortInv' /\ Revivals
<1>0. CohortShape
  BY DEF CohortInv
<1>1. job' = job /\ moved' = moved /\ call.op = "preview" /\ call' = Tallied(Page)
  BY DEF Previews, world, history
<1>2. SameCall(call') /\ call'.pc # "write" /\ call'.op = "preview"
  BY <1>0, <1>1, TalliedCall DEF SameCall
<1>3. CohortShape'
  BY <1>0, <1>1, <1>2 DEF CohortShape, SameCall
<1>4. RunsOK' /\ OneLive' /\ WriteOK' /\ TakenOK'
  BY <1>1, <1>2 DEF CohortInv, RunsOK, OneLive, WriteOK, TakenOK
<1> QED
  BY <1>1, <1>3, <1>4, NoRevival DEF CohortInv

LEMMA PauseStep ==
    ASSUME CohortInv, LosesRace \/ Interrupted \/ Resumes
    PROVE  CohortInv' /\ Revivals
<1>0. CohortShape
  BY DEF CohortInv
<1>1. job' = job /\ moved' = moved
  BY DEF LosesRace, Interrupted, Resumes, world, history
<1>2. CASE LosesRace
  <2>1. CASE call.races < ReplayBatchRetries
    <3>1. /\ SameCall(call') /\ call'.taken = call.taken /\ call'.live = call.live
          /\ call.pc = "write"
      BY <1>0, <1>2, <2>1 DEF LosesRace, SameCall, CohortShape, CallFields
    <3> QED
      BY <1>1, <3>1, ReadStep, NoRevival DEF CohortInv, WriteOK, SameCall
  <2>2. CASE ~(call.races < ReplayBatchRetries)
    <3>1. SameCall(call') /\ call'.taken = call.taken /\ call'.pc = "failed"
      BY <1>0, <1>2, <2>2, WalkedCall DEF LosesRace, SameCall, CallFields
    <3> QED
      BY <1>1, <3>1, ReadStep, NoRevival
  <2> QED
    BY <2>1, <2>2
<1>3. CASE Interrupted
  <2>1. SameCall(call') /\ call'.taken = call.taken /\ call'.pc = "stopped"
    BY <1>0, <1>3, WalkedCall DEF Interrupted, SameCall, CallFields
  <2> QED
    BY <1>1, <2>1, ReadStep, NoRevival
<1>4. CASE Resumes
  <2>1. /\ DOMAIN call' = CallFields /\ call'.op = call.op /\ call'.pc = "count" /\ call'.resumed
        /\ call'.batch = call.batch /\ call'.live = call.live
    BY <1>0, <1>4 DEF Resumes, CohortShape, CallFields
  <2>2. CohortShape'
    BY <1>0, <1>1, <2>1 DEF CohortShape
  <2>3. RunsOK' /\ OneLive' /\ WriteOK' /\ TakenOK'
    BY <1>1, <2>1 DEF CohortInv, RunsOK, OneLive, WriteOK, TakenOK
  <2> QED
    BY <1>1, <2>2, <2>3, NoRevival DEF CohortInv
<1> QED
  BY <1>2, <1>3, <1>4

----------------------------------------------------------------------------
(* The batches. *)

\* The rows a replay locked: its guard looks again at the state and the key.
LEMMA ReplayWritesStep ==
    ASSUME CohortInv, ReplayWrites
    PROVE  CohortInv' /\ Revivals
<1> DEFINE S == {j \in call.live : StillReplays(j)}
<1>0. CohortShape /\ RunsOK /\ WriteOK
  BY DEF CohortInv
<1>1. call.pc = "write" /\ call.op = "replay" /\ Moves(S, call.batch)
  BY DEF ReplayWrites
<1>2. S \in SUBSET Ids
  BY <1>0 DEF CohortShape
<1>3. ASSUME NEW j \in S
      PROVE  /\ Target(call.op, job[j].state) \in Live \cup {"cancelled", "absent"}
             /\ job[j].runs # "started" /\ ~Held(j)
             /\ \A i \in S : i # j /\ Key[i] = Key[j] => Key[j] = NoKey
  <2>1. job[j].state \in Terminal /\ ~StillRuns(j) /\ ~Held(j) /\ j \in Ids
    BY <1>1, <1>2, CohortAssumption DEF StillReplays, Changeable, Source, Reviving
  <2>2. job[j].runs # "started"
    BY <1>0, <2>1 DEF RunsOK, StillRuns, Live, Waiting, Terminal
  <2>3. Target(call.op, job[j].state) = "available"
    BY <1>1 DEF Target
  <2>4. \A i \in S : i # j /\ Key[i] = Key[j] => Key[j] = NoKey
    BY <1>0, <1>1 DEF WriteOK
  <2> QED
    BY <2>1, <2>2, <2>3, <2>4 DEF AllStates, Live, Waiting
<1> HIDE DEF S
<1>4. /\ job' \in [Ids -> [state : AllStates, runs : Runs]]
      /\ RunsOK' /\ OneLive' /\ moved' \subseteq Ids
      /\ \A j \in Ids : Alone(j)
  BY <1>1, <1>2, <1>3, MovesHold
<1>5. SameCall(call') /\ call'.pc \in {"done", "read"}
  <2> DEFINE w == Passed(Walked, call.batch)
  <2>1. SameCall(w) /\ w.pc \in {"done", "read"}
    BY <1>0, WalkedCall, PassedCall
  <2> HIDE DEF w
  <2>2. call' = [w EXCEPT !.changed = @ + Cardinality(S),
                          !.key = @ + Cardinality(call.batch \ call.live)]
    BY DEF ReplayWrites, w, S
  <2> QED
    BY <2>1, <2>2 DEF SameCall, CallFields
<1>6. CohortShape' /\ WriteOK' /\ TakenOK'
  BY <1>0, <1>1, <1>4, <1>5 DEF CohortShape, WriteOK, TakenOK, SameCall
<1>7. Revivals
  BY <1>1, <1>4 DEF Revivals, OncePerKey
<1> QED
  BY <1>4, <1>6, <1>7 DEF CohortInv

\* A bulk batch is classified under its lock, with the keys the walk took.
LEMMA BulkWritesStep ==
    ASSUME CohortInv, BulkWrites
    PROVE  CohortInv' /\ Revivals
<1> DEFINE locked == {j \in call.batch : Selected(j)}
           able == {j \in locked : Changeable(j)}
           S == Free(able)
<1>0. CohortShape /\ RunsOK /\ WriteOK /\ TakenOK
  BY DEF CohortInv
<1>1. /\ call.pc = "write" /\ call.op \in Bulk /\ call.op # "preview"
      /\ Moves(S, call.batch)
  BY <1>0 DEF BulkWrites, WriteOK
<1>2. able \in SUBSET Ids /\ S \subseteq able
  BY <1>0 DEF CohortShape, Free, LiveCandidates
<1>3. \A j \in able : /\ job[j].state \in Source(call.op)
                      /\ Reviving(call.op) => ~StillRuns(j)
  BY DEF Changeable
<1>4. Reviving(call.op) <=> call.op = "retry"
  BY <1>1 DEF Reviving, Bulk
<1>5. ASSUME call.op = "retry", NEW j \in S, job[j].state \in Terminal
      PROVE  /\ job[j].runs # "started" /\ ~Held(j)
             /\ Key[j] # NoKey => Key[j] \notin call.taken
             /\ \A i \in S : i # j /\ Key[i] = Key[j] => Key[j] = NoKey
  <2>1. \A k \in able : job[k].state \in Waiting \cup Terminal
    BY <1>3, <1>5 DEF Source
  <2>2. job[j].runs # "started"
    BY <1>0, <1>2, <1>3, <1>4, <1>5 DEF RunsOK, StillRuns, Live, Waiting, Terminal
  <2> QED
    BY <1>0, <1>2, <1>4, <1>5, <2>1, <2>2, FreeRow
<1>6. ASSUME NEW j \in S
      PROVE  LET s == Target(call.op, job[j].state)
             IN  /\ s \in Live \cup {"cancelled", "absent"}
                 /\ s \in Live =>
                       \/ job[j].state \in Live
                       \/ /\ job[j].runs # "started" /\ ~Held(j)
                          /\ \A i \in S : i # j /\ Key[i] = Key[j] => Key[j] = NoKey
  <2>1. job[j].state \in Source(call.op)
    BY <1>2, <1>3
  <2>2. CASE call.op = "retry"
    <3>1. Target(call.op, job[j].state) = "available" /\ job[j].state \in Waiting \cup Terminal
      BY <2>1, <2>2 DEF Target, Source
    <3> QED
      BY <1>5, <2>2, <3>1 DEF AllStates, Live, Waiting
  <2>3. CASE call.op = "cancel"
    BY <2>1, <2>3 DEF Target, Source, AllStates, Live, Waiting, Terminal
  <2>4. CASE call.op = "delete"
    BY <2>1, <2>4 DEF Target, Source, AllStates, Live, Waiting, Terminal
  <2>5. CASE call.op = "reschedule"
    BY <2>1, <2>5 DEF Target, Source, AllStates, Live, Waiting, Terminal
  <2>6. CASE call.op = "pause"
    BY <2>1, <2>6 DEF Target, Source, AllStates, Live, Waiting, Terminal
  <2>7. CASE call.op = "resume"
    BY <2>1, <2>7 DEF Target, Source, AllStates, Live, Waiting, Terminal
  <2> QED
    BY <1>1, <2>2, <2>3, <2>4, <2>5, <2>6, <2>7 DEF Bulk
<1>7. S \in SUBSET Ids
  BY <1>2
<1>8. /\ SameCall(Tallied(locked))
      /\ Tallied(locked).taken
           = call.taken \cup (IF Reviving(call.op) THEN {Key[j] : j \in S} \ {NoKey} ELSE {})
  BY <1>0, TalliedCall
<1>9. LET p == Passed(Walked, call.batch)
      IN  call' = [Tallied(locked) EXCEPT !.cursor = p.cursor, !.passed = p.passed, !.pc = p.pc]
  BY DEF BulkWrites
<1>10. Passed(Walked, call.batch).pc \in {"done", "read"}
  BY <1>0, WalkedCall, PassedCall
<1> HIDE DEF S, able, locked
<1>11. /\ SameCall(call') /\ call'.pc \in {"done", "read"}
       /\ call'.taken = Tallied(locked).taken
  BY <1>8, <1>9, <1>10 DEF SameCall, CallFields
<1>12. /\ job' \in [Ids -> [state : AllStates, runs : Runs]]
       /\ RunsOK' /\ OneLive' /\ moved' \subseteq Ids
       /\ \A j \in Ids : Alone(j)
  BY <1>1, <1>6, <1>7, MovesHold
<1>13. moved' = moved \cup S
  BY <1>1 DEF Moves
<1>14. CohortShape' /\ WriteOK'
  BY <1>0, <1>11, <1>12 DEF CohortShape, WriteOK, SameCall
<1>15. TakenOK'
  BY <1>0, <1>4, <1>8, <1>11, <1>13 DEF TakenOK, SameCall
<1>16. ASSUME NEW j \in Ids PROVE OncePerKey(j)
  <2> SUFFICES ASSUME job[j].state \in Terminal, job'[j].state \in Live,
                      call.op = "retry", ~call.resumed,
                      NEW i \in moved', i # j, Key[i] = Key[j], Key[j] # NoKey
               PROVE  FALSE
    BY DEF OncePerKey
  <2>1. j \in S
    BY <1>1 DEF Moves, Live, Waiting, Terminal
  <2>2. Key[j] \notin call.taken /\ i \notin S
    BY <1>5, <2>1
  <2>3. i \in moved
    BY <1>13, <2>2
  <2> QED
    BY <1>0, <2>2, <2>3 DEF TakenOK
<1> QED
  BY <1>12, <1>14, <1>15, <1>16 DEF CohortInv, Revivals

\* A ByParent control revives nothing.
LEMMA ScopeWritesStep ==
    ASSUME CohortInv, ScopeWrites
    PROVE  CohortInv' /\ Revivals
<1> DEFINE S == {j \in call.batch : Changeable(j)}
<1>0. CohortShape
  BY DEF CohortInv
<1>1. call.op \in ByParent /\ Moves(S, call.batch)
  BY DEF ScopeWrites
<1>2. S \in SUBSET Ids
  BY <1>0 DEF CohortShape
<1>3. ASSUME NEW j \in S
      PROVE  /\ Target(call.op, job[j].state) \in Live \cup {"cancelled", "absent"}
             /\ Target(call.op, job[j].state) \in Live => job[j].state \in Live
  <2>1. job[j].state \in Source(call.op)
    BY DEF Changeable
  <2>2. CASE call.op = "pauseByParent"
    BY <2>1, <2>2 DEF Target, Source, AllStates, Live, Waiting, Terminal
  <2>3. CASE call.op = "resumeByParent"
    BY <2>1, <2>3 DEF Target, Source, AllStates, Live, Waiting, Terminal
  <2>4. CASE call.op = "cancelByParent"
    BY <2>1, <2>4 DEF Target, Source, AllStates, Live, Waiting, Terminal
  <2> QED
    BY <1>1, <2>2, <2>3, <2>4 DEF ByParent
<1> HIDE DEF S
<1>4. /\ job' \in [Ids -> [state : AllStates, runs : Runs]]
      /\ RunsOK' /\ OneLive' /\ moved' \subseteq Ids
      /\ \A j \in Ids : Alone(j)
  BY <1>1, <1>2, <1>3, MovesHold
<1>5. SameCall(call') /\ call'.pc \in {"done", "read"}
  BY <1>0, WalkedCall DEF ScopeWrites, SameCall, CallFields
<1>6. CohortShape' /\ WriteOK' /\ TakenOK'
  BY <1>0, <1>1, <1>4, <1>5 DEF CohortShape, WriteOK, TakenOK, SameCall, ByParent
<1>7. Revivals
  BY <1>1, <1>4 DEF Revivals, OncePerKey, ByParent
<1> QED
  BY <1>4, <1>6, <1>7 DEF CohortInv

----------------------------------------------------------------------------
(* The other actors, one job at a time. *)

LEMMA OthersStep ==
    ASSUME CohortInv, NEW j \in Ids, NEW row \in [state : AllStates, runs : Runs], Others(j, row),
           row.runs # "no" => row.state \in Live \cup {"cancelled"},
           row.state \in Live => job[j].state \in Live \/ ~Held(j)
    PROVE  CohortInv' /\ Revivals
<1>0. CohortShape /\ RunsOK /\ OneLive /\ WriteOK /\ TakenOK
  BY DEF CohortInv
<1>1. job' = [job EXCEPT ![j] = row] /\ call' = call /\ moved' = moved
  BY DEF Others, history
<1>2. /\ job \in [Ids -> [state : AllStates, runs : Runs]]
      /\ job'[j] = row
      /\ \A i \in Ids : i # j => job'[i] = job[i]
  BY <1>0, <1>1 DEF CohortShape
<1>3. CohortShape'
  BY <1>0, <1>1 DEF CohortShape
<1>4. RunsOK'
  BY <1>0, <1>2 DEF RunsOK
<1>5. WriteOK' /\ TakenOK'
  BY <1>0, <1>1 DEF WriteOK, TakenOK
<1>6. ASSUME row.state \in Live, NEW i \in Ids, i # j, Key[i] = Key[j], Key[j] # NoKey
      PROVE  job[i].state \notin Live
  <2>1. CASE job[j].state \in Live
    BY <1>0, <1>6, <2>1 DEF OneLive
  <2>2. CASE ~Held(j)
    BY <1>6, <2>2 DEF Held, Holders
  <2> QED
    BY <1>6, <2>1, <2>2
<1>7. OneLive'
  BY <1>0, <1>2, <1>6 DEF OneLive
<1>8. ASSUME NEW k \in Ids PROVE Alone(k) /\ OncePerKey(k)
  <2>1. OncePerKey(k)
    BY <1>1 DEF OncePerKey
  <2>2. CASE k # j
    BY <1>1, <1>2, <2>1, <2>2 DEF Alone, Live, Waiting, Terminal
  <2>3. CASE k = j
    BY <1>1, <1>2, <1>6, <2>1, <2>3 DEF Alone, Live, Waiting, Terminal
  <2> QED
    BY <2>2, <2>3
<1> QED
  BY <1>3, <1>4, <1>5, <1>7, <1>8 DEF CohortInv, Revivals

LEMMA OtherStep ==
    ASSUME CohortInv, NEW j \in Ids, Other(j)
    PROVE  CohortInv' /\ Revivals
<1> USE DEF AllStates, Live, Waiting, Terminal
<1>0. /\ job[j] \in [state : AllStates, runs : Runs]
      /\ job[j].runs # "no" => job[j].state \in Live \cup {"cancelled"}
  BY DEF CohortInv, CohortShape, RunsOK
<1>1. \A s \in AllStates : /\ Row(j, s) \in [state : AllStates, runs : Runs] /\ Row(j, s).state = s
                           /\ Row(j, s).runs = IF s = "absent" THEN "no" ELSE job[j].runs
  BY <1>0 DEF Row, Runs
<1>2. \A r \in Runs : /\ [job[j] EXCEPT !.runs = r] \in [state : AllStates, runs : Runs]
                      /\ [job[j] EXCEPT !.runs = r].state = job[j].state
                      /\ [job[j] EXCEPT !.runs = r].runs = r
  BY <1>0
<1>3. CASE Enqueue(j)
  <2>1. /\ Others(j, Row(j, "available")) /\ job[j].runs = "no" /\ ~Held(j)
    BY <1>0, <1>3 DEF Enqueue
  <2> QED
    BY <1>1, <2>1, OthersStep
<1>4. CASE Claim(j)
  <2> DEFINE row == [state |-> "running", runs |-> "claimed"]
  <2>1. row \in [state : AllStates, runs : Runs] /\ row.state = "running"
    BY DEF Runs
  <2>2. Others(j, row) /\ job[j].state \in Live
    BY <1>4 DEF Claim
  <2> HIDE DEF row
  <2> QED
    BY <2>1, <2>2, OthersStep
<1>5. CASE Stub(j)
  <2>1. job[j].runs = "claimed" /\ Others(j, [job[j] EXCEPT !.runs = "started"])
    BY <1>5 DEF Stub
  <2>2. job[j].state \in Live \cup {"cancelled"}
    BY <1>0, <2>1
  <2>3. "started" \in Runs
    BY DEF Runs
  <2> DEFINE row == [job[j] EXCEPT !.runs = "started"]
  <2>4. row \in [state : AllStates, runs : Runs] /\ row.state = job[j].state
    BY <1>2, <2>3
  <2>5. Others(j, row)
    BY <2>1
  <2> HIDE DEF row
  <2> QED
    BY <2>2, <2>4, <2>5, OthersStep
<1>6. CASE EndFenced(j)
  <2>1. job[j].runs # "no" /\ Others(j, [job[j] EXCEPT !.runs = "no"])
    BY <1>6 DEF EndFenced
  <2>2. job[j].state \in Live \cup {"cancelled"}
    BY <1>0, <2>1
  <2>3. "no" \in Runs
    BY DEF Runs
  <2> DEFINE row == [job[j] EXCEPT !.runs = "no"]
  <2>4. row \in [state : AllStates, runs : Runs] /\ row.state = job[j].state /\ row.runs = "no"
    BY <1>2, <2>3
  <2>5. Others(j, row)
    BY <2>1
  <2> HIDE DEF row
  <2> QED
    BY <2>2, <2>4, <2>5, OthersStep
<1>7. CASE CancelJob(j)
  BY <1>1, <1>7, OthersStep DEF CancelJob
<1>8. ASSUME NEW allowRunning \in BOOLEAN, RetryJob(j, allowRunning)
      PROVE  CohortInv' /\ Revivals
  <2>1. Others(j, Row(j, "available")) /\ ~Held(j) /\ job[j].state # "absent"
    BY <1>8 DEF RetryJob
  <2> QED
    BY <1>1, <2>1, OthersStep
<1>9. CASE PauseJob(j)
  BY <1>1, <1>9, OthersStep DEF PauseJob
<1>10. CASE ResumeJob(j)
  BY <1>1, <1>10, OthersStep DEF ResumeJob
<1>11. CASE DeleteJob(j)
  BY <1>1, <1>11, OthersStep DEF DeleteJob
<1>12. ASSUME NEW s \in {"available", "succeeded", "discarded"}, EndRun(j, s)
       PROVE  CohortInv' /\ Revivals
  <2> DEFINE row == [state |-> s, runs |-> "no"]
  <2>1. row \in [state : AllStates, runs : Runs] /\ row.runs = "no"
    BY DEF Runs
  <2>2. Others(j, row) /\ job[j].state \in Live
    BY <1>12 DEF EndRun
  <2> HIDE DEF row
  <2> QED
    BY <2>1, <2>2, OthersStep
<1> QED
  BY <1>3, <1>4, <1>5, <1>6, <1>7, <1>8, <1>9, <1>10, <1>11, <1>12 DEF Other

----------------------------------------------------------------------------
(* The theorem. *)

LEMMA CohortInit == Init => CohortInv
<1> SUFFICES ASSUME Init PROVE CohortInv
  OBVIOUS
<1>1. /\ job \in [Ids -> [state : InitialStates \cup {"absent"}, runs : Runs]]
      /\ \A j \in Ids :
           /\ job[j].runs # "no" => job[j].state \in {"running", "cancelled"}
           /\ Key[j] = NoKey \/ job[j].state \notin Live
                \/ \A i \in Ids \ {j} : Key[i] = Key[j] => job[i].state \notin Live
  BY DEF Init
<1>2. PICK op \in Ops : call = NewCall(op)
  BY DEF Init
<1>3. /\ DOMAIN call = CallFields /\ call.op \in Ops /\ call.pc = "count"
      /\ call.batch = {} /\ call.live = {} /\ moved = {}
  BY <1>2 DEF NewCall, CallFields, Init
<1>4. job \in [Ids -> [state : AllStates, runs : Runs]]
  BY <1>1, CohortAssumption DEF AllStates
<1>5. CohortShape
  BY <1>3, <1>4 DEF CohortShape
<1>6. RunsOK /\ OneLive
  BY <1>1 DEF RunsOK, OneLive, Live
<1>7. WriteOK /\ TakenOK
  BY <1>3 DEF WriteOK, TakenOK
<1> QED
  BY <1>5, <1>6, <1>7 DEF CohortInv

LEMMA CohortNext == CohortInv /\ Next => CohortInv' /\ Revivals
<1> SUFFICES ASSUME CohortInv, Next PROVE CohortInv' /\ Revivals
  OBVIOUS
<1>1. CASE Walk
  BY <1>1, CountStep, ReplayReadsStep, ReplayWritesStep, OtherReads, PreviewsStep,
     BulkWritesStep, ScopeWritesStep DEF Walk
<1>2. CASE LosesRace \/ Interrupted \/ Resumes
  BY <1>2, PauseStep
<1>3. CASE \E j \in Ids : Other(j)
  BY <1>3, OtherStep
<1> QED
  BY <1>1, <1>2, <1>3 DEF Next

LEMMA CohortStill == CohortInv /\ UNCHANGED vars => CohortInv'
BY DEF CohortInv, CohortShape, RunsOK, OneLive, WriteOK, TakenOK, vars

\* For any jobs, keys, batch sizes and bounds, no replay and no bulk retry puts a
\* job live beside an attempt of it whose run has started, no retry or replay puts
\* one live beside a live holder of its key, and one run of a forced bulk retry
\* puts one job live per key (replay.go's replayBatch, bulk.go's applyBatch, schedule.go's retry).
THEOREM RevivalSafety == Spec => RevivalsHold
<1> DEFINE A == \A j \in Ids : job[j].state \in Terminal /\ job'[j].state \in Live =>
          /\ call' # call => job[j].runs # "started"
          /\ \A i \in Ids \ {j} : Key[i] = Key[j] /\ Key[i] # NoKey => job'[i].state \notin Live
          /\ call.op = "retry" /\ ~call.resumed /\ call' # call =>
               \A i \in moved' \ {j} : Key[i] = Key[j] => Key[j] = NoKey
<1>1. Revivals => A
  BY DEF Revivals, Alone, OncePerKey
<1>2. CohortInv /\ [Next]_vars => CohortInv'
  BY CohortNext, CohortStill
<1>3. CohortInv /\ [Next]_vars => [A]_vars
  BY <1>1, CohortNext
<1>4. RevivalsHold <=> [][A]_vars
  BY DEF RevivalsHold
<1> HIDE DEF A
<1> QED
  BY <1>2, <1>3, <1>4, CohortInit, PTL DEF Spec
----------------------------------------------------------------------------
(* The walk is exact. *)

\* What the walk has yet to read: by its own statement, and of its cohort.
Matches == {j \in Ids : Past(j) /\ (IF call.op = "replay" THEN Changeable(j) ELSE Selected(j))}
Rest == {j \in cohort : Past(j)}
Behind(S) == {j \in S : j <= call.cursor}
Able(S) == {j \in S : Changeable(j)}

Sum == call.changed + call.key + call.running + call.terminal + call.state
Counted == call.pc # "count" \/ call.resumed
ById == call.op \notin ByParent

\* P is the lower part of S.
Segment(P, S) == P \subseteq S /\ \A i \in P, j \in S \ P : i < j

Counts == {"cursor", "passed", "changed", "key", "running", "terminal", "state"}

WalkShape ==
    /\ call.resumed \in BOOLEAN
    /\ \A f \in Counts : call[f] \in Nat
    /\ call.op \in Bulk => call.passed <= MaxJobs
    /\ due \subseteq cohort /\ cohort \subseteq Ids
    /\ total \in Nat

\* Before the count.
FreshOK ==
    ~Counted => /\ call.cursor = 0 /\ call.passed = 0 /\ call.taken = {} /\ Sum = 0
                /\ moved = {} /\ touched = {} /\ due = {} /\ cohort = {}

\* Nothing the walk changed is before its cursor again.
SlipsOK ==
    /\ ById => slips = {} /\ \A j \in moved : j <= call.cursor
    /\ call.op = "preview" => moved = {}

\* The keyless jobs of the cohort that nobody has changed yet are still to come.
Left == {j \in due \ (touched \cup moved) : Key[j] = NoKey}
LeftOK ==
    call.op # "preview" =>
        \A j \in Left : /\ Changeable(j)
                        /\ call.op \in Bulk => Selected(j)
                        /\ ById => Past(j)

\* A walk by id that nobody has raced: it has done to the jobs it has passed what
\* it would have done at once, and would do that to the rest now.
Caught ==
    /\ moved = IF call.op = "preview" THEN {} ELSE Behind(due)
    /\ call.changed = Cardinality(Behind(due))
    /\ Sum + Cardinality(Rest) = total
    /\ ~call.resumed => call.passed = Cardinality(Behind(cohort))
    /\ Rest = IF call.op = "preview" THEN First(Matches, MaxJobs - call.passed) ELSE Matches
    /\ {j \in due : Past(j)} = Free(Able(Rest))
    /\ call.op = "retry" => \A u \in call.taken : Holders(u) # {}

\* The same of a ByParent control, which has no cursor.
Scope == InState(Source(call.op))
CaughtByParent ==
    /\ due = moved \cup Scope /\ moved \cap Scope = {}
    /\ call.changed = Cardinality(moved)
    /\ Sum + Cardinality(Scope) = total

AtOnce ==
    Counted /\ touched = {} => /\ ById => Caught
                               /\ ~ById => CaughtByParent

\* A batch read and not yet written: it takes the jobs in order, and all of them
\* if it is short.
LastBatch == Cardinality(call.batch) < (IF ById THEN Size ELSE BatchSize)
BatchOK ==
    /\ call.batch # {}
    /\ call.op = "replay" => call.live \subseteq call.batch
    /\ ById => Cardinality(call.batch) <= Size /\ \A j \in call.batch : Past(j)
    /\ \A j \in Left : LastBatch \/ (ById /\ j <= Max(call.batch))
                       => j \in call.batch /\ (call.op = "replay" => j \in call.live)
    /\ touched = {} =>
         /\ ById => Segment(call.batch, Rest)
         /\ ~ById => call.batch \subseteq Scope
         /\ LastBatch => call.batch = IF ById THEN Rest ELSE Scope
         /\ call.op = "replay" => call.live = Free(call.batch)

\* A walk that has ended has nothing left.
DoneOK ==
    /\ call.op # "preview" => Left = {}
    /\ touched = {} => (IF ById THEN Rest ELSE Scope) = {}

WalkInv ==
    /\ WalkShape /\ FreshOK /\ SlipsOK /\ LeftOK /\ AtOnce
    /\ call.pc = "write" => BatchOK
    /\ call.pc = "done" => DoneOK

----------------------------------------------------------------------------
(* Ids in order. *)

LEMMA IdsAreNat == \A j \in Ids : j \in Nat /\ j > 0
BY CohortAssumption

LEMMA MinOfTwo ==
    ASSUME NEW a \in Int, NEW b \in Int
    PROVE  Min({a, b}) = IF a < b THEN a ELSE b
<1>1. \E x \in {a, b} : \A y \in {a, b} : x <= y
  OBVIOUS
<1> QED
  BY <1>1 DEF Min

LEMMA LeastId ==
    ASSUME NEW S \in SUBSET Nat, S # {}
    PROVE  \E x \in S : \A y \in S : x <= y
<1>1. PICK x \in S : \A y \in S : ~(<<y, x>> \in OpToRel(<, Nat))
  BY NatLessThanWellFounded, WFMin, Zenon
<1>2. ASSUME NEW y \in S PROVE x <= y
  <2>1. ~(y < x)
    BY <1>1 DEF OpToRel
  <2> QED
    BY <2>1
<1> QED
  BY <1>2

LEMMA SubsetCard ==
    ASSUME NEW S \in SUBSET Ids
    PROVE  /\ IsFiniteSet(S) /\ Cardinality(S) \in Nat
           /\ Cardinality(S) = 0 <=> S = {}
           /\ \A T \in SUBSET S : Cardinality(T) <= Cardinality(S)
<1>1. IsFiniteSet(S)
  BY CohortAssumption, FS_Subset
<1>2. \A T \in SUBSET S : Cardinality(T) <= Cardinality(S)
  BY <1>1, FS_Subset
<1> QED
  BY <1>1, <1>2, FS_CardinalityType, FS_EmptySet

LEMMA UnionCard ==
    ASSUME NEW S \in SUBSET Ids, NEW T \in SUBSET Ids, S \cap T = {}
    PROVE  Cardinality(S \cup T) = Cardinality(S) + Cardinality(T)
<1>1. IsFiniteSet(S) /\ IsFiniteSet(T) /\ Cardinality(S) \in Nat /\ Cardinality(T) \in Nat
  BY SubsetCard
<1>2. Cardinality(S \cup T) = Cardinality(S) + Cardinality(T) - Cardinality(S \cap T)
  BY <1>1, FS_Union
<1>3. Cardinality(S \cap T) = 0
  BY FS_EmptySet
<1> QED
  BY <1>1, <1>2, <1>3

\* A part and what it leaves.
LEMMA PartCard ==
    ASSUME NEW S \in SUBSET Ids, NEW T \in SUBSET S
    PROVE  Cardinality(S) = Cardinality(T) + Cardinality(S \ T)
<1>1. S = T \cup (S \ T) /\ T \cap (S \ T) = {} /\ T \in SUBSET Ids /\ S \ T \in SUBSET Ids
  OBVIOUS
<1>2. Cardinality(T \cup (S \ T)) = Cardinality(T) + Cardinality(S \ T)
  BY <1>1, UnionCard
<1> QED
  BY <1>1, <1>2

LEMMA GreatestId ==
    ASSUME NEW S \in SUBSET Ids, S # {}
    PROVE  Max(S) \in S /\ \A y \in S : y <= Max(S)
<1> DEFINE Above(x) == {y \in S : y > x}
           C == {Cardinality(Above(x)) : x \in S}
<1>1. \A x \in S : Above(x) \in SUBSET Ids /\ Cardinality(Above(x)) \in Nat
  BY SubsetCard
<1>2. C \in SUBSET Nat /\ C # {}
  BY <1>1
<1>3. PICK c \in C : \A d \in C : c <= d
  BY <1>2, LeastId
<1>4. PICK x \in S : c = Cardinality(Above(x))
  BY <1>3
<1>5. ASSUME NEW y \in S PROVE x >= y
  <2>1. SUFFICES ASSUME y > x PROVE FALSE
    BY <1>5, IdsAreNat
  <2>2. Above(y) \in SUBSET Above(x) /\ y \in Above(x) /\ y \notin Above(y)
    BY <2>1, IdsAreNat
  <2>3. Above(y) # Above(x)
    BY <2>2
  <2>4. IsFiniteSet(Above(x)) /\ Cardinality(Above(x)) \in Nat
    BY SubsetCard
  <2>5. Cardinality(Above(y)) <= Cardinality(Above(x)) /\ Cardinality(Above(x)) # Cardinality(Above(y))
    BY <2>2, <2>3, <2>4, FS_Subset
  <2>6. c <= Cardinality(Above(y)) /\ Cardinality(Above(y)) \in Nat
    BY <1>1, <1>3
  <2> QED
    BY <1>4, <2>4, <2>5, <2>6
<1> QED
  BY <1>5 DEF Max

----------------------------------------------------------------------------
(* The first n. *)

\* The jobs of S before j.
Before(S, j) == {i \in S : i < j}

LEMMA FirstSegment ==
    ASSUME NEW S \in SUBSET Ids, NEW n \in Nat
    PROVE  Segment(First(S, n), S)
<1>1. First(S, n) \subseteq S
  BY DEF First
<1>2. ASSUME NEW i \in First(S, n), NEW j \in S \ First(S, n) PROVE i < j
  <2>1. SUFFICES ASSUME j <= i PROVE FALSE
    BY <1>1, IdsAreNat
  <2>2. Before(S, j) \in SUBSET Before(S, i) /\ Before(S, i) \in SUBSET Ids
    BY <1>1, <2>1, IdsAreNat DEF Before
  <2>3. /\ Cardinality(Before(S, j)) <= Cardinality(Before(S, i))
        /\ Cardinality(Before(S, i)) \in Nat /\ Cardinality(Before(S, j)) \in Nat
    BY <2>2, SubsetCard
  <2>4. Cardinality(Before(S, i)) < n /\ ~(Cardinality(Before(S, j)) < n)
    BY DEF First, Before
  <2> QED
    BY <2>3, <2>4
<1> QED
  BY <1>1, <1>2 DEF Segment

LEMMA FirstCard ==
    ASSUME NEW S \in SUBSET Ids, NEW n \in Nat
    PROVE  /\ Cardinality(First(S, n)) \in Nat
           /\ Cardinality(First(S, n)) <= n
           /\ Cardinality(First(S, n)) < n => First(S, n) = S
           /\ First(S, n) = {} => n = 0 \/ S = {}
<1> DEFINE P == First(S, n)
<1>0. P \in SUBSET Ids /\ Segment(P, S) /\ P \in SUBSET S
  BY FirstSegment DEF Segment
<1>1. Cardinality(P) \in Nat
  BY <1>0, SubsetCard
<1>2. Cardinality(P) <= n
  <2>1. CASE P = {}
    BY <2>1, FS_EmptySet
  <2>2. CASE P # {}
    <3> DEFINE m == Max(P)
    <3>1. m \in P /\ \A y \in P : y <= m
      BY <1>0, <2>2, GreatestId
    <3>2. P = Before(S, m) \cup {m} /\ m \notin Before(S, m)
      BY <1>0, <3>1, IdsAreNat DEF Segment, Before
    <3>3. Cardinality(Before(S, m)) < n
      BY <3>1 DEF First, Before
    <3>4. IsFiniteSet(Before(S, m)) /\ Cardinality(Before(S, m)) \in Nat
      BY SubsetCard DEF Before
    <3>5. Cardinality(P) = Cardinality(Before(S, m)) + 1
      BY <3>2, <3>4, FS_AddElement
    <3> QED
      BY <3>3, <3>4, <3>5
  <2> QED
    BY <2>1, <2>2
<1>3. ASSUME P # S PROVE ~(Cardinality(P) < n)
  <2>1. PICK j \in S \ P : \A y \in S \ P : j <= y
    <3>1. S \ P \in SUBSET Nat /\ S \ P # {}
      BY <1>0, <1>3, IdsAreNat
    <3> QED
      BY <3>1, LeastId
  <2>2. P = Before(S, j)
    BY <1>0, <2>1, IdsAreNat DEF Segment, Before
  <2>3. ~(Cardinality(Before(S, j)) < n)
    BY <2>1 DEF First, Before
  <2> QED
    BY <2>2, <2>3
<1>4. ASSUME P = {}, n # 0 PROVE S = {}
  <2>1. Cardinality(P) = 0
    BY <1>4, FS_EmptySet
  <2> QED
    BY <1>3, <1>4, <2>1
<1> QED
  BY <1>1, <1>2, <1>3, <1>4

\* The first a of the first b, and what is left of them.
LEMMA FirstOfFirst ==
    ASSUME NEW S \in SUBSET Ids, NEW a \in Nat, NEW b \in Nat, a <= b
    PROVE  LET P == First(S, a)
           IN  /\ Segment(P, First(S, b))
               /\ First(S \ P, b - Cardinality(P)) = First(S, b) \ P
<1> DEFINE P == First(S, a)
<1>1. Segment(P, S) /\ P \in SUBSET S /\ P \in SUBSET Ids
  BY FirstSegment DEF Segment
<1>2. \A j \in S : Before(S, j) \in SUBSET Ids /\ Cardinality(Before(S, j)) \in Nat
  BY SubsetCard DEF Before
<1>3. P \subseteq First(S, b)
  BY <1>2 DEF First, Before
<1>4. Segment(P, First(S, b))
  BY <1>1, <1>3 DEF Segment, First
<1>5. ASSUME NEW j \in S \ P
      PROVE  Cardinality(Before(S, j)) = Cardinality(P) + Cardinality(Before(S \ P, j))
  <2>1. Before(S, j) = P \cup Before(S \ P, j) /\ P \cap Before(S \ P, j) = {}
    BY <1>1 DEF Before, Segment
  <2>2. Before(S \ P, j) \in SUBSET Ids
    BY DEF Before
  <2> QED
    BY <1>1, <2>1, <2>2, UnionCard
<1>6. Cardinality(P) \in Nat /\ \A j \in S \ P : Cardinality(Before(S \ P, j)) \in Nat
  BY <1>1, SubsetCard DEF Before
<1>7. First(S \ P, b - Cardinality(P)) = {j \in S \ P : Cardinality(Before(S \ P, j)) < b - Cardinality(P)}
  BY DEF First, Before
<1>8. First(S, b) \ P = {j \in S \ P : Cardinality(Before(S, j)) < b}
  BY DEF First, Before
<1>9. \A j \in S \ P : Cardinality(Before(S \ P, j)) < b - Cardinality(P)
                         <=> Cardinality(Before(S, j)) < b
  BY <1>5, <1>6
<1> HIDE DEF P
<1>10. First(S \ P, b - Cardinality(P)) = First(S, b) \ P
  BY <1>7, <1>8, <1>9
<1> QED
  BY <1>4, <1>10 DEF P

----------------------------------------------------------------------------
(* The jobs a key leaves free, of a part and of the rest. *)

\* The key is kept from other jobs: by a live job, or by the walk's memory.
Used(u) == Holders(u) # {} \/ u \in call.taken

LEMMA RuledTaken ==
    ASSUME NEW j \in Ids, KeyRuled(j)
    PROVE  /\ Key[j] \in Keys
           /\ KeyTaken(j) <=> Used(Key[j])
<1>1. Key[j] # NoKey /\ job[j].state \in Terminal
  BY DEF KeyRuled
<1>2. j \notin Holders(Key[j])
  BY <1>1 DEF Holders, Live, Waiting, Terminal
<1> QED
  BY <1>1, <1>2, CohortAssumption DEF KeyTaken, Held, Used

LEMMA RuledTakenNext ==
    ASSUME NEW j \in Ids, KeyRuled(j)'
    PROVE  KeyTaken(j)' <=> Used(Key[j])'
<1>1. Key[j] # NoKey /\ job'[j].state \in Terminal
  BY DEF KeyRuled
<1>2. j \notin Holders(Key[j])'
  BY <1>1 DEF Holders, Live, Waiting, Terminal
<1> QED
  BY <1>1, <1>2 DEF KeyTaken, Held, Used

\* Free, row by row: the first row of a key that is not used.
Leads(S, j) == KeyRuled(j) =>
    ~Used(Key[j]) /\ \A i \in S : KeyRuled(i) /\ Key[i] = Key[j] => i >= j

LEMMA FreeIff ==
    ASSUME NEW S \in SUBSET Ids
    PROVE  Free(S) = {j \in S : Leads(S, j)}
<1> DEFINE ruled == {j \in S : KeyRuled(j)}
           held == {j \in ruled : KeyTaken(j)}
<1>1. Free(S) = (S \ ruled) \cup LiveCandidates(ruled, held)
  BY DEF Free
<1>2. \A j \in ruled : Key[j] # NoKey /\ (j \in held <=> Used(Key[j]))
  BY RuledTaken DEF KeyRuled
<1>3. \A j \in ruled : j \in LiveCandidates(ruled, held) <=> Leads(S, j)
  BY <1>2 DEF LiveCandidates, Leads
<1>4. LiveCandidates(ruled, held) \subseteq ruled
  BY DEF LiveCandidates
<1>5. \A j \in S \ ruled : Leads(S, j)
  BY DEF Leads
<1> HIDE DEF held
<1> QED
  BY <1>1, <1>3, <1>4, <1>5

LEMMA FreeIffNext ==
    ASSUME NEW S \in SUBSET Ids
    PROVE  Free(S)' = {j \in S : Leads(S, j)'}
<1> DEFINE ruled == {j \in S : KeyRuled(j)'}
           held == {j \in ruled : KeyTaken(j)'}
<1>1. Free(S)' = (S \ ruled) \cup LiveCandidates(ruled, held)
  BY DEF Free, LiveCandidates
<1>2. \A j \in ruled : Key[j] # NoKey /\ (j \in held <=> Used(Key[j])')
  BY RuledTakenNext DEF KeyRuled
<1>3. \A j \in ruled : j \in LiveCandidates(ruled, held) <=> Leads(S, j)'
  BY <1>2 DEF LiveCandidates, Leads
<1>4. LiveCandidates(ruled, held) \subseteq ruled
  BY DEF LiveCandidates
<1>5. \A j \in S \ ruled : Leads(S, j)'
  BY DEF Leads
<1> HIDE DEF held
<1> QED
  BY <1>1, <1>3, <1>4, <1>5

LEMMA FreePart ==
    ASSUME NEW R \in SUBSET Ids, NEW P, Segment(P, R)
    PROVE  /\ Free(Able(P)) = Free(Able(R)) \cap P
           /\ Free(Able(R)) \subseteq Able(R)
<1>1. /\ Able(P) \in SUBSET Ids /\ Able(R) \in SUBSET Ids /\ Able(P) \subseteq Able(R)
      /\ \A i \in Able(P), j \in Able(R) \ Able(P) : i < j /\ i \in Nat /\ j \in Nat
  BY IdsAreNat DEF Segment, Able
<1>2. Free(Able(P)) = {j \in Able(P) : Leads(Able(P), j)} /\ Free(Able(R)) = {j \in Able(R) : Leads(Able(R), j)}
  BY <1>1, FreeIff
<1>3. \A j \in Able(P) : Leads(Able(P), j) <=> Leads(Able(R), j)
  BY <1>1 DEF Leads
<1>4. Able(P) = Able(R) \cap P
  BY DEF Able, Segment
<1> QED
  BY <1>2, <1>3, <1>4

\* Of rows of which none is ruled by a key, all are free.
LEMMA FreeAll ==
    ASSUME NEW S \in SUBSET Ids, \A j \in S : ~KeyRuled(j)
    PROVE  Free(S) = S
BY FreeIff DEF Leads

\* A walk that has dealt with P finds free, in the rest, the rows that it would have
\* found free at once.
LEMMA FreeRest ==
    ASSUME CohortShape, NEW R \in SUBSET Ids, NEW P, Segment(P, R), call'.op = call.op,
           \A j \in R \ P : job'[j] = job[j],
           Reviving(call.op) =>
               \A u \in Keys : Used(u)' <=> Used(u) \/ \E i \in Free(Able(P)) : Key[i] = u
    PROVE  Free(Able(R \ P))' = Free(Able(R)) \ P
<1>0. PICK Q : Q = Able(R) \ P
  OBVIOUS
<1>1. Q \in SUBSET Ids /\ Able(R) \in SUBSET Ids /\ Able(P) \in SUBSET Ids /\ Q \subseteq Able(R) /\ Q \subseteq R \ P
  BY <1>0 DEF Able, Segment
<1>2. \A j \in R \ P : (Changeable(j)' <=> Changeable(j)) /\ (KeyRuled(j)' <=> KeyRuled(j))
  BY DEF Changeable, KeyRuled, StillRuns
<1>3. Able(R \ P)' = Q
  BY <1>0, <1>2 DEF Able
<1>4. Free(Q)' = {j \in Q : Leads(Q, j)'}
  BY <1>1, FreeIffNext
<1>5. Free(Able(R \ P))' = Free(Q)'
  BY <1>3
<1>6. Free(Able(R)) = {j \in Able(R) : Leads(Able(R), j)}
  BY <1>1, FreeIff
<1>7. ASSUME NEW j \in Q PROVE Leads(Q, j)' <=> Leads(Able(R), j)
  <2>1. j \in R \ P /\ j \in Ids /\ j \in Nat /\ \A i \in Able(P) : i < j /\ i \in Nat
    BY <1>0, <1>1, IdsAreNat DEF Able, Segment
  <2>2. CASE ~KeyRuled(j)
    BY <1>2, <2>1, <2>2 DEF Leads
  <2>3. CASE KeyRuled(j)
    <3> DEFINE u == Key[j]
    <3>1. u \in Keys /\ u # NoKey /\ Reviving(call.op)
      BY <2>1, <2>3, RuledTaken DEF KeyRuled
    <3>2. Used(u)' <=> Used(u) \/ \E i \in Free(Able(P)) : Key[i] = u
      BY <3>1
    <3>3. Free(Able(P)) = {i \in Able(P) : Leads(Able(P), i)}
      BY <1>1, FreeIff
    <3>4. ASSUME Leads(Able(R), j) PROVE Leads(Q, j)'
      <4>1. ~Used(u) /\ \A i \in Able(R) : KeyRuled(i) /\ Key[i] = u => i >= j
        BY <2>3, <3>4 DEF Leads
      <4>2. ASSUME NEW i \in Free(Able(P)), Key[i] = u PROVE FALSE
        <5>1. i \in Able(P) /\ i \in Ids /\ i < j /\ i \in Able(R)
          BY <1>1, <2>1, <3>3 DEF Able, Segment
        <5>2. ~KeyRuled(i)
          BY <2>1, <4>1, <4>2, <5>1
        <5>3. job[i].state \notin Terminal /\ job[i].state \in Source(call.op)
          BY <3>1, <4>2, <5>1, <5>2 DEF KeyRuled, Able, Changeable
        <5>4. job[i].state \in Live
          BY <3>1, <5>3, CohortAssumption DEF Reviving, Source, Live
        <5>5. i \in Holders(u)
          BY <4>2, <5>1, <5>4 DEF Holders
        <5> QED
          BY <4>1, <5>5 DEF Used
      <4>3. ~Used(u)'
        BY <3>2, <4>1, <4>2
      <4>4. \A i \in Q : KeyRuled(i)' /\ Key[i] = u => i >= j
        BY <1>1, <1>2, <4>1
      <4> QED
        BY <4>3, <4>4 DEF Leads
    <3>5. ASSUME Leads(Q, j)' PROVE Leads(Able(R), j)
      <4>1. KeyRuled(j)'
        BY <1>2, <2>1, <2>3
      <4>2. ~Used(u)' /\ \A i \in Q : KeyRuled(i)' /\ Key[i] = u => i >= j
        BY <3>5, <4>1 DEF Leads
      <4>3. ~Used(u)
        BY <3>2, <4>2
      <4>4. ASSUME NEW i \in Able(R), KeyRuled(i), Key[i] = u PROVE i >= j
        <5>1. CASE i \in Q
          BY <1>1, <1>2, <4>2, <4>4, <5>1
        <5>2. CASE i \in P
          <6> DEFINE X == {x \in Able(P) : KeyRuled(x) /\ Key[x] = u}
          <6>1. X \in SUBSET Nat /\ X # {}
            BY <1>1, <2>1, <4>4, <5>2 DEF Able
          <6>2. PICK x \in X : \A y \in X : x <= y
            BY <6>1, LeastId
          <6>3. \A y \in Able(P) : KeyRuled(y) /\ Key[y] = u => y >= x
            BY <2>1, <6>2
          <6>4. Leads(Able(P), x)
            BY <4>3, <6>2, <6>3 DEF Leads
          <6>5. x \in Free(Able(P)) /\ Key[x] = u
            BY <3>3, <6>2, <6>4
          <6> QED
            BY <3>2, <4>2, <6>5
        <5> QED
          BY <1>0, <5>1, <5>2
      <4> QED
        BY <4>3, <4>4 DEF Leads
    <3> QED
      BY <3>4, <3>5
  <2> QED
    BY <2>2, <2>3
<1> QED
  BY <1>0, <1>1, <1>4, <1>5, <1>6, <1>7

----------------------------------------------------------------------------
(* The call's counts. *)

\* An operation is one of the three kinds.
LEMMA OpKinds ==
    ASSUME CohortShape
    PROVE  /\ call.op \in ByParent \cup Bulk \cup {"replay"}
           /\ call.op \in Bulk => ById /\ call.op # "replay"
           /\ call.op = "replay" => ById /\ call.op \notin Bulk
           /\ ~ById => call.op \in ByParent /\ call.op \notin Bulk /\ call.op # "preview"
BY CohortAssumption DEF CohortShape, ById, ByParent, Bulk

LEMMA SizeBound ==
    ASSUME CohortShape, WalkShape
    PROVE  /\ Size \in Nat
           /\ call.op \in Bulk => Size <= BatchSize /\ Size <= MaxJobs - call.passed
           /\ call.op \in Bulk /\ Size = 0 => call.passed = MaxJobs
           /\ call.op \notin Bulk => Size = BatchSize /\ Size > 0
<1>1. call.passed \in Nat /\ BatchSize \in Nat \ {0} /\ MaxJobs \in Nat \ {0}
  BY CohortAssumption DEF WalkShape, Counts
<1>2. call.op \in Bulk =>
        Size = IF BatchSize < MaxJobs - call.passed THEN BatchSize ELSE MaxJobs - call.passed
  BY <1>1, MinOfTwo DEF Size
<1>3. call.op \in Bulk => call.passed <= MaxJobs
  BY DEF WalkShape
<1> QED
  BY <1>1, <1>2, <1>3 DEF Size

LEMMA CountsAreNat ==
    ASSUME WalkShape
    PROVE  /\ call.cursor \in Nat /\ call.passed \in Nat
           /\ call.changed \in Nat /\ call.key \in Nat /\ call.running \in Nat
           /\ call.terminal \in Nat /\ call.state \in Nat /\ Sum \in Nat
BY DEF WalkShape, Counts, Sum

\* A call that has passed rows, before it counts them.
LEMMA PassedFields ==
    ASSUME CohortShape, NEW rows
    PROVE  LET w == Passed(Walked, rows)
           IN  /\ DOMAIN w = CallFields /\ w.op = call.op /\ w.resumed = call.resumed
               /\ w.cursor = IF rows = {} THEN call.cursor ELSE Max(rows)
               /\ w.passed = call.passed + Cardinality(rows)
               /\ w.pc = IF Cardinality(rows) < Size THEN "done" ELSE "read"
               /\ w.taken = call.taken /\ w.changed = call.changed /\ w.key = call.key
               /\ w.running = call.running /\ w.terminal = call.terminal
               /\ w.state = call.state
BY DEF CohortShape, CallFields, Passed, Walked

\* Each row read is counted once.
LEMMA TalliedFields ==
    ASSUME CohortShape, WalkShape, NEW rows \in SUBSET Ids
    PROVE  LET t == Tallied(rows)
           IN  /\ DOMAIN t = CallFields /\ t.op = call.op /\ t.resumed = call.resumed
               /\ t.cursor = IF rows = {} THEN call.cursor ELSE Max(rows)
               /\ t.passed = call.passed + Cardinality(rows)
               /\ t.pc = IF Cardinality(rows) < Size THEN "done" ELSE "read"
               /\ t.taken = call.taken \cup
                    (IF Reviving(call.op) THEN {Key[j] : j \in Free(Able(rows))} \ {NoKey} ELSE {})
               /\ t.changed = call.changed + Cardinality(Free(Able(rows)))
               /\ t.changed \in Nat /\ t.key \in Nat /\ t.running \in Nat /\ t.terminal \in Nat
               /\ t.state \in Nat
               /\ t.changed + t.key + t.running + t.terminal + t.state = Sum + Cardinality(rows)
<1> DEFINE able == Able(rows)
           free == Free(able)
           skipped == rows \ able
           run == {j \in skipped : job[j].state = "running" \/ (Reviving(call.op) /\ StillRuns(j))}
           term == {j \in skipped \ run : job[j].state \in Terminal}
           other == skipped \ (run \cup term)
           keys == IF Reviving(call.op) THEN {Key[j] : j \in free} \ {NoKey} ELSE {}
           w == Passed(Walked, rows)
           t == Tallied(rows)
<1>1. t = [w EXCEPT !.changed = @ + Cardinality(free), !.key = @ + Cardinality(able \ free),
                    !.running = @ + Cardinality(run), !.terminal = @ + Cardinality(term),
                    !.state = @ + Cardinality(other), !.taken = @ \cup keys]
  BY DEF Tallied, Able
<1>2. /\ able \in SUBSET Ids /\ able \subseteq rows /\ free \subseteq able
      /\ run \subseteq skipped /\ term \subseteq skipped \ run
  BY DEF Able, Free, LiveCandidates
<1> HIDE DEF able, free, run, term, t
<1>3. /\ Cardinality(rows) = Cardinality(able) + Cardinality(skipped)
      /\ Cardinality(able) = Cardinality(free) + Cardinality(able \ free)
      /\ Cardinality(skipped) = Cardinality(run) + Cardinality(skipped \ run)
      /\ Cardinality(skipped \ run) = Cardinality(term) + Cardinality(other)
  <2>1. /\ Cardinality(rows) = Cardinality(able) + Cardinality(skipped)
        /\ Cardinality(able) = Cardinality(free) + Cardinality(able \ free)
        /\ Cardinality(skipped) = Cardinality(run) + Cardinality(skipped \ run)
        /\ Cardinality(skipped \ run) = Cardinality(term) + Cardinality((skipped \ run) \ term)
    BY <1>2, PartCard
  <2>2. (skipped \ run) \ term = other
    OBVIOUS
  <2> QED
    BY <2>1, <2>2
<1>5. /\ Cardinality(free) \in Nat /\ Cardinality(able \ free) \in Nat /\ Cardinality(run) \in Nat
      /\ Cardinality(term) \in Nat /\ Cardinality(other) \in Nat
  <2>1. /\ free \in SUBSET Ids /\ able \ free \in SUBSET Ids /\ run \in SUBSET Ids
        /\ term \in SUBSET Ids /\ other \in SUBSET Ids
    BY <1>2
  <2> QED
    BY <2>1, SubsetCard
<1> HIDE DEF skipped, other, keys, w
<1>6. Cardinality(rows) = Cardinality(free) + Cardinality(able \ free) + Cardinality(run)
                            + Cardinality(term) + Cardinality(other)
  BY <1>3, <1>5
<1>7. /\ DOMAIN w = CallFields /\ w.op = call.op /\ w.resumed = call.resumed
      /\ w.cursor = IF rows = {} THEN call.cursor ELSE Max(rows)
      /\ w.passed = call.passed + Cardinality(rows)
      /\ w.pc = IF Cardinality(rows) < Size THEN "done" ELSE "read"
      /\ w.taken = call.taken /\ w.changed = call.changed /\ w.key = call.key
      /\ w.running = call.running /\ w.terminal = call.terminal /\ w.state = call.state
  BY PassedFields DEF w
<1>8. /\ DOMAIN t = CallFields /\ t.op = w.op /\ t.resumed = w.resumed
      /\ t.cursor = w.cursor /\ t.passed = w.passed /\ t.pc = w.pc
      /\ t.taken = w.taken \cup keys
      /\ t.changed = w.changed + Cardinality(free) /\ t.key = w.key + Cardinality(able \ free)
      /\ t.running = w.running + Cardinality(run) /\ t.terminal = w.terminal + Cardinality(term)
      /\ t.state = w.state + Cardinality(other)
  BY <1>1, <1>7 DEF CallFields
<1>9. /\ t.changed \in Nat /\ t.key \in Nat /\ t.running \in Nat /\ t.terminal \in Nat
      /\ t.state \in Nat
      /\ t.changed + t.key + t.running + t.terminal + t.state = Sum + Cardinality(rows)
  BY <1>5, <1>6, <1>7, <1>8, CountsAreNat DEF Sum
<1> QED
  BY <1>7, <1>8, <1>9 DEF t, able, free, keys

----------------------------------------------------------------------------
(* Passing rows: what a step that moves the cursor over P leaves. *)

\* The step passes P, in which it changed the jobs of S.
Passes(P, S) ==
    /\ call'.op = call.op /\ call'.resumed = call.resumed
    /\ call'.cursor = IF P = {} THEN call.cursor ELSE Max(P)
    /\ call'.passed = call.passed + Cardinality(P)
    /\ call'.pc = IF Cardinality(P) < Size THEN "done" ELSE "read"
    /\ \A f \in {"changed", "key", "running", "terminal", "state"} : call'[f] \in Nat
    /\ \A j \in Ids \ S : job'[j] = job[j]
    /\ moved' = moved \cup S /\ slips' = slips
    /\ due' = due /\ cohort' = cohort /\ total' = total /\ touched' = touched

\* The cursor is past P, and past nothing that is not.
LEMMA CursorMoves ==
    ASSUME WalkShape, NEW P \in SUBSET Ids, NEW S, Passes(P, S), \A j \in P : Past(j),
           NEW R \in SUBSET Ids, Segment(P, {j \in R : Past(j)})
    PROVE  /\ call.cursor <= call'.cursor /\ call'.cursor \in Nat
           /\ {j \in R : Past(j)'} = {j \in R : Past(j)} \ P
           /\ {j \in R : j <= call'.cursor} = {j \in R : j <= call.cursor} \cup P
           /\ {j \in R : j <= call.cursor} \cap P = {}
<1>1. call.cursor \in Nat /\ \A j \in R : j \in Nat
  BY CountsAreNat, IdsAreNat
<1>2. CASE P = {}
  BY <1>1, <1>2 DEF Passes, Past
<1>3. CASE P # {}
  <2>1. call'.cursor = Max(P) /\ Max(P) \in P /\ \A y \in P : y <= Max(P)
    BY <1>3, GreatestId DEF Passes
  <2>2. Max(P) > call.cursor /\ Max(P) \in Nat /\ Max(P) \in R /\ P \subseteq R
    BY <2>1, IdsAreNat DEF Past, Segment
  <2>3. \A j \in R : Past(j)' <=> j > Max(P)
    BY <2>1 DEF Past
  <2>4. \A j \in R : j \notin P /\ Past(j) => j > Max(P)
    BY <2>1 DEF Segment
  <2>5. \A j \in P : j \in Nat /\ j > call.cursor /\ j <= Max(P)
    BY <2>1, IdsAreNat DEF Past
  <2> QED
    BY <1>1, <2>1, <2>2, <2>3, <2>4, <2>5 DEF Past
<1> QED
  BY <1>2, <1>3

\* What the step must have done, if nobody raced the call, for it to stay exact.
PassesAtOnce(P, S) ==
    /\ Segment(P, Rest)
    /\ Cardinality(P) < Size => P = Rest
    /\ S = IF call.op = "preview" THEN {} ELSE Free(Able(P))
    /\ call'.changed = call.changed + Cardinality(Free(Able(P)))
    /\ Sum' = Sum + Cardinality(P)
    /\ Reviving(call.op) =>
         \A u \in Keys : Used(u)' <=> Used(u) \/ \E i \in Free(Able(P)) : Key[i] = u
    /\ call.op = "retry" => \A u \in call'.taken : Holders(u)' # {}
    /\ call.op = "preview" => First(Matches \ P, MaxJobs - call'.passed) = Rest \ P

LEMMA CaughtPasses ==
    ASSUME CohortInv, WalkShape, Caught, NEW P \in SUBSET Ids, NEW S \in SUBSET P, Passes(P, S),
           \A j \in P : Past(j), PassesAtOnce(P, S)
    PROVE  Caught' /\ Rest' = Rest \ P
<1> DEFINE F == Free(Able(P))
<1>1. CohortShape /\ due \subseteq cohort /\ cohort \subseteq Ids
  BY DEF CohortInv, WalkShape
<1>2. PICK R : R = Rest
  OBVIOUS
<1>3. R \in SUBSET Ids /\ Segment(P, R) /\ P \subseteq R
  BY <1>1, <1>2 DEF Rest, PassesAtOnce, Segment
<1>4. /\ Rest' = R \ P
      /\ {j \in cohort : j <= call'.cursor} = Behind(cohort) \cup P
      /\ Behind(cohort) \cap P = {}
      /\ call.cursor <= call'.cursor /\ call'.cursor \in Nat
  <2>1. cohort' = cohort
    BY DEF Passes
  <2>2. R = {j \in cohort : Past(j)}
    BY <1>2 DEF Rest
  <2> QED
    BY <1>1, <1>3, <2>1, <2>2, CursorMoves DEF Rest, Behind
<1>5. F = Free(Able(R)) \cap P /\ Free(Able(R)) = {j \in due : Past(j)} /\ F \in SUBSET Ids
  BY <1>2, <1>3, FreePart DEF Caught
<1>6. Behind(due)' = Behind(due) \cup F /\ Behind(due) \cap F = {} /\ Behind(due) \in SUBSET Ids
  <2>1. Behind(due)' = {j \in due : j <= call'.cursor}
    BY DEF Passes, Behind
  <2>2. \A j \in due : j <= call'.cursor <=> j <= call.cursor \/ j \in P
    BY <1>1, <1>4 DEF Behind
  <2>3. \A j \in due : j \in P => j \in F
    BY <1>5
  <2>4. F \subseteq due /\ F \subseteq P
    BY <1>5
  <2>5. Behind(due) \cap F = {}
    BY <1>1, <1>4, <2>4 DEF Behind
  <2> QED
    BY <1>1, <2>1, <2>2, <2>3, <2>4, <2>5 DEF Behind
<1>7. moved' = IF call'.op = "preview" THEN {} ELSE Behind(due)'
  BY <1>6 DEF Caught, Passes, PassesAtOnce
<1>8. call'.changed = Cardinality(Behind(due)')
  <2>1. Cardinality(Behind(due) \cup F) = Cardinality(Behind(due)) + Cardinality(F)
    BY <1>5, <1>6, UnionCard
  <2>2. call'.changed = Cardinality(Behind(due)) + Cardinality(F)
    BY DEF Caught, PassesAtOnce
  <2> QED
    BY <1>6, <2>1, <2>2
<1>9. Sum' + Cardinality(Rest') = total'
  <2>1. Cardinality(R) = Cardinality(P) + Cardinality(R \ P)
    BY <1>3, PartCard
  <2>2. Cardinality(P) \in Nat /\ Cardinality(R \ P) \in Nat /\ Sum \in Nat
    BY <1>3, SubsetCard, CountsAreNat
  <2>3. Sum' = Sum + Cardinality(P) /\ Sum + Cardinality(R) = total /\ total' = total
    BY <1>2 DEF Caught, PassesAtOnce, Passes
  <2> QED
    BY <1>4, <2>1, <2>2, <2>3
<1>10. ~call'.resumed => call'.passed = Cardinality(Behind(cohort)')
  <2>1. Behind(cohort)' = Behind(cohort) \cup P /\ Behind(cohort) \in SUBSET Ids
    BY <1>1, <1>4 DEF Behind, Passes
  <2>2. Cardinality(Behind(cohort) \cup P) = Cardinality(Behind(cohort)) + Cardinality(P)
    BY <1>4, <2>1, UnionCard
  <2> QED
    BY <2>1, <2>2 DEF Caught, Passes
<1>11. Matches' = Matches \ P
  <2> DEFINE ok(j) == IF call.op = "replay" THEN Changeable(j) ELSE Selected(j)
             M == {j \in Ids : ok(j)}
  <2>1. M \in SUBSET Ids /\ Matches = {j \in M : Past(j)}
    BY DEF Matches
  <2>2. Segment(P, Matches)
    <3>1. CASE call.op # "preview"
      BY <1>2, <1>3, <3>1 DEF Caught
    <3>2. CASE call.op = "preview"
      <4>1. R = First(Matches, MaxJobs - call.passed) /\ Matches \in SUBSET Ids
        BY <1>2, <3>2, <2>1 DEF Caught
      <4>2. MaxJobs - call.passed \in Nat
        BY <3>2, CountsAreNat, CohortAssumption DEF WalkShape, Bulk
      <4>3. Segment(R, Matches)
        BY <4>1, <4>2, FirstSegment
      <4> QED
        BY <1>3, <4>1, <4>3, IdsAreNat DEF Segment
    <3> QED
      BY <3>1, <3>2
  <2>3. {j \in M : Past(j)'} = {j \in M : Past(j)} \ P
    BY <2>1, <2>2, CursorMoves
  <2>4. ASSUME NEW j \in Ids, Past(j)'
        PROVE  (IF call'.op = "replay" THEN Changeable(j)' ELSE Selected(j)') <=> ok(j)
    <3>1. j \notin P
      <4>1. SUFFICES ASSUME j \in P PROVE FALSE
        OBVIOUS
      <4>2. call'.cursor = Max(P) /\ j <= Max(P)
        BY <4>1, GreatestId DEF Passes
      <4> QED
        BY <1>4, <2>4, <4>2, IdsAreNat DEF Past
    <3>2. job'[j] = job[j] /\ call'.op = call.op
      BY <3>1 DEF Passes
    <3> QED
      BY <3>2 DEF Changeable, Selected, StillRuns
  <2> HIDE DEF ok
  <2>5. Matches' = {j \in Ids : Past(j)' /\ (IF call'.op = "replay" THEN Changeable(j)' ELSE Selected(j)')}
    BY DEF Matches
  <2> QED
    BY <2>1, <2>3, <2>4, <2>5
<1>12. Rest' = IF call'.op = "preview" THEN First(Matches', MaxJobs - call'.passed) ELSE Matches'
  BY <1>2, <1>4, <1>11 DEF Caught, Passes, PassesAtOnce
<1>13. {j \in due' : Past(j)'} = Free(Able(Rest))'
  <2>1. Free(Able(R \ P))' = Free(Able(R)) \ P
    <3>1. \A j \in R \ P : job'[j] = job[j]
      BY <1>3 DEF Passes
    <3> QED
      BY <1>1, <1>3, <3>1, FreeRest DEF Passes, PassesAtOnce
  <2>2. Free(Able(Rest))' = Free(Able(R \ P))'
    BY <1>4
  <2>3. {j \in due : Past(j)'} = {j \in due : Past(j)} \ P
    <3>1. \A j \in cohort : Past(j)' <=> Past(j) /\ j \notin P
      <4>1. Rest' = {j \in cohort : Past(j)'}
        BY DEF Rest, Passes
      <4>2. Rest = {j \in cohort : Past(j)}
        BY DEF Rest
      <4> QED
        BY <1>2, <1>4, <4>1, <4>2
    <3> QED
      BY <1>1, <3>1
  <2> QED
    BY <1>5, <2>1, <2>2, <2>3 DEF Passes
<1>14. call'.op = "retry" => \A u \in call'.taken : Holders(u)' # {}
  BY DEF Passes, PassesAtOnce
<1> QED
  BY <1>2, <1>4, <1>7, <1>8, <1>9, <1>10, <1>12, <1>13, <1>14 DEF Caught

LEMMA PassStep ==
    ASSUME CohortInv, WalkInv, Counted, ById, NEW P \in SUBSET Ids, NEW S \in SUBSET P,
           Passes(P, S), Cardinality(P) <= Size, \A j \in P : Past(j),
           call.op = "preview" => S = {},
           call.op # "preview" =>
               \A j \in Left : Cardinality(P) < Size \/ (P # {} /\ j <= Max(P)) => j \in S,
           touched = {} => PassesAtOnce(P, S)
    PROVE  WalkInv'
<1>1. CohortShape /\ WalkShape /\ SlipsOK /\ LeftOK /\ AtOnce
  BY DEF CohortInv, WalkInv
<1>2. /\ call.cursor <= call'.cursor /\ call'.cursor \in Nat /\ call.cursor \in Nat
      /\ \A j \in P : j <= call'.cursor
      /\ \A j \in Ids : Past(j)' <=> Past(j) /\ (P # {} => j > Max(P))
  <2>1. call.cursor \in Nat
    BY <1>1, CountsAreNat
  <2>2. CASE P = {}
    BY <2>1, <2>2 DEF Passes, Past
  <2>3. CASE P # {}
    <3>1. call'.cursor = Max(P) /\ Max(P) \in P /\ \A y \in P : y <= Max(P)
      BY <2>3, GreatestId DEF Passes
    <3>2. Max(P) \in Nat /\ Max(P) > call.cursor
      BY <3>1, IdsAreNat DEF Past
    <3>3. \A j \in Ids : Past(j)' <=> j > Max(P)
      BY <3>1 DEF Past
    <3>4. \A j \in Ids : j > Max(P) => Past(j)
      BY <2>1, <3>2, IdsAreNat DEF Past
    <3> QED
      BY <2>1, <2>3, <3>1, <3>2, <3>3, <3>4
  <2> QED
    BY <2>2, <2>3
<1>3. WalkShape'
  <2>1. Cardinality(P) \in Nat /\ call.passed \in Nat
    BY <1>1, SubsetCard, CountsAreNat
  <2>2. call'.op \in Bulk => call'.passed <= MaxJobs
    BY <1>1, <2>1, SizeBound, CohortAssumption DEF Passes
  <2>3. call'.passed \in Nat
    BY <2>1 DEF Passes
  <2>4. \A f \in Counts : call'[f] \in Nat
    BY <1>2, <2>3 DEF Counts, Passes
  <2> QED
    BY <1>1, <2>2, <2>4 DEF WalkShape, Passes
<1>4. call'.pc \in {"read", "done"} /\ Counted' /\ ById'
  BY DEF Passes, Counted, ById
<1>5. FreshOK'
  BY <1>4 DEF FreshOK
<1>6. SlipsOK'
  <2>1. \A j \in moved : j <= call.cursor /\ j \in Nat
    BY <1>1, IdsAreNat DEF SlipsOK, CohortShape
  <2>2. \A j \in moved' : j <= call'.cursor
    BY <1>2, <2>1 DEF Passes
  <2> QED
    BY <1>1, <2>2 DEF SlipsOK, Passes, ById
<1>7. ASSUME call.op # "preview", NEW j \in Left'
      PROVE  j \in Left /\ j \notin S /\ j \in Ids /\ ~(Cardinality(P) < Size) /\ (P # {} => j > Max(P))
  <2>1. j \in due /\ j \notin touched /\ j \notin moved /\ j \notin S /\ Key[j] = NoKey
    BY DEF Left, Passes
  <2>2. j \in Left /\ j \in Ids
    BY <1>1, <2>1 DEF Left, WalkShape
  <2>3. ~(Cardinality(P) < Size \/ (P # {} /\ j <= Max(P)))
    BY <1>7, <2>1, <2>2
  <2>4. P # {} => Max(P) \in Nat /\ j \in Nat
    BY <2>2, GreatestId, IdsAreNat
  <2> QED
    BY <2>1, <2>2, <2>3, <2>4
<1>8. LeftOK'
  <2> SUFFICES ASSUME call'.op # "preview", NEW j \in Left'
               PROVE  /\ Changeable(j)' /\ (call'.op \in Bulk => Selected(j)') /\ (ById' => Past(j)')
    BY DEF LeftOK
  <2>1. call'.op = call.op /\ job'[j] = job[j]
    BY <1>7 DEF Passes
  <2>2. Changeable(j) /\ (call.op \in Bulk => Selected(j)) /\ Past(j)
    BY <1>1, <1>7, <2>1 DEF LeftOK
  <2>3. Past(j)'
    BY <1>2, <1>7, <2>1, <2>2
  <2> QED
    BY <2>1, <2>2, <2>3 DEF Changeable, Selected, StillRuns
<1>9. touched = {} => Caught' /\ Rest' = Rest \ P
  BY <1>1, CaughtPasses DEF AtOnce
<1>10. AtOnce'
  BY <1>4, <1>9 DEF AtOnce, Passes
<1>11. call'.pc = "done" => DoneOK'
  <2> SUFFICES ASSUME call'.pc = "done" PROVE DoneOK'
    OBVIOUS
  <2>1. Cardinality(P) < Size
    BY DEF Passes
  <2>2. call'.op # "preview" => Left' = {}
    BY <1>7, <2>1 DEF Passes
  <2>3. touched' = {} => Rest' = {}
    BY <1>9, <2>1 DEF Passes, PassesAtOnce
  <2> QED
    BY <1>4, <2>2, <2>3 DEF DoneOK
<1> QED
  BY <1>3, <1>4, <1>5, <1>6, <1>8, <1>10, <1>11 DEF WalkInv

----------------------------------------------------------------------------
(* Steps that pass nothing, and the page the next batch reads. *)

\* The walk stays where it is, and so does everything else.
Stays ==
    /\ call'.op = call.op /\ call'.resumed = call.resumed /\ call'.taken = call.taken
    /\ \A f \in Counts : call'[f] = call[f]
    /\ job' = job /\ touched' = touched
    /\ due' = due /\ cohort' = cohort /\ total' = total /\ moved' = moved /\ slips' = slips

LEMMA StaysSame ==
    ASSUME CohortShape, WalkShape, Stays
    PROVE  /\ Left' = Left /\ Rest' = Rest /\ Matches' = Matches /\ Size' = Size
           /\ (ById' <=> ById) /\ Scope' = Scope /\ Sum' = Sum
           /\ \A j \in Ids : /\ Past(j)' <=> Past(j)
                             /\ Changeable(j)' <=> Changeable(j)
                             /\ Selected(j)' <=> Selected(j)
           /\ \A S \in SUBSET Ids : /\ Free(S)' = Free(S)
                                    /\ Able(S)' = Able(S)
                                    /\ Behind(S)' = Behind(S)
<1>0. /\ call'.op = call.op /\ call'.taken = call.taken /\ job' = job
      /\ call'.cursor = call.cursor /\ call'.passed = call.passed
      /\ call'.changed = call.changed /\ call'.key = call.key /\ call'.running = call.running
      /\ call'.terminal = call.terminal /\ call'.state = call.state
      /\ due' = due /\ cohort' = cohort /\ moved' = moved /\ touched' = touched
  BY DEF Stays, Counts
<1>1. \A j \in Ids : /\ Past(j)' <=> Past(j)
                     /\ Changeable(j)' <=> Changeable(j)
                     /\ Selected(j)' <=> Selected(j)
  BY <1>0 DEF Past, Changeable, Selected, StillRuns
<1>2. Left' = Left /\ Size' = Size /\ (ById' <=> ById) /\ Scope' = Scope /\ Sum' = Sum
  BY <1>0 DEF Left, Size, ById, Scope, InState, Sum
<1>3. Rest' = Rest
  BY <1>0 DEF Rest, Past
<1>4. Matches' = Matches
  BY <1>0, <1>1 DEF Matches
<1>5. ASSUME NEW S \in SUBSET Ids PROVE Free(S)' = Free(S)
  <2>1. \A j \in Ids : (Used(Key[j])' <=> Used(Key[j])) /\ (KeyRuled(j)' <=> KeyRuled(j))
    BY <1>0 DEF Used, Holders, KeyRuled
  <2>2. \A j \in S : Leads(S, j)' <=> Leads(S, j)
    BY <2>1 DEF Leads
  <2> QED
    BY <2>2, FreeIff, FreeIffNext
<1>6. ASSUME NEW S \in SUBSET Ids PROVE Able(S)' = Able(S) /\ Behind(S)' = Behind(S)
  BY <1>0, <1>1 DEF Able, Behind
<1> QED
  BY <1>0, <1>1, <1>2, <1>3, <1>4, <1>5, <1>6 DEF Past, Changeable, Selected, StillRuns

LEMMA StayStep ==
    ASSUME CohortInv, WalkInv, Counted, Counted', Stays,
           call'.pc = "write" => BatchOK', call'.pc = "done" => DoneOK'
    PROVE  WalkInv'
<1>1. CohortShape /\ WalkShape /\ SlipsOK /\ LeftOK /\ AtOnce
  BY DEF CohortInv, WalkInv
<1>2. /\ Left' = Left /\ Rest' = Rest /\ Matches' = Matches
      /\ (ById' <=> ById) /\ Scope' = Scope /\ Sum' = Sum
      /\ \A j \in Ids : /\ Past(j)' <=> Past(j)
                        /\ Changeable(j)' <=> Changeable(j)
                        /\ Selected(j)' <=> Selected(j)
      /\ \A S \in SUBSET Ids : Free(S)' = Free(S) /\ Able(S)' = Able(S) /\ Behind(S)' = Behind(S)
  BY <1>1, StaysSame
<1>3. /\ call'.op = call.op /\ call'.resumed = call.resumed /\ call'.taken = call.taken
      /\ call'.cursor = call.cursor /\ call'.passed = call.passed /\ call'.changed = call.changed
      /\ job' = job /\ touched' = touched
      /\ due' = due /\ cohort' = cohort /\ total' = total /\ moved' = moved /\ slips' = slips
  BY DEF Stays, Counts
<1>4. WalkShape'
  BY <1>1 DEF WalkShape, Stays, Counts
<1>5. FreshOK' /\ SlipsOK'
  BY <1>1, <1>2, <1>3 DEF FreshOK, SlipsOK
<1>6. LeftOK'
  <2>1. \A j \in Left : j \in Ids
    BY <1>1 DEF Left, WalkShape
  <2>2. ASSUME call.op # "preview", NEW j \in Left
        PROVE  Changeable(j)' /\ (call'.op \in Bulk => Selected(j)') /\ (ById' => Past(j)')
    BY <1>1, <1>2, <1>3, <2>1, <2>2 DEF LeftOK
  <2> QED
    BY <1>2, <1>3, <2>2 DEF LeftOK
<1>7. ASSUME Caught PROVE Caught'
  <2>1. due \in SUBSET Ids /\ cohort \in SUBSET Ids
    BY <1>1 DEF WalkShape
  <2>2. Behind(due)' = Behind(due) /\ Behind(cohort)' = Behind(cohort)
    BY <1>3 DEF Behind
  <2>3. {j \in due : Past(j)}' = {j \in due : Past(j)}
    BY <1>3 DEF Past
  <2>4. Free(Able(Rest))' = Free(Able(Rest))
    <3>1. PICK R : R = Able(Rest)
      OBVIOUS
    <3>2. R \in SUBSET Ids /\ Rest \in SUBSET Ids
      BY <2>1, <3>1 DEF Able, Rest
    <3>3. Able(Rest)' = R
      BY <1>1, <1>2, <1>3, <3>1, <3>2 DEF Able, Changeable, StillRuns
    <3>4. Free(R)' = Free(R)
      BY <1>2, <3>2
    <3> QED
      BY <3>1, <3>3, <3>4
  <2>5. \A u : Holders(u)' = Holders(u)
    BY <1>3 DEF Holders
  <2> QED
    BY <1>2, <1>3, <1>7, <2>2, <2>3, <2>4, <2>5 DEF Caught
<1>8. CaughtByParent => CaughtByParent'
  BY <1>2, <1>3 DEF CaughtByParent
<1>9. AtOnce'
  BY <1>1, <1>2, <1>3, <1>7, <1>8 DEF AtOnce
<1> QED
  BY <1>4, <1>5, <1>6, <1>9 DEF WalkInv

\* The next page: the first of what is left, all of it if it is short.
LEMMA PageFacts ==
    ASSUME CohortInv, WalkInv, Counted, ById
    PROVE  /\ Page \in SUBSET Ids /\ Page \subseteq Matches /\ Cardinality(Page) <= Size
           /\ \A j \in Page : Past(j)
           /\ Page = {} => Size = 0 \/ Matches = {}
           /\ \A j \in Matches : Cardinality(Page) < Size \/ (Page # {} /\ j <= Max(Page)) => j \in Page
           /\ call.op # "preview" => Left \subseteq Matches
           /\ touched = {} =>
                /\ Segment(Page, Rest)
                /\ Cardinality(Page) < Size => Page = Rest
                /\ call.op = "preview" =>
                     First(Matches \ Page, MaxJobs - (call.passed + Cardinality(Page))) = Rest \ Page
<1>1. CohortShape /\ WalkShape /\ LeftOK /\ AtOnce
  BY DEF CohortInv, WalkInv
<1>2. Page = First(Matches, Size)
  BY DEF Page, Matches
<1>3. Matches \in SUBSET Ids /\ Size \in Nat /\ \A j \in Matches : Past(j)
  BY <1>1, SizeBound DEF Matches
<1>4. Segment(Page, Matches) /\ Page \subseteq Matches
  BY <1>2, <1>3, FirstSegment DEF Segment
<1>5. /\ Cardinality(Page) <= Size /\ Cardinality(Page) \in Nat
      /\ Cardinality(Page) < Size => Page = Matches
      /\ Page = {} => Size = 0 \/ Matches = {}
  BY <1>2, <1>3, FirstCard
<1>6. ASSUME NEW j \in Matches, Page # {}, j <= Max(Page) PROVE j \in Page
  <2>1. Max(Page) \in Page
    BY <1>3, <1>4, <1>6, GreatestId
  <2>2. j \in Nat /\ Max(Page) \in Nat
    BY <1>3, <1>4, <2>1, IdsAreNat
  <2> QED
    BY <1>4, <1>6, <2>1, <2>2 DEF Segment
<1>7. call.op # "preview" => Left \subseteq Matches
  <2> SUFFICES ASSUME call.op # "preview", NEW j \in Left PROVE j \in Matches
    OBVIOUS
  <2>1. j \in Ids
    BY <1>1 DEF Left, WalkShape
  <2>2. Changeable(j) /\ (call.op \in Bulk => Selected(j)) /\ Past(j)
    BY <1>1 DEF LeftOK
  <2>3. call.op = "replay" \/ call.op \in Bulk
    BY <1>1, OpKinds DEF ById
  <2> QED
    BY <2>1, <2>2, <2>3 DEF Matches
<1>8. ASSUME touched = {}
      PROVE  /\ Segment(Page, Rest)
             /\ Cardinality(Page) < Size => Page = Rest
             /\ call.op = "preview" =>
                  First(Matches \ Page, MaxJobs - (call.passed + Cardinality(Page))) = Rest \ Page
  <2>1. Rest = IF call.op = "preview" THEN First(Matches, MaxJobs - call.passed) ELSE Matches
    BY <1>1, <1>8 DEF AtOnce, Caught
  <2>2. CASE call.op # "preview"
    BY <1>4, <1>5, <2>1, <2>2
  <2>3. CASE call.op = "preview"
    <3> DEFINE b == MaxJobs - call.passed
    <3>1. call.op \in Bulk /\ call.passed \in Nat /\ call.passed <= MaxJobs /\ MaxJobs \in Nat
      BY <1>1, <2>3, CountsAreNat, CohortAssumption DEF WalkShape, Bulk
    <3>2. b \in Nat /\ Size <= b
      BY <1>1, <3>1, SizeBound
    <3>3. /\ Segment(Page, First(Matches, b))
          /\ First(Matches \ Page, b - Cardinality(Page)) = First(Matches, b) \ Page
      BY <1>2, <1>3, <3>2, FirstOfFirst
    <3>4. b - Cardinality(Page) = MaxJobs - (call.passed + Cardinality(Page))
      BY <1>5, <3>1
    <3>5. Cardinality(Page) < Size => Page = Rest
      BY <1>5, <2>1, <2>3, <3>3 DEF Segment, First
    <3> QED
      BY <2>1, <2>3, <3>3, <3>4, <3>5
  <2> QED
    BY <2>2, <2>3
<1> QED
  BY <1>3, <1>4, <1>5, <1>6, <1>7, <1>8

----------------------------------------------------------------------------
(* Reads. *)

LEMMA KeylessFree ==
    ASSUME NEW S \in SUBSET Ids, NEW j \in S, Key[j] = NoKey
    PROVE  j \in Free(S)
BY DEF Free, KeyRuled

\* A batch as BatchOK wants it, of a call that only reads.
LEMMA BatchRead ==
    ASSUME CohortInv, WalkInv, ById, Counted, Stays, call.op # "preview",
           call'.batch = Page, Page # {},
           call.op = "replay" => call'.live = Free(Page)
    PROVE  BatchOK'
<1>1. CohortShape /\ WalkShape
  BY DEF CohortInv, WalkInv
<1>2. /\ Left' = Left /\ Rest' = Rest /\ Size' = Size /\ (ById' <=> ById)
      /\ \A j \in Ids : Past(j)' <=> Past(j)
      /\ \A S \in SUBSET Ids : Free(S)' = Free(S)
  BY <1>1, StaysSame
<1>3. /\ Page \in SUBSET Ids /\ Cardinality(Page) <= Size /\ \A j \in Page : Past(j)
      /\ \A j \in Left : Cardinality(Page) < Size \/ j <= Max(Page) => j \in Page
      /\ touched = {} => Segment(Page, Rest) /\ (Cardinality(Page) < Size => Page = Rest)
  BY PageFacts
<1>4. PICK P : P = Page
  OBVIOUS
<1>5. /\ call'.batch = P /\ P \in SUBSET Ids /\ P # {} /\ call'.op = call.op
      /\ touched' = touched
      /\ call.op = "replay" => call'.live \subseteq P
  BY <1>3, <1>4 DEF Stays, Free, LiveCandidates
<1>6. LastBatch' <=> Cardinality(P) < Size
  BY <1>2, <1>5 DEF LastBatch
<1>7. \A j \in P : Past(j)'
  BY <1>2, <1>3, <1>4
<1>8. \A j \in Left : LastBatch' \/ j <= Max(P) => j \in P /\ (call.op = "replay" => j \in call'.live)
  <2> SUFFICES ASSUME NEW j \in Left, LastBatch' \/ j <= Max(P)
               PROVE  j \in P /\ (call.op = "replay" => j \in call'.live)
    OBVIOUS
  <2>1. j \in P /\ Key[j] = NoKey
    BY <1>3, <1>4, <1>6 DEF Left
  <2> QED
    BY <1>4, <1>5, <2>1, KeylessFree
<1>9. touched = {} => /\ Segment(P, Rest)
                      /\ LastBatch' => P = Rest
                      /\ call.op = "replay" => call'.live = Free(P)'
  BY <1>2, <1>3, <1>4, <1>5, <1>6
<1> QED
  BY <1>2, <1>3, <1>4, <1>5, <1>6, <1>7, <1>8, <1>9 DEF BatchOK

LEMMA ReplayReadsWalk ==
    ASSUME CohortInv, WalkInv, ReplayReads
    PROVE  WalkInv'
<1>1. CohortShape /\ WalkShape
  BY DEF CohortInv, WalkInv
<1>2. /\ call.pc = "read" /\ call.op = "replay" /\ Counted /\ ById
      /\ job' = job /\ touched' = touched /\ due' = due /\ cohort' = cohort /\ total' = total
      /\ moved' = moved /\ slips' = slips
  BY DEF ReplayReads, Counted, ById, ByParent, world, history
<1>3. /\ Page \in SUBSET Ids /\ Page \subseteq Matches /\ Cardinality(Page) <= Size
      /\ \A j \in Page : Past(j)
      /\ \A j \in Left : Cardinality(Page) < Size \/ (Page # {} /\ j <= Max(Page)) => j \in Page
      /\ touched = {} => Segment(Page, Rest) /\ (Cardinality(Page) < Size => Page = Rest)
  BY <1>2, PageFacts
<1>4. Able(Page) = Page
  BY <1>2, <1>3 DEF Able, Matches
<1>5. CASE Free(Page) = {}
  <2> DEFINE w == Passed(Walked, Page)
  <2>0. Cardinality(Page) \in Nat
    BY <1>3, SubsetCard
  <2>1. call' = [w EXCEPT !.key = @ + Cardinality(Page)]
    BY <1>5 DEF ReplayReads
  <2>2. /\ DOMAIN w = CallFields /\ w.op = call.op /\ w.resumed = call.resumed
        /\ w.cursor = IF Page = {} THEN call.cursor ELSE Max(Page)
        /\ w.passed = call.passed + Cardinality(Page)
        /\ w.pc = IF Cardinality(Page) < Size THEN "done" ELSE "read"
        /\ w.taken = call.taken /\ w.changed = call.changed /\ w.key = call.key
        /\ w.running = call.running /\ w.terminal = call.terminal /\ w.state = call.state
    BY <1>1, PassedFields
  <2> HIDE DEF w
  <2>3. /\ call'.op = w.op /\ call'.resumed = w.resumed /\ call'.cursor = w.cursor
        /\ call'.passed = w.passed /\ call'.pc = w.pc /\ call'.taken = w.taken
        /\ call'.changed = w.changed /\ call'.key = w.key + Cardinality(Page)
        /\ call'.running = w.running /\ call'.terminal = w.terminal /\ call'.state = w.state
    BY <2>1, <2>2 DEF CallFields
  <2>4. /\ \A f \in {"changed", "key", "running", "terminal", "state"} : call'[f] \in Nat
        /\ Sum' = Sum + Cardinality(Page)
    BY <1>1, <2>0, <2>2, <2>3, CountsAreNat DEF Sum
  <2>5. Passes(Page, {})
    BY <1>2, <2>2, <2>3, <2>4 DEF Passes
  <2>6. call'.changed = call.changed + Cardinality({})
    BY <1>1, <2>2, <2>3, CountsAreNat, FS_EmptySet
  <2>7. \A u : Used(u)' <=> Used(u)
    BY <1>2, <2>2, <2>3 DEF Used, Holders
  <2>8. touched = {} => PassesAtOnce(Page, {})
    BY <1>2, <1>3, <1>4, <1>5, <2>4, <2>6, <2>7 DEF PassesAtOnce
  <2>9. \A j \in Left : ~(Cardinality(Page) < Size \/ (Page # {} /\ j <= Max(Page)))
    BY <1>3, <1>5, KeylessFree DEF Left
  <2> QED
    BY <1>2, <1>3, <2>5, <2>8, <2>9, PassStep
<1>6. CASE Free(Page) # {}
  <2>1. call' = [call EXCEPT !.pc = "write", !.batch = Page, !.live = Free(Page)]
    BY <1>6 DEF ReplayReads
  <2>2. /\ call'.pc = "write" /\ call'.batch = Page /\ call'.live = Free(Page)
        /\ call'.op = call.op /\ call'.resumed = call.resumed /\ call'.taken = call.taken
        /\ \A f \in Counts : call'[f] = call[f]
    BY <1>1, <2>1 DEF CohortShape, CallFields, Counts
  <2>3. Stays /\ Counted'
    BY <1>2, <2>2 DEF Stays, Counted
  <2>4. Page # {}
    BY <1>6 DEF Free, LiveCandidates
  <2>5. BatchOK'
    BY <1>2, <2>2, <2>3, <2>4, BatchRead
  <2> QED
    BY <1>2, <2>2, <2>3, <2>5, StayStep
<1> QED
  BY <1>5, <1>6

LEMMA BulkReadsWalk ==
    ASSUME CohortInv, WalkInv, BulkReads
    PROVE  WalkInv'
<1>1. CohortShape /\ WalkShape /\ AtOnce
  BY DEF CohortInv, WalkInv
<1>2. /\ call.pc = "read" /\ call.op \in Bulk /\ Counted
      /\ job' = job /\ touched' = touched /\ due' = due /\ cohort' = cohort /\ total' = total
      /\ moved' = moved /\ slips' = slips
  BY DEF BulkReads, Counted, world, history
<1>3. ById /\ call.op # "replay"
  BY <1>1, <1>2, OpKinds
<1>4. /\ call.op # "preview" => Left \subseteq Matches
      /\ Matches = {j \in Ids : Past(j) /\ Selected(j)}
      /\ Page = {} => Size = 0 \/ Matches = {}
      /\ Page \subseteq Matches
  BY <1>2, <1>3, PageFacts DEF Matches
<1>5. ASSUME Stays, call'.pc = "done", call.op # "preview" => Matches = {},
             Matches # {} => Size = 0
      PROVE  WalkInv'
  <2>1. Counted' /\ Left' = Left /\ Rest' = Rest /\ (ById' <=> ById) /\ call'.op = call.op
        /\ touched' = touched
    BY <1>1, <1>2, <1>5, StaysSame DEF Counted, Stays
  <2>2. ASSUME touched = {} PROVE Rest = {}
    <3>1. Rest = IF call.op = "preview" THEN First(Matches, MaxJobs - call.passed) ELSE Matches
      BY <1>1, <1>2, <1>3, <2>2 DEF AtOnce, Caught
    <3>2. CASE Matches = {}
      BY <3>1, <3>2 DEF First
    <3>3. CASE Matches # {}
      <4>1. call.op = "preview" /\ MaxJobs - call.passed = 0
        BY <1>1, <1>2, <1>5, <3>3, SizeBound, CountsAreNat
      <4>2. \A j \in Matches : ~(Cardinality({i \in Matches : i < j}) < 0)
        <5>1. \A j \in Matches : Cardinality({i \in Matches : i < j}) \in Nat
          BY <1>4, SubsetCard
        <5> QED
          BY <5>1
      <4> QED
        BY <3>1, <4>1, <4>2 DEF First
    <3> QED
      BY <3>2, <3>3
  <2>3. DoneOK'
    BY <1>3, <1>4, <1>5, <2>1, <2>2 DEF DoneOK
  <2> QED
    BY <1>2, <1>5, <2>1, <2>3, StayStep
<1>6. CASE Size = 0
  <2>1. /\ call'.pc = IF call.op # "preview" /\ \E j \in Ids : Past(j) /\ Selected(j)
                      THEN "refused" ELSE "done"
        /\ call'.op = call.op /\ call'.resumed = call.resumed /\ call'.taken = call.taken
        /\ \A f \in Counts : call'[f] = call[f]
    BY <1>1, <1>6 DEF BulkReads, CohortShape, CallFields, Counts
  <2>2. Stays
    BY <1>2, <2>1 DEF Stays
  <2>3. CASE call'.pc = "refused"
    BY <1>2, <2>2, <2>3, StayStep DEF Counted
  <2>4. CASE call'.pc = "done"
    BY <1>4, <1>5, <1>6, <2>1, <2>2, <2>4
  <2> QED
    BY <2>1, <2>3, <2>4
<1>7. CASE Size # 0 /\ Page = {}
  <2>1. call' = Ended
    BY <1>7 DEF BulkReads
  <2>2. /\ call'.pc = "done"
        /\ call'.op = call.op /\ call'.resumed = call.resumed /\ call'.taken = call.taken
        /\ \A f \in Counts : call'[f] = call[f]
    BY <1>1, <2>1 DEF Ended, Walked, CohortShape, CallFields, Counts
  <2>3. Stays
    BY <1>2, <2>2 DEF Stays
  <2> QED
    BY <1>4, <1>5, <1>7, <2>2, <2>3
<1>8. CASE Size # 0 /\ Page # {}
  <2>1. call.op # "preview" /\ call' = [call EXCEPT !.pc = "write", !.batch = Page]
    BY <1>8 DEF BulkReads
  <2>2. /\ call'.pc = "write" /\ call'.batch = Page /\ call'.live = call.live
        /\ call'.op = call.op /\ call'.resumed = call.resumed /\ call'.taken = call.taken
        /\ \A f \in Counts : call'[f] = call[f]
    BY <1>1, <2>1 DEF CohortShape, CallFields, Counts
  <2>3. Stays /\ Counted'
    BY <1>2, <2>2 DEF Stays, Counted
  <2> QED
    BY <1>2, <1>3, <1>8, <2>1, <2>2, <2>3, BatchRead, StayStep
<1> QED
  BY <1>6, <1>7, <1>8

----------------------------------------------------------------------------
(* Batches. *)

LEMMA MovesSlips ==
    ASSUME CohortInv, WalkInv, call.pc = "write", ById, NEW S \in SUBSET call.batch,
           Moves(S, call.batch)
    PROVE  slips' = slips
<1>1. CohortShape /\ WalkShape /\ SlipsOK /\ AtOnce /\ BatchOK /\ Counted
  BY DEF CohortInv, WalkInv, Counted
<1>2. S \cap moved = {}
  <2>1. \A j \in moved : j <= call.cursor /\ j \in Nat
    BY <1>1, IdsAreNat DEF SlipsOK, CohortShape
  <2>2. \A j \in S : j > call.cursor
    BY <1>1 DEF BatchOK, Past
  <2>3. call.cursor \in Nat
    BY <1>1, CountsAreNat
  <2> QED
    BY <2>1, <2>2, <2>3
<1>3. ASSUME NEW j \in S PROVE ~Misplaced(call.batch, j)
  <2> SUFFICES ASSUME ~call.resumed, touched = {}
               PROVE  Place(call.batch, j) = Cardinality({i \in cohort : i < j})
    BY DEF Misplaced
  <2> DEFINE B == {i \in call.batch : i < j}
  <2>1. Caught /\ Segment(call.batch, Rest)
    BY <1>1 DEF AtOnce, BatchOK
  <2>2. j \in call.batch /\ j \in Nat /\ j > call.cursor /\ j \in Rest
    BY <1>1, <2>1, IdsAreNat DEF BatchOK, Past, CohortShape, Segment
  <2>3. /\ call.batch \subseteq cohort /\ cohort \subseteq Ids /\ call.cursor \in Nat
        /\ \A i \in cohort : i \in Nat
    BY <1>1, <2>1, CountsAreNat, IdsAreNat DEF Segment, Rest, WalkShape
  <2>4. \A i \in cohort : i < j => i <= call.cursor \/ i \in call.batch
    BY <2>1, <2>2, <2>3 DEF Segment, Rest, Past
  <2>5. \A i \in cohort : i <= call.cursor => i < j
    BY <2>2, <2>3
  <2>6. {i \in cohort : i < j} = Behind(cohort) \cup B
    BY <2>3, <2>4, <2>5 DEF Behind
  <2>7. Behind(cohort) \cap B = {}
    BY <1>1, <2>3 DEF Behind, BatchOK, Past
  <2>8. Behind(cohort) \in SUBSET Ids /\ B \in SUBSET Ids
    BY <2>3 DEF Behind
  <2>9. Cardinality({i \in cohort : i < j}) = Cardinality(Behind(cohort)) + Cardinality(B)
    BY <2>6, <2>7, <2>8, UnionCard
  <2> QED
    BY <2>1, <2>9 DEF Caught, Place
<1>4. slips' = slips \cup (IF S \cap moved # {} THEN {"twice"} ELSE {})
                     \cup (IF \E j \in S : Misplaced(call.batch, j) THEN {"place"} ELSE {})
  BY DEF Moves
<1> QED
  BY <1>2, <1>3, <1>4

\* The jobs that are put live hold their keys.
LEMMA MovesHolders ==
    ASSUME CohortShape, call.op \in {"replay", "retry"}, NEW S \in SUBSET Ids, NEW rows,
           Moves(S, rows), NEW u
    PROVE  Holders(u)' = Holders(u) \cup {i \in S : Key[i] = u}
<1>1. job' = [j \in Ids |-> IF j \in S THEN Row(j, Target(call.op, job[j].state)) ELSE job[j]]
  BY DEF Moves
<1>2. \A j \in S : Target(call.op, job[j].state) = "available"
  BY DEF Target
<1>3. \A j \in S : job'[j].state = "available"
  BY <1>1, <1>2 DEF Row
<1>4. \A j \in Ids \ S : job'[j] = job[j]
  BY <1>1
<1>5. "available" \in Live
  BY DEF Live, Waiting
<1> QED
  BY <1>3, <1>4, <1>5 DEF Holders

LEMMA ReplayWritesWalk ==
    ASSUME CohortInv, WalkInv, ReplayWrites
    PROVE  WalkInv'
<1> DEFINE P == call.batch
           S == {j \in call.live : StillReplays(j)}
           w == Passed(Walked, P)
<1>1. CohortShape /\ WalkShape /\ AtOnce /\ LeftOK
  BY DEF CohortInv, WalkInv
<1>2. /\ call.pc = "write" /\ call.op = "replay" /\ Counted /\ ById /\ BatchOK
      /\ Moves(S, P)
  BY DEF ReplayWrites, Counted, ById, ByParent, WalkInv
<1>3. P \in SUBSET Ids /\ call.live \subseteq P /\ S \subseteq P /\ P # {}
  BY <1>1, <1>2 DEF CohortShape, BatchOK
<1>4. Cardinality(P) \in Nat /\ Cardinality(S) \in Nat /\ Cardinality(P \ call.live) \in Nat
  BY <1>3, SubsetCard
<1>5. /\ DOMAIN w = CallFields /\ w.op = call.op /\ w.resumed = call.resumed
      /\ w.cursor = IF P = {} THEN call.cursor ELSE Max(P)
      /\ w.passed = call.passed + Cardinality(P)
      /\ w.pc = IF Cardinality(P) < Size THEN "done" ELSE "read"
      /\ w.taken = call.taken /\ w.changed = call.changed /\ w.key = call.key
      /\ w.running = call.running /\ w.terminal = call.terminal /\ w.state = call.state
  BY <1>1, PassedFields
<1>6. call' = [w EXCEPT !.changed = @ + Cardinality(S), !.key = @ + Cardinality(P \ call.live)]
  BY DEF ReplayWrites
<1>7. slips' = slips
  BY <1>2, <1>3, MovesSlips
<1>8. \A u : Holders(u)' = Holders(u) \cup {i \in S : Key[i] = u}
  BY <1>1, <1>2, <1>3, MovesHolders
<1>9. /\ \A j \in Ids \ S : job'[j] = job[j]
      /\ moved' = moved \cup S /\ due' = due /\ cohort' = cohort /\ total' = total
      /\ touched' = touched
  BY <1>2 DEF Moves
<1> HIDE DEF S, w
<1>10. /\ call'.op = w.op /\ call'.resumed = w.resumed /\ call'.cursor = w.cursor
       /\ call'.passed = w.passed /\ call'.pc = w.pc /\ call'.taken = w.taken
       /\ call'.changed = w.changed + Cardinality(S)
       /\ call'.key = w.key + Cardinality(P \ call.live)
       /\ call'.running = w.running /\ call'.terminal = w.terminal /\ call'.state = w.state
  BY <1>5, <1>6 DEF CallFields
<1>11. \A f \in {"changed", "key", "running", "terminal", "state"} : call'[f] \in Nat
  BY <1>1, <1>4, <1>5, <1>10, CountsAreNat
<1>12. Passes(P, S)
  BY <1>5, <1>7, <1>9, <1>10, <1>11 DEF Passes
<1>13. Cardinality(P) <= Size /\ \A j \in P : Past(j)
  BY <1>2 DEF BatchOK
<1>14. \A j \in Left : Cardinality(P) < Size \/ (P # {} /\ j <= Max(P)) => j \in S
  <2> SUFFICES ASSUME NEW j \in Left, Cardinality(P) < Size \/ j <= Max(P) PROVE j \in S
    OBVIOUS
  <2>1. j \in call.live
    BY <1>2 DEF BatchOK, LastBatch
  <2>2. Changeable(j) /\ ~Held(j)
    BY <1>1, <1>2 DEF LeftOK, Left, Held
  <2> QED
    BY <2>1, <2>2 DEF S, StillReplays
<1>15. ASSUME touched = {} PROVE PassesAtOnce(P, S)
  <2>1. /\ Segment(P, Rest) /\ (Cardinality(P) < Size => P = Rest)
        /\ call.live = Free(P) /\ Rest = Matches
    BY <1>1, <1>2, <1>15 DEF BatchOK, LastBatch, AtOnce, Caught
  <2>2. \A j \in P : Changeable(j) /\ job[j].state \in Terminal
    BY <1>2, <2>1, CohortAssumption DEF Segment, Matches, Changeable, Source
  <2>3. Able(P) = P
    BY <2>2 DEF Able
  <2>4. S = Free(P)
    <3>1. ASSUME NEW j \in Free(P) PROVE ~Held(j)
      <4>1. j \in P /\ Leads(P, j)
        BY <1>3, FreeIff
      <4>2. CASE Key[j] = NoKey
        BY <4>2 DEF Held
      <4>3. CASE Key[j] # NoKey
        <5>1. KeyRuled(j)
          BY <1>2, <2>2, <4>1, <4>3 DEF KeyRuled, Reviving
        <5>2. Holders(Key[j]) = {}
          BY <4>1, <5>1 DEF Leads, Used
        <5> QED
          BY <5>2 DEF Held
      <4> QED
        BY <4>2, <4>3
    <3> QED
      BY <1>3, <2>1, <2>2, <3>1 DEF S, StillReplays
  <2>5. Sum' = Sum + Cardinality(P)
    <3>1. Cardinality(P) = Cardinality(call.live) + Cardinality(P \ call.live)
      BY <1>3, PartCard
    <3>2. call.live = S
      BY <2>1, <2>4
    <3> QED
      BY <1>1, <1>4, <1>5, <1>10, <3>1, <3>2, CountsAreNat DEF Sum
  <2>6. \A u : Used(u)' <=> Used(u) \/ \E i \in S : Key[i] = u
    BY <1>5, <1>8, <1>10 DEF Used
  <2> QED
    BY <1>2, <1>5, <1>10, <2>1, <2>3, <2>4, <2>5, <2>6 DEF PassesAtOnce
<1> QED
  BY <1>2, <1>3, <1>12, <1>13, <1>14, <1>15, PassStep

LEMMA BulkWritesWalk ==
    ASSUME CohortInv, WalkInv, BulkWrites
    PROVE  WalkInv'
<1> DEFINE P == call.batch
           locked == {j \in P : Selected(j)}
           S == Free(Able(locked))
           t == Tallied(locked)
           w == Passed(Walked, P)
<1>1. CohortShape /\ WalkShape /\ AtOnce /\ LeftOK
  BY DEF CohortInv, WalkInv
<1>2. call.pc = "write" /\ call.op \in Bulk /\ call.op # "preview" /\ Counted /\ BatchOK
  BY DEF BulkWrites, Counted, WalkInv, CohortInv, WriteOK
<1>3. Moves(S, P)
  BY DEF BulkWrites, Able
<1>4. ById /\ call.op # "replay"
  BY <1>1, <1>2, OpKinds
<1>5. P \in SUBSET Ids /\ locked \in SUBSET Ids /\ S \subseteq locked /\ locked \subseteq P /\ P # {}
  BY <1>1, <1>2 DEF CohortShape, BatchOK, Free, LiveCandidates, Able
<1>6. /\ w.cursor = IF P = {} THEN call.cursor ELSE Max(P)
      /\ w.passed = call.passed + Cardinality(P)
      /\ w.pc = IF Cardinality(P) < Size THEN "done" ELSE "read"
  BY <1>1, PassedFields
<1>7. /\ DOMAIN t = CallFields /\ t.op = call.op /\ t.resumed = call.resumed
      /\ t.taken = call.taken \cup (IF Reviving(call.op) THEN {Key[j] : j \in S} \ {NoKey} ELSE {})
      /\ t.changed = call.changed + Cardinality(S)
      /\ t.changed \in Nat /\ t.key \in Nat /\ t.running \in Nat /\ t.terminal \in Nat
      /\ t.state \in Nat
      /\ t.changed + t.key + t.running + t.terminal + t.state = Sum + Cardinality(locked)
  BY <1>1, <1>5, TalliedFields
<1>8. call' = [t EXCEPT !.cursor = w.cursor, !.passed = w.passed, !.pc = w.pc]
  BY DEF BulkWrites
<1>9. slips' = slips
  BY <1>2, <1>3, <1>4, <1>5, MovesSlips
<1>10. call.op = "retry" => \A u : Holders(u)' = Holders(u) \cup {i \in S : Key[i] = u}
  BY <1>1, <1>3, <1>5, MovesHolders
<1>11. /\ \A j \in Ids \ S : job'[j] = job[j]
       /\ moved' = moved \cup S /\ due' = due /\ cohort' = cohort /\ total' = total
       /\ touched' = touched
  BY <1>3 DEF Moves
<1> HIDE DEF S, w, t, locked
<1>12. /\ call'.op = t.op /\ call'.resumed = t.resumed /\ call'.cursor = w.cursor
       /\ call'.passed = w.passed /\ call'.pc = w.pc /\ call'.taken = t.taken
       /\ call'.changed = t.changed /\ call'.key = t.key
       /\ call'.running = t.running /\ call'.terminal = t.terminal /\ call'.state = t.state
  BY <1>7, <1>8 DEF CallFields
<1>13. Passes(P, S)
  BY <1>6, <1>7, <1>9, <1>11, <1>12 DEF Passes
<1>14. Cardinality(P) <= Size /\ \A j \in P : Past(j)
  BY <1>2, <1>4 DEF BatchOK
<1>15. \A j \in Left : Cardinality(P) < Size \/ (P # {} /\ j <= Max(P)) => j \in S
  <2> SUFFICES ASSUME NEW j \in Left, Cardinality(P) < Size \/ j <= Max(P) PROVE j \in S
    OBVIOUS
  <2>1. j \in P
    BY <1>2, <1>4 DEF BatchOK, LastBatch
  <2>2. Changeable(j) /\ Selected(j) /\ Key[j] = NoKey
    BY <1>1, <1>2 DEF LeftOK, Left
  <2>3. Able(locked) \in SUBSET Ids /\ j \in Able(locked)
    BY <1>5, <2>1, <2>2 DEF locked, Able
  <2> QED
    BY <2>2, <2>3, KeylessFree DEF S
<1>16. ASSUME touched = {} PROVE PassesAtOnce(P, S)
  <2>1. /\ Segment(P, Rest) /\ (Cardinality(P) < Size => P = Rest) /\ Rest = Matches
        /\ call.op = "retry" => \A u \in call.taken : Holders(u) # {}
    BY <1>1, <1>2, <1>4, <1>16 DEF BatchOK, LastBatch, AtOnce, Caught
  <2>2. locked = P
    BY <1>4, <1>5, <2>1 DEF locked, Segment, Matches
  <2>3. Sum' = Sum + Cardinality(P)
    BY <1>7, <1>12, <2>2 DEF Sum
  <2>4. Reviving(call.op) <=> call.op = "retry"
    BY <1>2, <1>4 DEF Reviving
  <2>5. ASSUME call.op = "retry", NEW u \in Keys
        PROVE  Used(u)' <=> Used(u) \/ \E i \in S : Key[i] = u
    <3>1. u # NoKey
      BY CohortAssumption
    <3>2. u \in call'.taken <=> u \in call.taken \/ \E i \in S : Key[i] = u
      BY <1>7, <1>12, <2>4, <2>5, <3>1
    <3> QED
      BY <1>10, <2>5, <3>2 DEF Used
  <2>6. ASSUME call.op = "retry", NEW u \in call'.taken PROVE Holders(u)' # {}
    <3>1. u \in call.taken \/ \E i \in S : Key[i] = u
      BY <1>7, <1>12
    <3> QED
      BY <1>10, <2>1, <2>6, <3>1
  <2>7. S = Free(Able(P))
    BY <2>2 DEF S
  <2> QED
    BY <1>2, <1>7, <1>12, <2>1, <2>3, <2>4, <2>5, <2>6, <2>7 DEF PassesAtOnce
<1> QED
  BY <1>2, <1>4, <1>5, <1>13, <1>14, <1>15, <1>16, PassStep

LEMMA PreviewsWalk ==
    ASSUME CohortInv, WalkInv, Previews
    PROVE  WalkInv'
<1> DEFINE F == Free(Able(Page))
<1>1. CohortShape /\ WalkShape /\ AtOnce
  BY DEF CohortInv, WalkInv
<1>2. /\ call.op = "preview" /\ Counted /\ ById /\ call' = Tallied(Page) /\ Reviving(call.op)
      /\ job' = job /\ touched' = touched /\ due' = due /\ cohort' = cohort /\ total' = total
      /\ moved' = moved /\ slips' = slips
  BY DEF Previews, Counted, ById, ByParent, Reviving, world, history
<1>3. /\ Page \in SUBSET Ids /\ Cardinality(Page) <= Size /\ \A j \in Page : Past(j)
      /\ touched = {} =>
           /\ Segment(Page, Rest) /\ (Cardinality(Page) < Size => Page = Rest)
           /\ First(Matches \ Page, MaxJobs - (call.passed + Cardinality(Page))) = Rest \ Page
  BY <1>2, PageFacts
<1>4. /\ call'.op = call.op /\ call'.resumed = call.resumed
      /\ call'.cursor = IF Page = {} THEN call.cursor ELSE Max(Page)
      /\ call'.passed = call.passed + Cardinality(Page)
      /\ call'.pc = IF Cardinality(Page) < Size THEN "done" ELSE "read"
      /\ call'.taken = call.taken \cup ({Key[j] : j \in F} \ {NoKey})
      /\ call'.changed = call.changed + Cardinality(F)
      /\ call'.changed \in Nat /\ call'.key \in Nat /\ call'.running \in Nat
      /\ call'.terminal \in Nat /\ call'.state \in Nat
      /\ Sum' = Sum + Cardinality(Page)
  BY <1>1, <1>2, <1>3, TalliedFields DEF Sum
<1> HIDE DEF F
<1>5. Passes(Page, {})
  BY <1>2, <1>4 DEF Passes
<1>6. ASSUME NEW u \in Keys PROVE Used(u)' <=> Used(u) \/ \E i \in F : Key[i] = u
  <2>1. u # NoKey /\ Holders(u)' = Holders(u)
    BY <1>2, CohortAssumption DEF Holders
  <2> QED
    BY <1>4, <2>1 DEF Used
<1>7. touched = {} => PassesAtOnce(Page, {})
  BY <1>2, <1>3, <1>4, <1>6 DEF PassesAtOnce, F
<1> QED
  BY <1>2, <1>3, <1>5, <1>7, PassStep

----------------------------------------------------------------------------
(* The ByParent controls. *)

LEMMA ScopeMoves ==
    ASSUME CohortShape, ~ById
    PROVE  /\ ~Reviving(call.op)
           /\ \A j \in Ids : Changeable(j) <=> j \in Scope
           /\ \A s \in Source(call.op) : Target(call.op, s) \notin Source(call.op)
<1>1. call.op \in ByParent
  BY OpKinds
<1>2. CASE call.op = "pauseByParent"
  BY <1>2 DEF Reviving, Changeable, Scope, InState, Source, Target
<1>3. CASE call.op = "resumeByParent"
  BY <1>3 DEF Reviving, Changeable, Scope, InState, Source, Target
<1>4. CASE call.op = "cancelByParent"
  BY <1>4 DEF Reviving, Changeable, Scope, InState, Source, Target, Waiting
<1> QED
  BY <1>1, <1>2, <1>3, <1>4 DEF ByParent

LEMMA ScopeReadsWalk ==
    ASSUME CohortInv, WalkInv, ScopeReads
    PROVE  WalkInv'
<1>1. CohortShape /\ WalkShape /\ LeftOK
  BY DEF CohortInv, WalkInv
<1>2. /\ call.pc = "read" /\ call.op \in ByParent /\ Counted /\ ~ById
      /\ job' = job /\ touched' = touched /\ due' = due /\ cohort' = cohort /\ total' = total
      /\ moved' = moved /\ slips' = slips
  BY DEF ScopeReads, Counted, ById, world, history
<1>3. PICK rows \in SUBSET Scope :
        /\ Cardinality(rows) = Min({BatchSize, Cardinality(Scope)})
        /\ call' = IF rows = {} THEN Ended ELSE [call EXCEPT !.pc = "write", !.batch = rows]
  BY DEF ScopeReads, Scope
<1>4. Scope \in SUBSET Ids /\ rows \in SUBSET Ids /\ call.op # "replay" /\ call.op # "preview"
  BY <1>1, <1>2, OpKinds DEF Scope, InState, ByParent
<1>5. /\ Cardinality(Scope) \in Nat /\ BatchSize \in Nat \ {0}
      /\ Cardinality(Scope) = 0 <=> Scope = {}
      /\ Cardinality(rows) \in Nat /\ (Cardinality(rows) = 0 <=> rows = {})
  BY <1>4, SubsetCard, CohortAssumption
<1>6. Cardinality(rows) < BatchSize => rows = Scope
  <2>1. Cardinality(rows) < BatchSize => Cardinality(rows) = Cardinality(Scope)
    BY <1>3, <1>5, MinOfTwo
  <2>2. IsFiniteSet(Scope)
    BY <1>4, SubsetCard
  <2> QED
    BY <2>1, <2>2, FS_Subset
<1>7. Left \subseteq Scope
  BY <1>1, <1>2, <1>4, ScopeMoves DEF LeftOK, Left, WalkShape
<1>8. /\ call'.pc = (IF rows = {} THEN "done" ELSE "write")
      /\ rows # {} => call'.batch = rows
      /\ call'.op = call.op /\ call'.resumed = call.resumed /\ call'.taken = call.taken
      /\ \A f \in Counts : call'[f] = call[f]
  BY <1>1, <1>3 DEF Ended, Walked, CohortShape, CallFields, Counts
<1>9. Stays /\ Counted'
  BY <1>2, <1>8 DEF Stays, Counted
<1>10. Left' = Left /\ Scope' = Scope /\ ~ById'
  BY <1>1, <1>2, <1>9, StaysSame
<1>11. call'.pc = "done" => DoneOK'
  BY <1>2, <1>5, <1>6, <1>7, <1>8, <1>10 DEF DoneOK
<1>12. call'.pc = "write" => BatchOK'
  BY <1>2, <1>4, <1>6, <1>7, <1>8, <1>10 DEF BatchOK, LastBatch
<1> QED
  BY <1>2, <1>9, <1>11, <1>12, StayStep

LEMMA ScopeWritesWalk ==
    ASSUME CohortInv, WalkInv, ScopeWrites
    PROVE  WalkInv'
<1> DEFINE S == {j \in call.batch : Changeable(j)}
<1>1. CohortShape /\ WalkShape /\ LeftOK /\ AtOnce
  BY DEF CohortInv, WalkInv
<1>2. /\ call.pc = "write" /\ call.op \in ByParent /\ Counted /\ ~ById /\ BatchOK
      /\ Moves(S, call.batch)
  BY DEF ScopeWrites, Counted, ById, WalkInv
<1>3. S \in SUBSET Ids /\ S \subseteq call.batch /\ Cardinality(S) \in Nat /\ call.op # "preview"
  <2>1. S \in SUBSET Ids
    BY <1>1 DEF CohortShape
  <2> QED
    BY <1>1, <1>2, <2>1, SubsetCard, OpKinds
<1>4. /\ \A j \in Ids : Changeable(j) <=> j \in Scope
      /\ \A s \in Source(call.op) : Target(call.op, s) \notin Source(call.op)
      /\ ~Reviving(call.op)
  BY <1>1, <1>2, ScopeMoves
<1>5. /\ call'.op = call.op /\ call'.resumed = call.resumed
      /\ call'.changed = call.changed + Cardinality(S)
      /\ \A f \in Counts \ {"changed"} : call'[f] = call[f]
      /\ call'.pc = IF Cardinality(call.batch) < BatchSize THEN "done" ELSE "read"
  BY <1>1 DEF ScopeWrites, Walked, CohortShape, CallFields, Counts
<1>6. /\ \A j \in Ids \ S : job'[j] = job[j]
      /\ \A j \in S : job'[j].state = Target(call.op, job[j].state)
      /\ moved' = moved \cup S /\ due' = due /\ cohort' = cohort /\ total' = total
      /\ touched' = touched
  BY <1>2, <1>3 DEF Moves, Row
<1> HIDE DEF S
<1>7. WalkShape'
  <2>1. call.changed \in Nat
    BY <1>1, CountsAreNat
  <2>2. \A f \in Counts : call'[f] \in Nat
    BY <1>1, <1>3, <1>5, <2>1 DEF WalkShape
  <2>3. call'.passed = call.passed
    BY <1>5 DEF Counts
  <2> QED
    BY <1>1, <1>5, <1>6, <2>2, <2>3 DEF WalkShape
<1>8. Counted' /\ ~ById' /\ call'.pc # "write"
  BY <1>2, <1>5 DEF Counted, ById
<1>9. FreshOK' /\ SlipsOK'
  BY <1>3, <1>5, <1>8 DEF FreshOK, SlipsOK
<1>10. ASSUME NEW j \in Left' PROVE j \in Left /\ j \notin S /\ j \in Ids
  BY <1>1, <1>6 DEF Left, WalkShape
<1>11. LeftOK'
  <2>1. ASSUME NEW j \in Left' PROVE Changeable(j)' /\ call'.op \notin Bulk
    <3>1. Changeable(j) /\ job'[j] = job[j]
      BY <1>1, <1>3, <1>6, <1>10 DEF LeftOK
    <3>2. call'.op \notin Bulk
      BY <1>1, <1>2, <1>5, OpKinds
    <3> QED
      BY <1>5, <3>1, <3>2 DEF Changeable, StillRuns
  <2> QED
    BY <1>8, <2>1 DEF LeftOK
<1>12. Scope' = Scope \ S
  <2>1. \A j \in S : job[j].state \in Source(call.op)
    BY DEF S, Changeable
  <2>2. Scope' = {j \in Ids : job'[j].state \in Source(call.op)}
    BY <1>5 DEF Scope, InState
  <2>3. \A j \in S : job'[j].state \notin Source(call.op)
    BY <1>4, <1>6, <2>1
  <2>4. \A j \in Ids \ S : job'[j].state \in Source(call.op) <=> j \in Scope
    BY <1>6 DEF Scope, InState
  <2>5. Scope \subseteq Ids
    BY DEF Scope, InState
  <2> QED
    BY <1>3, <2>2, <2>3, <2>4, <2>5
<1>13. ASSUME touched = {} PROVE S = call.batch /\ CaughtByParent'
  <2>1. CaughtByParent /\ call.batch \subseteq Scope
    BY <1>1, <1>2, <1>13 DEF AtOnce, BatchOK
  <2>2. S = call.batch /\ S \subseteq Scope /\ Scope \in SUBSET Ids
    BY <1>4, <2>1 DEF S, Scope, InState
  <2>3. due = moved \cup Scope /\ moved \cap Scope = {} /\ moved \in SUBSET Ids
    BY <1>1, <2>1 DEF CaughtByParent, CohortShape
  <2>4. due' = moved' \cup Scope' /\ moved' \cap Scope' = {}
    BY <1>6, <1>12, <2>2, <2>3
  <2>5. call'.changed = Cardinality(moved')
    <3>1. Cardinality(moved \cup S) = Cardinality(moved) + Cardinality(S)
      BY <1>3, <2>2, <2>3, UnionCard
    <3> QED
      BY <1>5, <1>6, <2>1, <3>1 DEF CaughtByParent
  <2>6. Sum' + Cardinality(Scope') = total'
    <3>1. Cardinality(Scope) = Cardinality(S) + Cardinality(Scope \ S)
      BY <2>2, PartCard
    <3>2. Cardinality(Scope \ S) \in Nat
      BY <2>2, SubsetCard
    <3>3. Sum' = Sum + Cardinality(S) /\ Sum \in Nat
      BY <1>1, <1>3, <1>5, CountsAreNat DEF Sum, Counts
    <3>4. Sum + Cardinality(Scope) = total
      BY <2>1 DEF CaughtByParent
    <3> QED
      BY <1>3, <1>6, <1>12, <3>1, <3>2, <3>3, <3>4
  <2> QED
    BY <2>2, <2>4, <2>5, <2>6 DEF CaughtByParent
<1>14. AtOnce'
  BY <1>6, <1>8, <1>13 DEF AtOnce
<1>15. ASSUME call'.pc = "done" PROVE DoneOK'
  <2>1. LastBatch
    BY <1>2, <1>5, <1>15 DEF LastBatch
  <2>2. Left' = {}
    <3> SUFFICES ASSUME NEW j \in Left' PROVE FALSE
      OBVIOUS
    <3>1. j \in Left /\ j \notin S /\ j \in call.batch
      BY <1>2, <1>10, <2>1 DEF BatchOK
    <3>2. Changeable(j)
      BY <1>1, <1>3, <3>1 DEF LeftOK
    <3> QED
      BY <3>1, <3>2 DEF S
  <2>3. touched' = {} => Scope' = {}
    BY <1>2, <1>6, <1>12, <1>13, <2>1 DEF BatchOK
  <2> QED
    BY <1>8, <2>2, <2>3 DEF DoneOK
<1> QED
  BY <1>7, <1>8, <1>9, <1>11, <1>14, <1>15 DEF WalkInv

----------------------------------------------------------------------------
(* Races, interruptions and resumptions. *)

\* A batch stays as good as it was.
LEMMA SameBatch ==
    ASSUME CohortShape, WalkShape, BatchOK, Stays, call'.batch = call.batch, call'.live = call.live
    PROVE  BatchOK'
<1>1. call.batch \in SUBSET Ids /\ call'.op = call.op
  BY DEF CohortShape, Stays
<1>2. /\ Left' = Left /\ Rest' = Rest /\ Size' = Size /\ (ById' <=> ById) /\ Scope' = Scope
      /\ \A j \in Ids : Past(j)' <=> Past(j)
      /\ \A S \in SUBSET Ids : Free(S)' = Free(S)
  BY StaysSame
<1>3. Free(call.batch)' = Free(call.batch)
  <2>1. PICK P : P = call.batch
    OBVIOUS
  <2> QED
    BY <1>1, <1>2, <2>1
<1>4. /\ call'.batch # {} /\ (call'.op = "replay" => call'.live \subseteq call'.batch)
      /\ ById' => Cardinality(call'.batch) <= Size' /\ \A j \in call'.batch : Past(j)'
  BY <1>1, <1>2 DEF BatchOK
<1>5. LastBatch' <=> LastBatch
  BY <1>1, <1>2 DEF LastBatch
<1>6. \A j \in Left' : LastBatch' \/ (ById' /\ j <= Max(call'.batch))
                       => j \in call'.batch /\ (call'.op = "replay" => j \in call'.live)
  BY <1>1, <1>2, <1>5 DEF BatchOK
<1>7. touched' = {} =>
        /\ ById' => Segment(call'.batch, Rest')
        /\ ~ById' => call'.batch \subseteq Scope'
        /\ LastBatch' => call'.batch = IF ById' THEN Rest' ELSE Scope'
        /\ call'.op = "replay" => call'.live = Free(call.batch)'
  BY <1>1, <1>2, <1>3, <1>5 DEF BatchOK, Stays
<1> QED
  BY <1>4, <1>6, <1>7 DEF BatchOK, Segment

LEMMA PausesWalk ==
    ASSUME CohortInv, WalkInv, LosesRace \/ Interrupted \/ Recount
    PROVE  WalkInv'
<1>1. CohortShape /\ WalkShape /\ AtOnce
  BY DEF CohortInv, WalkInv
<1>2. /\ call'.op = call.op /\ call'.resumed = call.resumed /\ call'.taken = call.taken
      /\ \A f \in Counts : call'[f] = call[f]
      /\ call'.pc \in {"read", "write", "failed", "stopped", "refused"}
      /\ call'.pc = "write" => call.pc = "write" /\ call'.batch = call.batch /\ call'.live = call.live
  <2>1. CASE LosesRace
    BY <1>1, <2>1 DEF LosesRace, Walked, CohortShape, CallFields, Counts
  <2>2. CASE Interrupted
    BY <1>1, <2>2 DEF Interrupted, Walked, CohortShape, CallFields, Counts
  <2>3. CASE Recount
    BY <1>1, <2>3 DEF Recount, CohortShape, CallFields, Counts
  <2> QED
    BY <2>1, <2>2, <2>3
<1>3. Counted /\ Counted' /\ Stays
  BY <1>2 DEF Counted, Stays, LosesRace, Interrupted, Recount, world, history
<1>4. call'.pc = "write" => BatchOK'
  BY <1>1, <1>2, <1>3, SameBatch DEF WalkInv
<1> QED
  BY <1>2, <1>3, <1>4, StayStep

\* A resumed call has forgotten the keys it took, which their jobs still hold.
LEMMA ResumesWalk ==
    ASSUME CohortInv, WalkInv, Resumes
    PROVE  WalkInv'
<1>1. CohortShape /\ WalkShape /\ SlipsOK /\ LeftOK /\ AtOnce
  BY DEF CohortInv, WalkInv
<1>2. /\ call.op \in Bulk /\ call.op # "preview" /\ Counted
      /\ job' = job /\ touched' = touched /\ due' = due /\ cohort' = cohort /\ total' = total
      /\ moved' = moved /\ slips' = slips
  BY DEF Resumes, Counted, world, history
<1>3. /\ call'.pc = "count" /\ call'.resumed = TRUE /\ call'.op = call.op /\ call'.taken = {}
      /\ call'.passed = 0 /\ \A f \in Counts \ {"passed"} : call'[f] = call[f]
  BY <1>1 DEF Resumes, CohortShape, CallFields, Counts
<1>4. /\ call'.cursor = call.cursor /\ call'.changed = call.changed /\ Sum' = Sum
      /\ ById /\ ById' /\ Counted'
  BY <1>1, <1>2, <1>3, OpKinds DEF Counts, Sum, ById, Counted
<1>5. WalkShape'
  <2>1. \A f \in Counts : call'[f] \in Nat
    BY <1>1, <1>3 DEF WalkShape
  <2>2. call'.passed <= MaxJobs
    BY <1>3, CohortAssumption
  <2> QED
    BY <1>1, <1>2, <1>3, <2>1, <2>2 DEF WalkShape
<1>6. FreshOK' /\ SlipsOK'
  BY <1>1, <1>2, <1>3, <1>4 DEF FreshOK, SlipsOK
<1>7. LeftOK'
  BY <1>1, <1>2, <1>3, <1>4 DEF LeftOK, Left, Changeable, Selected, Past, StillRuns
<1>8. ASSUME touched = {} PROVE Caught'
  <2>1. Caught
    BY <1>1, <1>2, <1>4, <1>8 DEF AtOnce
  <2>2. PICK R : R = Rest
    OBVIOUS
  <2>3. R \in SUBSET Ids /\ Segment({}, R)
    BY <1>1, <2>2 DEF Rest, WalkShape, Segment
  <2>4. Rest' = R /\ Matches' = Matches /\ Behind(due)' = Behind(due)
    BY <1>2, <1>3, <1>4, <2>2 DEF Rest, Matches, Behind, Past, Changeable, Selected, StillRuns
  <2>5. {j \in due : Past(j)}' = {j \in due : Past(j)}
    BY <1>2, <1>4 DEF Past
  <2>6. Able({}) = {} /\ Free({}) = {}
    BY DEF Able, Free, LiveCandidates
  <2>7. ASSUME Reviving(call.op), NEW u \in Keys PROVE Used(u)' <=> Used(u)
    <3>1. call.op = "retry"
      BY <1>1, <1>2, <2>7, OpKinds DEF Reviving
    <3>2. Holders(u)' = Holders(u)
      BY <1>2 DEF Holders
    <3> QED
      BY <1>3, <2>1, <3>1, <3>2 DEF Used, Caught
  <2>8. Free(Able(R \ {}))' = Free(Able(R)) \ {}
    BY <1>1, <1>2, <1>3, <2>3, <2>6, <2>7, FreeRest
  <2>9. R \ {} = R /\ Free(Able(R)) \ {} = Free(Able(R))
    OBVIOUS
  <2>10. Free(Able(Rest))' = Free(Able(Rest))
    BY <2>2, <2>4, <2>8, <2>9
  <2> QED
    BY <1>2, <1>3, <1>4, <2>1, <2>2, <2>4, <2>5, <2>10 DEF Caught
<1>9. AtOnce'
  BY <1>2, <1>4, <1>8 DEF AtOnce
<1> QED
  BY <1>3, <1>5, <1>6, <1>7, <1>9 DEF WalkInv

----------------------------------------------------------------------------
(* The count, and the other actors. *)

\* The sets the count looks at.
LEMMA Tallies ==
    ASSUME CohortShape
    PROVE  /\ call.op = "replay" =>
                Cardinality(InState(Terminal \cup {"running"}))
                  = Cardinality(InState({"running"}))
                    + Cardinality({j \in Ids : StillRuns(j) /\ job[j].state \in States})
                    + Cardinality(InState(Terminal \ States)) + Cardinality(Able(Exists))
           /\ ~ById =>
                Cardinality(InState(Source(call.op) \cup Terminal \cup {"running"}))
                  = Cardinality(InState({"running"})) + Cardinality(InState(Terminal))
                    + Cardinality(InState(Source(call.op)))
<1> DEFINE run == InState({"running"})
           still == {j \in Ids : StillRuns(j) /\ job[j].state \in States}
           term == InState(Terminal \ States)
           able == Able(Exists)
<1>1. ASSUME call.op = "replay"
      PROVE  Cardinality(InState(Terminal \cup {"running"}))
               = Cardinality(run) + Cardinality(still) + Cardinality(term) + Cardinality(able)
  <2>1. able = {j \in Ids : job[j].state \in States /\ ~StillRuns(j)}
    BY <1>1, CohortAssumption DEF Able, Exists, Changeable, Source, Reviving, Terminal
  <2>2. InState(Terminal \cup {"running"}) = run \cup (still \cup (term \cup able))
    BY <2>1, CohortAssumption DEF InState
  <2>3. /\ run \in SUBSET Ids /\ still \in SUBSET Ids /\ term \in SUBSET Ids /\ able \in SUBSET Ids
        /\ term \cap able = {} /\ still \cap (term \cup able) = {}
        /\ run \cap (still \cup (term \cup able)) = {}
    BY <2>1, CohortAssumption DEF InState, Terminal
  <2> HIDE DEF run, still, term, able
  <2>4. /\ Cardinality(term \cup able) = Cardinality(term) + Cardinality(able)
        /\ Cardinality(still \cup (term \cup able)) = Cardinality(still) + Cardinality(term \cup able)
        /\ Cardinality(run \cup (still \cup (term \cup able)))
             = Cardinality(run) + Cardinality(still \cup (term \cup able))
    BY <2>3, UnionCard
  <2>5. /\ Cardinality(run) \in Nat /\ Cardinality(still) \in Nat /\ Cardinality(term) \in Nat
        /\ Cardinality(able) \in Nat
    BY <2>3, SubsetCard
  <2>6. Cardinality(InState(Terminal \cup {"running"}))
          = Cardinality(run \cup (still \cup (term \cup able)))
    BY <2>2
  <2> QED
    BY <2>4, <2>5, <2>6
<1>2. ASSUME ~ById
      PROVE  Cardinality(InState(Source(call.op) \cup Terminal \cup {"running"}))
               = Cardinality(run) + Cardinality(InState(Terminal)) + Cardinality(InState(Source(call.op)))
  <2> DEFINE T == InState(Terminal)
             L == InState(Source(call.op))
  <2>1. Source(call.op) \subseteq Waiting
    BY <1>2, OpKinds DEF ByParent, Source, Waiting
  <2>2. /\ InState(Source(call.op) \cup Terminal \cup {"running"}) = run \cup (T \cup L)
        /\ run \in SUBSET Ids /\ T \in SUBSET Ids /\ L \in SUBSET Ids
    BY DEF InState
  <2>3. T \cap L = {} /\ run \cap (T \cup L) = {}
    BY <2>1 DEF InState, Terminal, Waiting
  <2> HIDE DEF run, T, L
  <2>4. /\ Cardinality(T \cup L) = Cardinality(T) + Cardinality(L)
        /\ Cardinality(run \cup (T \cup L)) = Cardinality(run) + Cardinality(T \cup L)
    BY <2>2, <2>3, UnionCard
  <2>5. Cardinality(run) \in Nat /\ Cardinality(T) \in Nat /\ Cardinality(L) \in Nat
    BY <2>2, SubsetCard
  <2>6. Cardinality(run \cup (T \cup L)) = Cardinality(run) + Cardinality(T) + Cardinality(L)
    BY <2>4, <2>5
  <2>7. Cardinality(InState(Source(call.op) \cup Terminal \cup {"running"}))
          = Cardinality(run \cup (T \cup L))
    BY <2>2
  <2> QED
    BY <2>6, <2>7 DEF T, L
<1> QED
  BY <1>1, <1>2

LEMMA OthersWalk ==
    ASSUME CohortInv, WalkInv, NEW j \in Ids, NEW row, Others(j, row)
    PROVE  WalkInv'
<1>1. CohortShape /\ WalkShape /\ SlipsOK /\ LeftOK
  BY DEF CohortInv, WalkInv
<1>2. /\ call' = call /\ call.pc \in {"read", "write"} /\ touched' = touched \cup {j}
      /\ due' = due /\ cohort' = cohort /\ total' = total /\ moved' = moved /\ slips' = slips
      /\ job' = [job EXCEPT ![j] = row]
  BY DEF Others, history
<1>3. \A i \in Ids : i # j => job'[i] = job[i]
  BY <1>1, <1>2 DEF CohortShape
<1>4. Left' \subseteq Left /\ j \notin Left' /\ Left \subseteq Ids
  BY <1>1, <1>2 DEF Left, WalkShape
<1>5. touched' # {}
  BY <1>2
<1>6. WalkShape' /\ FreshOK' /\ SlipsOK'
  BY <1>1, <1>2 DEF WalkShape, FreshOK, SlipsOK, Counted, ById
<1>7. LeftOK'
  <2>1. ASSUME call.op # "preview", NEW i \in Left'
        PROVE  Changeable(i)' /\ (call'.op \in Bulk => Selected(i)') /\ (ById' => Past(i)')
    <3>1. job'[i] = job[i] /\ i \in Left
      BY <1>3, <1>4
    <3>2. Changeable(i) /\ (call.op \in Bulk => Selected(i)) /\ (ById => Past(i))
      BY <1>1, <2>1, <3>1 DEF LeftOK
    <3> QED
      BY <1>2, <3>1, <3>2 DEF Changeable, Selected, StillRuns, Past, ById
  <2> QED
    BY <1>2, <2>1 DEF LeftOK
<1>8. AtOnce'
  BY <1>5 DEF AtOnce
<1>9. ASSUME call'.pc = "write" PROVE BatchOK'
  <2>1. BatchOK
    BY <1>2, <1>9 DEF WalkInv
  <2>2. Size' = Size /\ (ById' <=> ById) /\ (LastBatch' <=> LastBatch)
    BY <1>2 DEF Size, ById, LastBatch
  <2>3. \A i \in call.batch : Past(i)' <=> Past(i)
    BY <1>2 DEF Past
  <2> QED
    BY <1>2, <1>4, <1>5, <2>1, <2>2, <2>3 DEF BatchOK
<1> QED
  BY <1>2, <1>6, <1>7, <1>8, <1>9 DEF WalkInv

\* The jobs a call looks at when it counts.
Looked ==
    IF call.op = "preview" THEN First({j \in Ids : Selected(j)}, MaxJobs)
    ELSE IF call.op \in Bulk THEN {j \in Ids : Selected(j)} ELSE Exists

LEMMA CountWalk ==
    ASSUME CohortInv, WalkInv, Count
    PROVE  WalkInv'
<1>1. CohortShape /\ WalkShape /\ SlipsOK /\ FreshOK /\ ~Counted
  BY DEF CohortInv, WalkInv, Count, Counted, WalkShape
<1>2. /\ call.cursor = 0 /\ call.passed = 0 /\ call.taken = {} /\ Sum = 0
      /\ moved = {} /\ touched = {}
      /\ call.changed = 0 /\ call.key = 0 /\ call.running = 0 /\ call.terminal = 0 /\ call.state = 0
  <2>1. /\ call.changed \in Nat /\ call.key \in Nat /\ call.running \in Nat
        /\ call.terminal \in Nat /\ call.state \in Nat
    BY <1>1, CountsAreNat
  <2>2. /\ call.cursor = 0 /\ call.passed = 0 /\ call.taken = {} /\ Sum = 0
        /\ moved = {} /\ touched = {}
    BY <1>1 DEF FreshOK
  <2>3. call.changed + call.key + call.running + call.terminal + call.state = 0
    BY <2>2 DEF Sum
  <2>4. /\ call.changed = 0 /\ call.key = 0 /\ call.running = 0 /\ call.terminal = 0
        /\ call.state = 0
    <3>1. \A a, b, c, d, e \in Nat :
            a + b + c + d + e = 0 => a = 0 /\ b = 0 /\ c = 0 /\ d = 0 /\ e = 0
      OBVIOUS
    <3> QED
      BY <2>1, <2>3, <3>1
  <2> QED
    BY <2>2, <2>4
<1>3. /\ job' = job /\ touched' = {} /\ moved' = {} /\ slips' = slips
      /\ due' = Free(Able(Looked))
      /\ cohort' = IF call.op \in Bulk THEN Looked ELSE Able(Looked)
  BY <1>2 DEF Count, Looked, Able, world
<1>4. /\ call'.pc \in {"refused", "read"} /\ call'.op = call.op /\ call'.resumed = call.resumed
      /\ call'.taken = {} /\ call'.cursor = 0 /\ call'.passed = 0 /\ call'.changed = 0
      /\ call'.key = 0 /\ call'.state = 0
  BY <1>1, <1>2 DEF Count, CohortShape, CallFields
<1>5. /\ call'.running = IF call.op \in Bulk THEN 0
                         ELSE Cardinality(InState({"running"}))
                              + Cardinality({j \in Ids : call.op = "replay" /\ StillRuns(j)
                                                         /\ job[j].state \in States})
      /\ call'.terminal = IF call.op \in Bulk THEN 0
                          ELSE Cardinality(InState(IF call.op = "replay" THEN Terminal \ States ELSE Terminal))
  BY <1>1 DEF Count, CohortShape, CallFields
<1>6. total' = CASE call.op \in Bulk -> Cardinality(Looked)
                 [] call.op = "replay" -> Cardinality(InState(Terminal \cup {"running"}))
                 [] OTHER -> Cardinality(InState(Source(call.op) \cup Terminal \cup {"running"}))
  BY DEF Count, Looked
<1>7. /\ Looked \in SUBSET Ids /\ Able(Looked) \in SUBSET Ids
      /\ Free(Able(Looked)) \subseteq Able(Looked)
  BY DEF Looked, First, Exists, Able, Free, LiveCandidates
<1>8. /\ \A S : Cardinality(InState(S)) \in Nat
      /\ Cardinality({j \in Ids : call.op = "replay" /\ StillRuns(j) /\ job[j].state \in States}) \in Nat
      /\ Cardinality(Looked) \in Nat
  <2>1. /\ \A S : InState(S) \in SUBSET Ids
        /\ {j \in Ids : call.op = "replay" /\ StillRuns(j) /\ job[j].state \in States} \in SUBSET Ids
    BY DEF InState
  <2> QED
    BY <1>7, <2>1, SubsetCard
<1>9. call.op \in Bulk \/ call.op = "replay" \/ ~ById
  BY <1>1, OpKinds DEF ById
<1>10. WalkShape'
  <2>1. call'.running \in Nat /\ call'.terminal \in Nat
    BY <1>5, <1>8
  <2>2. total' \in Nat
    BY <1>6, <1>8, <1>9
  <2>3. \A f \in Counts : call'[f] \in Nat
    BY <1>4, <2>1 DEF Counts
  <2>4. due' \subseteq cohort' /\ cohort' \subseteq Ids
    BY <1>3, <1>7 DEF Able
  <2>5. call'.passed <= MaxJobs
    BY <1>4, CohortAssumption
  <2> QED
    BY <1>1, <1>4, <2>2, <2>3, <2>4, <2>5 DEF WalkShape
<1>11. Counted' /\ (ById' <=> ById)
  BY <1>4 DEF Counted, ById
<1>12. FreshOK' /\ SlipsOK'
  BY <1>1, <1>3, <1>4, <1>11 DEF FreshOK, SlipsOK
<1>13. \A j \in Ids : /\ Past(j)' = TRUE
                      /\ Changeable(j)' <=> Changeable(j)
                      /\ Selected(j)' <=> Selected(j)
  BY <1>3, <1>4, IdsAreNat DEF Past, Changeable, Selected, StillRuns
<1>14. LeftOK'
  <2>1. ASSUME NEW j \in Left'
        PROVE  Changeable(j)' /\ (call'.op \in Bulk => Selected(j)') /\ (ById' => Past(j)')
    <3>1. j \in due'
      BY DEF Left
    <3>2. j \in Looked /\ Changeable(j) /\ j \in Ids
      BY <1>3, <1>7, <3>1 DEF Able
    <3>3. call.op \in Bulk => Selected(j)
      BY <3>2 DEF Looked, First
    <3> QED
      BY <1>4, <1>13, <3>2, <3>3
  <2> QED
    BY <2>1 DEF LeftOK
<1>15. Rest' = cohort'
  BY <1>3, <1>7, <1>13 DEF Rest, Able
<1>16. ASSUME ById PROVE Caught'
  <2>1. Behind(due)' = {} /\ Behind(cohort)' = {}
    <3>1. \A j \in Ids : ~(j <= call'.cursor)
      BY <1>4, IdsAreNat
    <3> QED
      BY <1>10, <3>1 DEF Behind, WalkShape
  <2>2. Cardinality({}) = 0
    BY FS_EmptySet
  <2>3. Sum' + Cardinality(Rest') = total'
    <3>1. CASE call.op \in Bulk
      <4>1. Rest' = Looked /\ total' = Cardinality(Looked)
        BY <1>1, <1>3, <1>6, <1>15, <3>1, OpKinds
      <4>2. call'.running = 0 /\ call'.terminal = 0
        BY <1>5, <3>1
      <4>3. Sum' = 0
        BY <1>4, <4>2 DEF Sum
      <4> QED
        BY <1>8, <4>1, <4>3
    <3>2. CASE call.op = "replay"
      <4>1. Looked = Exists /\ call.op \notin Bulk
        BY <3>2 DEF Looked, Bulk
      <4>2. {j \in Ids : call.op = "replay" /\ StillRuns(j) /\ job[j].state \in States}
              = {j \in Ids : StillRuns(j) /\ job[j].state \in States}
        BY <3>2
      <4>3. Sum' = Cardinality(InState({"running"}))
                    + Cardinality({j \in Ids : StillRuns(j) /\ job[j].state \in States})
                    + Cardinality(InState(Terminal \ States))
        BY <1>4, <1>5, <1>8, <3>2, <4>1, <4>2 DEF Sum
      <4>4. Rest' = Able(Exists) /\ total' = Cardinality(InState(Terminal \cup {"running"}))
        BY <1>3, <1>6, <1>15, <3>2, <4>1
      <4> QED
        BY <1>1, <3>2, <4>3, <4>4, Tallies
    <3> QED
      BY <1>9, <1>16, <3>1, <3>2
  <2>4. Rest' = IF call'.op = "preview" THEN First(Matches', MaxJobs - call'.passed) ELSE Matches'
    <3>1. CASE call.op = "replay"
      <4>1. Looked = Exists /\ call.op \notin Bulk
        BY <3>1 DEF Looked, Bulk
      <4>2. Matches' = {j \in Ids : Changeable(j)}
        BY <1>4, <1>13, <3>1 DEF Matches
      <4>3. \A j \in Ids : Changeable(j) => j \in Exists
        BY <3>1, CohortAssumption DEF Changeable, Source, Exists, Terminal
      <4> QED
        BY <1>3, <1>4, <1>15, <3>1, <4>1, <4>2, <4>3 DEF Able, Exists
    <3>2. CASE call.op # "replay"
      <4>1. call.op \in Bulk
        BY <1>9, <1>16, <3>2
      <4>2. Matches' = {j \in Ids : Selected(j)}
        BY <1>4, <1>13, <3>2 DEF Matches
      <4>3. MaxJobs - call'.passed = MaxJobs
        BY <1>4, CohortAssumption
      <4> QED
        BY <1>3, <1>4, <1>15, <4>1, <4>2, <4>3 DEF Looked
    <3> QED
      BY <3>1, <3>2
  <2>5. {j \in due' : Past(j)'} = Free(Able(Rest))'
    <3>1. {j \in due' : Past(j)'} = due'
      BY <1>3, <1>7, <1>13
    <3>2. PICK R : R = Able(Looked)
      OBVIOUS
    <3>3. Able(Rest)' = R
      BY <1>3, <1>7, <1>13, <1>15, <3>2 DEF Able
    <3>4. R \in SUBSET Ids
      BY <1>7, <3>2
    <3>5. \A j \in Ids : (Used(Key[j])' <=> Used(Key[j])) /\ (KeyRuled(j)' <=> KeyRuled(j))
      BY <1>2, <1>3, <1>4 DEF Used, Holders, KeyRuled
    <3>6. \A j \in R : Leads(R, j)' <=> Leads(R, j)
      BY <3>4, <3>5 DEF Leads
    <3>7. Free(R)' = Free(R)
      BY <3>4, <3>6, FreeIff, FreeIffNext
    <3> QED
      BY <1>3, <3>1, <3>2, <3>3, <3>7
  <2> QED
    BY <1>3, <1>4, <2>1, <2>2, <2>3, <2>4, <2>5 DEF Caught
<1>17. ASSUME ~ById PROVE CaughtByParent'
  <2>1. call.op \notin Bulk /\ call.op # "replay" /\ call.op # "preview"
    BY <1>1, <1>17, OpKinds
  <2>2. Looked = Exists
    BY <2>1 DEF Looked
  <2>3. Scope \subseteq Exists
    <3>1. "absent" \notin Source(call.op)
      BY <1>1, <1>17, OpKinds DEF ByParent, Source, Waiting
    <3> QED
      BY <3>1 DEF Scope, InState, Exists
  <2>4. Able(Exists) = Scope /\ Scope \in SUBSET Ids
    BY <1>1, <1>17, <2>3, ScopeMoves DEF Able, Exists, Scope, InState
  <2>5. Free(Scope) = Scope
    <3>1. \A j \in Scope : ~KeyRuled(j)
      BY <1>1, <1>17, ScopeMoves DEF KeyRuled
    <3> QED
      BY <2>4, <3>1, FreeAll
  <2>6. Scope' = Scope /\ due' = Scope
    BY <1>3, <1>4, <2>2, <2>4, <2>5 DEF Scope, InState
  <2>7. Cardinality({}) = 0
    BY FS_EmptySet
  <2>8. {j \in Ids : call.op = "replay" /\ StillRuns(j) /\ job[j].state \in States} = {}
    BY <2>1
  <2>9. Sum' = Cardinality(InState({"running"})) + Cardinality(InState(Terminal))
    <3>1. /\ call'.running = Cardinality(InState({"running"})) + Cardinality({})
          /\ call'.terminal = Cardinality(InState(Terminal))
      BY <1>5, <2>1, <2>8
    <3>2. Cardinality(InState({"running"})) \in Nat /\ Cardinality(InState(Terminal)) \in Nat
      BY <1>8
    <3> QED
      BY <1>4, <2>7, <3>1, <3>2 DEF Sum
  <2>10. total' = Cardinality(InState(Source(call.op) \cup Terminal \cup {"running"}))
    BY <1>6, <2>1
  <2>11. Sum' + Cardinality(Scope) = total'
    BY <1>1, <1>17, <2>9, <2>10, Tallies DEF Scope
  <2> QED
    BY <1>3, <1>4, <2>6, <2>7, <2>11 DEF CaughtByParent
<1>18. AtOnce'
  BY <1>11, <1>16, <1>17 DEF AtOnce
<1> QED
  BY <1>4, <1>10, <1>12, <1>14, <1>18 DEF WalkInv

----------------------------------------------------------------------------
(* The theorem. *)

LEMMA WalkInit == Init => WalkInv
<1> SUFFICES ASSUME Init PROVE WalkInv
  OBVIOUS
<1>1. PICK op \in Ops : call = NewCall(op)
  BY DEF Init
<1>2. /\ call.pc = "count" /\ call.cursor = 0 /\ call.passed = 0 /\ call.taken = {}
      /\ call.resumed = FALSE /\ call.changed = 0 /\ call.key = 0 /\ call.running = 0
      /\ call.terminal = 0 /\ call.state = 0
  BY <1>1 DEF NewCall
<1>3. due = {} /\ cohort = {} /\ total = 0 /\ moved = {} /\ slips = {} /\ touched = {}
  BY DEF Init
<1>4. WalkShape
  <2>1. \A f \in Counts : call[f] \in Nat
    BY <1>2 DEF Counts
  <2>2. call.passed <= MaxJobs
    BY <1>2, CohortAssumption
  <2>3. call.resumed \in BOOLEAN
    BY <1>2
  <2>4. due \subseteq cohort /\ cohort \subseteq Ids /\ total \in Nat
    BY <1>3
  <2> QED
    BY <2>1, <2>2, <2>3, <2>4, Zenon DEF WalkShape
<1>5. FreshOK /\ SlipsOK /\ LeftOK /\ AtOnce
  BY <1>2, <1>3 DEF FreshOK, SlipsOK, LeftOK, Left, AtOnce, Counted, Sum
<1> QED
  BY <1>2, <1>4, <1>5 DEF WalkInv

LEMMA WalkNext == CohortInv /\ WalkInv /\ Next => WalkInv'
<1> SUFFICES ASSUME CohortInv, WalkInv, Next PROVE WalkInv'
  OBVIOUS
<1>1. CASE Walk
  BY <1>1, CountWalk, PausesWalk, ReplayReadsWalk, ReplayWritesWalk, BulkReadsWalk, PreviewsWalk,
     BulkWritesWalk, ScopeReadsWalk, ScopeWritesWalk DEF Walk
<1>2. CASE LosesRace \/ Interrupted \/ Resumes
  BY <1>2, PausesWalk, ResumesWalk
<1>3. ASSUME NEW j \in Ids, Other(j) PROVE WalkInv'
  BY <1>3, OthersWalk DEF Other, Enqueue, Claim, Stub, EndRun, EndFenced, CancelJob, RetryJob, PauseJob,
     ResumeJob, DeleteJob
<1> QED
  BY <1>1, <1>2, <1>3 DEF Next

LEMMA WalkStill ==
    ASSUME CohortInv, WalkInv, UNCHANGED vars
    PROVE  WalkInv'
<1> USE DEF vars
<1>1. WalkShape /\ CohortShape /\ Stays /\ (Counted' <=> Counted)
  BY DEF WalkInv, CohortInv, Stays, Counted
<1>2. CASE Counted
  <2>1. call' = call /\ touched' = touched
    OBVIOUS
  <2>2. /\ Left' = Left /\ Rest' = Rest /\ Size' = Size /\ (ById' <=> ById) /\ Scope' = Scope
        /\ \A j \in Ids : Past(j)' <=> Past(j)
        /\ \A S \in SUBSET Ids : Free(S)' = Free(S)
    BY <1>1, StaysSame
  <2>3. call'.pc = "done" => DoneOK'
    BY <2>1, <2>2 DEF WalkInv, DoneOK
  <2>4. call'.pc = "write" => BatchOK'
    BY <1>1, <2>1, SameBatch DEF WalkInv
  <2> QED
    BY <1>1, <1>2, <2>3, <2>4, StayStep
<1>3. CASE ~Counted
  <2>1. call.pc = "count" /\ FreshOK /\ SlipsOK /\ Left = {}
    BY <1>3 DEF Counted, WalkInv, FreshOK, Left
  <2>2. WalkShape' /\ FreshOK' /\ SlipsOK' /\ LeftOK' /\ AtOnce' /\ call'.pc = "count"
    BY <1>1, <1>3, <2>1 DEF WalkShape, FreshOK, SlipsOK, LeftOK, Left, AtOnce, ById, Sum
  <2> QED
    BY <2>2 DEF WalkInv
<1> QED
  BY <1>2, <1>3

LEMMA WalkImplies == WalkInv => WalkExact
<1> SUFFICES ASSUME WalkInv PROVE WalkExact
  OBVIOUS
<1>1. ById => slips = {}
  BY DEF WalkInv, SlipsOK
<1>2. ASSUME Finished
      PROVE  /\ call.op # "preview" => {j \in due \ touched : Key[j] = NoKey} \subseteq moved
             /\ touched = {} =>
                  /\ moved = IF call.op = "preview" THEN {} ELSE due
                  /\ call.changed = Cardinality(due) /\ Sum = total
  <2>1. DoneOK /\ AtOnce /\ Counted /\ WalkShape
    BY <1>2 DEF WalkInv, Finished, Counted
  <2>2. call.op # "preview" => {j \in due \ touched : Key[j] = NoKey} \subseteq moved
    BY <2>1 DEF DoneOK, Left
  <2>3. Cardinality({}) = 0 /\ Sum \in Nat
    BY <2>1, FS_EmptySet, CountsAreNat
  <2>4. CASE touched = {} /\ ById
    <3>1. Rest = {} /\ Caught
      BY <2>1, <2>4 DEF DoneOK, AtOnce
    <3>2. Behind(due) = due
      <4>1. \A j \in due : j \in Nat /\ ~Past(j)
        BY <2>1, <3>1, IdsAreNat DEF Rest, WalkShape
      <4>2. call.cursor \in Nat
        BY <2>1, CountsAreNat
      <4> QED
        BY <4>1, <4>2 DEF Behind, Past
    <3> QED
      BY <2>2, <2>3, <3>1, <3>2 DEF Caught
  <2>5. CASE touched = {} /\ ~ById
    <3>1. Scope = {} /\ CaughtByParent
      BY <2>1, <2>5 DEF DoneOK, AtOnce
    <3>2. call.op # "preview"
      BY <2>5 DEF ById, ByParent
    <3> QED
      BY <2>2, <2>3, <3>1, <3>2 DEF CaughtByParent
  <2> QED
    BY <2>2, <2>4, <2>5
<1> QED
  BY <1>1, <1>2 DEF WalkExact, ById, Sum

\* For any jobs, keys, batch sizes, bounds and rivals, batches make no difference:
\* a replay, bulk call or ByParent control (replay.go, bulk.go, schedule.go) that
\* nobody races changes exactly the jobs it would have changed at once, its result
\* adds up, and every job has its rank's place in the stagger; raced, interrupted
\* and resumed or not, it changes no job twice and reaches every keyless job of its
\* cohort that its rivals left alone.
THEOREM WalkSafety == Spec => []WalkExact
<1>1. Init => CohortInv /\ WalkInv
  BY CohortInit, WalkInit
<1>2. CohortInv /\ WalkInv /\ [Next]_vars => (CohortInv /\ WalkInv)'
  BY CohortNext, CohortStill, WalkNext, WalkStill
<1>3. CohortInv /\ WalkInv => WalkExact
  BY WalkImplies
<1> QED
  BY <1>1, <1>2, <1>3, PTL DEF Spec
=============================================================================
