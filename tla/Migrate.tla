------------------------------ MODULE Migrate ------------------------------
(***************************************************************************)
(* Installing the schema on PostgreSQL (internal/core: migrate.go,         *)
(* schema.go, storage.go, indexes.go): processes that call Migrate, one    *)
(* after the other under an advisory lock, or InstallIndexes and           *)
(* InstallStorageParameters, which take none, while jobs are enqueued and  *)
(* processes die.                                                          *)
(*                                                                         *)
(* Each action is one statement or transaction; a concurrent index build   *)
(* has a beginning and an end.  The runtime's tables are abstracted to two *)
(* and its indexes to one of each kind.  retiredIndexNames is empty and    *)
(* nothing is dropped on its account.                                      *)
(***************************************************************************)
EXTENDS Integers, Sequences

CONSTANTS
    Callers,     \* the processes that install the schema
    NoCaller,
    Found,       \* the indexes that earlier releases and failed builds left
    CallBound    \* bound: calls

VARIABLES
    owner,      \* who owns the schema: the library (Migrate) or the host
    tables,     \* what each table is to this release's model
    params,     \* the storage settings that hold
    indexes,    \* what each index is to this release's definition
    twins,      \* two jobs share a unique key
    advisory,   \* the session that holds the migration lock
    call,       \* each process's call
    calls,      \* counts up to CallBound
    promised    \* history: what the calls that returned nil have promised

migrateVars == <<owner, tables, params, indexes, twins, advisory, call, calls, promised>>

Models == <<"jobs", "nodes">>
IndexSet == <<"key", "ready">>
StorageParameterSet == <<"autovacuum", "fillfactor">>
Settings == {"autovacuum", "fillfactor"}
Tables == {"jobs", "nodes"}
Indexes == {"key", "ready"}
IndexStates == {"none", "stale", "invalid", "ours"}
Correctness == {"key"}     \* IndexCorrectness; the others only serve plans

ASSUME MigrateAssumption ==
    NoCaller \notin Callers /\ Found \subseteq [Indexes -> IndexStates] /\ CallBound \in Nat

\* A call under the options it was given; `drift` is what its inspection found
\* of each index, "ours" once nothing is left to do about it, and `beside` that
\* another call overlapped it.
NoCall == [pc |-> "idle", reconcile |-> FALSE, concurrently |-> FALSE,
           drift |-> [i \in Indexes |-> "ours"],
           drifted |-> FALSE, result |-> "none", beside |-> FALSE]

MigrateInit ==
    /\ owner \in {"library", "host"}
    /\ tables \in [Tables -> {"absent", "old", "whole"}]
    /\ owner = "host" => \A t \in Tables : tables[t] = "whole"
    /\ tables["jobs"] # "whole" => tables["nodes"] = tables["jobs"]
    /\ params = {}
    /\ indexes \in Found
    /\ tables["jobs"] = "absent" => \A i \in Indexes : indexes[i] = "none"
    /\ twins = FALSE /\ advisory = NoCaller
    /\ call = [p \in Callers |-> NoCall]
    /\ calls = 0 /\ promised = {}

Put(p, c) == call' = [call EXCEPT ![p] = c]
Schema == <<owner, tables, params, indexes, twins>>

\* MigrateWithOptions locks first; a host installs its indexes and its storage
\* parameters in two calls.
FirstStep == IF owner = "library" THEN {"lock"} ELSE {"inspect", "storage"}
Options == [reconcile : BOOLEAN, concurrently : BOOLEAN]

Begin(p) ==
    /\ call[p].pc = "idle" /\ calls < CallBound
    /\ calls' = calls + 1
    /\ LET others == {q \in Callers \ {p} : call[q].pc # "idle"}
       IN \E o \in Options, first \in FirstStep :
            call' = [q \in Callers |->
                IF q = p THEN [NoCall EXCEPT !.pc = first, !.beside = others # {},
                                             !.reconcile = o.reconcile, !.concurrently = o.concurrently]
                ELSE [call[q] EXCEPT !.beside = @ \/ q \in others]]
    /\ UNCHANGED <<Schema, advisory, promised>>

\* Mutant: nobody waits for the lock.
LockIgnored(p) ==
    /\ call[p].pc = "lock"
    /\ advisory' = p /\ Put(p, [call[p] EXCEPT !.pc = "tables"])
    /\ UNCHANGED <<Schema, calls, promised>>

\* acquireMigrationLock: an attempt that finds the lock taken sleeps and tries again.
TryLock(p) ==
    /\ call[p].pc = "lock" /\ advisory = NoCaller
    /\ advisory' = p /\ Put(p, [call[p] EXCEPT !.pc = "tables"])
    /\ UNCHANGED <<Schema, calls, promised>>

\* inspectSchema: the table, or a column of it, is missing.
Gap(t) == tables[t] # "whole"

\* migrateSchema: the first table with a gap, and none that has every column.
MigrateTable(p) ==
    /\ call[p].pc = "tables"
    /\ \/ /\ \A t \in Tables : ~Gap(t)
          /\ Put(p, [call[p] EXCEPT !.pc = "storage"]) /\ UNCHANGED tables
       \/ \E n \in DOMAIN Models :
             /\ Gap(Models[n]) /\ \A k \in 1..(n - 1) : ~Gap(Models[k])
             /\ tables' = [tables EXCEPT ![Models[n]] = "whole"] /\ UNCHANGED call
    /\ UNCHANGED <<owner, params, indexes, twins, advisory, calls, promised>>

Current(s) == s \in params

\* Migrate goes on to the indexes, InstallStorageParameters is done.
AfterStorage(c) == IF owner = "library" THEN [c EXCEPT !.pc = "inspect"]
                   ELSE [c EXCEPT !.pc = "return", !.result = "set"]

\* applyStorageParameters: one statement for each setting, and none that holds.
SetStorage(p) ==
    /\ call[p].pc = "storage"
    /\ \/ /\ \A s \in Settings : Current(s)
          /\ Put(p, AfterStorage(call[p])) /\ UNCHANGED params
       \/ \E n \in DOMAIN StorageParameterSet :
             /\ ~Current(StorageParameterSet[n])
             /\ \A k \in 1..(n - 1) : Current(StorageParameterSet[k])
             /\ params' = params \cup {StorageParameterSet[n]} /\ UNCHANGED call
    /\ UNCHANGED <<owner, tables, indexes, twins, advisory, calls, promised>>

\* An index with the runtime's definition, and valid.
Installed(i) == indexes[i] = "ours"

\* inspectIndexes: one read of the catalog, which applyIndexes then acts on.
Inspect(p) ==
    /\ call[p].pc = "inspect"
    /\ Put(p, [call[p] EXCEPT !.pc = "apply", !.drift = indexes])
    /\ UNCHANGED <<Schema, advisory, calls, promised>>

\* The index that call p is at: the first that is not as it should be.
Turn(p, i) == \E n \in DOMAIN IndexSet :
    /\ i = IndexSet[n] /\ call[p].drift[i] # "ours"
    /\ \A k \in 1..(n - 1) : call[p].drift[IndexSet[k]] = "ours"
Acts(p, i, was) == call[p].pc = "apply" /\ Turn(p, i) /\ call[p].drift[i] \in was
Onward(p, i) == [call[p] EXCEPT !.pc = "apply", !.drift[i] = "ours"]

\* Another statement holds the table lock that a build or a drop needs.
TableLocked(p) == \E q \in Callers \ {p} : call[q].pc = "building"

\* A unique index cannot be built over two jobs with one key.
Refutes(i) == i \in Correctness /\ twins

\* createIndex, IF NOT EXISTS: whatever has the name by now stands.
CreateIndex(p, i) ==
    /\ Acts(p, i, {"none"}) /\ ~call[p].concurrently /\ ~TableLocked(p)
    /\ indexes[i] = "none" => ~Refutes(i)
    /\ indexes' = IF indexes[i] = "none" THEN [indexes EXCEPT ![i] = "ours"] ELSE indexes
    /\ Put(p, Onward(p, i))
    /\ UNCHANGED <<owner, tables, params, twins, advisory, calls, promised>>

\* CREATE INDEX CONCURRENTLY IF NOT EXISTS: invalid until it ends.
BuildStarts(p, i) ==
    /\ Acts(p, i, {"none"}) /\ call[p].concurrently /\ ~TableLocked(p)
    /\ IF indexes[i] = "none"
       THEN indexes' = [indexes EXCEPT ![i] = "invalid"] /\ Put(p, [call[p] EXCEPT !.pc = "building"])
       ELSE UNCHANGED indexes /\ Put(p, Onward(p, i))
    /\ UNCHANGED <<owner, tables, params, twins, advisory, calls, promised>>

\* Who waits for the lock holds no snapshot, which a concurrent build would wait
\* for.  Mutant: it waits in pg_advisory_lock.
BlockedInServer(q) == call[q].pc = "lock"
HoldsSnapshot(q) == FALSE

Builds(p, i) == call[p].pc = "building" /\ Turn(p, i)
BuildEnds(p, i) ==
    /\ Builds(p, i) /\ ~Refutes(i)
    /\ \A q \in Callers \ {p} : ~HoldsSnapshot(q)
    /\ indexes' = [indexes EXCEPT ![i] = "ours"]
    /\ Put(p, Onward(p, i))
    /\ UNCHANGED <<owner, tables, params, twins, advisory, calls, promised>>

\* repairInvalidIndex drops and builds in two statements, an index no guarantee
\* rests on.
Repairs(p, i) == call[p].drift[i] = "invalid" /\ call[p].concurrently /\ i \notin Correctness
RepairInvalidIndex(p, i) ==
    /\ Acts(p, i, {"invalid"}) /\ Repairs(p, i) /\ ~TableLocked(p)
    /\ indexes' = [indexes EXCEPT ![i] = "none"]
    /\ Put(p, [call[p] EXCEPT !.drift[i] = "none"])
    /\ UNCHANGED <<owner, tables, params, twins, advisory, calls, promised>>

\* An index that is not the runtime's and is not repaired: reconciled, or drift.
Differs(p, i) == Acts(p, i, {"stale", "invalid"}) /\ ~Repairs(p, i)

\* reconcileIndex: drop and create in one transaction.
ReconcileIndex(p, i) ==
    /\ Differs(p, i) /\ call[p].reconcile /\ ~TableLocked(p)
    /\ indexes[i] # "none" /\ ~Refutes(i)
    /\ indexes' = [indexes EXCEPT ![i] = "ours"]
    /\ Put(p, Onward(p, i))
    /\ UNCHANGED <<owner, tables, params, twins, advisory, calls, promised>>

\* Drift that nobody asked to reconcile is collected for the IndexDriftError.
Collect(p, i) ==
    /\ Differs(p, i) /\ ~call[p].reconcile
    /\ Put(p, [Onward(p, i) EXCEPT !.drifted = TRUE])
    /\ UNCHANGED <<Schema, advisory, calls, promised>>

ApplyEnds(p) ==
    /\ call[p].pc = "apply" /\ \A i \in Indexes : call[p].drift[i] = "ours"
    /\ Put(p, [call[p] EXCEPT !.pc = "return", !.result = IF call[p].drifted THEN "drift" ELSE "nil"])
    /\ UNCHANGED <<Schema, advisory, calls, promised>>

\* A statement the database refuses ends the call: a build over duplicates, the
\* drop of an index another call dropped.
Refused(p, i) ==
    /\ \/ Builds(p, i) /\ Refutes(i)
       \/ Acts(p, i, {"none"}) /\ ~call[p].concurrently /\ indexes[i] = "none" /\ Refutes(i)
       \/ Differs(p, i) /\ call[p].reconcile /\ (indexes[i] = "none" \/ Refutes(i))
    /\ Put(p, [call[p] EXCEPT !.pc = "return", !.result = "failed"])
    /\ UNCHANGED <<Schema, advisory, calls, promised>>

\* And so may any other: a lock timeout, a deadlock, a lost connection.
StatementFails(p) ==
    /\ call[p].pc \notin {"idle", "return"}
    /\ Put(p, [call[p] EXCEPT !.pc = "return", !.result = "failed"])
    /\ UNCHANGED <<Schema, advisory, calls, promised>>

Freed(p) == advisory' = IF advisory = p THEN NoCaller ELSE advisory

\* What a nil stands for.  An InstallIndexes that met another call's failed
\* concurrent build may return nil over the invalid index it left.
Promises(c) == CASE c.result = "set" -> {"settings"}
                 [] c.result = "nil" /\ owner = "library" -> {"tables", "settings", "indexes", "keys"}
                 [] c.result = "nil" /\ owner = "host" /\ ~c.beside -> {"keys"}
                 [] OTHER -> {}

\* withMigrationLock releases the lock and discards its connection.
Returns(p) ==
    /\ call[p].pc = "return"
    /\ Freed(p) /\ Put(p, NoCall)
    /\ promised' = promised \cup Promises(call[p])
    /\ UNCHANGED <<Schema, calls>>

\* The process dies: its session ends, and what it was building stays invalid.
CallerDies(p) ==
    /\ call[p].pc # "idle"
    /\ Freed(p) /\ Put(p, NoCall)
    /\ UNCHANGED <<Schema, calls, promised>>

\* An enqueue of a key that a job has: nothing but the index refuses it.
InsertTwin ==
    /\ tables["jobs"] # "absent" /\ ~Installed("key") /\ ~twins
    /\ twins' = TRUE
    /\ UNCHANGED <<owner, tables, params, indexes, advisory, call, calls, promised>>

RemoveTwin ==
    /\ twins /\ twins' = FALSE
    /\ UNCHANGED <<owner, tables, params, indexes, advisory, call, calls, promised>>

IndexSteps(p, i) ==
    \/ CreateIndex(p, i) \/ BuildStarts(p, i) \/ BuildEnds(p, i) \/ RepairInvalidIndex(p, i)
    \/ ReconcileIndex(p, i) \/ Collect(p, i) \/ Refused(p, i)

CallSteps(p) == \/ TryLock(p) \/ MigrateTable(p) \/ SetStorage(p) \/ Inspect(p)
                \/ (\E i \in Indexes : IndexSteps(p, i))
                \/ ApplyEnds(p) \/ Returns(p)

MigrateNext == \/ InsertTwin \/ RemoveTwin
               \/ \E p \in Callers : Begin(p) \/ CallSteps(p) \/ StatementFails(p) \/ CallerDies(p)

MigrateSpec == MigrateInit /\ [][MigrateNext]_migrateVars

\* A process that waits, or has a statement to run, goes on.
MigrateFairness == \A p \in Callers : WF_migrateVars(CallSteps(p))

----------------------------------------------------------------------------
(* Correctness. *)

\* What a nil from Migrate promises stays: every table and column, the storage
\* parameters and every index with the runtime's definition, valid, whoever
\* migrates beside and after it and wherever they die; and from then on no two
\* jobs share a unique key.  A host's two calls promise the storage parameters
\* and, of one that ran alone, the correctness indexes.
PromiseKept ==
    /\ "tables" \in promised => \A t \in Tables : ~Gap(t)
    /\ "settings" \in promised => \A s \in Settings : Current(s)
    /\ "indexes" \in promised => \A i \in Indexes : Installed(i)
    /\ "keys" \in promised => ~twins /\ \A i \in Correctness : Installed(i)

\* Once no further call begins, every call returns or dies, though the callers
\* wait on one lock, on each other's builds and on what the database makes a
\* build wait for.
CallsReturn == calls = CallBound ~> \A p \in Callers : call[p].pc = "idle"
=============================================================================
