-------------------------------- MODULE Node --------------------------------
(***************************************************************************)
(* A Node (internal/node: node.go, registry.go; internal/core: nodes.go)   *)
(* over the Runners of RunnerLoop: Run registers the process in job_nodes, *)
(* starts the components on a context of its own and, when the host's      *)
(* context ends, stops every Runner, drains them within DrainTimeout and   *)
(* tears the rest down.  Its registration beats: it reads whether an       *)
(* operator asked the node to drain, stops the Runners if so, and reports  *)
(* what is in flight, while other nodes prune rows that have grown old.    *)
(*                                                                         *)
(* The in-flight counts a row reports are abstracted to whether any is     *)
(* above zero, which is all that Drained is derived from.  The scheduler   *)
(* and the health server are components that may fail.                     *)
(*                                                                         *)
(* Run first checks the schema that the processes of Migrate install.      *)
(* Nothing a node does afterwards depends on what they do, nor they on it: *)
(* from its start on the model follows the node alone.                     *)
(***************************************************************************)
EXTENDS RunnerLoop, Migrate

CONSTANTS
    DrainTimeout,   \* NodeConfig.DrainTimeout is set
    Mishaps         \* registry reads and writes fail, components fail, the process dies

ASSUME NodeAssumption == {DrainTimeout, Mishaps} \subseteq BOOLEAN

VARIABLES
    node,   \* where Run is, whether the host's context and the drain's have ended
    reg,    \* registration: whether the row was written, whether it is draining
    beat,   \* where the registration's goroutine is, and what it counted
    row     \* the node's job_nodes row: the set is empty, or holds the row

nodeVars == <<node, reg, beat, row>>
allVars == <<vars, nodeVars>>
deployVars == <<allVars, migrateVars>>

\* open is history, no column: the Runners that were stopped and at their claim
\* when the counts of the row were taken.
NewRow(draining, busy, open) ==
    [draining |-> draining, busy |-> busy, open |-> open, asked |-> FALSE, stopped |-> FALSE]

NewNode == [pc |-> "check", asked |-> FALSE, late |-> FALSE]
NewRegistration == [inserted |-> FALSE, draining |-> FALSE]
Idled == [pc |-> "tick", inserts |-> FALSE, busy |-> FALSE, open |-> {}]

NodeInit ==
    /\ Init /\ MigrateInit
    /\ node = NewNode /\ reg = NewRegistration /\ beat = Idled
    /\ row = {}

\* The context the components run on has ended.
Cancelled == \A r \in Runners : ended[r]
Cancel == ended' = [r \in Runners |-> TRUE]

\* InFlight counts the dispatches that execute (pool.running): the slots a loop
\* holds for a claim it is about to make or is making are not among them.
Busy == \E r \in Runners : pool[r].running > 0

\* The loops that a Stop found past their last look at it, and that still claim.
Claiming == {r \in Runners : stop[r] /\ loop[r].pc = "claim"}

StopAll == stop' = [r \in Runners |-> TRUE]
Beside == UNCHANGED <<queue, stuck, inserted, loop, pool, work, limiter, control, seen, failed>>

----------------------------------------------------------------------------
(* The registration. *)

\* probeSchema's verdict on the table the registration writes.
Outdated == Gap("nodes")

\* checkSchema refuses a database that lacks a column of the node's table, before
\* anything starts; a check that cannot run is no verdict.  (A gap in a table of
\* the Runners or the scheduler is the failure of a component, below.)
CheckSchema ==
    /\ node.pc = "check"
    /\ ~Outdated \/ Mishaps
    /\ node' = [node EXCEPT !.pc = "register"]
    /\ owner' = "library" /\ tables' = [t \in Tables |-> "whole"]
    /\ indexes' = [i \in Indexes |-> "ours"] /\ params' = {}
    /\ twins' = FALSE /\ advisory' = NoCaller
    /\ call' = [p \in Callers |-> NoCall] /\ calls' = 0 /\ promised' = {}
    /\ UNCHANGED <<vars, reg, beat, row>>

\* Create: refused beside a row of the same id; its acknowledgement may be lost.
\* busy is what was counted before it, open the loops still claiming then.
Create(busy, open) ==
    \/ row = {} /\ row' = {NewRow(reg.draining, busy, open)} /\ reg' = [reg EXCEPT !.inserted = TRUE]
    \/ Mishaps /\ row = {} /\ row' = {NewRow(reg.draining, busy, open)} /\ UNCHANGED reg
    \/ (Mishaps \/ Cancelled \/ row # {}) /\ UNCHANGED <<row, reg>>

\* Run before anything starts: start writes the row, or fails to.
Register ==
    /\ node.pc = "register"
    /\ Create(FALSE, {})
    /\ node' = [node EXCEPT !.pc = "running"]
    /\ UNCHANGED <<vars, beat>>

Begun == node.pc \notin {"check", "register"}
Beating == Begun /\ beat.pc = "tick" /\ ~Cancelled

\* A beat that finds no drain request to answer: its row is not written yet, the
\* node drains already, answerDrain reads no request, or it fails.
BeatBegins ==
    /\ Beating
    /\ ~reg.inserted \/ reg.draining \/ Mishaps \/ \A w \in row : ~w.asked
    /\ beat' = [beat EXCEPT !.pc = "count", !.inserts = ~reg.inserted]
    /\ UNCHANGED <<vars, node, reg, row>>

\* Mutant: the drain is answered and not remembered, so no beat reports it.
AnswerForgotten ==
    /\ Beating /\ reg.inserted /\ ~reg.draining
    /\ \E w \in row : w.asked
    /\ StopAll
    /\ beat' = [beat EXCEPT !.pc = "count"]
    /\ Beside /\ UNCHANGED <<ended, node, reg, row>>

\* answerDrain reads a request and stops every Runner.
AnswerDrain ==
    /\ Beating /\ reg.inserted /\ ~reg.draining
    /\ \E w \in row : w.asked
    /\ StopAll
    /\ reg' = [reg EXCEPT !.draining = TRUE]
    /\ beat' = [beat EXCEPT !.pc = "count"]
    /\ Beside /\ UNCHANGED <<ended, node, row>>

\* runnersJSON.
BeatCounts ==
    /\ beat.pc = "count"
    /\ beat' = [beat EXCEPT !.pc = "write", !.busy = Busy, !.open = Claiming]
    /\ UNCHANGED <<vars, node, reg, row>>

\* The heartbeat's update, which inserts the row again if it finds none.
BeatUpdates ==
    /\ beat.pc = "write" /\ ~beat.inserts
    /\ row' = {[w EXCEPT !.draining = reg.draining, !.busy = beat.busy, !.open = beat.open] : w \in row}
    /\ beat' = IF row = {} THEN [beat EXCEPT !.pc = "count", !.inserts = TRUE] ELSE Idled
    /\ UNCHANGED <<vars, node, reg>>

BeatInserts ==
    /\ beat.pc = "write" /\ beat.inserts
    /\ Create(beat.busy, beat.open)
    /\ beat' = Idled
    /\ UNCHANGED <<vars, node>>

BeatFails ==
    /\ beat.pc = "write" /\ ~beat.inserts
    /\ Mishaps \/ Cancelled
    /\ beat' = Idled
    /\ UNCHANGED <<vars, node, reg, row>>

\* run returns: its context has ended.
BeatsEnd ==
    /\ Begun /\ beat.pc = "tick" /\ Cancelled
    /\ beat' = [beat EXCEPT !.pc = "off"]
    /\ UNCHANGED <<vars, node, reg, row>>

----------------------------------------------------------------------------
(* Run, from the end of the host's context on. *)

\* drainRunners stops every Runner before it drains any.
StopsRunners ==
    /\ node.pc = "running" /\ node.asked
    /\ StopAll
    /\ node' = [node EXCEPT !.pc = "drain"]
    /\ Beside /\ UNCHANGED <<ended, reg, beat, row>>

\* Its Drain calls, one Runner after the other, share one deadline.
DrainRunner(r) ==
    /\ node.pc = "drain"
    /\ \A q \in Runners : pool[q].drain \notin {"waiting", "freed"}
    /\ DrainWaits(r)
    /\ UNCHANGED nodeVars

RunnerDrained(r) ==
    /\ node.pc = "drain"
    /\ pool[r].drain = "waiting" => node.late
    /\ DrainReturns(r)
    /\ UNCHANGED nodeVars

Teardown ==
    /\ node.pc = "drain"
    /\ \A r \in Runners : pool[r].drain \in {"drained", "timedOut"}
    /\ Cancel
    /\ node' = [node EXCEPT !.pc = "await"]
    /\ Beside /\ UNCHANGED <<stop, reg, beat, row>>

\* Every component has returned (done is closed).
Done == beat.pc = "off" /\ \A r \in Runners : loop[r].pc = "returned"

\* Mutant: the wait for the components has no bound of its own.
AwaitsAll == node.pc = "await" /\ Done
Awaited == node.pc = "await" /\ (Done \/ node.late)

\* Run's select on done, or awaitComponents.
ComponentsDone ==
    /\ (node.pc = "running" /\ Done) \/ Awaited
    /\ node' = [node EXCEPT !.pc = "stop"]
    /\ UNCHANGED <<vars, reg, beat, row>>

\* registration.stop, under the beats' mutex; its write may fail.
RegistryStop ==
    /\ node.pc = "stop" /\ beat.pc \in {"tick", "off"}
    /\ \/ row' = {[w EXCEPT !.stopped = TRUE, !.draining = reg.draining,
                            !.busy = Busy, !.open = Claiming] : w \in row}
       \/ Mishaps /\ UNCHANGED row
    /\ node' = [node EXCEPT !.pc = "returned"]
    /\ UNCHANGED <<vars, reg, beat>>

\* fail: the scheduler or the health server returned an error.
ComponentFails ==
    /\ Mishaps /\ node.pc \in {"running", "drain"} /\ ~Cancelled
    /\ Cancel
    /\ Beside /\ UNCHANGED <<stop, nodeVars>>

----------------------------------------------------------------------------
(* The host, the operators and the other nodes. *)

HostCancels ==
    /\ ~node.asked /\ node.pc \in {"register", "running"}
    /\ node' = [node EXCEPT !.asked = TRUE]
    /\ UNCHANGED <<vars, reg, beat, row>>

DeadlinePasses ==
    /\ DrainTimeout /\ ~node.late /\ node.pc \in {"drain", "await"}
    /\ node' = [node EXCEPT !.late = TRUE]
    /\ UNCHANGED <<vars, reg, beat, row>>

\* The process dies: its row stays as it is, its jobs with the lease sweep.
NodeDies ==
    /\ Mishaps /\ node.pc \notin {"check", "dead"}
    /\ node' = [node EXCEPT !.pc = "dead"]
    /\ beat' = [Idled EXCEPT !.pc = "off"]
    /\ loop' = [r \in Runners |-> NewLoop("dead")]
    /\ pool' = [r \in Runners |-> NewPool(r)]
    /\ work' = [r \in Runners |-> [g \in Permits |-> 0]]
    /\ stuck' = stuck + Total([r \in Runners |-> pool[r].running])
    /\ stranded' = [g \in Grants |-> stranded[g] + Owed(g)]
    /\ UNCHANGED <<queue, inserted, stop, ended, hold, lapsed, bucket, control, seen, failed, reg, row>>

RequestDrain ==
    /\ \E w \in row : ~w.stopped /\ ~w.asked
    /\ row' = {[w EXCEPT !.asked = TRUE] : w \in row}
    /\ UNCHANGED <<vars, node, reg, beat>>

\* prune, by another node: the row's heartbeat is older than the node retention,
\* for the node died, stopped or has not been able to write for as long.
RowPruned ==
    /\ Mishaps /\ row # {}
    /\ row' = {}
    /\ UNCHANGED <<vars, node, reg, beat>>

----------------------------------------------------------------------------

\* The Runners' goroutines outlive a Run whose drain timed out.
Running == Begun /\ UNCHANGED nodeVars
RunnerSteps(r) == Running /\ (Loop(r) \/ Dispatch(r))
Around == node.pc # "check" /\ World /\ UNCHANGED nodeVars
Beats == \/ BeatBegins \/ AnswerDrain \/ BeatCounts
         \/ BeatUpdates \/ BeatInserts \/ BeatFails \/ BeatsEnd
Shutdown == \/ StopsRunners \/ Teardown \/ ComponentsDone \/ RegistryStop
            \/ \E r \in Runners : DrainRunner(r) \/ RunnerDrained(r)
Environment == \/ HostCancels \/ DeadlinePasses \/ ComponentFails \/ NodeDies
               \/ RequestDrain \/ RowPruned

NodeSteps == \/ Register \/ Beats \/ Shutdown \/ Environment \/ Around
             \/ \E r \in Runners : RunnerSteps(r)
Migrations == node.pc = "check" /\ MigrateNext /\ UNCHANGED allVars

NodeNext == (NodeSteps /\ UNCHANGED migrateVars) \/ Migrations \/ CheckSchema

NodeSpec == NodeInit /\ [][NodeNext]_deployVars

\* Run and its goroutines keep running, the deadline passes, and a registry that
\* fails now and then is reached in the end.  Nothing makes a worker return.
NodeFairness ==
    /\ WF_allVars(Register) /\ WF_allVars(Beats) /\ WF_allVars(Shutdown)
    /\ WF_allVars(DeadlinePasses)
    /\ SF_allVars(AnswerDrain) /\ SF_allVars(BeatUpdates)
    /\ \A r \in Runners :
         /\ WF_allVars(Running /\ Loop(r)) /\ SF_allVars(Running /\ TopRefresh(r))
         /\ WF_allVars(Running /\ FreeSlot(r))
NodeFairSpec == NodeSpec /\ NodeFairness /\ MigrateFairness

----------------------------------------------------------------------------
(* Correctness. *)

\* The nodes that have not stopped, and Drained, from the row alone.
ListNodes == {w \in row : ~w.stopped}
Drained == \E w \in ListNodes : w.draining /\ ~w.busy

\* Nothing of the Runner executes, and its loop claims nothing.
Quiet(r) == pool[r].running = 0 /\ loop[r].pc # "claim"

\* What a row says of a node that is draining or has stopped stays true, but for
\* the claims under way: once it reports nothing in flight, a Runner runs a job
\* or claims one only if its loop was past its last look at Stop when
\* runnersJSON counted.
ReportedEmptyIsEmpty ==
    \A w \in row : (w.draining \/ w.stopped) /\ ~w.busy => \A r \in Runners \ w.open : Quiet(r)

\* What Node.Drained is documented to say: draining with nothing in flight.
\* The code does not keep it (README, Findings): a claim under way brings jobs.
DrainedIsEmpty == Drained => \A r \in Runners : pool[r].running = 0

\* A drain an operator requests is answered: if dispatches return, the node reads
\* Drained in the end and does have nothing in flight then, unless it ends first
\* or its row was pruned.  (A node whose insert committed and was reported failed
\* never beats again: inserted is false.)
DrainAnswered ==
    (\A r \in Runners : WF_vars(Dispatch(r))) =>
        ((reg.inserted /\ \E w \in row : w.asked)
            ~> \/ Drained /\ \A r \in Runners : Quiet(r)
               \/ row = {} \/ Cancelled \/ node.pc = "dead")

\* A host that ends the node's context gets Run back, even if no worker ever
\* returns: DrainTimeout bounds the drain and the wait after it.
NodeStops == node.asked ~> node.pc \in {"returned", "dead"}
=============================================================================
