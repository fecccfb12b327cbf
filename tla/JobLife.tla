------------------------------ MODULE JobLife ------------------------------
(***************************************************************************)
(* What the runtime promises of a job, with no rows, leases or tokens: a   *)
(* job waits, runs and ends; each attempt at it is counted and none is     *)
(* begun past its allowance; it leaves running by the word of its newest   *)
(* attempt alone, by a reclaim or by an operator; an older attempt may     *)
(* still be at work, and then ends without effect; an outcome stands until *)
(* an operator re-queues or deletes the job.  JobCore implements it.       *)
(***************************************************************************)
EXTENDS Integers

CONSTANTS Jobs, Attempts

Outcomes == {"succeeded", "cancelled", "discarded"}
Phases == {"absent", "waiting", "running", "deleted"} \cup Outcomes

VARIABLES
    phase,    \* where each job is
    tries,    \* attempts begun
    allowed,  \* attempts it may begin, re-queues by force included
    active    \* the attempts still at work

vars == <<phase, tries, allowed, active>>

TypeOK ==
    /\ phase \in [Jobs -> Phases]
    /\ tries \in [Jobs -> Nat] /\ allowed \in [Jobs -> Nat]
    /\ active \in [Jobs -> SUBSET Attempts]

Init ==
    /\ phase = [j \in Jobs |-> "absent"]
    /\ tries = [j \in Jobs |-> 0] /\ allowed = [j \in Jobs |-> 0]
    /\ active = [j \in Jobs |-> {}]

Submit(j) ==
    /\ phase[j] = "absent"
    /\ phase' = [phase EXCEPT ![j] = "waiting"]
    /\ allowed'[j] > 0 /\ allowed' = [allowed EXCEPT ![j] = allowed'[j]]
    /\ UNCHANGED <<tries, active>>

\* One claim may begin attempts at several jobs.
Begin(S) ==
    /\ \A j \in S : phase[j] = "waiting" /\ tries[j] < allowed[j]
    /\ phase' = [j \in Jobs |-> IF j \in S THEN "running" ELSE phase[j]]
    /\ tries' = [j \in Jobs |-> IF j \in S THEN tries[j] + 1 ELSE tries[j]]
    /\ active' = [j \in Jobs |-> IF j \in S THEN active[j] \cup {tries[j] + 1} ELSE active[j]]
    /\ UNCHANGED allowed

\* The newest attempt ends and says what becomes of the job; a snooze gives its
\* attempt back.
Settle(j, p, extra) ==
    /\ phase[j] = "running" /\ tries[j] \in active[j]
    /\ p = "waiting" => tries[j] < allowed[j] + extra
    /\ extra > 0 => p = "waiting"
    /\ phase' = [phase EXCEPT ![j] = p]
    /\ allowed' = [allowed EXCEPT ![j] = @ + extra]
    /\ active' = [active EXCEPT ![j] = @ \ {tries[j]}]
    /\ UNCHANGED tries

\* Any attempt ends without a word: it died, or it is no longer the job's.
Vanish(j, a) ==
    /\ a \in active[j]
    /\ active' = [active EXCEPT ![j] = @ \ {a}]
    /\ UNCHANGED <<phase, tries, allowed>>

\* Running jobs are taken from their attempts, T of them for good.
Reclaim(S, T) ==
    /\ \A j \in S : phase[j] = "running"
    /\ \A j \in S \ T : tries[j] < allowed[j]
    /\ phase' = [j \in Jobs |-> IF j \in T THEN "discarded"
                                ELSE IF j \in S THEN "waiting" ELSE phase[j]]
    /\ UNCHANGED <<tries, allowed, active>>

Cancel(j) ==
    /\ phase[j] \in {"waiting", "running"}
    /\ phase' = [phase EXCEPT ![j] = "cancelled"]
    /\ UNCHANGED <<tries, allowed, active>>

\* An operator puts a job back, with an attempt to spend; with force, one that
\* has ended or is running.
Requeue(j) ==
    /\ phase[j] \in {"waiting", "running"} \cup Outcomes
    /\ phase' = [phase EXCEPT ![j] = "waiting"]
    /\ allowed'[j] > tries[j] /\ allowed' = [allowed EXCEPT ![j] = allowed'[j]]
    /\ UNCHANGED <<tries, active>>

\* The row goes; an attempt still at work does not know.
Delete(j) ==
    /\ phase[j] \in Outcomes
    /\ phase' = [phase EXCEPT ![j] = "deleted"]
    /\ tries' = [tries EXCEPT ![j] = 0] /\ allowed' = [allowed EXCEPT ![j] = 0]
    /\ UNCHANGED active

Next ==
    \/ \E j \in Jobs : Submit(j) \/ Cancel(j) \/ Requeue(j) \/ Delete(j)
    \/ \E j \in Jobs, p \in {"waiting"} \cup Outcomes, extra \in {0, 1} : Settle(j, p, extra)
    \/ \E j \in Jobs, a \in Attempts : Vanish(j, a)
    \/ \E S \in SUBSET Jobs : Begin(S) \/ \E T \in SUBSET S : Reclaim(S, T)

Spec == Init /\ [][Next]_vars
=============================================================================
