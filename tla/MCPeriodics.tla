---------------------------- MODULE MCPeriodics ----------------------------
(* Instances of Periodics for TLC: what two Schedulers declare.             *)
EXTENDS Periodics, TLC

CONSTANTS s1, s2, g1, g2

EverySecond == [cron |-> FALSE, n |-> 1, active |-> TRUE]
CronTwo == [cron |-> TRUE, n |-> 2, active |-> TRUE]
CronThree == [cron |-> TRUE, n |-> 3, active |-> TRUE]

\* One host declares both definitions, the other only runs a Scheduler.
OneHost == s1 :> (g1 :> EverySecond @@ g2 :> CronThree) @@ s2 :> <<>>
OperatorSpecs == {CronTwo}

\* cronBuckets as the code runs it: a walk from one time to the next, of which
\* the ring keeps the last.
CronWalk(start, n, t) ==
    LET Walk[u \in Nat] == IF u > t THEN <<>> ELSE <<u>> \o Walk[Multiple(n, u)]
        all == Walk[start]
        last == Len(all)
    IN  [buckets |-> SubSeq(all, IF last > BackfillCap THEN last - BackfillCap + 1 ELSE 1, last),
         next |-> Multiple(n, all[last])]

\* Periodics' closed form of it is that walk.
ASSUME CronWalkIsCronBuckets ==
    \A n \in 1..4, start \in 0..9, t \in 0..20 :
        start <= t => CronBuckets(start, n, t) = CronWalk(start, n, t)
=============================================================================
