------------------------------ MODULE MCUpkeep ------------------------------
(* Instances of Upkeep for TLC: who rolls up and rebuilds, and the rules.    *)
EXTENDS Upkeep

Kinds == [j \in Jobs |-> IF j = 1 THEN "noisy" ELSE "plain"]
\* A kind's own age loses to the rule that names the state too.
KeepRules == {[kind |-> "noisy", state |-> AnyOne, age |-> 2],
              [kind |-> "noisy", state |-> "cancelled", age |-> 1]}
SchedulerAndCaller ==
    [w \in Walkers |-> IF w = "scheduler" THEN {"rollup"} ELSE {"rebuild"}]
=============================================================================
