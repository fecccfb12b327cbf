----------------------------- MODULE MCJobCore -----------------------------
(* Instances of JobCore for TLC: the options operators use, and symmetry.   *)
EXTENDS JobCore, TLC

PlainRetry == [force |-> FALSE, allowRunning |-> FALSE, reset |-> FALSE, budget |-> 0]
ForceRetry == [PlainRetry EXCEPT !.force = TRUE]
ResetRetry == [ForceRetry EXCEPT !.reset = TRUE]
BudgetRetry == [ForceRetry EXCEPT !.reset = TRUE, !.budget = 1]
OverlapRetry == [ForceRetry EXCEPT !.allowRunning = TRUE]

AllRetries == {PlainRetry, ResetRetry, BudgetRetry, OverlapRetry, ForceRetry}
NoRetries == {}

\* Lease tokens are only compared for equality.
TokenSymmetry == Permutations(Tokens)
=============================================================================
