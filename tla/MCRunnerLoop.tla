---------------------------- MODULE MCRunnerLoop ----------------------------
(* RunnerLoop for TLC: grant tokens are interchangeable. *)
EXTENDS RunnerLoop, TLC

CONSTANTS r1, r2

\* A pool that starts its jobs on goroutines, and one that runs them inline.
TwoAndOne == r1 :> 2 @@ r2 :> 1
Two == r1 :> 2

GrantSymmetry == Permutations(Grants)
=============================================================================
