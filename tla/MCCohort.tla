------------------------------ MODULE MCCohort ------------------------------
(* Cohort for TLC. *)
EXTENDS Cohort, TLC

CONSTANT k

\* A job with a key, one without, and a later rival for the key.
SharedKey == 1 :> k @@ 2 :> NoKey @@ 3 :> k
=============================================================================
