----------------------------- MODULE MCAttempt -----------------------------
(* Attempt for TLC. *)
EXTENDS Attempt, TLC

TwoReports == <<1, 2>>
=============================================================================
