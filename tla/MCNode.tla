------------------------------- MODULE MCNode -------------------------------
(* Node for TLC. *)
EXTENDS Node, TLC

CONSTANT r1

Two == r1 :> 2

\* A bare database, an older release's indexes, a failed build of each kind.
Deployed == {[key |-> "none", ready |-> "none"], [key |-> "stale", ready |-> "invalid"],
             [key |-> "invalid", ready |-> "ours"], [key |-> "ours", ready |-> "stale"]}
=============================================================================
