----------------------------- MODULE MCBarrier -----------------------------
(* The instance of Barrier for TLC: its configurations give every constant. *)
EXTENDS Barrier
=============================================================================
