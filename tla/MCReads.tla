------------------------------ MODULE MCReads ------------------------------
(* Reads for TLC. *)
EXTENDS Reads

\* Two levels below 1, one wide level, and a chain.
Trees == {<<0, 1, 1, 2>>, <<0, 1, 1, 1>>, <<0, 1, 2, 3>>}

\* A caller may name a state twice.
Repeated == <<"succeeded", "discarded", "succeeded">>
=============================================================================
