-------------------------- MODULE MCExecutionSession --------------------------
(* Instances of ExecutionSession for TLC. *)
EXTENDS ExecutionSession

Order(algo, volume, dprice) == [algo |-> algo, volume |-> volume, dprice |-> dprice]

MCParents == {Order("FixedSize", 3, 1), Order("Default", 3, 1), Order("VWAP", 3, 1)}

=============================================================================
