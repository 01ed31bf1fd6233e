------------------------- MODULE MCCheckpointResume -------------------------
(* Values for model checking CheckpointResume. *)
EXTENDS CheckpointResume, TLC

AcyclicGraphs == {g \in [Steps -> SUBSET Steps] : Acyclic(g)}

FreshContext == {[completed |-> {}, failed |-> {}]}

StepSymmetry == Permutations(Steps)
=============================================================================
