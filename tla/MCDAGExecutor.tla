--------------------------- MODULE MCDAGExecutor ---------------------------
(***************************************************************************)
(* Values for model checking DAGExecutor: every valid graph over the       *)
(* steps, invalid ones, and fresh or resumed contexts.                     *)
(***************************************************************************)
EXTENDS DAGExecutor, DagAlgorithms, TLC

CONSTANT Ghost  \* a name no step has

MCNames == Steps \cup {Ghost}

AcyclicGraphs == {g \in [Steps -> SUBSET Steps] : Acyclic(g)}

\* The steps of C in a cycle, and no other edges.
Cycles(C) == {g \in [Steps -> SUBSET C] :
                ~Acyclic(g) /\ \A s \in Steps : Cardinality(g[s]) = IF s \in C THEN 1 ELSE 0}

\* Every acyclic graph, cycles of every length, and a dangling dependency.
WideGraphs == AcyclicGraphs \cup UNION {Cycles(C) : C \in SUBSET Steps}
                            \cup {[s \in Steps |-> {Ghost}]}

\* The context NativeEngine.execute creates.
FreshContext == {[completed |-> {}, failed |-> {}]}

\* The contexts NativeEngine.resume fills from the checkpoints of a thread.
ResumedContexts == {[completed |-> S, failed |-> {}] : S \in SUBSET Steps}

StepSymmetry == Permutations(Steps)

\* The algorithms of dag.py on every graph over the steps.  The graphs include
\* those that differ in the names of the steps only, and so stand for every
\* order in which steps are registered.
ASSUME AlgorithmsChecked == \A g \in [Steps -> SUBSET Steps] : AlgorithmsAreRight(g)
=============================================================================
