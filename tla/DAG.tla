-------------------------------- MODULE DAG --------------------------------
(***************************************************************************)
(* The workflow graph of engine/dag.py as operators.                       *)
(*                                                                         *)
(* A graph g maps each registered step to the set of step names in its     *)
(* depends_on list.  A name may be unknown: validate() is what rejects it. *)
(* The operators define transitive notions by the closed sets that contain *)
(* them and use no recursion.                                              *)
(***************************************************************************)
EXTENDS FiniteSets

CONSTANTS
  Steps,   \* names registered with DAG.add (a dict: no name occurs twice)
  Names    \* every name a depends_on list may mention

ASSUME StepsAssumption ==
  /\ IsFiniteSet(Steps)
  /\ Steps \subseteq Names

-----------------------------------------------------------------------------
(* validate() *)

\* _check_missing_dependencies: some depends_on entry names no step.
MissingDependency(g) == \E s \in Steps : ~(g[s] \subseteq Steps)

\* What _detect_cycles decides.  Every non-empty set of steps has a member
\* with no dependency inside the set; a cycle would be a set without one.
Acyclic(g) ==
  \A S \in SUBSET Steps : S # {} => \E s \in S : g[s] \cap S = {}

Valid(g) == Steps # {} /\ ~MissingDependency(g) /\ Acyclic(g)

-----------------------------------------------------------------------------
(* The forward adjacency: dep -> the steps that list it in depends_on. *)

Dependents(g, s) == {t \in Steps : s \in g[t]}

\* S contains every dependent of its members that is not in `finished`.
ClosedUnder(g, S, finished) ==
  \A t \in S : Dependents(g, t) \ finished \subseteq S

\* The steps a breadth-first walk from s along the adjacency visits when it
\* neither records nor expands a step of `finished`.
ReachableFrom(g, s, finished) ==
  {t \in Steps : \A S \in SUBSET Steps :
     (/\ Dependents(g, s) \ finished \subseteq S
      /\ ClosedUnder(g, S, finished)) => t \in S}

\* The transitive dependents of s.
Descendants(g, s) == ReachableFrom(g, s, {})
=============================================================================
