--------------------------- MODULE DagAlgorithms ---------------------------
(***************************************************************************)
(* The algorithms of engine/dag.py: the depth-first search for a cycle,    *)
(* Kahn's order, and get_ready_steps.  DAG.tla says what they should       *)
(* compute; the modules that model the executors use DAG.tla.              *)
(*                                                                         *)
(* Registered is the insertion order of the steps, which is the order of   *)
(* every loop over the dict.  An entry repeated in depends_on counts twice *)
(* and is discounted twice, so that a set of dependencies is enough.       *)
(***************************************************************************)
EXTENDS DAG, SequencesExt

Registered == SetToSeq(Steps)

\* _build_adjacency_list, in the order in which the dependents were added.
AdjacencyList(g, s) == SelectSeq(Registered, LAMBDA t : s \in g[t])

-----------------------------------------------------------------------------
(* _detect_cycles *)

\* `stack` is the path of gray steps; a cycle, once found, is raised.
White == [color |-> [s \in Steps |-> "white"], stack |-> <<>>, cycle |-> <<>>]

\* The part of the path from the repeated step on, and that step again.
CyclePath(stack, s) ==
  LET start == CHOOSE i \in DOMAIN stack : stack[i] = s
  IN SubSeq(stack, start, Len(stack)) \o <<s>>

RECURSIVE Visit(_, _, _)
Visit(g, s, search) ==
  LET Entered == [search EXCEPT !.color[s] = "gray", !.stack = Append(@, s)]
      Look(found, t) ==
        IF found.cycle # <<>> \/ found.color[t] = "black" THEN found
        ELSE IF found.color[t] = "gray"
             THEN [found EXCEPT !.cycle = CyclePath(found.stack, t)]
             ELSE Visit(g, t, found)
      Explored == FoldLeft(Look, Entered, AdjacencyList(g, s))
  IN IF Explored.cycle # <<>> THEN Explored
     ELSE [Explored EXCEPT !.color[s] = "black", !.stack = Front(@)]

\* The path of the CycleDetectedError, empty if there is none.
DetectedCycle(g) ==
  LET Start(found, s) == IF found.cycle # <<>> \/ found.color[s] # "white" THEN found
                         ELSE Visit(g, s, found)
  IN FoldLeft(Start, White, Registered).cycle

-----------------------------------------------------------------------------
(* get_execution_order *)

RECURSIVE Kahn(_, _, _, _)
Kahn(g, ready, inDegree, order) ==
  IF ready = <<>> THEN order
  ELSE LET current  == Head(ready)
           lowered  == [s \in Steps |-> IF current \in g[s] THEN inDegree[s] - 1 ELSE inDegree[s]]
           unlocked == SelectSeq(AdjacencyList(g, current), LAMBDA s : lowered[s] = 0)
       IN Kahn(g, Tail(ready) \o unlocked, lowered, Append(order, current))

\* The order before it is compared with the number of steps.
ExecutionOrder(g) ==
  Kahn(g, SelectSeq(Registered, LAMBDA s : g[s] = {}), [s \in Steps |-> Cardinality(g[s])], <<>>)

\* get_ready_steps
ReadySteps(g, done) == SelectSeq(Registered, LAMBDA s : s \notin done /\ g[s] \subseteq done)

-----------------------------------------------------------------------------
(* What they should compute. *)

\* Each step of the path depends on the one before it, and the last is the first.
IsCycle(g, path) ==
  /\ Len(path) > 1 /\ path[1] = path[Len(path)]
  /\ \A i \in 1..Len(path) - 1 : path[i] \in g[path[i + 1]]

\* The search raises exactly for the graphs with a cycle, with one of them.
SearchIsRight(g) ==
  LET path == DetectedCycle(g)
  IN IF Acyclic(g) THEN path = <<>> ELSE IsCycle(g, path)

\* Of a valid graph the order has every step once, after its dependencies; at
\* each point the next step is one of the ready ones, and some step is ready as
\* long as steps are left.
OrderIsRight(g) ==
  LET order == ExecutionOrder(g)
      Before(i) == {order[j] : j \in 1..i - 1}
  IN /\ ToSet(order) = Steps /\ Len(order) = Cardinality(Steps)
     /\ \A i \in DOMAIN order : Contains(ReadySteps(g, Before(i)), order[i])
     /\ \A done \in SUBSET Steps : done # Steps => ReadySteps(g, done) # <<>>

\* The check behind Kahn's algorithm ("a cycle that survived the DFS", 222) is
\* right too: of a graph with a cycle no complete order comes.
NoOrderOfCycle(g) == Acyclic(g) \/ Len(ExecutionOrder(g)) < Cardinality(Steps)

AlgorithmsAreRight(g) ==
  /\ SearchIsRight(g)
  /\ NoOrderOfCycle(g)
  /\ Acyclic(g) => OrderIsRight(g)
=============================================================================
