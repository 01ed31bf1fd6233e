----------------------------- MODULE MCPipeline -----------------------------
(* Values for model-checking Pipeline.tla. *)
EXTENDS Pipeline

MCSteps == {"a", "b", "c", "d"}

Step(s) == [kind |-> "step", step |-> s]
GroupEl(ss, ff, n) == [kind |-> "group", steps |-> ss, failFast |-> ff, slots |-> n]
Branch(then, else) == [kind |-> "branch", then |-> then, else |-> else]

\* Groups of two, alone and before a step, and of three with one or two slots.
Pairs   == {GroupEl(<<"b", "c">>, ff, n) : ff \in BOOLEAN, n \in 0..1}
Triples == {GroupEl(<<"b", "c", "d">>, ff, n) : ff \in BOOLEAN, n \in 1..2}

\* A branch that holds a group, and one that holds a branch.
Branches ==
  {Branch(<<Step("a"), g>>, <<>>) : g \in Pairs} \cup
  {Branch(<<Branch(<<Step("a"), Step("b")>>, <<>>), Step("c")>>, <<Step("b")>>)}

Bodies ==
  {<<Step("a"), g, Step("d")>> : g \in Pairs} \cup
  {<<g, Step("a")>> : g \in Triples} \cup
  {<<b, Step("d")>> : b \in Branches}

MCPipelines == {[elements |-> es, failFast |-> ff, interval |-> n] :
                  es \in Bodies, ff \in BOOLEAN, n \in {0, 2}}

MCElements ==
  {Step(s) : s \in MCSteps} \cup Pairs \cup Triples \cup Branches
    \cup {Branch(<<Step("a"), Step("b")>>, <<>>)}
=============================================================================
