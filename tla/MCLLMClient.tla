----------------------------- MODULE MCLLMClient -----------------------------
(* Values for model-checking LLMClient.tla: a cheap tier that shares its      *)
(* provider with the first model of the other tier, and a local model with a  *)
(* single slot.                                                               *)
EXTENDS LLMClient

MCModels   == {"mini", "large", "phi"}
MCTiers    == {1, 2}
MCProvider == [m \in MCModels |-> IF m = "phi" THEN "ollama" ELSE "openai"]
MCLimit    == [p \in {"openai", "ollama"} |-> IF p = "ollama" THEN 1 ELSE 2]
MCCallers  == {"c1", "c2"}

Both(x, y) == [c \in MCCallers |-> IF c = "c1" THEN x ELSE y]

\* Two callers of the router, over a tier that can degrade and over the local
\* model; every mix with the client over one model.
TwoTiers == [t \in MCTiers |-> IF t = 1 THEN {"mini"} ELSE {"mini", "large"}]
OneModel == [t \in MCTiers |-> IF t = 1 THEN {"mini"} ELSE {}]
OneSlot  == [t \in MCTiers |-> IF t = 1 THEN {"phi"} ELSE {}]
MCSetups ==
  {[chain |-> TwoTiers, via |-> Both("router", "router"), cache |-> TRUE],
   [chain |-> OneSlot,  via |-> Both("router", "router"), cache |-> TRUE],
   [chain |-> OneModel, via |-> Both("client", "router"), cache |-> TRUE],
   [chain |-> OneModel, via |-> Both("client", "client"), cache |-> TRUE],
   [chain |-> OneModel, via |-> Both("client", "stream"), cache |-> FALSE]}
=============================================================================
