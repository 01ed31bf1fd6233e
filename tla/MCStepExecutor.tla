--------------------------- MODULE MCStepExecutor ---------------------------
(* Instances of StepExecutor for TLC. *)
EXTENDS StepExecutor, TLC

CONSTANTS c1, c2

\* Two calls of differently named steps, or of steps with the same name.
DistinctNames == c1 :> "draft" @@ c2 :> "review"
SameName      == [c \in Calls |-> "draft"]

AllConfigs(retries, loops) ==
  [hasFunc : BOOLEAN, retries : retries, loopMax : loops,
   block : BOOLEAN, timer : BOOLEAN]

Usual == {cf \in AllConfigs({0, 1, 2}, {0, 1, 2, 3}) : cf.hasFunc}

\* loop_max fits in the attempts the retry policy grants ...
LoopsFit == {cf \in Usual : cf.loopMax <= cf.retries + 1}

\* ... for two calls that share the executor, fewer of them.
LoopsFitShared == {cf \in LoopsFit : cf.retries = 1 /\ cf.loopMax \in {0, 2}}

\* Any loop_max, with and without a function.
AnyLoop == AllConfigs({0, 1, 2}, {0, 1, 2, 4})

Symm == Permutations({c1, c2})
=============================================================================
