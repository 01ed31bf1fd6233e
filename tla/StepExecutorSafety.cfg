SPECIFICATION Spec
CONSTANTS
  c1 = c1
  c2 = c2
  Calls = {c1, c2}
  StepNames = {"draft", "review"}
  StepOf <- DistinctNames
  Configs <- LoopsFitShared
  MayCancel = TRUE
  NoCall = NoCall
INVARIANTS
  TypeOK
  OutcomeMatchesContext
  RegistryExact
  FailureHasCause
PROPERTIES
  NoRerunOnceComplete
