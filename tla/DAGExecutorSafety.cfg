SPECIFICATION Spec
CONSTANTS
  Steps = {a, b, c, d}
  Ghost = ghost
  NoStep = noStep
  Names <- MCNames
  Graphs <- WideGraphs
  Limits = {0, 1, 3}
  InitialContexts <- ResumedContexts
  MayAbort = TRUE
SYMMETRY StepSymmetry
INVARIANTS
  TypeOK
  DependencyOrder
  ConcurrencyBound
  FailureContained
  VerdictCorrect
  NoSpuriousSkip
  NoFalseDeadlock
PROPERTIES
  ResultsFinal
