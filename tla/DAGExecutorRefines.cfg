SPECIFICATION FairSpec
CONSTANTS
  Steps = {a, b, c}
  Ghost = ghost
  NoStep = noStep
  Names <- MCNames
  Graphs <- AcyclicGraphs
  Limits = {0, 1, 2}
  InitialContexts <- FreshContext
  MayAbort = TRUE
PROPERTIES
  RunEnds
  ImplementsWorkflowRun
