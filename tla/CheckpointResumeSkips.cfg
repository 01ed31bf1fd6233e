SPECIFICATION SpecThread
CONSTANTS
  Steps = {a, b}
  NoStep = noStep
  Names = {a, b}
  Graphs <- AcyclicGraphs
  Limits = {1, 2}
  InitialContexts <- FreshContext
  MayAbort = TRUE
  MaxRuns = 2
INVARIANTS
  RestoredStepsSkipped
