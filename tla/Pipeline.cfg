SPECIFICATION FairSpec
CONSTANTS
  Steps <- MCSteps
  Elements <- MCElements
  Pipelines <- MCPipelines
  MayTimeout = TRUE
INVARIANTS
  NoStray
  SuccessMeansAll
  FailureHasCause
  StopsAtFirstFailure
PROPERTY PipelineEnds
