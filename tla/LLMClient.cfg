SPECIFICATION Spec
CONSTANTS
  FailureThreshold = 2
  SuccessesRequired = 2
  Models <- MCModels
  Tiers <- MCTiers
  Setups <- MCSetups
  Provider <- MCProvider
  Limit <- MCLimit
  Callers <- MCCallers
  MaxRetries = 2
  NoModel = NoModel
  NoTier = NoTier
  MaxTokens = 3
  PromptTokens = 1
  Totals = {2, 3}
INVARIANTS
  BreakerConsistent
  NobodyQueues
  FileAgrees
  RefusalHasCause
PROPERTIES
  OpenCircuitRests
  
