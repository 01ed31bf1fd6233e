SPECIFICATION FairSpec
CONSTANTS
  c1 = c1
  c2 = c2
  Calls = {c1}
  StepNames = {"draft", "review"}
  StepOf <- SameName
  Configs <- AnyLoop
  MayCancel = FALSE
  NoCall = NoCall
PROPERTIES
  CallsEnd
  ImplementsStepTask
