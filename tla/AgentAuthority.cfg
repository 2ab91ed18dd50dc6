CONSTANTS
  NoPrompt = NoPrompt
  Tools = {read, write}
  Registered = {read, write}
  ReadOnly = {read}
  AllowSets = {{read}, {read, write}}
  Prompts = {{write}}
  MaxRounds = 2
  ConfiguredCalls = 2
  HardCalls = 3
  MaxExecutions = 3
  MaxUnknownRetries = 2
  MaxReconcileAttempts = 3
  MaxTurnCost = 0
  RoundCosts = {0}
  MaxBatch = 2
  MaxTurns = 1
  MaxGeneration = 2
SPECIFICATION Spec
INVARIANT CallBudget
PROPERTY ContactAuthorized TurnTerminates
CHECK_DEADLOCK FALSE
