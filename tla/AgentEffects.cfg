CONSTANTS
  NoPrompt = NoPrompt
  Tools = {read}
  Registered = {read}
  ReadOnly = {read}
  AllowSets = {{read}}
  Prompts = {}
  MaxRounds = 2
  ConfiguredCalls = 3
  HardCalls = 2
  MaxExecutions = 2
  MaxUnknownRetries = 2
  MaxReconcileAttempts = 3
  MaxTurnCost = 0
  RoundCosts = {0, 1}
  MaxBatch = 2
  MaxTurns = 4
  MaxGeneration = 1
SPECIFICATION Spec
INVARIANTS  HandlesUnique
PROPERTIES LedgerSpec OutcomeTruthful
CHECK_DEADLOCK FALSE
