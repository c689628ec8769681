SPECIFICATION Spec
CONSTANTS
  Requests = {"agent", "title"}
  Slots = 1
  N = 3
  Provider <- MCProvider
  Planned <- MCPlanned
  OpenRouter = "openrouter"
  FreePool = {2, 3}
  MaxAttempts = 3
  HoldBudget = 3
  HoldSettle = 1
  HoldWaits = {1}
INVARIANTS SlotWhileWorking  SentIsCharged VerdictMatchesChain
PROPERTIES  AbandonedForReserved EveryRequestAnswered
