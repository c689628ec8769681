SPECIFICATION Spec
CONSTANTS
  Models = {"llama", "free"}
  Providers = {"groq", "openrouter"}
  ProviderOf <- MCProviderOf
  OpenRouter = "openrouter"
  Attempts = {a1, a2}
  FailureThreshold = 2
  Cooldown = 1
  ProbeTTL = 1
  RetryAfters = {0, 2}
INVARIANTS ClaimHasOwner FullThresholdOpens
PROPERTIES CircuitsRecover NeverShortened ProviderClosesOnlyOnSuccess
