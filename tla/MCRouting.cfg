SPECIFICATION Spec
CONSTANTS
    Requests = {r1}
    Sessions = {"s1", "s2"}
    SessionOf <- MCSessionOf
    Kinds <- MCKinds
    Config <- MCConfig
    Snapshots <- MCSnapshots
    Credentialed = {"openrouter", "groq"}
    ChatOnly = {"groq"}
    OpenRouter = "openrouter"
    Bare = {"b"}
    Strict = TRUE
    RequestTimeout = 2
    MaxProfileTimeout = 3
    Reloaders = {k1}
    MaxAttempts = 2
    MaxPins = 1
    TTL = 0
INVARIANTS
    TypeOK
    OnlyEligible
    KeepsAlternative
    RouteGoesFirst
    ReloadedWhole
