SPECIFICATION Spec
CONSTANTS
    Processes = {p1, p2}
    OpenRouter = "openrouter"
    Providers = {"openrouter", "groq"}
    Secrets = {"fresh"}
    Legacy = "legacy"
    MaxKeys = 2
INVARIANTS
    OneKeyPerFile
    LegacyKept
