SPECIFICATION RSpec
CONSTANTS
    r1 = r1
    r2 = r2
    a1 = a1
    a2 = a2
    Requests <- MCRequests
    Attempts <- MCAttempts
    KeysOf <- MCKeysOf
    CostOf <- MCCostOf
    Published <- MCPublished
    Reports <- MCReports
    Window = 1
    Cooldown = 1
    Keys <- MCKeys
    MinuteKeys <- MCMinuteKeys
    Costs <- MCCosts
    Actuals <- MCActuals
    Facts <- MCFacts
    Minute = 1
    MaxLimit = 2
    MaxGen = 2
    MaxTicketID = 2
    MaxTime = 1
SYMMETRY PoolSymmetry
INVARIANT TicketsHaveOwners
PROPERTIES RefusedOnlyByRace ReportIsFinal
CHECK_DEADLOCK FALSE
