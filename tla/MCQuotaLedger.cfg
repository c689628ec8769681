SPECIFICATION Spec
CONSTANTS
    Keys <- MCKeys
    MinuteKeys <- MCMinuteKeys
    Costs <- MCCosts
    Actuals <- MCActuals
    Facts <- MCFacts
    Minute = 1
    MaxLimit = 2
    MaxGen = 2
    MaxTicketID = 2
    MaxTime = 1
INVARIANTS TypeOK Accounting ReservedBounded
PROPERTIES SingleBootstrapProbe ChargedOnlyByItsTickets
