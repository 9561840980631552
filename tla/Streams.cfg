SPECIFICATION StreamsSpec
CONSTANTS
    Tasks = {t1}
    Outcomes = {"Succeeded"}
    MaxResends = 0
    Sample = 1
    MaxFaults = 1
    Readers = {r1}
    Payloads = {n1, n2}
    MaxBreaks = 2
    MaxRetries = 1
INVARIANTS
    AnswersAreTrue
    ReadersFollow
PROPERTIES
    FirstRunLosesNothing
    SubscriptionsServed
CHECK_DEADLOCK FALSE
