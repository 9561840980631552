SPECIFICATION LiveSpec
CONSTANTS
    Tasks = {k1}
    MaxAttempts = 1
    MaxTries = 1
    MayStop = FALSE
PROPERTY ReportEventuallyLands
CHECK_DEADLOCK FALSE
