SPECIFICATION PartsSpec
CONSTANTS
    p1 = p1
    NoRow = NoRow
    NoPrice = NoPrice
    Tasks = {k1}
    MaxAttempts = 1
    MaxTries = 1
    MayStop = TRUE
PROPERTIES
    NodeAnswersAndLeaves
    RecordedResultLands
    ProofsFollowRows
    WedgeEnds
    LosersBidAgain
CHECK_DEADLOCK FALSE
