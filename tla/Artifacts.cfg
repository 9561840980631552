SPECIFICATION ArtifactsSpec
CONSTANTS
    Uploads = {s, b, c}
    Small = s
    Single = c
    Chunks <- SmallOrTwo
    Readers = {r1}
    MaxAttempts = 2
    MaxDeletes = 1
    None = None
    Writers = {1, 2, 3, 4}
    Bytes <- FourSizes
    Budget = 3
    Bypass = 1
    Holders = {1, 2, 3}
    MaxFailures = 2
    NoObject = NoObject
INVARIANTS
    ReadsAreTrue
    
    
    TransfersSound
PROPERTIES
    PublishedStays
CHECK_DEADLOCK FALSE
