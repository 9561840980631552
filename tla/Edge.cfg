SPECIFICATION EdgeSpec
CONSTANTS
    Fulfillers = {f1, f2}
    Requests = {r1, r2}
    Chosen = {r1, r2}
    Invalid = {r2}
    MayExpire = {r1}
    Foreign = {x1}
    NoOne = NoOne
    Lone = f1
    One = r1
    Auctions = {1, 2, 3}
    Slots = 2
    PageLimit = 2
    Disabled = {}
    Short = {}
    PerfShort = {3}
    StaticBid = 5
    Tick = 5
    Target = 12
    Prices = {0, 1, 3}
    Enforced = {FALSE}
    Floor <- Floors
    Ceil <- Ceilings
    NoPrice = NoPrice
    MaxBidFaults = 1
    GpuWorkers = {w1}
    Timeout = 0
    MaxAge = 5
    MaxPush = 1
    MaxMinutes = 7
    MaxMishaps = 1
    NoManifest = NoManifest
    NoRow = NoRow
    PageSize = 2
    MaxPages = 2
    Calls = {c1, c2, c3}
    Vks = {v1}
    ProofIds = {p1}
    Members = {s1}
    Signers = {s1, s2}
    Parts = 2
    NoFile = NoFile
INVARIANTS
    ProgramsRegistered
    RequestsAccountedFor
    MarksAreEarned
    ArtifactsKept
    
    GpuAccountsHold
PROPERTIES
    NothingTakenBack
CHECK_DEADLOCK FALSE
