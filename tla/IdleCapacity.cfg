SPECIFICATION FairSchedulingSpec
CONSTANTS
    p1 = p1
    p2 = p2
    c1 = c1
    c2 = c2
    s1 = s1
    s2 = s2
    m1 = m1
    w1 = w1
    w2 = w2
    w3 = w3
    w4 = w4
    Proofs = {p1, p2}
    Workers = {w1}
    Tasks = {c1, s1, c2}
    NoWorker = NoWorker
    ProofOf <- MCProofOf
    TaskType <- MCTaskType
    Weight <- MCWeight
    WeightLimit = 2
    WorkerType <- AllWorkers
    MaxWeight <- PairCapacity
    MaxTaskRetries = 0
    ExecuteOnlyMode = FALSE
    CpuOnly = FALSE
PROPERTIES
    IdleCapacityUsed
