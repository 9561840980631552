------------------------------ MODULE MCWorker ------------------------------
(* The parts of a worker in one run: its beats, its main loop within two   *)
(* bounds, its watch over the stream, and what it is given under the       *)
(* default policy, in both builds.  One of them moves, the others stand    *)
(* at their first state.                                                   *)
EXTENDS Worker

CONSTANTS Lone, Absent

VARIABLES
    part,  \* what moves
    workers, closedWorkers, held, weight, status, owner, attempts, shuttingDown,
    queued, lane, before, returns

dispatch == <<workers, closedWorkers, held, weight, status, owner, attempts, shuttingDown,
              queued, lane, before, returns>>

\* The older proof has a shard and an older reduction; the younger one a key setup.
DispatchTypes ==
    [s2 |-> "SetupVkey", c2 |-> "Controller", g1 |-> "ProveShard", r1 |-> "RecursionReduce",
     c1 |-> "CoreExecute"]
DispatchProofs == [s2 |-> "p2", c2 |-> "p2", g1 |-> "p1", r1 |-> "p1", c1 |-> "p1"]
DispatchAges == [s2 |-> 3, c2 |-> 2, g1 |-> 2, r1 |-> 1, c1 |-> 1]
DispatchWeights == [s2 |-> 1, c2 |-> 1, g1 |-> 1, r1 |-> 2, c1 |-> 1]

\* One host limits its container, the other has a small /dev/shm.
Hosts == [w1 |-> [v2 |-> 11, v1 |-> Absent, meminfo |-> 40, shm |-> 22, override |-> Absent],
          w2 |-> [v2 |-> Absent, v1 |-> 100, meminfo |-> 15, shm |-> 9, override |-> Absent]]

GpuBuild == INSTANCE DefaultQueue WITH
    Proofs <- {"p1", "p2"}, Tasks <- {"s2", "c2", "g1", "r1"}, Workers <- {"w1", "w2"},
    NoWorker <- "none", ProofOf <- DispatchProofs, TaskType <- DispatchTypes,
    Weight <- DispatchWeights, WeightLimit <- 2,
    WorkerType <- [w1 |-> "Gpu", w2 |-> "All"], CpuOnly <- FALSE,
    ProofCreatedAt <- [p1 |-> 1, p2 |-> 2], CreatedAt <- DispatchAges, Host <- Hosts,
    GiB <- 4, PiB <- 100, MaxReturns <- 1, closed <- closedWorkers

\* The build without GPUs has one queue for every type.
CpuBuild == INSTANCE DefaultQueue WITH
    Proofs <- {"p1", "p2"}, Tasks <- DOMAIN DispatchTypes, Workers <- {"w1", "w2"},
    NoWorker <- "none", ProofOf <- DispatchProofs, TaskType <- DispatchTypes,
    Weight <- DispatchWeights, WeightLimit <- 2,
    WorkerType <- [w1 |-> "Gpu", w2 |-> "All"], CpuOnly <- TRUE,
    ProofCreatedAt <- [p1 |-> 1, p2 |-> 2], CreatedAt <- DispatchAges, Host <- Hosts,
    GiB <- 4, PiB <- 100, MaxReturns <- 0, closed <- closedWorkers

WorkerInit ==
    /\ part \in {"beats", "one task", "two tasks", "watchdog", "GPU build", "CPU build"}
    /\ Init /\ Node!Init /\ Watchdog!Init
    /\ IF part = "CPU build" THEN CpuBuild!Init ELSE GpuBuild!Init
    /\ part # "beats" => prompt = 0 /\ sound = "thread"
    /\ part # "watchdog" => stream = "flowing"

\* One task (Lone) delivered twice, whose reports may fail, or two tasks once each.
OneTask == \A k \in Tasks \ {Lone} : started'[k] = 0
TwoTasks == (\A k \in Tasks : started'[k] <= 1) /\ UNCHANGED tries

WorkerNext ==
    /\ UNCHANGED part
    /\ \/ part = "beats" /\ Next /\ UNCHANGED <<node, watch, dispatch>>
       \/ part = "one task" /\ Node!Next /\ OneTask /\ UNCHANGED <<vars, watch, dispatch>>
       \/ part = "two tasks" /\ Node!Next /\ TwoTasks /\ UNCHANGED <<vars, watch, dispatch>>
       \/ part = "watchdog" /\ Watchdog!Next /\ UNCHANGED <<vars, node, dispatch>>
       \/ part = "GPU build" /\ GpuBuild!Next /\ UNCHANGED <<vars, node, watch>>
       \/ part = "CPU build" /\ CpuBuild!Next /\ UNCHANGED <<vars, node, watch>>

WorkerSpec == WorkerInit /\ [][WorkerNext]_<<part, vars, node, watch, dispatch>>

\* The load of a worker fits the memory its process may use (compute_max_weight),
\* and what is queued is held by nobody.
LoadFitsMemory ==
    /\ part = "GPU build" => GpuBuild!TypeOK /\ GpuBuild!LoadFitsMemory
    /\ part = "CPU build" => CpuBuild!TypeOK /\ CpuBuild!LoadFitsMemory
\* A pass of the default policy is an AssignTasks step of the coordinator and
\* overtakes no more urgent task of its lane (assign_tasks, QueuedTask::cmp).
DefaultPassSound ==
    [][/\ part = "GPU build" => GpuBuild!PassSound
       /\ part = "CPU build" => CpuBuild!PassSound]_dispatch
=============================================================================
