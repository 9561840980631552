---------------------------- MODULE DefaultQueue ----------------------------
(***************************************************************************)
(* DefaultPolicy (bin/coordinator/src/policy/default.rs) loop by loop: the *)
(* two priority queues, and the pass that pops their heads one at a time   *)
(* onto workers with room.  The room of a worker is what it reports when   *)
(* it registers (crates/worker/src/limiter.rs).                            *)
(*                                                                         *)
(* A handler changes the state, queues tasks and ends with a pass, all     *)
(* under the write lock.  Here the handler is one step, after which `lane' *)
(* names the loop that runs; nothing else moves until the pass has ended.  *)
(* `before' is the state the pass began in.  Coordinator has the pass as   *)
(* one step that leaves the order open (AssignTasks).  Of its handlers     *)
(* those are here that a queue tells apart.                                *)
(*                                                                         *)
(* Which of several workers with room is free soonest is left open.  The   *)
(* times of creation are readings of a clock, in no fixed relation to the  *)
(* order of the calls.                                                     *)
(***************************************************************************)
EXTENDS Integers, FiniteSets

CONSTANTS
    Proofs, Tasks, Workers, NoWorker, ProofOf, TaskType, Weight, WeightLimit,
    WorkerType, CpuOnly,
    ProofCreatedAt,  \* [proof -> proof.created_at]
    CreatedAt,       \* [task -> task.created_at]
    Host,            \* [worker -> what its process finds of its host's memory]
    GiB,             \* bytes in a GiB
    PiB,             \* bytes from which a cgroup v1 limit is none
    Absent,          \* no such file, no such setting, or the word `max'
    MaxReturns       \* bound: tasks and workers that are given back or lost

VARIABLES
    workers, closed, held, weight, status, owner, attempts, shuttingDown,  \* as in Coordinator
    queued,   \* the tasks in cpu_queue and gpu_queue
    lane,     \* the loop the pass is in, "Gpu" or "Cpu"; "idle" between handlers
    before,   \* what the pass began with; what there is, between passes
    returns

now == [status |-> status, owner |-> owner, attempts |-> attempts, held |-> held,
        weight |-> weight, queued |-> queued]
vars == <<workers, closed, held, weight, status, owner, attempts, shuttingDown,
          queued, lane, before, returns>>

-----------------------------------------------------------------------------
(* The capacity a worker registers with.                                   *)

\* cgroup_memory_limit_bytes: v2's limit if it states one, else v1's.
CgroupMemoryLimitBytes(h) ==
    IF h.v2 # Absent THEN h.v2
    ELSE IF h.v1 # Absent /\ h.v1 < PiB THEN h.v1 ELSE Absent

\* Fault: the container's limit is not looked at.
HostMemoryGb(h) == h.meminfo \div GiB

\* total_memory_gb; a meminfo that cannot be read counts as 0 bytes.
TotalMemoryGb(h) ==
    (IF CgroupMemoryLimitBytes(h) # Absent THEN CgroupMemoryLimitBytes(h) ELSE h.meminfo) \div GiB

\* dev_shm_gb: a file system without blocks is unknown, not empty.
DevShmGb(h) == IF h.shm \in {Absent, 0} THEN Absent ELSE h.shm \div GiB

\* compute_max_weight: an override stands, a known /dev/shm caps the memory.
ComputeMaxWeight(h) ==
    IF h.override # Absent THEN h.override
    ELSE IF DevShmGb(h) # Absent /\ DevShmGb(h) < TotalMemoryGb(h) THEN DevShmGb(h)
    ELSE TotalMemoryGb(h)

MaxWeight == [w \in Workers |-> ComputeMaxWeight(Host[w])]

-----------------------------------------------------------------------------
(* The coordinator, with a whole pass as one step: while a pass runs, it   *)
(* still shows what the pass began with.                                   *)

Shown == IF lane = "idle" THEN now ELSE before

GpuTypes == {"SetupVkey", "ProveShard", "RecursionDeferred", "RecursionReduce", "ShrinkWrap"}

\* The weight of the GPU tasks of a proof that the workers hold.
GpuSlots(p, hd) ==
    {s \in (UNION {hd[w] : w \in Workers}) \X (1 .. WeightLimit) :
        ProofOf[s[1]] = p /\ s[2] <= Weight[s[1]] /\ TaskType[s[1]] \in GpuTypes /\ ~CpuOnly}

Coord == INSTANCE Coordinator WITH
    MaxTaskRetries <- 0, ExecuteOnlyMode <- FALSE, proofs <- {}, activeTasks <- {},
    retries <- {}, subscribers <- {}, channel <- {}, deadWorkers <- {},
    expiredProofs <- {}, proofResults <- {}, awaiting <- {},
    status <- Shown.status, owner <- Shown.owner, attempts <- Shown.attempts,
    held <- Shown.held, weight <- Shown.weight,
    queue <- [t \in Tasks |-> IF t \in Shown.queued THEN 1 ELSE 0],
    proofGpuWeights <- [p \in Proofs |-> Cardinality(GpuSlots(p, Shown.held))]

-----------------------------------------------------------------------------
(* The priority queues.                                                    *)

\* The types of the first arm of QueuedTask::cmp.
CpuOrder == {"Controller", "PlonkWrap", "Groth16Wrap", "ExecuteOnly"}

Compared(x, y) == IF x < y THEN -1 ELSE IF x > y THEN 1 ELSE 0
Then(c, d) == IF c # 0 THEN c ELSE d

\* Fault: among the tasks of one proof the oldest comes first, shard or not.
CmpByAge(a, b) ==
    LET Is(t, type) == IF TaskType[t] = type THEN 0 ELSE 1 IN
    Then(Compared(Is(a, "SetupVkey"), Is(b, "SetupVkey")),
         Then(Compared(ProofCreatedAt[ProofOf[a]], ProofCreatedAt[ProofOf[b]]),
              Compared(CreatedAt[a], CreatedAt[b])))

\* QueuedTask::cmp, arm by arm; in the CPU-only build all types meet in one queue.
Cmp(a, b) ==
    LET types == {TaskType[a], TaskType[b]}
        proof == Compared(ProofCreatedAt[ProofOf[a]], ProofCreatedAt[ProofOf[b]])
        age == Compared(CreatedAt[a], CreatedAt[b])
        first(type) == IF TaskType[a] = type THEN -1 ELSE 1
    IN CASE types \subseteq CpuOrder \/ types = {"SetupVkey"} -> Then(proof, age)
         [] "SetupVkey" \in types /\ types # {"SetupVkey"} -> first("SetupVkey")
         [] OTHER -> Then(proof, IF "ProveShard" \in types /\ types # {"ProveShard"}
                                 THEN first("ProveShard") ELSE age)

InLane(l) == {t \in queued : Coord!Lane(t) = l}

\* BinaryHeap::peek; any of the least when several are equal.
Peek(l, t) == t \in InLane(l) /\ \A u \in InLane(l) : Cmp(t, u) <= 0

\* enqueue_task: markers are not queued.
Enqueue(T) == queued \cup {t \in T : Coord!Lane(t) # "None"}

-----------------------------------------------------------------------------
(* assign_tasks, under the lock the handler took.                          *)

\* What a handler leaves: st, with the tasks of the proofs ps taken out of the
\* table and from their workers.  A worker left with nothing is reset by
\* post_worker_empty.  The entries of the tasks stay queued.
Leave(st, hd, ps, q) ==
    LET kept == [w \in Workers |-> {t \in hd[w] : ProofOf[t] \notin ps}]
        left == Coord!DropProofs(st, ps)
    IN
    /\ status' = left
    /\ held' = kept
    /\ weight' = [w \in Workers |-> IF kept[w] = {} THEN 0
                                    ELSE weight[w] - Coord!SumWeight(held[w] \ kept[w])]
    /\ queued' = q
    /\ owner' = Coord!KeepPresent(owner, left, NoWorker)
    /\ attempts' = Coord!KeepPresent(attempts, left, {})
    /\ before' = now'

\* The end of a handler that calls assign_tasks.
StartPass(st, hd, ps, q) ==
    /\ Leave(st, hd, ps, q)
    /\ lane' = IF shuttingDown \/ q = {} THEN "idle" ELSE "Gpu"
    /\ UNCHANGED shuttingDown

\* The task is gone, or final: its entry is dropped.
PopStale(t) ==
    /\ Peek(lane, t) /\ ~Coord!Unfinished(status[t])
    /\ queued' = queued \ {t}
    /\ UNCHANGED <<workers, closed, held, weight, status, owner, attempts, shuttingDown,
                   lane, before, returns>>

\* The workers assign_task chooses from.
HasRoom(w, t) ==
    /\ w \in workers /\ w \notin closed
    /\ WorkerType[w] \in {"All", Coord!Lane(t)}
    /\ weight[w] + Weight[t] <= MaxWeight[w]

AssignTask(w, t) ==
    /\ Peek(lane, t) /\ Coord!Unfinished(status[t])
    /\ HasRoom(w, t)
    /\ queued' = queued \ {t}
    /\ weight' = [weight EXCEPT ![w] = @ + Weight[t]]
    /\ held' = [held EXCEPT ![w] = @ \cup {t}]
    /\ owner' = [owner EXCEPT ![t] = w]
    /\ status' = [status EXCEPT ![t] = "Running"]
    /\ attempts' = [attempts EXCEPT ![t] = @ \cup {w}]
    /\ UNCHANGED <<workers, closed, shuttingDown, lane, before, returns>>

\* A loop ends at an empty queue, or at a head no worker has room for.
LoopEnds ==
    \/ InLane(lane) = {}
    \/ \E t \in Tasks : /\ Peek(lane, t) /\ Coord!Unfinished(status[t])
                        /\ \A w \in Workers : ~HasRoom(w, t)

EndGpuLoop ==
    /\ lane = "Gpu" /\ LoopEnds
    /\ lane' = "Cpu"
    /\ UNCHANGED <<workers, closed, held, weight, status, owner, attempts, shuttingDown,
                   queued, before, returns>>

EndPass ==
    /\ lane = "Cpu" /\ LoopEnds
    /\ lane' = "idle" /\ before' = now
    /\ UNCHANGED <<workers, closed, held, weight, status, owner, attempts, shuttingDown,
                   queued, returns>>

-----------------------------------------------------------------------------
(* The handlers between two passes.                                        *)

\* The proof of t, once st leaves it no task that is not final.
DoneWith(t, st) ==
    IF \E u \in Tasks : ProofOf[u] = ProofOf[t] /\ Coord!Unfinished(st[u]) THEN {} ELSE {ProofOf[t]}

CreateTask(t) ==
    /\ status[t] = "Unused"
    /\ \A u \in Tasks : ProofOf[u] = ProofOf[t] => status[u] # "Removed"
    /\ StartPass([status EXCEPT ![t] = "Pending"], held, {}, Enqueue({t}))
    /\ UNCHANGED <<workers, closed, returns>>

\* complete_task by the holder, or late, by a worker that has lost the task;
\* only a report that frees a slot is followed by a pass.
CompleteTask(w, t) ==
    LET st == [status EXCEPT ![t] = "Succeeded"]
        hd == [held EXCEPT ![w] = @ \ {t}]
        done == DoneWith(t, st)
    IN
    /\ w \in attempts[t] /\ Coord!Unfinished(status[t])
    /\ IF hd # held \/ \E v \in Workers : \E u \in held[v] : ProofOf[u] \in done
       THEN StartPass(st, hd, done, queued)
       ELSE Leave(st, hd, done, queued) /\ UNCHANGED <<lane, shuttingDown>>
    /\ UNCHANGED <<workers, closed, returns>>

\* fail_task: the task is tried again; or it fails for good, and the proof with
\* it if it cannot do without.
FailTask(w, t, fatal) ==
    LET st == [status EXCEPT ![t] = IF fatal THEN "FailedFatal" ELSE "FailedRetryable"]
        lost == IF fatal /\ Coord!EnableProofFail(t) THEN {ProofOf[t]} ELSE DoneWith(t, st)
    IN
    /\ t \in held[w] /\ Coord!Unfinished(status[t])
    /\ fatal /\ Coord!EnableProofFail(t) => ~shuttingDown
    /\ returns < MaxReturns /\ returns' = returns + 1
    /\ StartPass(st, [held EXCEPT ![w] = @ \ {t}], lost, IF fatal THEN queued ELSE Enqueue({t}))
    /\ UNCHANGED <<workers, closed>>

\* remove_worker: what the worker held is queued again.
RemoveWorker(w) ==
    /\ w \in workers
    /\ returns < MaxReturns /\ returns' = returns + 1
    /\ workers' = workers \ {w} /\ closed' = closed \ {w}
    /\ StartPass(status, [held EXCEPT ![w] = {}], {}, Enqueue(held[w]))

AddWorker(w) ==
    /\ w \notin workers
    /\ workers' = workers \cup {w}
    /\ StartPass(status, held, {}, queued)
    /\ UNCHANGED <<closed, returns>>

CloseWorker(w) ==
    /\ w \in workers \ closed
    /\ closed' = closed \cup {w}
    /\ UNCHANGED <<workers, held, weight, status, owner, attempts, shuttingDown,
                   queued, lane, before, returns>>

\* fail_proof: the slots are freed without a pass.
FailProof(p) ==
    /\ ~shuttingDown
    /\ \E t \in Tasks : ProofOf[t] = p /\ status[t] \notin {"Unused", "Removed"}
    /\ Leave(status, held, {p}, queued)
    /\ UNCHANGED <<workers, closed, shuttingDown, lane, returns>>

\* handle_heartbeat of a worker that holds nothing.
HandleHeartbeat(w) ==
    /\ w \in workers /\ held[w] = {}
    /\ StartPass(status, held, {}, queued)
    /\ UNCHANGED <<workers, closed, returns>>

ShutDown ==
    /\ ~shuttingDown /\ shuttingDown' = TRUE
    /\ UNCHANGED <<workers, closed, held, weight, status, owner, attempts,
                   queued, lane, before, returns>>

Init ==
    /\ workers = {} /\ closed = {} /\ queued = {}
    /\ held = [w \in Workers |-> {}] /\ weight = [w \in Workers |-> 0]
    /\ status = [t \in Tasks |-> "Unused"] /\ owner = [t \in Tasks |-> NoWorker]
    /\ attempts = [t \in Tasks |-> {}]
    /\ shuttingDown = FALSE /\ lane = "idle" /\ before = now /\ returns = 0

Handler ==
    \/ \E t \in Tasks : CreateTask(t)
    \/ \E w \in Workers, t \in Tasks : CompleteTask(w, t) \/ \E fatal \in BOOLEAN : FailTask(w, t, fatal)
    \/ \E w \in Workers : RemoveWorker(w) \/ AddWorker(w) \/ CloseWorker(w) \/ HandleHeartbeat(w)
    \/ \E p \in Proofs : FailProof(p)
    \/ ShutDown

Next ==
    \/ lane = "idle" /\ Handler
    \/ lane # "idle" /\ \E t \in Tasks : PopStale(t) \/ \E w \in Workers : AssignTask(w, t)
    \/ EndGpuLoop \/ EndPass

Spec == Init /\ [][Next]_vars

-----------------------------------------------------------------------------
\* A pass, popped task by task, is one AssignTasks of Coordinator: every task it
\* gives out fits its worker, only stale entries are lost, and each lane stops at
\* a head that no worker has room for (the two loops of assign_tasks).
IsAssignTasks ==
    Coord!AssignTasks(before.status, before.held, before.weight,
                      [t \in Tasks |-> IF t \in before.queued THEN 1 ELSE 0],
                      [p \in Proofs |-> Cardinality(GpuSlots(p, before.held))])

\* The order the comments in QueuedTask::cmp give, as a key: key setups, then
\* the older proof, then its shards, then the older task.
Urgency(t) == <<IF TaskType[t] = "SetupVkey" THEN 0 ELSE 1, ProofCreatedAt[ProofOf[t]],
                IF TaskType[t] = "ProveShard" THEN 0 ELSE 1, CreatedAt[t]>>
Precedes(t, u) ==
    \E i \in 1 .. 4 : /\ Urgency(t)[i] < Urgency(u)[i]
                      /\ \A j \in 1 .. i - 1 : Urgency(t)[j] = Urgency(u)[j]

\* No task is given out in a pass that leaves a more urgent task of its lane
\* waiting (the order of the heaps, and the break at a blocked head).
NoOvertaking ==
    \A t \in before.queued \ queued, u \in queued :
        Coord!Unfinished(before.status[t]) /\ Coord!Unfinished(status[u])
            /\ Coord!Lane(t) = Coord!Lane(u) => ~Precedes(u, t)

\* What a pass of the default policy has done when it ends (assign_tasks).
PassSound == EndPass => IsAssignTasks /\ NoOvertaking

\* What a worker without an override holds fits the memory limit of its
\* container, or else of its host, and /dev/shm (compute_max_weight).
LoadFitsMemory ==
    \A w \in Workers : Host[w].override = Absent =>
        LET h == Host[w]
            load == Coord!SumWeight(held[w]) * GiB
        IN /\ h.v2 # Absent => load <= h.v2
           /\ h.v2 = Absent /\ h.v1 # Absent /\ h.v1 < PiB => load <= h.v1
           /\ h.v2 = Absent /\ (h.v1 = Absent \/ h.v1 >= PiB) => load <= h.meminfo
           /\ h.shm \notin {Absent, 0} => load <= h.shm

\* The types, and: a task that is queued is held by nobody.
TypeOK ==
    /\ lane \in {"idle", "Gpu", "Cpu"} /\ queued \subseteq Tasks /\ closed \subseteq workers
    /\ status \in [Tasks -> Coord!Statuses] /\ held \in [Workers -> SUBSET Tasks]
    /\ weight = [w \in Workers |-> Coord!SumWeight(held[w])]
    /\ \A w \in Workers : held[w] \cap queued = {}
=============================================================================
