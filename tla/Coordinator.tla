----------------------------- MODULE Coordinator -----------------------------
(***************************************************************************)
(* The task coordinator of bin/coordinator: the state behind its RwLock    *)
(* (proofs, tasks, workers, the assignment policy's queue and counters),   *)
(* and one action per handler that takes the write lock.                   *)
(*                                                                         *)
(* Every handler keeps the write lock to its end, trailing assign_tasks    *)
(* included, so it is one step; the notifications it sends right after the *)
(* unlock are counted to that step.  The two periodic sweeps look          *)
(* at the state under a read lock, drop it, and act under a write lock     *)
(* taken later: each of them is two steps.                                 *)
(*                                                                         *)
(* The policy is BalancedPolicy, the one main.rs starts; priorities are    *)
(* abstracted (see AssignTasks); DefaultQueue has DefaultPolicy's.         *)
(***************************************************************************)
EXTENDS Integers, FiniteSets

CONSTANTS
    Proofs,            \* proof ids
    Tasks,             \* pool of fresh task ids
    Workers,           \* worker ids
    NoWorker,          \* task.worker = None
    ProofOf,           \* the proof each task id is created for
    TaskType,          \* the type each task id is created with
    Weight,            \* the weight each task id is created with
    WeightLimit,       \* bound on task weights (u32 in the code)
    WorkerType,        \* the type each worker id registers with
    MaxWeight,         \* the capacity each worker id registers with
    MaxTaskRetries,    \* MAX_TASK_RETRIES
    ExecuteOnlyMode,   \* state.execute_only_mode, set once at start
    CpuOnly            \* the SP1_CLUSTER_CPU_ONLY build

CpuTypes == {"Controller", "PlonkWrap", "Groth16Wrap", "ExecuteOnly", "CoreExecute"}
GpuTypes == {"SetupVkey", "ProveShard", "RecursionDeferred", "RecursionReduce", "ShrinkWrap"}
MarkerTypes == {"MarkerDeferredRecord"}

ASSUME ConstantsAssumption ==
    /\ IsFiniteSet(Tasks) /\ IsFiniteSet(Workers)
    /\ NoWorker \notin Workers
    /\ ProofOf \in [Tasks -> Proofs]
    /\ TaskType \in [Tasks -> CpuTypes \cup GpuTypes \cup MarkerTypes]
    /\ WeightLimit \in Nat
    /\ Weight \in [Tasks -> 0 .. WeightLimit]
    /\ WorkerType \in [Workers -> {"Cpu", "Gpu", "All"}]
    /\ MaxWeight \in [Workers -> Nat]
    /\ MaxTaskRetries \in Nat
    /\ ExecuteOnlyMode \in BOOLEAN /\ CpuOnly \in BOOLEAN

VARIABLES
    proofs,          \* keys of state.proofs
    activeTasks,     \* proof.active_tasks, 0 for an absent proof
    status,          \* task.status; "Unused": not created yet, "Removed": dropped with its proof
    retries,         \* task.retries
    owner,           \* task.worker: the last worker the task was given to
    attempts,        \* keys of task.gpu_attempts: every worker the task was given to
    subscribers,     \* tasks whose task.subscribers is not empty
    workers,         \* keys of state.workers
    closed,          \* workers with worker.closed
    held,            \* worker.active_tasks
    weight,          \* worker.weight
    queue,           \* entries per task in the policy's queues
    proofGpuWeights, \* policy.proof_gpu_weights, 0 for an absent entry
    channel,         \* task_channels entry: "absent", "open" or "closed"
    shuttingDown,    \* state.shutting_down
    deadWorkers,     \* dead_workers of a cleanup_dead_workers between its two locks
    expiredProofs,   \* proofs_to_remove of a cleanup_cancel_expired_proofs, likewise
    proofResults,    \* the ProofResults sent on proofs_tx so far
    awaiting         \* tasks a subscriber asked about and has not been answered on

taskVars == <<status, retries, owner, attempts, subscribers>>
workerVars == <<workers, closed, held, weight>>
policyVars == <<queue, proofGpuWeights>>
proofVars == <<proofs, activeTasks, proofResults>>
sweepVars == <<deadWorkers, expiredProofs>>
vars == <<taskVars, workerVars, policyVars, proofVars, sweepVars,
          channel, shuttingDown, awaiting>>

-----------------------------------------------------------------------------
(* Task types, statuses and weights.                                       *)

\* WorkerType::from_task_type, after the CPU-only build has folded Gpu into Cpu.
Lane(t) ==
    CASE TaskType[t] \in CpuTypes -> "Cpu"
      [] TaskType[t] \in GpuTypes -> IF CpuOnly THEN "Cpu" ELSE "Gpu"
      [] OTHER -> "None"

EnableProofFail(t) ==
    TaskType[t] \in {"Controller", "Groth16Wrap", "PlonkWrap", "ExecuteOnly", "CoreExecute"}

Statuses == {"Unused", "Pending", "Running", "Succeeded", "FailedRetryable", "FailedFatal", "Removed"}

\* Neither final nor outside the task table.
Unfinished(s) == s \in {"Pending", "Running", "FailedRetryable"}

Present(t) == status[t] \notin {"Unused", "Removed"}

TasksOf(ps) == {t \in Tasks : ProofOf[t] \in ps}

Monus(a, b) == IF a >= b THEN a - b ELSE 0

\* The total weight of a set of tasks: its number of unit slots.
Slots(T) == {s \in T \X (1 .. WeightLimit) : s[2] <= Weight[s[1]]}
SumWeight(T) == Cardinality(Slots(T))

GpuOf(p, T) == {t \in T : ProofOf[t] = p /\ Lane(t) = "Gpu"}

-----------------------------------------------------------------------------
(* Pieces shared by the handlers.  They compute new values from the        *)
(* current ones; the handler passes them on to AssignTasks or Settle.      *)

\* status with the status of one task set.
WithStatus(t, s) == [status EXCEPT ![t] = s]

\* status with the tasks of the removed proofs gone from the table.
DropProofs(st, ps) ==
    [t \in Tasks |-> IF ProofOf[t] \in ps /\ st[t] # "Unused" THEN "Removed" ELSE st[t]]

\* Fault: gated on the task's status instead of on who holds it.
ReleaseOnlyRunning(ps, skip) ==
    [w \in Workers |-> {t \in held[w] : ProofOf[t] \in ps /\ status[t] = "Running" /\ <<w, t>> \notin skip}]

\* release_remaining_assignments: what each worker gives up when the proofs ps go.
ReleaseRemainingAssignments(ps, skip) ==
    [w \in Workers |-> {t \in held[w] : ProofOf[t] \in ps /\ owner[t] = w /\ <<w, t>> \notin skip}]

\* Fault: the slot is not given up.
HeldKept(released) == held

HeldWithout(released) == [w \in Workers |-> held[w] \ released[w]]

\* Fault: post_worker_empty whenever anything is given up.
WeightAlwaysReset(released, noReset) ==
    [w \in Workers |-> IF released[w] = {} THEN weight[w] ELSE 0]

\* worker.weight after giving up released[w]; a worker left empty is reset by
\* post_worker_empty, except those in noReset.
WeightWithout(released, noReset) ==
    [w \in Workers |->
        IF released[w] = {} THEN weight[w]
        ELSE IF released[w] = held[w] /\ w \notin noReset THEN 0
        ELSE Monus(weight[w], SumWeight(released[w]))]

\* post_task_update_state of the balanced policy for one task given up.
PostTaskUpdateState(t) ==
    [proofGpuWeights EXCEPT ![ProofOf[t]] = IF Lane(t) = "Gpu" THEN Monus(@, Weight[t]) ELSE @]

\* on_proof_deleted of the balanced policy.
OnProofDeleted(gw, ps) == [p \in Proofs |-> IF p \in ps THEN 0 ELSE gw[p]]

\* Policy::enqueue_task for every task of T: marker tasks are not queued.
EnqueueTask(q, T) ==
    [t \in Tasks |-> IF t \in T /\ Lane(t) # "None" THEN q[t] + 1 ELSE q[t]]

CloseTaskChannel(T) ==
    [t \in Tasks |-> IF t \in T /\ channel[t] = "open" THEN "closed" ELSE channel[t]]

\* active_tasks of the task's proof once the task is final.
RemainingAfter(t) ==
    IF Unfinished(status[t]) THEN activeTasks[ProofOf[t]] - 1 ELSE activeTasks[ProofOf[t]]

\* Fault: the proof stays when its last task is done.
NeverRemoved(p, remaining) == {}

\* The proof to remove when its number of active tasks becomes `remaining'.
RemovedWhenDone(p, remaining) == IF remaining = 0 THEN {p} ELSE {}

\* Fault: only subscribers of running tasks are notified.
NotifyRunningOnly(T) == {t \in subscribers \cap T : status[t] = "Running"}

\* notify_subscribers: the tasks of T whose subscribers get their answer.
NotifySubscribers(T) == subscribers \cap T

\* Fault: off by one in the retry budget.
OneRetryTooMany(t, retryable) == ~retryable \/ retries[t] > MaxTaskRetries

\* A failure that is not retried.
FatalFailure(t, retryable) == ~retryable \/ retries[t] = MaxTaskRetries

\* fail_task's manual_proof_fail.
ManualProofFail(t, retryable) == EnableProofFail(t) /\ FatalFailure(t, retryable)

\* A failure report is recorded only for a task that has not succeeded.
Failable(t) == Present(t) /\ status[t] # "Succeeded"

-----------------------------------------------------------------------------
(* AssignmentPolicy::assign_tasks.                                         *)

\* The fields of a task record disappear with the record.
KeepPresent(f, st, none) == [t \in Tasks |-> IF st[t] = "Removed" THEN none ELSE f[t]]

\* The end of a handler that does not assign.
Settle(st, hd, wt, q, gw) ==
    /\ status' = st /\ held' = hd /\ weight' = wt /\ queue' = q /\ proofGpuWeights' = gw
    /\ owner' = KeepPresent(owner, st, NoWorker)
    /\ attempts' = KeepPresent(attempts, st, {})

\* Fault: draining workers are not skipped.
CanTakeClosed(w, t) == w \in workers' /\ WorkerType[w] \in {"All", Lane(t)}

CanTake(w, t) == w \in workers' /\ w \notin closed' /\ WorkerType[w] \in {"All", Lane(t)}

\* One lane's loop has ended: its queue is empty, or its head fits no worker.
LaneDone(lane, left, st, wt) ==
    LET rest == {t \in left : Lane(t) = lane} IN
    \/ rest = {}
    \/ \E head \in rest :
          /\ Unfinished(st[head])
          /\ \A w \in Workers : CanTake(w, head) => wt[w] + Weight[head] > MaxWeight[w]

Queued(q) == {t \in Tasks : q[t] > 0}

Given(S, to, w) == {t \in S : to[t] = w}

LoadWith(wt, S, to) == [w \in Workers |-> wt[w] + SumWeight(Given(S, to, w))]

(* The loops pop the queues in priority order: an entry whose task is gone *)
(* or final is dropped, any other is given to a worker with room, and the  *)
(* lane stops at the first head no worker has room for.  First the GPU     *)
(* queues, then the CPU queue.  The order itself is abstracted: S is the   *)
(* set of tasks assigned, D the stale entries dropped, `to' the workers    *)
(* chosen; what is left behind must have a blocked head.                   *)
AssignmentPass(st, hd, wt, q, gw, S, D, to) ==
    LET gpuFirst == {t \in S : Lane(t) = "Gpu"}
        left == Queued(q) \ (S \cup D)
    IN
    /\ \A t \in S : CanTake(to[t], t) /\ LoadWith(wt, S, to)[to[t]] <= MaxWeight[to[t]]
    /\ LaneDone("Gpu", left, st, LoadWith(wt, gpuFirst, to))
    /\ LaneDone("Cpu", left, st, LoadWith(wt, S, to))
    /\ status' = [t \in Tasks |-> IF t \in S THEN "Running" ELSE st[t]]
    /\ owner' = [t \in Tasks |->
                    IF t \in S THEN to[t] ELSE KeepPresent(owner, st, NoWorker)[t]]
    /\ attempts' = [t \in Tasks |->
                       IF t \in S THEN attempts[t] \cup {to[t]}
                       ELSE KeepPresent(attempts, st, {})[t]]
    /\ held' = [w \in Workers |-> hd[w] \cup Given(S, to, w)]
    /\ weight' = LoadWith(wt, S, to)
    /\ queue' = [t \in Tasks |-> IF t \in S THEN q[t] - 1 ELSE IF t \in D THEN 0 ELSE q[t]]
    /\ proofGpuWeights' = [p \in Proofs |-> gw[p] + SumWeight(GpuOf(p, S))]

AssignTasks(st, hd, wt, q, gw) ==
    IF shuttingDown THEN Settle(st, hd, wt, q, gw)
    ELSE \E S \in SUBSET {t \in Queued(q) : Unfinished(st[t])},
            D \in SUBSET {t \in Queued(q) : ~Unfinished(st[t])} :
         \E to \in [S -> Workers] : AssignmentPass(st, hd, wt, q, gw, S, D, to)

-----------------------------------------------------------------------------
(* Proofs and tasks come in.                                               *)

\* create_task_internal: the task record, its queue entry, and an assignment pass.
CreateTaskInternal(t) ==
    LET p == ProofOf[t] IN
    /\ status[t] = "Unused"
    /\ activeTasks' = [activeTasks EXCEPT ![p] = @ + 1]
    /\ AssignTasks(WithStatus(t, "Pending"), held, weight,
                   EnqueueTask(queue, {t}), proofGpuWeights)
    /\ UNCHANGED <<retries, subscribers, channel, shuttingDown, sweepVars,
                   proofResults, awaiting>>

CreateProof(p, t) ==
    /\ ~shuttingDown
    /\ p \notin proofs
    /\ ProofOf[t] = p
    /\ TaskType[t] = IF ExecuteOnlyMode THEN "ExecuteOnly" ELSE "Controller"
    /\ proofs' = proofs \cup {p}
    /\ UNCHANGED <<workers, closed>>
    /\ CreateTaskInternal(t)

CreateDummyProof(p) ==
    /\ ~shuttingDown
    /\ p \notin proofs
    /\ proofs' = proofs \cup {p}
    /\ UNCHANGED <<activeTasks, proofResults, taskVars, workerVars, policyVars,
                   sweepVars, channel, shuttingDown, awaiting>>

CreateTask(t) ==
    /\ ProofOf[t] \in proofs
    /\ UNCHANGED <<proofs, workers, closed>>
    /\ CreateTaskInternal(t)

-----------------------------------------------------------------------------
(* Workers report.                                                         *)

\* A worker reports a task it was given, now or before it lost it; markers are
\* completed without ever having been given out.
CompleteTask(w, t) ==
    LET p == ProofOf[t]
        first == status[t] # "Succeeded"
        remaining == RemainingAfter(t)
        removed == RemovedWhenDone(p, remaining)
        released == [ReleaseRemainingAssignments(removed, {<<w, t>>})
                        EXCEPT ![w] = @ \cup ({t} \cap held[w])]
        st == DropProofs(WithStatus(t, "Succeeded"), removed)
        gw == IF t \in held[w] THEN PostTaskUpdateState(t) ELSE proofGpuWeights
        taken == IF first THEN {t} ELSE {}
    IN
    /\ Present(t)
    /\ w \in attempts[t] \/ Lane(t) = "None"
    /\ proofs' = proofs \ removed
    /\ activeTasks' = [activeTasks EXCEPT ![p] = remaining]
    /\ subscribers' = subscribers \ (taken \cup TasksOf(removed))
    /\ awaiting' = awaiting \ NotifySubscribers(taken)
    /\ channel' = CloseTaskChannel({t})
    /\ retries' = KeepPresent(retries, st, 0)
    /\ UNCHANGED <<workers, closed, shuttingDown, sweepVars, proofResults>>
    /\ LET hd == HeldWithout(released)
           wt == WeightWithout(released, {})
       IN IF \E v \in Workers : released[v] # {}
          THEN AssignTasks(st, hd, wt, queue, OnProofDeleted(gw, removed))
          ELSE Settle(st, hd, wt, queue, OnProofDeleted(gw, removed))

\* fail_task for a task already recorded as succeeded: only the slot is released.
FailSucceededTask(w, t) ==
    LET released == [v \in Workers |-> IF v = w THEN {t} ELSE {}] IN
    /\ t \in held[w]
    /\ status[t] = "Succeeded"
    /\ UNCHANGED <<workers, closed>>
    /\ AssignTasks(status, HeldWithout(released), WeightWithout(released, {}),
                   queue, PostTaskUpdateState(t))
    /\ UNCHANGED <<proofVars, retries, subscribers, channel, shuttingDown, sweepVars, awaiting>>

\* What fail_proof_internal does to the proofs ps besides releasing their tasks.
TearDown(ps) ==
    /\ proofs' = proofs \ ps
    /\ activeTasks' = [p \in Proofs |-> IF p \in ps THEN 0 ELSE activeTasks[p]]
    /\ retries' = [t \in Tasks |-> IF t \in TasksOf(ps) THEN 0 ELSE retries[t]]
    /\ subscribers' = subscribers \ TasksOf(ps)
    /\ awaiting' = awaiting \ NotifySubscribers(TasksOf(ps))
    /\ channel' = CloseTaskChannel(TasksOf(ps))

\* fail_task when the task is out of retries and cannot be lost without the
\* proof: fail_proof_internal runs with the reporting pair skipped.
FailTaskAndProof(w, t, retryable) ==
    LET p == ProofOf[t]
        others == ReleaseRemainingAssignments({p}, {<<w, t>>})
        released == [others EXCEPT ![w] = @ \cup {t}]
    IN
    /\ t \in held[w]
    /\ Failable(t)
    /\ ManualProofFail(t, retryable)
    /\ ~shuttingDown
    /\ TearDown({p})
    /\ proofResults' = proofResults \cup {<<p, "failure">>}
    /\ UNCHANGED <<workers, closed, shuttingDown, sweepVars>>
    /\ AssignTasks(DropProofs(status, {p}), HeldWithout(released),
                   WeightWithout(released, {w}), queue, OnProofDeleted(proofGpuWeights, {p}))

\* fail_task otherwise: the task is retried, or it alone fails for good.
FailTask(w, t, retryable) ==
    LET p == ProofOf[t]
        fatal == FatalFailure(t, retryable)
        remaining == IF fatal THEN RemainingAfter(t) ELSE activeTasks[p]
        removed == RemovedWhenDone(p, remaining)
        others == ReleaseRemainingAssignments(removed, {<<w, t>>})
        released == [others EXCEPT ![w] = @ \cup {t}]
        st == DropProofs(WithStatus(t, IF fatal THEN "FailedFatal" ELSE "FailedRetryable"), removed)
    IN
    /\ t \in held[w]
    /\ Failable(t)
    /\ ~ManualProofFail(t, retryable)
    /\ proofs' = proofs \ removed
    /\ activeTasks' = [activeTasks EXCEPT ![p] = remaining]
    /\ retries' = KeepPresent([retries EXCEPT ![t] = IF fatal THEN @ ELSE @ + 1], st, 0)
    /\ subscribers' = subscribers \ TasksOf(removed)
    /\ awaiting' = IF fatal THEN awaiting \ NotifySubscribers({t}) ELSE awaiting
    /\ channel' = CloseTaskChannel({t})
    /\ UNCHANGED <<workers, closed, shuttingDown, sweepVars, proofResults>>
    /\ AssignTasks(st, HeldWithout(released), WeightWithout(released, {w}),
                   IF fatal THEN queue ELSE EnqueueTask(queue, {t}),
                   OnProofDeleted(PostTaskUpdateState(t), removed))

\* Fault: no catch-all assignment for an empty worker.
AssignOnlyIfLost(lost, kept) == lost # {}

ShouldAssign(lost, kept) == lost # {} \/ kept = {}

\* handle_heartbeat: `reported' is what the worker says it is running of what it
\* holds.  The CancelTask and NewTask messages it is answered with go to its stream.
HandleHeartbeat(w, reported) ==
    LET lost == {t \in held[w] \ reported : ~Present(t)}
        kept == held[w] \ lost
        hd == [held EXCEPT ![w] = kept]
        wt == [weight EXCEPT ![w] = IF kept = {} THEN 0
                                    ELSE SumWeight({t \in held[w] : Present(t)})]
    IN
    /\ w \in workers
    /\ UNCHANGED <<workers, closed, proofVars, retries, subscribers, channel,
                   shuttingDown, sweepVars, awaiting>>
    /\ IF ShouldAssign(lost, kept)
       THEN AssignTasks(status, hd, wt, queue, proofGpuWeights)
       ELSE Settle(status, hd, wt, queue, proofGpuWeights)

-----------------------------------------------------------------------------
(* Workers come and go.                                                    *)

\* add_worker for an id that is not registered.  For a registered id only the
\* stream and the identity are replaced: neither `closed' nor the tasks change.
AddWorker(w) ==
    /\ w \notin workers
    /\ workers' = workers \cup {w}
    /\ UNCHANGED <<closed, proofVars, retries, subscribers, channel, shuttingDown,
                   sweepVars, awaiting>>
    /\ AssignTasks(status, [held EXCEPT ![w] = {}], [weight EXCEPT ![w] = 0],
                   queue, proofGpuWeights)

CloseWorker(w) ==
    /\ w \in workers
    /\ closed' = closed \cup {w}
    /\ UNCHANGED <<workers, held, weight, taskVars, policyVars, proofVars, sweepVars,
                   channel, shuttingDown, awaiting>>

\* Fault: only tasks with retries left are requeued.
RequeueWithinBudget(ws) ==
    {t \in Tasks : Present(t) /\ retries[t] < MaxTaskRetries /\ \E w \in ws : t \in held[w]}

\* The tasks the workers ws held, which go back to the queue.
Requeued(ws) == {t \in Tasks : Present(t) /\ \E w \in ws : t \in held[w]}

\* remove_worker_internal for each worker of ws, then one assignment pass.
RemoveWorkerInternal(ws) ==
    LET requeued == Requeued(ws) IN
    /\ workers' = workers \ ws
    /\ closed' = closed \ ws
    /\ UNCHANGED <<proofVars, retries, subscribers, channel, shuttingDown, awaiting>>
    /\ AssignTasks(status,
                   [w \in Workers |-> IF w \in ws THEN {} ELSE held[w]],
                   [w \in Workers |-> IF w \in ws THEN 0 ELSE weight[w]],
                   EnqueueTask(queue, requeued),
                   [p \in Proofs |-> Monus(proofGpuWeights[p], SumWeight(GpuOf(p, requeued)))])

RemoveWorker(w) ==
    /\ w \in workers
    /\ UNCHANGED sweepVars
    /\ RemoveWorkerInternal({w})

NoSweep == deadWorkers = {} /\ expiredProofs = {}

\* cleanup_dead_workers under its read lock: the workers whose last heartbeat is
\* too old.  Beats may be lost or late, so any registered worker can be among them.
CollectDeadWorkers(ws) ==
    /\ NoSweep
    /\ deadWorkers' = ws
    /\ UNCHANGED <<expiredProofs, taskVars, workerVars, policyVars, proofVars,
                   channel, shuttingDown, awaiting>>

\* cleanup_dead_workers under its write lock: nothing is checked again.
RemoveDeadWorkers ==
    /\ deadWorkers # {}
    /\ deadWorkers' = {}
    /\ UNCHANGED expiredProofs
    /\ RemoveWorkerInternal(deadWorkers \cap workers)

-----------------------------------------------------------------------------
(* Proofs end.                                                             *)

CompleteProof(p) ==
    /\ p \in proofs
    /\ proofResults' = proofResults \cup {<<p, "success">>}
    /\ UNCHANGED <<proofs, activeTasks, taskVars, workerVars, policyVars, sweepVars,
                   channel, shuttingDown, awaiting>>

\* fail_proof: a no-op while shutting down; the freed slots are not assigned.
FailProofInternal(p) ==
    LET released == ReleaseRemainingAssignments({p}, {}) IN
    /\ ~shuttingDown
    /\ p \in proofs
    /\ TearDown({p})
    /\ UNCHANGED <<workers, closed, shuttingDown, sweepVars>>
    /\ Settle(DropProofs(status, {p}), HeldWithout(released), WeightWithout(released, {}),
              queue, OnProofDeleted(proofGpuWeights, {p}))

\* fail_proof as a worker calls it, blaming a task that has not succeeded.
FailProof(t) ==
    /\ Failable(t)
    /\ FailProofInternal(ProofOf[t])
    /\ proofResults' = proofResults \cup {<<ProofOf[t], "failure">>}

\* fail_proof as the cancel_proof request calls it: no task is blamed.
CancelProof(p) ==
    /\ FailProofInternal(p)
    /\ proofResults' = proofResults \cup {<<p, "failure">>}

\* fail_proof as fail_missing_proofs calls it, for a proof no longer pending in
\* the API: nobody is told.
FailMissingProof(p) ==
    /\ FailProofInternal(p)
    /\ UNCHANGED proofResults

\* cleanup_cancel_expired_proofs under its read lock: any proof may be past its
\* deadline.
CollectExpiredProofs(ps) ==
    /\ NoSweep
    /\ expiredProofs' = ps
    /\ UNCHANGED <<deadWorkers, taskVars, workerVars, policyVars, proofVars,
                   channel, shuttingDown, awaiting>>

\* cleanup_cancel_expired_proofs under its write lock.
CancelExpiredProofs ==
    LET ps == IF shuttingDown THEN {} ELSE expiredProofs \cap proofs
        released == ReleaseRemainingAssignments(ps, {})
    IN
    /\ expiredProofs # {}
    /\ expiredProofs' = {}
    /\ TearDown(ps)
    /\ UNCHANGED <<workers, closed, shuttingDown, deadWorkers, proofResults>>
    /\ AssignTasks(DropProofs(status, ps), HeldWithout(released), WeightWithout(released, {}),
                   queue, OnProofDeleted(proofGpuWeights, ps))

-----------------------------------------------------------------------------
(* Subscriptions, task channels, shutdown.                                 *)

\* add_subscriptions for a task still to finish; for any other the answer
\* (TaskResult or UnknownTask) is sent at once and nothing is recorded.
AddSubscription(t) ==
    /\ Unfinished(status[t])
    /\ subscribers' = subscribers \cup {t}
    /\ awaiting' = awaiting \cup {t}
    /\ UNCHANGED <<status, retries, owner, attempts, workerVars, policyVars, proofVars,
                   sweepVars, channel, shuttingDown>>

\* send_task_message and subscribe_task_channel on a task without a channel
\* entry: one is made only if the task can still send.
OpenChannel(t) ==
    /\ channel[t] = "absent"
    /\ Unfinished(status[t])
    /\ channel' = [channel EXCEPT ![t] = "open"]
    /\ UNCHANGED <<taskVars, workerVars, policyVars, proofVars, sweepVars, shuttingDown, awaiting>>

\* The periodic task collects entries closed for longer than a minute.
CleanupStaleTaskChannels(T) ==
    /\ NoSweep
    /\ channel' = [t \in Tasks |-> IF t \in T THEN "absent" ELSE channel[t]]
    /\ UNCHANGED <<taskVars, workerVars, policyVars, proofVars, sweepVars, shuttingDown, awaiting>>

\* Shutdown cancels every running task and ends every stream; the weights stay.
Shutdown ==
    /\ ~shuttingDown
    /\ shuttingDown' = TRUE
    /\ held' = [w \in Workers |-> {}]
    /\ channel' = CloseTaskChannel(Tasks)
    /\ awaiting' = {}
    /\ UNCHANGED <<taskVars, workers, closed, weight, policyVars, proofVars, sweepVars>>

-----------------------------------------------------------------------------
Init ==
    /\ proofs = {} /\ activeTasks = [p \in Proofs |-> 0] /\ proofResults = {}
    /\ status = [t \in Tasks |-> "Unused"] /\ retries = [t \in Tasks |-> 0]
    /\ owner = [t \in Tasks |-> NoWorker] /\ attempts = [t \in Tasks |-> {}]
    /\ subscribers = {} /\ awaiting = {} /\ channel = [t \in Tasks |-> "absent"]
    /\ workers = {} /\ closed = {}
    /\ held = [w \in Workers |-> {}] /\ weight = [w \in Workers |-> 0]
    /\ queue = [t \in Tasks |-> 0] /\ proofGpuWeights = [p \in Proofs |-> 0]
    /\ deadWorkers = {} /\ expiredProofs = {} /\ shuttingDown = FALSE

Next ==
    \/ \E t \in Tasks : CreateProof(ProofOf[t], t) \/ CreateTask(t)
    \/ \E p \in Proofs : CreateDummyProof(p) \/ CompleteProof(p) \/ CancelProof(p)
                          \/ FailMissingProof(p)
    \/ \E w \in Workers, t \in Tasks : CompleteTask(w, t) \/ FailSucceededTask(w, t)
    \/ \E w \in Workers, t \in Tasks, retryable \in BOOLEAN :
          FailTask(w, t, retryable) \/ FailTaskAndProof(w, t, retryable)
    \/ \E w \in Workers : \E reported \in SUBSET held[w] : HandleHeartbeat(w, reported)
    \/ \E w \in Workers : AddWorker(w) \/ CloseWorker(w) \/ RemoveWorker(w)
    \/ \E ws \in SUBSET workers : CollectDeadWorkers(ws)
    \/ RemoveDeadWorkers
    \/ \E t \in Tasks : FailProof(t) \/ AddSubscription(t) \/ OpenChannel(t)
    \/ \E ps \in SUBSET proofs : CollectExpiredProofs(ps)
    \/ CancelExpiredProofs
    \/ \E T \in SUBSET {t \in Tasks : channel[t] = "closed"} : CleanupStaleTaskChannels(T)
    \/ Shutdown

Spec == Init /\ [][Next]_vars

\* A worker gives up a slot: it reports one of its tasks, or it is removed.
GiveUpSlot(w) ==
    \/ \E t \in held[w] :
          \/ CompleteTask(w, t) \/ FailSucceededTask(w, t)
          \/ \E retryable \in BOOLEAN :
                FailTask(w, t, retryable) \/ FailTaskAndProof(w, t, retryable)
    \/ w \in deadWorkers /\ held[w] # {} /\ RemoveDeadWorkers

(* Registered workers answer the server's heartbeat every five seconds and *)
(* report every task they hold (the node's own timeout turns a hung task   *)
(* into a failure); one that does not is removed by the periodic sweep.    *)
Fairness ==
    \A w \in Workers :
        /\ WF_vars(\E reported \in SUBSET held[w] : HandleHeartbeat(w, reported))
        /\ WF_vars(GiveUpSlot(w))

FairSpec == Spec /\ Fairness

-----------------------------------------------------------------------------
(* Properties.                                                             *)

Holders(t) == {w \in Workers : t \in held[w]}

ActiveSet(p) == {t \in TasksOf({p}) : Unfinished(status[t])}

\* The coordinator's state is well typed: in particular no counter the code
\* decrements (active_tasks is a u32) goes below zero, and no task exceeds its
\* retry budget.
TypeOK ==
    /\ proofs \subseteq Proofs
    /\ activeTasks \in [Proofs -> Nat]
    /\ proofResults \subseteq Proofs \X {"success", "failure"}
    /\ status \in [Tasks -> Statuses]
    /\ retries \in [Tasks -> 0 .. MaxTaskRetries]
    /\ owner \in [Tasks -> Workers \cup {NoWorker}]
    /\ attempts \in [Tasks -> SUBSET Workers]
    /\ subscribers \subseteq Tasks /\ awaiting \subseteq Tasks
    /\ workers \subseteq Workers /\ closed \subseteq workers
    /\ held \in [Workers -> SUBSET Tasks]
    /\ weight \in [Workers -> Nat]
    /\ queue \in [Tasks -> Nat]
    /\ proofGpuWeights \in [Proofs -> Nat]
    /\ channel \in [Tasks -> {"absent", "open", "closed"}]
    /\ shuttingDown \in BOOLEAN
    /\ deadWorkers \subseteq Workers /\ expiredProofs \subseteq Proofs

\* A task is never in two places: at most one queue entry or one worker's slot
\* stands for it, whatever evictions, redeliveries, retries and late reports
\* happen.  assign_task does not look whether a Running task is held already,
\* so a second entry would run it twice.
NoDoubleDispatch ==
    \A t \in Tasks : queue[t] + Cardinality(Holders(t)) <= 1

\* No task is lost: until shutdown, a task that is not finished and can be
\* assigned is in the queue or in a worker's slot.  Nothing else would ever run
\* it again, and its proof would wait for its deadline.
NoTaskLost ==
    ~shuttingDown =>
        \A t \in Tasks : Unfinished(status[t]) /\ Lane(t) # "None" =>
            queue[t] + Cardinality(Holders(t)) >= 1

\* No slot is orphaned: what a worker holds belongs to a registered worker, was
\* last given to that very worker, and is running or has been completed by an
\* earlier holder, so its proof is still there.  release_remaining_assignments only finds
\* holders through task.worker.
NoOrphanedSlot ==
    \A w \in Workers : \A t \in held[w] :
        /\ w \in workers
        /\ owner[t] = w
        /\ status[t] \in {"Running", "Succeeded"}

\* proof.active_tasks counts exactly the unfinished tasks of the proof, over
\* completions reported twice, late completions of failed tasks and redelivery.
ActiveTasksExact ==
    \A p \in Proofs : activeTasks[p] = Cardinality(ActiveSet(p))

\* Capacity accounting is exact until shutdown: worker.weight is the weight of
\* the tasks the worker holds and stays within max_weight, and the balanced
\* policy's proof_gpu_weights is the GPU weight its tasks occupy.  All of it is
\* kept by increments and saturating decrements in eight places.
WeightsExact ==
    ~shuttingDown =>
        /\ \A w \in Workers : weight[w] = SumWeight(held[w]) /\ weight[w] <= MaxWeight[w]
        /\ \A p \in Proofs :
              proofGpuWeights[p] = SumWeight(GpuOf(p, UNION {held[w] : w \in Workers}))

\* A proof leaves the coordinator with its last unfinished task: a proof that
\* has tasks has one to wait for, and every task in the table belongs to a
\* proof that is there.  A proof without unfinished tasks would stay forever.
ProofEndsWithLastTask ==
    \A t \in Tasks : Present(t) =>
        ProofOf[t] \in proofs /\ activeTasks[ProofOf[t]] > 0

\* A task whose failure must fail the proof never sits in a live proof as
\* FailedFatal: fail_task takes the proof down, and reports it, in the same step.
NoFatalRootInLiveProof ==
    \A t \in Tasks : status[t] = "FailedFatal" => ~EnableProofFail(t)

\* A channel that is open belongs to a task that can still send and will close
\* it: otherwise its subscribers would never get EndOfStream.
ChannelEndsWithTask ==
    \A t \in Tasks : channel[t] = "open" => Unfinished(status[t])

\* A subscriber still waiting for an answer is registered on a task that can
\* still finish: no order of subscribing, finishing, retrying and proof teardown
\* leaves a subscriber waiting on a task that is final or gone.
SubscriberAnswered ==
    \A t \in awaiting : t \in subscribers /\ Unfinished(status[t])

\* A success is final while the task exists: no late failure, eviction of a
\* second holder, requeue or assignment pass takes it back.
SuccessIsFinal ==
    [][\A t \in Tasks : status[t] = "Succeeded" => status'[t] \in {"Succeeded", "Removed"}]_vars

\* A draining worker (closed) is given nothing more, and stays closed until it
\* is removed, even when it re-registers under the same id.
DrainingWorkerGetsNothing ==
    [][\A w \in closed : held'[w] \subseteq held[w] /\ (w \in closed' \/ w \notin workers')]_vars

HasRoom(t) ==
    \E w \in workers \ closed :
        WorkerType[w] \in {"All", Lane(t)} /\ weight[w] + Weight[t] <= MaxWeight[w]

\* Some lane has tasks waiting and every one of them would fit a worker.
IdleCapacity ==
    /\ ~shuttingDown
    /\ \E lane \in {"Gpu", "Cpu"} :
          LET waiting == {t \in Tasks : queue[t] > 0 /\ Lane(t) = lane /\ Unfinished(status[t])}
          IN waiting # {} /\ \A t \in waiting : HasRoom(t)

\* Capacity is not left idle beside waiting work: fail_proof frees slots without
\* an assignment pass, and a later heartbeat of the empty worker or the next
\* report from a busy one must make up for it.
IdleCapacityUsed == []<>~IdleCapacity

\* The safety of the coordinator as one invariant.
CoordinatorInv ==
    /\ TypeOK /\ NoDoubleDispatch /\ NoTaskLost /\ NoOrphanedSlot
    /\ ActiveTasksExact /\ WeightsExact /\ ProofEndsWithLastTask
    /\ NoFatalRootInLiveProof /\ ChannelEndsWithTask /\ SubscriberAnswered
=============================================================================
