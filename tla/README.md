# A verification development for sp1-cluster

TLA+ models of the sp1-cluster proving service, model-checked with TLC on small
instances. The safety of most parts is also proved with TLAPS, for all instances.
The definitions are written from the Rust sources; `PROJECT.json` maps them to
the lines they model.

## The system and its modules

A proof request is a row of the **cluster API** (Postgres). The **coordinator**
claims pending rows, creates a root task for each (Controller, or ExecuteOnly)
and hands tasks to **worker nodes** over gRPC streams. A running task creates
further tasks, subscribes to their results and streams messages to others
through **task channels**. Results go back to the row; data goes through the
**artifact store** (Redis or S3). The **fulfiller** moves requests and proofs
between the prover network and the API, the **bidder** bids for requests, and
the **network gateway** serves the network's API on top of the cluster's.

| part | sources (under `src/`) | modules | run |
|---|---|---|---|
| Coordinator, balanced policy | `bin/coordinator/src/{lib,server,util}.rs`, `policy/balanced.rs` | `Coordinator`, `TaskBoard`, `CoordinatorBoard` | `scheduling`, `sweeping`, `idle_capacity` |
| Default policy, memory budget | `policy/default.rs`, `crates/worker/src/limiter.rs` | `DefaultQueue` | `worker` |
| Bridge to the API | `bin/coordinator/src/cluster.rs` | `ProofClaimer` | `claim`, `liveness`, `claim_race` |
| Cluster API and its client | `bin/api`, `crates/common/src/client.rs` | `ClusterApi` (operators) | with `ProofClaimer`, `Fulfiller`, `Gateway` |
| Task results | `lib.rs`, `server.rs`, `crates/worker/src/client.rs` | `Subscribers` | `streams` |
| Task messages | the same | `TaskChannel` | `streams` |
| Worker node: main loop | `bin/node/src/lib.rs`, `crates/worker/src/lib.rs` | `WorkerNode` | `worker`, `liveness`, `node_report_budget` |
| Worker node: heartbeats | `bin/node/src/heartbeat.rs` | `WorkerBeats` | `worker` |
| Worker node: stream watchdog | `bin/node/src/lib.rs`, `client.rs` | `SilenceWatchdog` | `worker`, `liveness` |
| Artifacts in Redis | `crates/artifact/src/redis.rs` | `RedisStore`, `RedisAdmission`, `ArtifactRefs` | `artifacts` |
| Artifacts in S3 | `crates/artifact/src/s3.rs` | `S3Store` | `artifacts` |
| Fulfiller | `crates/fulfillment`, `bin/fulfiller` | `Fulfiller` | `edge` |
| GPU accounts and manifest | `lib.rs`, `cluster.rs`, `crates/fulfillment` | `Telemetry` | `edge` |
| Bidder | `bin/bidder` | `Bidder` | `edge`, `liveness` |
| Network gateway | `bin/network-gateway` | `Gateway` | `edge`, `torn_program` |

`Worker`, `Artifacts`, `Streams`, `Network` (fulfiller and bidder) and `Edge`
(`Network`, gateway and telemetry) put components that share no state side by
side, state the constants' assumptions and give the properties their names.
Proof modules extend these, and so do the `MC*` modules, which hold the
instances: a run and a theorem speak of the same definition. In an `MC*` module a
variable (`part`, or `kind` for the streams), chosen in the initial state, says
which component moves; the others stand still. Such a run is the union of its parts' state spaces, not their
product. Where one bound does not fit, a part is checked in two: `one task` and
`two tasks` of a node, `many` uploads and `repeated` ones, one fulfiller
`alone` with every request, and two `sharing` a cluster and one request.

## Coordinator

All of the coordinator's state is behind one `RwLock`. A handler takes the
write lock and keeps it to its end, including the trailing `assign_tasks`, so a
handler is one action. The two periodic sweeps choose their victims under a
read lock, drop it, and act under a write lock taken later; each is two actions
(`CollectDeadWorkers`/`RemoveDeadWorkers`,
`CollectExpiredProofs`/`CancelExpiredProofs`) with anything in between.
`fail_task` has three exclusive outcomes and is three actions; `fail_proof` is
one action per kind of caller.

| variable | code |
|---|---|
| `proofs`, `activeTasks` | keys of `state.proofs`, `proof.active_tasks` |
| `status`, `retries`, `owner`, `attempts`, `subscribers` | fields of a task; `owner` is `task.worker`, `attempts` the keys of `gpu_attempts` |
| `workers`, `closed`, `held`, `weight` | `state.workers`, `worker.closed`, `.active_tasks`, `.weight` |
| `queue`, `proofGpuWeights` | the policy's queues (entries per task) and `proof_gpu_weights` |
| `channel` | the task's entry of `task_channels` |
| `deadWorkers`, `expiredProofs` | local variables of the sweeps between their locks |
| `proofResults`, `awaiting` | what was sent on `proofs_tx`; tasks a subscriber waits for |

What is abstracted:

- *Order in the queues.* `AssignTasks` chooses which queued tasks go to which
  workers, subject to what the loops guarantee: a task goes to an open worker of
  the right type with room, stale entries are dropped, and a lane stops only when
  it is empty or has a head that fits nowhere. For the balanced policy the choice
  among proofs and workers is left free; for the default policy `DefaultQueue`
  has the order and shows that its passes are such steps.
- *Time.* Any registered worker may be found dead, any proof expired, any closed
  channel old enough to collect. This is more than the code can do.
- *Task ids* are fresh (UUID v7), so type, weight and proof of an id are
  constants. All subscribers of a task are one; `Subscribers` has the messages.

`TaskBoard` is what the coordinator promises of a task: it is open until it is
settled once, a success is never taken back, it goes only with its whole proof,
and it is leased to one worker at a time. `CoordinatorBoard` gives the mapping
(`ImplementsTaskBoard`): Pending, Running and FailedRetryable are all "open", the
lease is the slot. Queues, counters, retries, sweeps and channels disappear.

`DefaultQueue` takes the lock apart: a handler leaves a state, then the two loops
of `assign_tasks` pop one task per step. `before` keeps the state the pass began
with. It instantiates `Coordinator` with a mapping that shows `before` until the
pass has ended.

## The other modules

- `ProofClaimer`: three loops share `task_map`. A step ends where the code awaits.
  A write is a message that can be lost, arrive after its sender gave up, or lose
  its answer; the coordinator can restart. `Happens` names the faults of a run.
- `Subscribers`, `TaskChannel`: both ends of the two kinds of stream, with the
  look-ups made without the state lock as steps of their own.
- `WorkerNode`: attempts, reporters, the timeout sweep and the drain; an attempt
  is young, overdue, or past its grace.
- `WorkerBeats`, `SilenceWatchdog`: clocks that advance but not past a step that
  is due. One beat path is sound, the other does as it pleases.
- `RedisStore`: every command is a step; an attempt can time out with its last
  command still under way. `RedisAdmission`: memory in use and bytes promised are
  two reads. `ArtifactRefs`: the commands of `remove_ref` one by one; holders
  refer to the artifact before any of them lets go. `S3Store`: threads, permits
  and the bounded channel.
- `Fulfiller`: four phases whose tasks run side by side; crashes, lost answers,
  the nonce lock. `Bidder`: the pass with listings taken one after the other.
  `Gateway`: calls that may be dropped between steps, and a store whose file is
  the set of parts written. `Telemetry`: minutes, reports repeated or late.

External, modelled from how the code uses them: the prover network,
`spn_bidding`'s ledger and admission test, Postgres statements (atomic), Redis
commands and scripts (atomic), S3.

## Runs

| run | properties | what it shows |
|---|---|---|
| `scheduling` | `TypeOK` `NoDoubleDispatch` `NoTaskLost` `WeightsExact` `ImplementsTaskBoard` | a task is in one place and in none too few, counters are exact, every step is one of the board's |
| `sweeping` | `SubscriberAnswered` `CoordinatorInv` `DrainingWorkerGetsNothing` | both sweeps against every handler; two proofs that compete |
| `idle_capacity` | `IdleCapacityUsed` | waiting work does not stay beside free capacity for ever |
| `claim` | `UnlandedResultTracked` `RowsAreTrue` `RowsAreHeeded` | a result is tracked until its row is settled; a final row is true and stays; only proofs whose row is over are stopped |
| `worker` | `NeverEvictedWhileOnePathWorks` `ReportsSettled` `RunningWorkTracked` `NoFalseAlarm` `LoadFitsMemory` `NothingBesideWedgedWork` `DefaultPassSound` | beats, main loop, watchdog, and dispatch under the default policy in the GPU and the CPU-only build |
| `liveness` | `NodeAnswersAndLeaves` `RecordedResultLands` `ProofsFollowRows` `WedgeEnds` `LosersBidAgain` | what must happen in the end |
| `streams` | `AnswersAreTrue` `ReadersFollow` `FirstRunLosesNothing` `SubscriptionsServed` | truth, order and arrival of results and messages |
| `edge` | `ProgramsRegistered` `RequestsAccountedFor` `MarksAreEarned` `ArtifactsKept` `BidsFit` `GpuAccountsHold` `NothingTakenBack` | gateway, one and two fulfillers, bidder, telemetry |
| `artifacts` | `ReadsAreTrue` `AdmissionBounded` `RefsDecide` `TransfersSound` `PublishedStays` | uploads, readers, deletion, expiry, admission, references, transfers |
| `claim_race`, `node_report_budget`, `torn_program` | one each | violated: see Findings |

Every property is stated in words above its definition. Each also has a mutant
in `PROJECT.json`: a plausible slip in the mapped code that makes it fail.

*Bounds.* Two workers are what a late report against a new holder takes; one
retry separates retryable from fatal; weight 2 on capacity 2 makes a blocked
head; two proofs make the teardown of one visible to the other. Page size 1 with
two rows makes a listing shift under its walk. One task with two attempts
reaches every overlap of an old and a new attempt; two tasks share the drain.
Three uploads of one artifact are two that race and one that starts over. Three
gateway calls are two registrations and a request. Two fulfillers with a foreign
row are what the `name` filter needs. Three auctions on two slots and pages of
two leave one request more than fits and one page that is not full. Faults (restarts, breaks, lost calls,
repeated attempts) are bounded at one or two; `MaxReturns` bounds what
`DefaultQueue`'s workers give back. In the dispatch parts one host limits its
container and the other has a small `/dev/shm`; the weights leave room for a
blocked head in each lane. What a coordinator run leaves out is an action
constraint in `MCCoordinator`; workers are symmetric where all have one type and
capacity. The proofs remove these bounds for every property they state.

*Deadlock* is checked for the coordinator and the bridge. The parts of the other
runs may stop: a node leaves, a bounded clock or fault budget ends.

*Fairness.*

- Coordinator: a registered worker answers the server's heartbeat every five
  seconds and gives up every slot in the end, by report, by the node's own
  timeout, or by eviction. Weak fairness of `HandleHeartbeat` and `GiveUpSlot`.
- Bridge: the loops run on (weak); of infinitely many listings, row reads and
  re-issued writes some succeed (strong), as the endless re-issue in the claimer
  presumes; workers finish a proof whose row is settled.
- Node: the loop, the reporters and the timers run (weak); of infinitely many
  reports one lands (strong).
- Watchdog, bidder: the runtime wakes, passes and policy syncs come round (weak).
- Streams: every task of the two programs runs on (weak); an answer that is on
  the stream again and again is read (strong: real streams are first in, first
  out, the model's are sets).

## Proofs

Eight modules; each theorem is stated in words above it. A theorem about a
component is `Spec => []P`, or `Spec => A` for an action property, where `Spec`
is that component's specification and `P` or `A` is the definition a run checks.

| module | invariant theorem | properties |
|---|---|---|
| `CoordinatorLemmas`, `CoordinatorProofs` | `InvariantHolds` | `TypeOK` `NoDoubleDispatch` `NoTaskLost` `WeightsExact` `SubscriberAnswered` `CoordinatorInv` and its conjuncts, `SuccessIsFinal` `DrainingWorkerGetsNothing`, `ImplementsTaskBoard` |
| `ProofClaimerProofs` | `BridgeSafe` | `UnlandedResultTracked` `RowsAreTrue` `RowsAreHeeded` |
| `WorkerProofs` | `NodeSafe`, `BeatsBounded`, `WatchSafe` | `RunningWorkTracked` `ReportsSettled` `NothingBesideWedgedWork`, `NeverEvictedWhileOnePathWorks`, `NoFalseAlarm` |
| `StreamsProofs` | `SubscriptionSafe`, `ChannelSafe` | `AnswersAreTrue`, `ReadersFollow` `FirstRunLosesNothing` |
| `ArtifactsProofs` | `StoreSafe` and two lemmas | `ReadsAreTrue` `PublishedStays`, `AdmissionBounded`, `RefsDecide` |
| `GatewayProofs` | `GatewaySafe` | `ProgramsRegistered` `RequestsAccountedFor` `NothingTakenBack` |
| `NetworkProofs` | `FulfillerSafe`, `BidderSafe` | `MarksAreEarned` `ArtifactsKept`, `BidsFit` |

Each proof has the same shape: an inductive invariant, one lemma per action or
group of actions, and a last step that reads the property off the invariant.

*Coordinator.* `ConstantsAssumption`: finitely many tasks and workers, typed
constants. The inductive invariant is
`IInv == CountInv /\ SlotInv /\ LifeInv /\ WeightInv`: types and exact counts;
where a task may be; proofs, channels and subscribers against statuses; weights.
No part is inductive alone. `active_tasks` is exact because a held task is never
`FailedFatal`; teardown frees every slot because `task.worker` is the holder;
saturating subtraction is exact because a task is held once; and that holds
because only tasks that are neither queued nor held are enqueued.
`CoordinatorLemmas` has the building blocks and the report handlers,
`CoordinatorProofs` the rest. The refinement follows each handler with `IInv`
before and after it. A proof leaves only with its last unfinished task or as a
whole (`ProofHasOpenTask`), so the tasks that vanish are exactly a proof's; a new
lease goes only to a task that is open, because `AssignTasks` gives out only
unfinished tasks that nobody holds.

*Bridge.* `ClaimerAssumption`: finitely many proofs. A result stays in the
map from the moment it is recorded until its row has left Pending. That alone is
not inductive. `BridgeInv` adds that nothing is tracked, written, listed or looked
for without a row, that an acknowledged write has settled its row, that the row
being claimed is not tracked yet, that what was found gone does not come back,
and that every result on its way to a row was reported.

*Worker.* The main loop needs only natural bounds on attempts and tries. `NodeInv`
says what an attempt's entry, work, reporter and verdict may be together.
`reporters_in_flight` counts a set no operator of the model sums up; it is
related to it by an injection (`Fits`), which a step extends or shortens by one.
The beats assume `BeatsAssumption`, the inequalities between the intervals that
the comments on the constants argue for; `BeatsInv` bounds the silence by what is
left on the timers of the sound path. The watchdog assumes `WatchAssumption`:
a heartbeat's quiet and a stalled tick together stay within the silence allowed.

*Streams.* Subscriptions: every message is true when it is made, and stays true
because a task that is over and a proof that is gone stay so. `SubscriptionInv`
says this of the messages in every place they can be. Channels: `ChannelInv`
says of each reader that what it forwarded and what is on its stream are
consecutive pieces of one log that begin at its offset, and that the end is on
the stream only after the last of it. Payloads differ from the end-of-stream mark.

*Artifact store.* `HashOK` (a hash is empty, unfinished debris or one whole upload)
is kept by every script, late or repeated. A reader keeps what it has seen of the
store, and `ReaderOK` relates the two through every change under it. For the
admission, `ReadInv` is the argument for the factor two: between the two reads
nothing is admitted, and only what was promised at the first can be missed. Sums
over uploads are sets of pairs, counted with `FiniteSetTheorems`. For the
references: whoever still holds is in the set, nobody drops the set before all let
go, and while the artifact is there some holder has not finished or has given up.

*Gateway.* The invariant follows the files: a file belongs to the program of the
call that created it, a program's `.tmp` name and its own name never share a file,
and while puts of a program do not overlap its writer has written exactly the
parts before its position. Without the exception for overlapping puts it fails:
see `torn_program`.

*Fulfiller.* `TaskOK` says what is known of a request whose task is at some step.
It rests on facts that no step takes back (`WorldGrows`), so a step of another
task, another process, the network or the cluster leaves it alone; `LockInv` has
the nonce. It holds for any number of processes. `ForeignAssumption`: rows made by
others have ids of their own.

*Bidder.* `BidAssumption`: finitely many auctions, positive page size and tick, a
static bid on the tick. What a pass counts is never too small (`CountInv`),
although its pages are of different moments: a bid is in the ledger from before it
is sent until a listing shows what became of it (`LedgerInv`, `ListedInv`), no
request becomes assigned that was not in the ledger when the pass began, and a
page that is not full is the last.

*Only model-checked:*

- everything under fairness (`IdleCapacityUsed`, `liveness`, `SubscriptionsServed`)
  and `TransfersSound`, which says that a step is enabled: liveness and `ENABLED`
  are out of the prover's reach;
- `GpuAccountsHold`: GPU time is summed over workers by a fold, and what a fold
  computes needs induction over data;
- `DefaultPassSound` and `LoadFitsMemory`: no proof was attempted; a pass that is
  taken apart pop by pop needs an invariant of its own on top of `IInv`.

## Findings

- `claim_race`: the claimer inserts Pending after `create_proof` has returned
  (`cluster.rs:330`); a result in between is dropped, and the entry then says
  "Claimed and still proving" until the row's deadline.
- `node_report_budget`: `retry::infinite` (`crates/worker/src/client.rs:36`)
  keeps the crate's default time budget, so a report its comment says "must
  eventually land" is given up.
- `torn_program`: two registrations of a program share one `.tmp` file
  (`program_store.rs:55`); a crash can leave a torn record that the store's doc
  rules out.

Noticed while reading, without a run of their own:

- `redis.rs:413` says a published artifact can only vanish, never change. It can
  be deleted and uploaded again while it is read; `NoTornRead` leaves out reads
  that such a deletion overlaps.
- `s3.rs:319` says an upload is split "into up to S3_CONCURRENCY threads".
  `chunks(threads)` makes runs of that many chunks, so a long upload has more
  threads than that; permits still bound those that run at once.
- `crates/fulfillment/src/lib.rs:56` says the manifest is pushed about every
  minute and tolerates missed pushes. It is pushed every 240 s and refused after
  300 s: one lost push makes it stale.
- `limiter.rs` says the budget cannot exceed physical memory. A container limit
  above the host's memory is taken as it is; `LoadFitsMemory` speaks of the limit
  in that case.
- The mainnet client never produces the `Fulfilled` kind that `cancel_requests`
  has a branch for.

## Not modelled

- What a task computes (the SP1 prover), starting the provers, metrics, logging,
  configuration, command line, benchmarks and the test cluster: no protocol state.
- The balanced policy's choice among proofs and workers is left free.
- The retries of `submit_task`, which can create one task under two ids. The second
  is one more task of its proof that nobody waits for, and such tasks are in the
  coordinator's runs; what it costs is in the prover.
- Redis: the per-node semaphore of connections, and compression. S3: the REST
  download mode and presigned URLs.
- Fulfiller: decoding of `extra_data` into error codes; private stdin, whose URI
  is asked for with a nonce read outside the nonce lock by a call that changes
  nothing.
- Gateway: RPCs that are stubs or constant answers, signature recovery.
- Bidder: the arithmetic inside `spn_bidding`.
