-------------------------------- MODULE Telemetry --------------------------------
(***************************************************************************)
(* GPU time and the cluster's manifest, from the coordinator that counts   *)
(* it to the network that publishes it: the integral of connected GPU      *)
(* nodes and the busy counter (bin/coordinator/src/lib.rs), the push to    *)
(* the cluster API (cluster.rs, service.rs), and the fulfiller's report    *)
(* behind its freshness gate (crates/fulfillment/src/lib.rs).              *)
(*                                                                         *)
(* Time passes in units of one minute.  A worker runs one attempt of a     *)
(* task at a time; its report may be sent again, and may arrive when the   *)
(* coordinator no longer knows the worker.                                 *)
(***************************************************************************)
EXTENDS Integers, FiniteSets, Functions

CONSTANTS
    GpuWorkers,
    Timeout,       \* worker_heartbeat_timeout_secs
    MaxAge,        \* MAX_MANIFEST_AGE_SECS
    MaxPush,       \* longest call of a push: the client's backoff budget
    MaxMinutes,    \* bound on time, with an advance of the integral in every minute
    MaxMishaps,    \* bound on failed pushes, restarts and workers not heard of
    NoManifest

VARIABLES
    now,
    conn,       \* [worker -> "out", "open", or "closed" when it drains]
    quiet,      \* [worker -> age of its last heartbeat]
    job,        \* [worker -> "none", "running" or "done"]
    ran,        \* [worker -> device time of its attempt]
    credited,   \* workers whose attempt has been counted
    unsampled,  \* [worker -> device time since the last advance]
    available,  \* gpu_available_ms_total
    busy,       \* gpu_busy_ms_total
    elapsed,    \* time since gpu_available_last_tick
    unheard,    \* device time of workers that were gone or silent when sampled
    snapshot,   \* a push in flight
    timer,      \* time since the last push returned
    manifest,   \* component_manifest of the API: when it was taken and when stored
    published,  \* age of the manifest that a report of this minute told
    healthy,    \* nothing has gone wrong with a push, the API or the coordinator
    mishaps

clock == <<now, timer>>
work == <<job, ran, credited, unsampled>>
counters == <<available, busy, elapsed, unheard>>
pushed == <<snapshot, manifest, published, healthy>>
vars == <<clock, conn, quiet, work, counters, pushed, mishaps>>

\* MANIFEST_PUSH_INTERVAL
PushInterval == 4

Zero == [w \in GpuWorkers |-> 0]
NoJob == [w \in GpuWorkers |-> "none"]

Init ==
    /\ now = 0 /\ timer = PushInterval
    /\ conn = [w \in GpuWorkers |-> "out"] /\ quiet = Zero
    /\ job = NoJob /\ ran = Zero /\ credited = {} /\ unsampled = Zero
    /\ available = 0 /\ busy = 0 /\ elapsed = 0 /\ unheard = 0
    /\ snapshot = NoManifest /\ manifest = NoManifest /\ published = 0
    /\ healthy = TRUE /\ mishaps = 0

Mishap == mishaps < MaxMishaps /\ mishaps' = mishaps + 1

(***************************************************************************)
(* Workers and their attempts.                                             *)
(***************************************************************************)
\* add_worker
Join(w) ==
    /\ conn[w] = "out"
    /\ conn' = [conn EXCEPT ![w] = "open"]
    /\ UNCHANGED <<clock, quiet, work, counters, pushed, mishaps>>

\* close_worker: it drains, and goes on with what it has
CloseWorker(w) ==
    /\ conn[w] = "open"
    /\ conn' = [conn EXCEPT ![w] = "closed"]
    /\ UNCHANGED <<clock, quiet, work, counters, pushed, mishaps>>

Beat(w) ==
    /\ conn[w] # "out" /\ quiet[w] > 0
    /\ quiet' = [quiet EXCEPT ![w] = 0]
    /\ UNCHANGED <<clock, conn, work, counters, pushed, mishaps>>

\* the policy assigns a task and writes its GpuAttempt
Assign(w) ==
    /\ conn[w] = "open" /\ job[w] = "none"
    /\ job' = [job EXCEPT ![w] = "running"]
    /\ UNCHANGED <<clock, conn, quiet, ran, credited, unsampled, counters, pushed, mishaps>>

Finish(w) ==
    /\ job[w] = "running"
    /\ job' = [job EXCEPT ![w] = "done"]
    /\ UNCHANGED <<clock, conn, quiet, ran, credited, unsampled, counters, pushed, mishaps>>

\* Fault: every copy of a report counts.
EveryReport(w) == TRUE

\* credit_gpu_time: the first report of an attempt
FirstReport(w) == w \notin credited

\* complete_task, also a second time
Report(w) ==
    /\ job[w] = "done"
    /\ busy' = IF FirstReport(w) THEN busy + ran[w] ELSE busy
    /\ credited' = credited \cup {w}
    /\ UNCHANGED <<clock, conn, quiet, job, ran, unsampled, available, elapsed, unheard, pushed, mishaps>>

\* no copy of the report arrives any more, or the proof is gone
Forget(w) ==
    /\ job[w] = "done"
    /\ job' = [job EXCEPT ![w] = "none"] /\ ran' = [ran EXCEPT ![w] = 0]
    /\ credited' = credited \ {w}
    /\ UNCHANGED <<clock, conn, quiet, unsampled, counters, pushed, mishaps>>

(***************************************************************************)
(* The coordinator counts.                                                 *)
(***************************************************************************)
\* is_connected_gpu_node
IsConnectedGpuNode(w) == conn[w] # "out" /\ quiet[w] <= Timeout

\* advance_gpu_available_integral: the nodes of this moment, for all the time
\* since the last one
AdvanceIntegral ==
    /\ available' = available + elapsed * Cardinality({w \in GpuWorkers : IsConnectedGpuNode(w)})
    /\ elapsed' = 0
    /\ unheard' = unheard + SumFunctionOnSet(unsampled, {w \in GpuWorkers : conn[w] = "out" \/ quiet[w] > Timeout})
    /\ unsampled' = Zero

Accumulate ==
    /\ elapsed > 0
    /\ AdvanceIntegral
    /\ UNCHANGED <<clock, conn, quiet, job, ran, credited, busy, pushed, mishaps>>

CleanupDeadWorkers ==
    /\ \E w \in GpuWorkers : conn[w] # "out" /\ quiet[w] > Timeout
    /\ conn' = [w \in GpuWorkers |-> IF quiet[w] > Timeout THEN "out" ELSE conn[w]]
    /\ quiet' = [w \in GpuWorkers |-> IF quiet[w] > Timeout THEN 0 ELSE quiet[w]]
    /\ UNCHANGED <<clock, work, counters, pushed, mishaps>>

(***************************************************************************)
(* The push.                                                               *)
(***************************************************************************)
Waiting == timer >= PushInterval

SelfAdvance == AdvanceIntegral

\* get_cluster_info
TakeSnapshot ==
    /\ snapshot = NoManifest /\ Waiting
    /\ SelfAdvance
    /\ snapshot' = [available |-> available', busy |-> busy, unheard |-> unheard', observed |-> now]
    /\ UNCHANGED <<now, timer, conn, quiet, job, ran, credited, busy, manifest, published, healthy, mishaps>>

\* set_cluster_component_info stamps what it stores
PushLands ==
    /\ snapshot # NoManifest
    /\ manifest' = [observed |-> snapshot.observed, updated_at |-> now]
    /\ snapshot' = NoManifest /\ timer' = 0 /\ healthy' = TRUE
    /\ UNCHANGED <<now, conn, quiet, work, counters, published, mishaps>>

PushFails ==
    /\ snapshot # NoManifest /\ Mishap
    /\ snapshot' = NoManifest /\ timer' = 0 /\ healthy' = FALSE
    /\ UNCHANGED <<now, conn, quiet, work, counters, manifest, published>>

ApiRestarts ==
    /\ manifest # NoManifest /\ Mishap
    /\ manifest' = NoManifest
    /\ UNCHANGED <<clock, conn, quiet, work, counters, snapshot, published, healthy>>

\* proofs, workers and counters start from nothing
CoordinatorRestarts ==
    /\ Mishap
    /\ conn' = [w \in GpuWorkers |-> "out"] /\ quiet' = Zero
    /\ job' = NoJob /\ ran' = Zero /\ credited' = {} /\ unsampled' = Zero
    /\ available' = 0 /\ busy' = 0 /\ elapsed' = 0 /\ unheard' = 0
    /\ snapshot' = NoManifest /\ timer' = PushInterval /\ healthy' = FALSE
    /\ UNCHANGED <<now, manifest, published>>

(***************************************************************************)
(* The fulfiller's report.                                                 *)
(***************************************************************************)
\* fresh_manifest_components
Fresh == now - manifest.updated_at <= MaxAge

\* report_prover_info
ReportProverInfo ==
    /\ manifest # NoManifest /\ Fresh
    /\ published' = now - manifest.observed
    /\ UNCHANGED <<clock, conn, quiet, work, counters, snapshot, manifest, healthy, mishaps>>

Minute ==
    /\ now < MaxMinutes /\ elapsed = 0
    /\ snapshot = NoManifest => ~Waiting
    /\ snapshot # NoManifest => now - snapshot.observed < MaxPush
    /\ now' = now + 1 /\ timer' = IF timer < PushInterval THEN timer + 1 ELSE timer
    /\ \E silent \in SUBSET {w \in GpuWorkers : conn[w] # "out"} :
         /\ quiet' = [w \in GpuWorkers |-> IF w \in silent /\ quiet[w] <= Timeout THEN quiet[w] + 1 ELSE quiet[w]]
         /\ \/ silent = {} /\ UNCHANGED mishaps
            \/ silent # {} /\ Mishap
    /\ elapsed' = elapsed + 1 /\ published' = 0
    /\ ran' = [w \in GpuWorkers |-> IF job[w] = "running" THEN ran[w] + 1 ELSE ran[w]]
    /\ unsampled' = [w \in GpuWorkers |-> IF job[w] = "running" THEN unsampled[w] + 1 ELSE unsampled[w]]
    /\ UNCHANGED <<conn, job, credited, available, busy, unheard, snapshot, manifest, healthy>>

Next ==
    \/ \E w \in GpuWorkers : Join(w) \/ CloseWorker(w) \/ Beat(w) \/ Assign(w) \/ Finish(w) \/ Report(w) \/ Forget(w)
    \/ Accumulate \/ CleanupDeadWorkers \/ TakeSnapshot \/ PushLands \/ PushFails
    \/ ApiRestarts \/ CoordinatorRestarts \/ ReportProverInfo \/ Minute

Spec == Init /\ [][Next]_vars

(***************************************************************************)
(* What must hold.                                                         *)
(***************************************************************************)
\* In no snapshot is the GPU time in use more than the GPU time available, but
\* for what workers ran while the coordinator did not hear of them: draining
\* workers count, an attempt counts once however often it is reported, and
\* get_cluster_info brings the integral up to its own time.
BusyWithinAvailable ==
    snapshot # NoManifest => snapshot.busy <= snapshot.available + snapshot.unheard

\* While pushes succeed the API's manifest is never too old for the gate: the
\* interval and the time of a push fit into the age (MANIFEST_PUSH_INTERVAL).
HealthyManifestIsFresh == healthy /\ manifest # NoManifest => Fresh

\* What the fulfiller reports is the cluster of at most the gate's age and one
\* push ago: that of a dead coordinator is not published as current.
ReportIsRecent ==
    published <= MaxAge + MaxPush
==================================================================================
