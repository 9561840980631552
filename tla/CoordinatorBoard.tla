--------------------------- MODULE CoordinatorBoard ---------------------------
(***************************************************************************)
(* The coordinator as an implementation of TaskBoard.  Pending, Running    *)
(* and FailedRetryable are all "open"; a task is leased to the worker that *)
(* holds it, which is the one task.worker names.                           *)
(***************************************************************************)
EXTENDS Coordinator

OutcomeOf(s) ==
    CASE s = "Unused" -> "none"
      [] Unfinished(s) -> "open"
      [] s = "Succeeded" -> "succeeded"
      [] s = "FailedFatal" -> "failed"
      [] OTHER -> "gone"

outcome == [t \in Tasks |-> OutcomeOf(status[t])]
lease == [t \in Tasks |-> IF \E w \in Workers : t \in held[w] THEN owner[t] ELSE NoWorker]

Board == INSTANCE TaskBoard

\* The handlers of the coordinator, with their queues, retries, evictions, late
\* reports and sweeps, are steps of the board: a task is leased once at a time
\* and only while it is open, a success or a final failure is not taken back,
\* and a proof leaves whole, with its last open task (complete_task, fail_task,
\* fail_proof_internal, remove_worker_internal, assign_tasks).
ImplementsTaskBoard == Board!Spec
===============================================================================
