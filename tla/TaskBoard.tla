------------------------------ MODULE TaskBoard ------------------------------
(***************************************************************************)
(* What the coordinator promises of its tasks to proofs, workers and       *)
(* subscribers, whatever its queues, counters, retries and sweeps do.      *)
(*                                                                         *)
(* A task is open until it succeeds or fails for good, and goes with its   *)
(* proof.  An open task is leased to one worker at a time; it may lose its *)
(* lease and get another, at once or later.  A worker keeps the lease of a *)
(* task that has been settled elsewhere until it reports, but nobody gets  *)
(* a new one.                                                              *)
(***************************************************************************)
CONSTANTS Tasks, Workers, ProofOf, NoWorker

VARIABLES
    outcome,  \* [task -> "none" before it is created, "open", "succeeded", "failed" or "gone"]
    lease     \* [task -> the worker that runs it, or NoWorker]

Outcomes == {"none", "open", "succeeded", "failed", "gone"}

\* The task is in the table.
Known(o) == o \in {"open", "succeeded", "failed"}

Init ==
    /\ outcome = [t \in Tasks |-> "none"]
    /\ lease = [t \in Tasks |-> NoWorker]

\* What one handler may make of a task.
Kept(t) == outcome'[t] = outcome[t]
Created(t) == outcome[t] = "none" /\ outcome'[t] = "open"
Settled(t) == outcome[t] = "open" /\ outcome'[t] \in {"succeeded", "failed"}
SucceedsLate(t) == outcome[t] = "failed" /\ outcome'[t] = "succeeded"
Gone(t) == Known(outcome[t]) /\ outcome'[t] = "gone"

\* A handler creates or settles one task at most.
OneTask ==
    \A t \in Tasks : Kept(t) \/ Gone(t) \/ \A u \in Tasks \ {t} : Kept(u) \/ Gone(u)

\* A proof goes with all of its tasks, and at the latest with its last open one.
ProofsGoWhole ==
    /\ \A t \in Tasks : Gone(t) =>
           \A u \in Tasks : ProofOf[u] = ProofOf[t] => ~Known(outcome'[u])
    /\ \A t \in Tasks : Known(outcome'[t]) =>
           \E u \in Tasks : ProofOf[u] = ProofOf[t] /\ outcome'[u] = "open"

\* A new lease is for an open task, an old one for a task in the table.
Leased(t) ==
    \/ lease'[t] = NoWorker
    \/ lease'[t] = lease[t] /\ Known(outcome'[t])
    \/ lease'[t] \in Workers /\ outcome'[t] = "open"

Handle ==
    /\ outcome' \in [Tasks -> Outcomes] /\ lease' \in [Tasks -> Workers \cup {NoWorker}]
    /\ \A t \in Tasks : Kept(t) \/ Created(t) \/ Settled(t) \/ SucceedsLate(t) \/ Gone(t)
    /\ OneTask
    /\ ProofsGoWhole
    /\ \A t \in Tasks : Leased(t)

Spec == Init /\ [][Handle]_<<outcome, lease>>
==============================================================================
