---------------------------- MODULE ProofClaimer ----------------------------
(***************************************************************************)
(* The bridge between the coordinator and the cluster API                  *)
(* (src/bin/coordinator/src/cluster.rs).  Three loops share task_map:      *)
(*                                                                         *)
(*   - the claimer lists the Pending rows, starts a proof for each row it  *)
(*     does not track, stops tracked proofs whose row is gone, and issues  *)
(*     again every result that has not been confirmed;                     *)
(*   - the status task takes the coordinator's results in order, records   *)
(*     each in task_map and writes it to the API;                          *)
(*   - one task per re-issued write.                                       *)
(*                                                                         *)
(* The table is ClusterApi's.  The coordinator is abstracted to the set of *)
(* proofs it holds and the results it sends (module Coordinator has the    *)
(* rest).  A step ends where the code awaits: between two pages of a       *)
(* listing, around each row read, between create_proof and the insertion   *)
(* into task_map, around each write.  A write travels as a message that    *)
(* can be lost, can arrive after its sender has given up, and whose answer *)
(* can be lost; the attempts the client makes inside one call are sends of *)
(* the same message.  A restart forgets everything but the table and the   *)
(* messages on their way.                                                  *)
(***************************************************************************)
EXTENDS ClusterApi, Sequences

CONSTANTS
    Proofs,            \* ids of proof requests
    MaxRestarts,       \* bound on restarts of the coordinator
    MaxResults,        \* bound on the results waiting for the status task
    Happens            \* what other clients, the clock and the network may do

\* Other clients cancel, mark and leave rows incomplete; deadlines pass; a
\* request is lost, its answer is lost, a write is given up, a read fails; a
\* proof fails; a worker's report of a proof's result fails for good.
Everything == {"cancel", "handled", "partial", "deadline", "lost", "unanswered",
               "gaveup", "unread", "failure", "unreported"}

ASSUME ClaimerAssumption ==
    /\ IsFiniteSet(Proofs)
    /\ MaxRestarts \in Nat
    /\ MaxResults \in Nat
    /\ Happens \subseteq Everything

VARIABLES
    rows,        \* the table
    created,     \* created_at of the rows: 1 for the first, 0 for no row
    wire,        \* completion writes on their way to the API
    acks,        \* writes the API has answered with Ok
    task_map,    \* what the bridge knows of each proof
    proofs,      \* proofs the coordinator holds
    completing,  \* complete_proof calls past their lookup, result not yet sent
    results,     \* completed_rx
    writer,      \* the write the status task waits for: a set of at most one
    inflight,    \* the re-issued writes that are running
    claimer,     \* the claimer's place in its loop and its local variables
    reported,    \* history: the results sent so far
    recorded,    \* history: proofs whose result this instance has recorded
    restarts

vars == <<rows, created, wire, acks, task_map, proofs, completing, results,
          writer, inflight, claimer, reported, recorded, restarts>>

table == <<rows, created>>
memory == <<task_map, proofs, completing, results, writer, inflight, claimer>>
history == <<reported, recorded, restarts>>

\* TaskState: Pending, or Terminal with the status of the recorded write.
Terminal == {"Completed", "Failed"}
Untracked == "none"
TaskState == {Untracked, "Pending"} \cup Terminal

Writes == [by: {"writer", "reissue"}, id: Proofs, status: Terminal]
Write(who, p, s) == [by |-> who, id |-> p, status |-> s]

Result == [id: Proofs, success: BOOLEAN]
SwappedStatus(r) == IF r.success THEN "Failed" ELSE "Completed"

StatusOf(r) == IF r.success THEN "Completed" ELSE "Failed"

\* The claimer between two polls.
Asleep == [at |-> "asleep", page |-> 0, todo |-> {}, seen |-> {},
           late |-> {}, missing |-> {}, gone |-> {}]

ClaimerState == [at: {"asleep", "listing", "claiming", "inserting", "confirming"},
                 page: 0 .. MaxPages - 1, todo: SUBSET Proofs, seen: SUBSET Proofs,
                 late: SUBSET Proofs, missing: SUBSET Proofs, gone: SUBSET Proofs]

Init ==
    /\ rows = [p \in Proofs |-> NoRow]
    /\ created = [p \in Proofs |-> 0]
    /\ wire = {}
    /\ acks = {}
    /\ task_map = [p \in Proofs |-> Untracked]
    /\ proofs = {}
    /\ completing = {}
    /\ results = <<>>
    /\ writer = {}
    /\ inflight = {}
    /\ claimer = Asleep
    /\ reported = {}
    /\ recorded = {}
    /\ restarts = 0

-----------------------------------------------------------------------------
(* The table: its other clients, and the messages that reach it.           *)

\* proof_request_create, called by the fulfiller or the gateway.
CreateRow(p, whole) ==
    /\ rows[p] = NoRow
    /\ whole \/ "partial" \in Happens
    /\ rows' = Created(rows, p, whole)
    /\ created' = [created EXCEPT ![p] = Cardinality({q \in Proofs : rows[q] # NoRow}) + 1]
    /\ UNCHANGED <<wire, acks, memory, history>>

\* proof_request_cancel.
CancelRow(p) ==
    /\ "cancel" \in Happens
    /\ rows' = CancelledIn(rows, p)
    /\ rows' # rows
    /\ UNCHANGED <<created, wire, acks, memory, history>>

\* proof_request_update of the handled mark, called by the fulfiller.
HandleRow(p) ==
    /\ "handled" \in Happens
    /\ rows' = HandledIn(rows, p)
    /\ rows' # rows
    /\ UNCHANGED <<created, wire, acks, memory, history>>

\* The deadline of a row passes.
DeadlinePasses(p) ==
    /\ "deadline" \in Happens
    /\ rows[p] # NoRow /\ ~rows[p].expired
    /\ rows' = [rows EXCEPT ![p].expired = TRUE]
    /\ UNCHANGED <<created, wire, acks, memory, history>>

\* The API executes a completion write and answers Ok; the answer may be lost,
\* and nobody hears it once the call has been given up.
ApplyWrite(m, answered) ==
    /\ m \in wire
    /\ rows' = CompletedIn(rows, m.id, m.status)
    /\ wire' = wire \ {m}
    /\ IF answered THEN m \in writer \cup inflight
                   ELSE "unanswered" \in Happens \/ m \notin writer \cup inflight
    /\ acks' = IF answered THEN acks \cup {m} ELSE acks
    /\ UNCHANGED <<created, memory, history>>

\* The request is lost on its way, or the statement fails.
LoseWrite(m) ==
    /\ "lost" \in Happens
    /\ m \in wire
    /\ wire' = wire \ {m}
    /\ UNCHANGED <<table, acks, memory, history>>

-----------------------------------------------------------------------------
(* The coordinator, as the bridge sees it.                                 *)

\* complete_proof finds the proof under the read lock ...
CompleteProof(p) ==
    /\ p \in proofs \ completing
    /\ completing' = completing \cup {p}
    /\ UNCHANGED <<table, wire, acks, task_map, proofs, results, writer,
                   inflight, claimer, history>>

\* ... and sends its result after giving the lock up.
SendSuccess(p) ==
    /\ p \in completing
    /\ Len(results) < MaxResults
    /\ completing' = completing \ {p}
    /\ results' = Append(results, [id |-> p, success |-> TRUE])
    /\ reported' = reported \cup {[id |-> p, success |-> TRUE]}
    /\ UNCHANGED <<table, wire, acks, task_map, proofs, writer, inflight,
                   claimer, recorded, restarts>>

\* fail_proof_internal with notify_sender: fail_proof and cancel_proof of the
\* worker service, and a root task out of retries.
FailProof(p) ==
    /\ "failure" \in Happens
    /\ p \in proofs
    /\ Len(results) < MaxResults
    /\ proofs' = proofs \ {p}
    /\ results' = Append(results, [id |-> p, success |-> FALSE])
    /\ reported' = reported \cup {[id |-> p, success |-> FALSE]}
    /\ UNCHANGED <<table, wire, acks, task_map, completing, writer, inflight,
                   claimer, recorded, restarts>>

\* The last task of a proof succeeds and the proof is removed.  Its controller
\* has delivered the result before, unless that call failed for good: the
\* worker only logs such a failure and still reports the task.
FinishProof(p) ==
    /\ p \in proofs
    /\ "unreported" \in Happens \/ [id |-> p, success |-> TRUE] \in reported
    /\ proofs' = proofs \ {p}
    /\ UNCHANGED <<table, wire, acks, task_map, completing, results, writer,
                   inflight, claimer, history>>

\* cleanup_cancel_expired_proofs: no result is sent.
ExpireProof(p) ==
    /\ p \in proofs
    /\ rows[p] # NoRow /\ rows[p].expired
    /\ proofs' = proofs \ {p}
    /\ UNCHANGED <<table, wire, acks, task_map, completing, results, writer,
                   inflight, claimer, history>>

-----------------------------------------------------------------------------
(* The status task.                                                        *)

\* A result of a proof that is not tracked is dropped.
DropResult ==
    /\ writer = {}
    /\ results # <<>>
    /\ task_map[Head(results).id] = Untracked
    /\ results' = Tail(results)
    /\ UNCHANGED <<table, wire, acks, task_map, proofs, completing, writer,
                   inflight, claimer, history>>

\* Any other is recorded before the write is attempted, over whatever the
\* entry holds.
TakeResult ==
    /\ writer = {}
    /\ results # <<>>
    /\ LET r == Head(results)
           m == Write("writer", r.id, StatusOf(r))
       IN  /\ task_map[r.id] # Untracked
           /\ task_map' = [task_map EXCEPT ![r.id] = StatusOf(r)]
           /\ wire' = wire \cup {m}
           /\ writer' = {m}
           /\ recorded' = recorded \cup {r.id}
    /\ results' = Tail(results)
    /\ UNCHANGED <<table, acks, proofs, completing, inflight, claimer,
                   reported, restarts>>

\* remove_if(Terminal): a Pending entry of a new claim is left alone.
Settled(tm, p) == [tm EXCEPT ![p] = IF tm[p] \in Terminal THEN Untracked ELSE tm[p]]

\* The entry is dropped even though the write has failed.
SettledAnyway(tm, p) == Settled(tm, p)

\* What a failed write leaves of its entry: the claimer will issue it again.
AfterFailedWrite(tm, p) == tm

\* The write of the status task is confirmed.
WriteOk(m) ==
    /\ m \in writer \cap acks
    /\ task_map' = Settled(task_map, m.id)
    /\ acks' = acks \ {m}
    /\ writer' = {}
    /\ UNCHANGED <<table, wire, proofs, completing, results, inflight, claimer,
                   history>>

\* The client's retry budget runs out; the request may still be on its way.
WriteFails(m) ==
    /\ "gaveup" \in Happens \/ m \notin wire \cup acks
    /\ m \in writer
    /\ task_map' = AfterFailedWrite(task_map, m.id)
    /\ acks' = acks \ {m}
    /\ writer' = {}
    /\ UNCHANGED <<table, wire, proofs, completing, results, inflight, claimer,
                   history>>

-----------------------------------------------------------------------------
(* The claimer.                                                            *)

\* still_pending, and the filter of the listing.  late: the ids whose
\* deadline had passed when the loop took the time.
StillPending(p, late) ==
    /\ rows[p] # NoRow
    /\ rows[p].status = "Pending"
    /\ ~rows[p].handled
    /\ p \notin late

Late == {p \in Proofs : rows[p] # NoRow /\ rows[p].expired}

\* A poll begins: the listing's deadline filter is fixed now.
StartPoll ==
    /\ claimer.at = "asleep"
    /\ claimer' = [Asleep EXCEPT !.at = "listing", !.late = Late]
    /\ UNCHANGED <<table, wire, acks, task_map, proofs, completing, results,
                   writer, inflight, history>>

\* One page of the listing; after the last one the rows are taken from the
\* newest to the oldest.
ListPage ==
    /\ claimer.at = "listing"
    /\ LET wanted == {p \in Proofs : StillPending(p, claimer.late)}
           page == Page(wanted, created, claimer.page * PageSize, PageSize)
           all == Deduped(claimer.todo, page)
       IN  claimer' = IF WalkGoesOn(page, claimer.page)
                      THEN [claimer EXCEPT !.page = @ + 1, !.todo = all]
                      ELSE [Asleep EXCEPT !.at = "claiming", !.todo = all]
    /\ UNCHANGED <<table, wire, acks, task_map, proofs, completing, results,
                   writer, inflight, history>>

\* A page cannot be read: the poll is given up.
ListFails ==
    /\ "unread" \in Happens
    /\ claimer.at = "listing"
    /\ claimer' = Asleep
    /\ UNCHANGED <<table, wire, acks, task_map, proofs, completing, results,
                   writer, inflight, history>>

\* create_proof answers Ok.
Claimable(p) ==
    /\ task_map[p] = Untracked
    /\ rows[p] # NoRow /\ rows[p].whole
    /\ p \notin proofs

\* The row the claimer has come to: the newest of those left.
AtRow(p) == p \in claimer.todo /\ \A q \in claimer.todo : created[q] <= created[p]

\* A listed row that is tracked, lacks a field, or whose proof the coordinator
\* still holds, is skipped.
SkipRow(p) ==
    /\ claimer.at = "claiming" /\ AtRow(p)
    /\ ~Claimable(p)
    /\ claimer' = [claimer EXCEPT !.todo = @ \ {p}, !.seen = @ \cup {p}]
    /\ UNCHANGED <<table, wire, acks, task_map, proofs, completing, results,
                   writer, inflight, history>>

\* create_proof for a listed row, as it was listed ...
ClaimRow(p) ==
    /\ claimer.at = "claiming" /\ AtRow(p)
    /\ Claimable(p)
    /\ proofs' = proofs \cup {p}
    /\ claimer' = [claimer EXCEPT !.at = "inserting", !.seen = @ \cup {p}]
    /\ UNCHANGED <<table, wire, acks, task_map, completing, results, writer,
                   inflight, history>>

\* ... and its entry in task_map.
InsertPending(p) ==
    /\ claimer.at = "inserting" /\ AtRow(p)
    /\ task_map' = [task_map EXCEPT ![p] = "Pending"]
    /\ claimer' = [claimer EXCEPT !.at = "claiming", !.todo = @ \ {p}]
    /\ UNCHANGED <<table, wire, acks, proofs, completing, results, writer,
                   inflight, history>>

\* fail_missing_proofs: the tracked Pending proofs the listing did not show.
StartConfirm ==
    /\ claimer.at = "claiming" /\ claimer.todo = {}
    /\ claimer' = [Asleep EXCEPT
                     !.at = "confirming", !.late = Late,
                     !.missing = {p \in Proofs : task_map[p] = "Pending"} \ claimer.seen]
    /\ UNCHANGED <<table, wire, acks, task_map, proofs, completing, results,
                   writer, inflight, history>>

\* The row of a missing proof shows that paging has skipped it.
ConfirmedAlive(p, late) == StillPending(p, late)

\* get_proof_request for a missing proof: it is kept, or found gone.
ConfirmRead(p) ==
    /\ claimer.at = "confirming" /\ p \in claimer.missing
    /\ claimer' = [claimer EXCEPT
                     !.missing = @ \ {p},
                     !.gone = IF ConfirmedAlive(p, claimer.late) THEN @ ELSE @ \cup {p}]
    /\ UNCHANGED <<table, wire, acks, task_map, proofs, completing, results,
                   writer, inflight, history>>

\* The row cannot be read: the proof is kept until the next poll.
ConfirmFails(p) ==
    /\ "unread" \in Happens
    /\ claimer.at = "confirming" /\ p \in claimer.missing
    /\ claimer' = [claimer EXCEPT !.missing = @ \ {p}]
    /\ UNCHANGED <<table, wire, acks, task_map, proofs, completing, results,
                   writer, inflight, history>>

\* The entry goes, the proof runs on.
UntrackGone(p) ==
    /\ claimer.at = "confirming" /\ p \in claimer.gone
    /\ claimer' = [claimer EXCEPT !.gone = @ \ {p}]
    /\ task_map' = [task_map EXCEPT ![p] = IF @ = "Pending" THEN Untracked ELSE @]
    /\ UNCHANGED <<table, wire, acks, proofs, completing, results, writer,
                   inflight, history>>

\* remove_if(Pending), and when there was one, fail_proof without a result.
StopGone(p) ==
    /\ claimer.at = "confirming" /\ p \in claimer.gone
    /\ claimer' = [claimer EXCEPT !.gone = @ \ {p}]
    /\ IF task_map[p] = "Pending"
       THEN /\ task_map' = [task_map EXCEPT ![p] = Untracked]
            /\ proofs' = proofs \ {p}
       ELSE UNCHANGED <<task_map, proofs>>
    /\ UNCHANGED <<table, wire, acks, completing, results, writer, inflight,
                   history>>

\* Of the results that have not been confirmed, only the successes.
UnconfirmedSuccess == {p \in Proofs : task_map[p] = "Completed"}

\* The results that have not been confirmed, listed by this poll or not.
Unconfirmed == {p \in Proofs : task_map[p] \in Terminal}

\* reissue_lost_status_write: at most one re-issue per proof runs at a time.
Reissued == {Write("reissue", p, task_map[p]) :
                p \in Unconfirmed \ {m.id : m \in inflight}}

\* The end of a poll.
SweepUnconfirmed ==
    /\ claimer.at = "confirming" /\ claimer.missing = {} /\ claimer.gone = {}
    /\ inflight' = inflight \cup Reissued
    /\ wire' = wire \cup Reissued
    /\ claimer' = Asleep
    /\ UNCHANGED <<table, acks, task_map, proofs, completing, results, writer,
                   history>>

\* A re-issued write is confirmed.
ReissueOk(m) ==
    /\ m \in inflight /\ m \in acks
    /\ task_map' = Settled(task_map, m.id)
    /\ inflight' = inflight \ {m}
    /\ acks' = acks \ {m}
    /\ UNCHANGED <<table, wire, proofs, completing, results, writer, claimer,
                   history>>

\* Its budget runs out; the entry stays for the next poll.
ReissueFails(m) ==
    /\ "gaveup" \in Happens \/ m \notin wire \cup acks
    /\ m \in inflight
    /\ inflight' = inflight \ {m}
    /\ acks' = acks \ {m}
    /\ UNCHANGED <<table, wire, task_map, proofs, completing, results, writer,
                   claimer, history>>

\* The coordinator stops and starts again: its memory is gone.
Restart ==
    /\ restarts < MaxRestarts
    /\ restarts' = restarts + 1
    /\ task_map' = [p \in Proofs |-> Untracked]
    /\ proofs' = {}
    /\ completing' = {}
    /\ results' = <<>>
    /\ writer' = {}
    /\ inflight' = {}
    /\ acks' = {}
    /\ claimer' = Asleep
    /\ recorded' = {}
    /\ UNCHANGED <<table, wire, reported>>

-----------------------------------------------------------------------------
Clients(p) ==
    \/ \E whole \in BOOLEAN : CreateRow(p, whole)
    \/ CancelRow(p) \/ HandleRow(p) \/ DeadlinePasses(p)

CoordinatorStep(p) ==
    \/ CompleteProof(p) \/ SendSuccess(p) \/ FailProof(p)
    \/ FinishProof(p) \/ ExpireProof(p)

StatusTask ==
    \/ DropResult \/ TakeResult
    \/ \E m \in writer : WriteOk(m) \/ WriteFails(m)

Claimer ==
    \/ StartPoll \/ ListPage \/ ListFails
    \/ \E p \in Proofs : SkipRow(p) \/ ClaimRow(p) \/ InsertPending(p)
    \/ StartConfirm
    \/ \E p \in Proofs : ConfirmRead(p) \/ ConfirmFails(p) \/ StopGone(p)
    \/ SweepUnconfirmed

Network ==
    \/ \E m \in wire : LoseWrite(m) \/ \E answered \in BOOLEAN : ApplyWrite(m, answered)
    \/ \E m \in inflight : ReissueOk(m) \/ ReissueFails(m)

Next ==
    \/ \E p \in Proofs : Clients(p) \/ CoordinatorStep(p)
    \/ StatusTask
    \/ Claimer
    \/ Network
    \/ Restart

Spec == Init /\ [][Next]_vars

-----------------------------------------------------------------------------
TypeOK ==
    /\ rows \in [Proofs -> ProofRequest \cup {NoRow}]
    /\ created \in [Proofs -> Nat]
    /\ wire \in SUBSET Writes
    /\ acks \in SUBSET Writes
    /\ task_map \in [Proofs -> TaskState]
    /\ proofs \in SUBSET Proofs
    /\ completing \in SUBSET Proofs
    /\ results \in Seq(Result)
    /\ writer \in SUBSET Writes /\ Cardinality(writer) <= 1
    /\ inflight \in SUBSET Writes
    /\ claimer \in ClaimerState
    /\ reported \in SUBSET Result
    /\ recorded \in SUBSET Proofs
    /\ restarts \in 0 .. MaxRestarts

RowSettled(p) == rows[p] # NoRow /\ rows[p].status # "Pending"

\* Once a result of a proof has been recorded, the bridge keeps it until the
\* row has left Pending: whatever is lost, answered late or issued twice, no
\* step forgets a result that has not landed (task_map, remove_if).
UnlandedResultTracked ==
    \A p \in recorded : task_map[p] \in Terminal \/ RowSettled(p)

\* A row that has left Pending keeps its status for ever: a re-issued or late
\* completion write never overwrites a cancellation or an earlier result
\* (guard_pending in proof_request_update).
FinalRowStays ==
    [][\A p \in Proofs : RowSettled(p) => rows'[p].status = rows[p].status]_vars

\* A row says Completed or Failed only if a worker or the coordinator reported
\* that result for this proof; with several results, it is one of them.
RowTellsAReport ==
    \A p \in Proofs : RowSettled(p) /\ rows[p].status # "Cancelled" =>
        [id |-> p, success |-> rows[p].status = "Completed"] \in reported

\* The claimer stops a proof only if its row is really gone: a row that a page
\* boundary has hidden, or that cannot be read, keeps its proof
\* (fail_missing_proofs).
OnlyGoneProofsStopped ==
    [][\A p \in Proofs : p \in proofs \ proofs' /\ claimer'.at = "confirming" /\ claimer' # claimer
                         => ~StillPending(p, Late)]_vars

\* The types of the bridge, and: a final row tells what some result of its
\* proof said (spawn_proof_status_task).
RowsAreTrue == TypeOK /\ RowTellsAReport

\* A final row stays as it is, and only a proof whose row is final, late or
\* gone is stopped (proof_request_update, fail_missing_proofs).
RowsAreHeeded == FinalRowStays /\ OnlyGoneProofsStopped

\* A recorded result reaches the row in the end, or the row has been settled
\* otherwise; only a restart may lose it before (reissue_lost_status_write).
RecordedResultLands ==
    \A p \in Proofs : task_map[p] \in Terminal ~> RowSettled(p) \/ p \notin recorded

\* A proof whose row was cancelled, or claimed from a listing taken before its
\* result landed, does not run on: the coordinator lets go of it in the end.
SettledProofEnds ==
    \A p \in Proofs : RowSettled(p) /\ p \in proofs ~> p \notin proofs

\* Every complete row that is Pending is claimed in the end, also after a
\* restart, unless it leaves the listing first.
PendingRowClaimed ==
    \A p \in Proofs : rows[p] # NoRow /\ rows[p].whole
                        ~> task_map[p] # Untracked \/ ~StillPending(p, Late)

\* A tracked proof is being proved, or its result is on its way to the row:
\* what TaskState::Pending ("Claimed and still proving.") says of an entry.
PendingMeansProving ==
    \A p \in Proofs : task_map[p] = "Pending" /\ StillPending(p, Late) =>
        \/ p \in proofs \cup completing
        \/ \E i \in DOMAIN results : results[i].id = p
=============================================================================
