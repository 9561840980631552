------------------------------- MODULE Fulfiller -------------------------------
(***************************************************************************)
(* The fulfiller's loop (crates/fulfillment/src/lib.rs) between the prover *)
(* network and the cluster API, with the mainnet network client            *)
(* (bin/fulfiller/src/mainnet.rs).                                         *)
(*                                                                         *)
(* Four phases follow each other: submit, fail, cancel, schedule.  A phase *)
(* lists requests, then handles each one in a task of its own; the tasks   *)
(* run side by side and the phase ends with the last of them.  Every call  *)
(* may fail, or act and lose its answer, and the process may stop at any   *)
(* point and start again.  The network is external: it takes a signed      *)
(* message only with the signer's current nonce, from the assigned         *)
(* fulfiller, and only once.                                               *)
(***************************************************************************)
EXTENDS ClusterApi, FiniteSets

CONSTANTS
    Fulfillers,   \* processes that share the cluster, each with its own signer
    Requests,     \* requests of the network
    Chosen,       \* those request_probability keeps: fixed by the bytes of the id
    Invalid,      \* requests whose proof the network does not verify
    MayExpire,    \* bound: ids whose deadline passes during a behaviour
    Foreign,      \* rows created by others: their id is not a network id
    NoOne         \* no name, no kind

Ids == Requests \cup Foreign

VARIABLES
    named,      \* every fulfiller has a `name`, which tags and filters its rows
    assignee,   \* [request -> the fulfiller it is assigned to; NoOne for another prover]
    net,        \* [request -> "assigned", "fulfilled" or "unfulfillable"]
    exec,       \* [request -> the network found it "unexecutable", or "ok"]
    shared,     \* the signers also sign elsewhere, e.g. for the bidder
    rows,       \* the cluster's table of proof requests
    owner,      \* [id -> scheduled_by of its row]
    late,       \* ids whose deadline has passed: no listing has them
    inputs,     \* <<request, artifact>> that are in the cluster's store
    proofs,     \* ids whose proof artifact is in the cluster's store
    phase,      \* [fulfiller -> "submit", "fail", "cancel" or "schedule"]
    listed,     \* [fulfiller -> the phase has listed its requests]
    step,       \* [fulfiller, id -> where the task of that request is]
    kind,       \* [fulfiller, id -> its CancelableKind]
    current     \* [fulfiller -> ids that read a nonce which is still the signer's]

netVars == <<assignee, net, exec, shared>>
clusterVars == <<rows, owner, late, inputs, proofs>>
taskVars == <<step, kind, current>>
vars == <<named, netVars, clusterVars, phase, listed, taskVars>>

Idle == [i \in Ids |-> "idle"]
NoKind == [i \in Ids |-> NoOne]
Inputs == {"program", "stdin"}

Init ==
    /\ named \in BOOLEAN
    /\ assignee \in [Requests -> Fulfillers \cup {NoOne}]
    /\ net = [r \in Requests |-> "assigned"] /\ exec = [r \in Requests |-> "ok"]
    /\ shared \in BOOLEAN
    /\ rows = [i \in Ids |-> NoRow] /\ owner = [i \in Ids |-> NoOne]
    /\ late = {} /\ inputs = {} /\ proofs = {}
    /\ phase = [f \in Fulfillers |-> "submit"] /\ listed = [f \in Fulfillers |-> FALSE]
    /\ step = [f \in Fulfillers |-> Idle]
    /\ kind = [f \in Fulfillers |-> NoKind]
    /\ current = [f \in Fulfillers |-> {}]

(***************************************************************************)
(* The network, the cluster and other clients.                             *)
(***************************************************************************)
NetworkMoves(r) ==
    /\ net[r] = "assigned"
    /\ \/ exec[r] = "ok" /\ exec' = [exec EXCEPT ![r] = "unexecutable"] /\ UNCHANGED net
       \/ /\ \E s \in {"fulfilled", "unfulfillable"} : net' = [net EXCEPT ![r] = s]
          /\ UNCHANGED exec
    /\ UNCHANGED <<named, assignee, shared, clusterVars, phase, listed, taskVars>>

\* another process uses the same key: the nonce moves on
SignerUsedElsewhere(f) ==
    /\ shared /\ current[f] # {}
    /\ current' = [current EXCEPT ![f] = {}]
    /\ UNCHANGED <<named, netVars, clusterVars, phase, listed, step, kind>>

\* the coordinator's status write; the proof was uploaded before
ProofEnds(i, s) ==
    /\ rows[i] # NoRow /\ rows[i].status = "Pending"
    /\ rows' = CompletedIn(rows, i, s)
    /\ proofs' = IF s = "Completed" THEN proofs \cup {i} ELSE proofs
    /\ UNCHANGED <<named, netVars, owner, late, inputs, phase, listed, taskVars>>

ForeignRow(i) ==
    /\ i \in Foreign /\ rows[i] = NoRow
    /\ rows' = Created(rows, i, TRUE)
    /\ UNCHANGED <<named, netVars, owner, late, inputs, proofs, phase, listed, taskVars>>

\* the deadline of a request passes: it leaves every listing
DeadlinePasses(i) ==
    /\ i \in MayExpire \ late
    /\ late' = late \cup {i}
    /\ UNCHANGED <<named, netVars, rows, owner, inputs, proofs, phase, listed, taskVars>>

(***************************************************************************)
(* The loop.                                                               *)
(***************************************************************************)
After == [submit |-> "fail", fail |-> "cancel", cancel |-> "schedule", schedule |-> "submit"]

\* Fault: every fulfiller lists the rows of all.
AnybodysRow(f, i) == TRUE

\* the scheduled_by filter of a listing: none without a name
OwnRow(f, i) == named => owner[i] = f

Live(i) == rows[i] # NoRow /\ i \notin late

\* submit_requests and fail_requests: get_all_proof_requests
Unhandled(f, s) == {i \in Ids : Live(i) /\ rows[i].status = s /\ ~rows[i].handled /\ OwnRow(f, i)}

\* MainnetFulfiller::get_cancelable_requests: what the network says of the
\* requests assigned to an address
MainnetKind(r) ==
    CASE net[r] = "assigned" /\ exec[r] = "unexecutable" -> "Unexecutable"
      [] net[r] = "unfulfillable" -> "Unfulfillable"
      [] OTHER -> NoOne

\* CancelableKind: a network other than mainnet also reports the fulfilled ones
KindOf(r) == IF net[r] = "fulfilled" THEN "Fulfilled" ELSE MainnetKind(r)

InFlight(i) == Live(i) /\ rows[i].status = "Pending"

\* cancel_requests: a fulfilled request matters only while it is proved here
Cancelable(f) ==
    {r \in Requests \ late : assignee[r] = f /\ KindOf(r) # NoOne /\ (KindOf(r) = "Fulfilled" => InFlight(r))}

\* schedule_requests: assigned to us and not yet a live row of the cluster
Schedulable(f) ==
    {r \in Chosen \ late : assignee[r] = f /\ net[r] = "assigned" /\ rows[r] = NoRow}

Listing(f) ==
    CASE phase[f] = "submit" -> Unhandled(f, "Completed")
      [] phase[f] = "fail" -> Unhandled(f, "Failed")
      [] phase[f] = "cancel" -> Cancelable(f)
      [] phase[f] = "schedule" -> Schedulable(f)

List(f) ==
    /\ ~listed[f]
    /\ listed' = [listed EXCEPT ![f] = TRUE]
    /\ step' = [step EXCEPT ![f] = [i \in Ids |-> IF i \in Listing(f) THEN "start" ELSE "idle"]]
    /\ kind' = [kind EXCEPT ![f] = [i \in Ids |->
                  IF phase[f] = "cancel" /\ i \in Listing(f) THEN KindOf(i) ELSE NoOne]]
    /\ UNCHANGED <<named, netVars, clusterVars, phase, current>>

\* all tasks are joined, or the listing failed
NextPhase(f) ==
    /\ step[f] = Idle
    /\ phase' = [phase EXCEPT ![f] = After[@]]
    /\ listed' = [listed EXCEPT ![f] = FALSE]
    /\ kind' = [kind EXCEPT ![f] = NoKind]
    /\ UNCHANGED <<named, netVars, clusterVars, step, current>>

\* the process stops and is started again
Restart(f) ==
    /\ phase' = [phase EXCEPT ![f] = "submit"] /\ listed' = [listed EXCEPT ![f] = FALSE]
    /\ step' = [step EXCEPT ![f] = Idle] /\ kind' = [kind EXCEPT ![f] = NoKind]
    /\ current' = [current EXCEPT ![f] = {}]
    /\ UNCHANGED <<named, netVars, clusterVars>>

To(f, i, s) == step' = [step EXCEPT ![f][i] = s]

\* any call of the task fails: logged, and left to the next round
TaskFails(f, i) ==
    /\ step[f][i] # "idle"
    /\ To(f, i, "idle")
    /\ current' = [current EXCEPT ![f] = @ \ {i}]
    /\ UNCHANGED <<named, netVars, clusterVars, phase, listed, kind>>

(***************************************************************************)
(* Signed messages: one at a time, under nonce_lock.                       *)
(***************************************************************************)
Signing == {"signed", "blaming"}

LockFree(f) == \A i \in Ids : step[f][i] \notin Signing

\* CancelableKind::should_fail_fulfillment
ShouldFailFulfillment(k) == k = "Unexecutable"

\* the task has something to sign now
MustSign(f, i) ==
    \/ phase[f] = "submit" /\ step[f][i] = "ready" /\ i \in Requests
    \/ phase[f] = "fail" /\ step[f][i] = "start" /\ i \in Requests
    \/ phase[f] = "cancel" /\ step[f][i] = "start" /\ ShouldFailFulfillment(kind[f][i])
    \/ step[f][i] = "mismatch"

\* the lock is taken and get_nonce answers
Sign(f, i) ==
    /\ MustSign(f, i) /\ LockFree(f)
    /\ To(f, i, IF step[f][i] = "mismatch" THEN "blaming" ELSE "signed")
    /\ current' = [current EXCEPT ![f] = @ \cup {i}]
    /\ UNCHANGED <<named, netVars, clusterVars, phase, listed, kind>>

\* external: the network's checks of a signed message
Expected(f, i) == i \in current[f] /\ net[i] = "assigned" /\ assignee[i] = f

\* the network takes the message, and the signer's nonce moves
Taken(f, i, s) == net' = [net EXCEPT ![i] = s] /\ current' = [current EXCEPT ![f] = {}]
Refused(f, i) == UNCHANGED net /\ current' = [current EXCEPT ![f] = @ \ {i}]

\* submit_request: fulfill_proof, and what the caller makes of the answer.  A
\* proof that does not verify is remembered to be failed.
SendFulfill(f, i) ==
    /\ phase[f] = "submit" /\ step[f][i] = "signed"
    /\ \/ Expected(f, i) /\ i \notin Invalid /\ Taken(f, i, "fulfilled") /\ To(f, i, "answered")
       \/ Expected(f, i) /\ i \notin Invalid /\ Taken(f, i, "fulfilled") /\ To(f, i, "idle")
       \/ Expected(f, i) /\ i \in Invalid /\ Refused(f, i) /\ To(f, i, "mismatch")
       \/ ~Expected(f, i) /\ Refused(f, i) /\ To(f, i, "idle")
    /\ UNCHANGED <<named, assignee, exec, shared, clusterVars, phase, listed, kind>>

\* fail_request_with_error: fail_fulfillment.  A refusal counts as an answer,
\* but one over the nonce is an error like any other.
SendFail(f, i) ==
    /\ step[f][i] = "blaming" \/ (phase[f] \in {"fail", "cancel"} /\ step[f][i] = "signed")
    /\ LET answered == IF step[f][i] = "blaming" THEN "idle" ELSE "answered"
       IN \/ Expected(f, i) /\ Taken(f, i, "unfulfillable") /\ To(f, i, answered)
          \/ Expected(f, i) /\ Taken(f, i, "unfulfillable") /\ To(f, i, "idle")
          \/ i \in current[f] /\ ~Expected(f, i) /\ Refused(f, i) /\ To(f, i, answered)
          \/ i \notin current[f] /\ Refused(f, i) /\ To(f, i, "idle")
    /\ UNCHANGED <<named, assignee, exec, shared, clusterVars, phase, listed, kind>>

(***************************************************************************)
(* The other steps of a task.                                              *)
(***************************************************************************)
DownloadProof(f, i) ==
    /\ phase[f] = "submit" /\ step[f][i] = "start" /\ i \in proofs
    /\ To(f, i, "ready")
    /\ UNCHANGED <<named, netVars, clusterVars, phase, listed, kind, current>>

\* the network has answered, or need not be asked: the id is not one of its own
MayMark(f, i) ==
    \/ phase[f] \in {"submit", "fail"} /\ step[f][i] = "answered"
    \/ phase[f] = "submit" /\ step[f][i] = "ready" /\ i \in Foreign

\* update_proof_request with handled; the answer may be lost
MarkHandled(f, i) ==
    /\ MayMark(f, i)
    /\ rows' = HandledIn(rows, i)
    /\ \/ To(f, i, IF phase[f] = "submit" /\ i \in Requests THEN "marked" ELSE "idle")
       \/ To(f, i, "idle")
    /\ UNCHANGED <<named, netVars, owner, late, inputs, proofs, phase, listed, kind, current>>

\* Fault: the artifact goes as soon as the network has answered.
DeletesEarly(f, i) == phase[f] = "submit" /\ step[f][i] \in {"answered", "marked"}

MayDelete(f, i) == step[f][i] = "marked"

DeleteProof(f, i) ==
    /\ MayDelete(f, i)
    /\ proofs' = proofs \ {i}
    /\ To(f, i, IF step[f][i] = "marked" THEN "idle" ELSE step[f][i])
    /\ UNCHANGED <<named, netVars, rows, owner, late, inputs, phase, listed, kind, current>>

\* cancel_on_cluster
CancelOnCluster(f, i) ==
    /\ phase[f] = "cancel"
    /\ \/ step[f][i] = "answered"
       \/ step[f][i] = "start" /\ ~ShouldFailFulfillment(kind[f][i])
    /\ rows' = CancelledIn(rows, i)
    /\ To(f, i, "idle")
    /\ UNCHANGED <<named, netVars, owner, late, inputs, proofs, phase, listed, kind, current>>

\* copy_artifact, of the program and then of the stdin
CopyArtifact(f, i) ==
    /\ phase[f] = "schedule"
    /\ \/ step[f][i] = "start" /\ inputs' = inputs \cup {<<i, "program">>} /\ To(f, i, "program")
       \/ step[f][i] = "program" /\ inputs' = inputs \cup {<<i, "stdin">>} /\ To(f, i, "copied")
    /\ UNCHANGED <<named, netVars, rows, owner, late, proofs, phase, listed, kind, current>>

Copied == {"copied"}

\* create_proof_request, tagged with the name.  A row that is already there
\* stays as it is (AlreadyInCluster).
ScheduleRequest(f, i) ==
    /\ phase[f] = "schedule" /\ step[f][i] \in Copied
    /\ rows' = Created(rows, i, TRUE)
    /\ owner' = IF rows[i] = NoRow /\ named THEN [owner EXCEPT ![i] = f] ELSE owner
    /\ To(f, i, "idle")
    /\ UNCHANGED <<named, netVars, late, inputs, proofs, phase, listed, kind, current>>

Task(f, i) ==
    \/ Sign(f, i) \/ SendFulfill(f, i) \/ SendFail(f, i) \/ DownloadProof(f, i)
    \/ MarkHandled(f, i) \/ DeleteProof(f, i) \/ CancelOnCluster(f, i)
    \/ CopyArtifact(f, i) \/ ScheduleRequest(f, i)

Next ==
    \/ \E r \in Requests : NetworkMoves(r)
    \/ \E i \in Ids : DeadlinePasses(i) \/ ForeignRow(i) \/ (\E s \in {"Completed", "Failed"} : ProofEnds(i, s))
    \/ \E f \in Fulfillers : List(f) \/ NextPhase(f) \/ Restart(f) \/ SignerUsedElsewhere(f)
    \/ \E f \in Fulfillers, i \in Ids : Task(f, i) \/ TaskFails(f, i)

Spec == Init /\ [][Next]_vars

(***************************************************************************)
(* What must hold.                                                         *)
(***************************************************************************)
\* A row is marked handled only when the network has its answer: the mark takes
\* the row out of every later listing, so an answer lost before it would never
\* be sent again.  Fulfillers that share a cluster need names for this, because
\* the network's refusal of another's message counts as an answer.
HandledMeansSettled ==
    named => \A r \in Requests :
        rows[r] # NoRow /\ rows[r].handled =>
            net[r] # "assigned" /\ (rows[r].status = "Completed" => net[r] = "fulfilled")

\* The proof of a completed request stays in the store until its row is marked
\* handled: after a crash it is downloaded and submitted again.
ProofKeptUntilHandled ==
    \A i \in Ids : rows[i] # NoRow /\ rows[i].status = "Completed" /\ ~rows[i].handled => i \in proofs

\* Under nonce_lock no message of this process makes another one's nonce stale:
\* only another process with the same key can.
OwnNonceIsCurrent ==
    ~shared => \A f \in Fulfillers, i \in Ids : step[f][i] \in Signing => i \in current[f]

\* The cluster stops proving a request only when the network no longer waits
\* for it: an unexecutable request is failed there before it is cancelled here.
CancelledIsReleased ==
    \A r \in Requests : rows[r] # NoRow /\ rows[r].status = "Cancelled" => net[r] # "assigned"

\* A request is a row of the cluster only once its program and its stdin are in
\* the cluster's store, whatever part of the copying an earlier round had done.
RowHasInputs ==
    \A r \in Requests : rows[r] # NoRow => {r} \X Inputs \subseteq inputs
================================================================================
