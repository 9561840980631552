----------------------------- MODULE ClusterApi -----------------------------
(***************************************************************************)
(* The table of proof requests behind the cluster API and the operations   *)
(* that read and write it (src/bin/api/src/service.rs), with the paged     *)
(* walk of its client (src/crates/common/src/client.rs).                   *)
(*                                                                         *)
(* The table is a function from ids to rows; an id without a row maps to   *)
(* NoRow.  A row keeps what its readers tell apart: the proof status, the  *)
(* handled mark, whether the deadline has passed, and whether the optional *)
(* fields the coordinator needs are all there.  Rows are listed in the     *)
(* order of their creation; a listing is given as the set of its rows. An  *)
(* operation is one SQL statement, so it is atomic; it is given as the     *)
(* table it leaves.                                                        *)
(***************************************************************************)
EXTENDS Naturals, FiniteSets

CONSTANTS
    NoRow,      \* what the table holds for an id that was never created
    PageSize,   \* PROOF_REQUEST_PAGE_SIZE
    MaxPages    \* MAX_PAGES

ASSUME PagingAssumption == PageSize \in Nat \ {0} /\ MaxPages \in Nat \ {0}

\* ProofRequestStatus
FinalStatus == {"Completed", "Failed", "Cancelled"}
RowStatus == FinalStatus \cup {"Pending"}

\* DbProofRequest
ProofRequest == [status: RowStatus, handled: BOOLEAN, expired: BOOLEAN, whole: BOOLEAN]

ASSUME RowAssumption == NoRow \notin ProofRequest

\* proof_request_create: a new row is Pending and not handled.  A second
\* insert under the same id violates the key and leaves the table alone.
Created(rows, p, whole) ==
    IF rows[p] = NoRow
    THEN [rows EXCEPT ![p] = [status |-> "Pending", handled |-> FALSE,
                              expired |-> FALSE, whole |-> whole]]
    ELSE rows

\* proof_request_cancel: only a Pending row is touched.
CancelledIn(rows, p) ==
    IF rows[p] # NoRow /\ rows[p].status = "Pending"
    THEN [rows EXCEPT ![p].status = "Cancelled"] ELSE rows

\* proof_request_update without the guard on Pending: a stale completion
\* overwrites whatever the row has become.
UnguardedCompletion(rows, p, status) ==
    IF rows[p] # NoRow THEN [rows EXCEPT ![p].status = status] ELSE rows

\* proof_request_update with proof_status set: the statement is guarded by
\* proof_status = Pending; when it matches no row the write is moot and the
\* answer is still Ok.
CompletedIn(rows, p, status) ==
    IF rows[p] # NoRow /\ rows[p].status = "Pending"
    THEN [rows EXCEPT ![p].status = status] ELSE rows

\* proof_request_update that sets only the handled mark: no guard.
HandledIn(rows, p) ==
    IF rows[p] # NoRow THEN [rows EXCEPT ![p].handled = TRUE] ELSE rows

\* proof_request_list: of the rows that match the filter, in the order of
\* their creation, those after the first offset and at most limit of them.
Page(match, created, offset, limit) ==
    LET Place(p) == Cardinality({q \in match : created[q] <= created[p]})
    IN {p \in match : Place(p) \in (offset + 1) .. (offset + limit)}

\* drain_pages: the walk goes on after a full page, up to MAX_PAGES.
WalkGoesOn(page, pageIdx) == Cardinality(page) = PageSize /\ pageIdx + 1 < MaxPages

\* dedup_by_id: a row seen on two pages counts once.
Deduped(all, page) == all \cup page
=============================================================================
