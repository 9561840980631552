--------------------------- MODULE MCProofClaimer ---------------------------
(* Instances of ProofClaimer for TLC.                                       *)
EXTENDS ProofClaimer, TLC

CONSTANTS p1, p2

\* Rows that leave the listing while it is walked.
PagingFaults == {"cancel"}
\* Writes that fail or come late, and reads that fail.
WriteFaults == {"cancel", "gaveup", "lost", "unread", "failure"}

(* Two bounds in one run: one row and every fault, or two rows whose       *)
(* listing shifts under the walk.                                          *)
VARIABLE bound

Paging == INSTANCE ProofClaimer WITH Happens <- PagingFaults, MaxRestarts <- 0

BoundedInit == Init /\ bound \in {"one row", "two rows"}

BoundedNext ==
    /\ UNCHANGED bound
    /\ \/ bound = "one row" /\ Next /\ rows'[p2] = NoRow
       \/ bound = "two rows" /\ Paging!Next

BoundedSpec == BoundedInit /\ [][BoundedNext]_<<vars, bound>>
=============================================================================
