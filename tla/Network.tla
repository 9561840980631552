---------------------------------- MODULE Network ----------------------------------
(***************************************************************************)
(* The programs that face the prover network, each over variables of its   *)
(* own: the fulfiller (Fulfiller) and the bidder (Bidder), and what must   *)
(* hold of them.                                                           *)
(***************************************************************************)
EXTENDS ClusterApi, Integers

CONSTANTS
    Fulfillers, Requests, Chosen, Invalid, MayExpire, Foreign, NoOne,  \* of the fulfiller
    Auctions, Slots, PageLimit, Disabled, Short, PerfShort, StaticBid, Tick, Target, Prices,
    Enforced, Floor, Ceil, NoPrice, MaxBidFaults                       \* of the bidder

\* A row created by others is under no id of the network's, and the requests
\* that are kept are some of those it has.
ASSUME ForeignAssumption ==
    Requests \cap Foreign = {} /\ Chosen \subseteq Requests /\ NoOne \notin Fulfillers

\* What the network lists and prices, and what validate_bid_amount and
\* fetch_tick_size make sure of before the first pass.
ASSUME BidAssumption ==
    /\ Auctions \subseteq Nat /\ IsFiniteSet(Auctions) /\ Slots \in Nat /\ PageLimit \in Nat \ {0}
    /\ Tick \in Nat \ {0} /\ StaticBid \in Nat \ {0} /\ StaticBid % Tick = 0
    /\ Target \in Nat /\ Prices \subseteq Nat
    /\ Floor \in [Auctions -> Nat] /\ Ceil \in [Auctions -> Nat]

VARIABLES
    named, assignee, net, exec, shared, rows, owner, late, inputs, proofs, phase, listed,
    step, kind, current,
    auction, aggressive, usd_bid, cache, requirements, suspended, passAt, biddable, over,
    fetched, count, page, pending, task, amount, nonces, forgotten, bidFaults

fulfillerVars == <<named, assignee, net, exec, shared, rows, owner, late, inputs, proofs,
                   phase, listed, step, kind, current>>
bidderVars == <<auction, aggressive, usd_bid, cache, requirements, suspended, passAt, biddable,
                over, fetched, count, page, pending, task, amount, nonces, forgotten, bidFaults>>

Ful == INSTANCE Fulfiller

Bidding == INSTANCE Bidder WITH Requests <- Auctions, at <- passAt

------------------------------------------------------------------------------------
\* A row is marked handled, or cancelled, only when the network waits for
\* nothing more, and messages of one process make no other one's nonce stale
\* (submit_request, fail_request, cancel_requests, nonce_lock).
MarksAreEarned == Ful!HandledMeansSettled /\ Ful!CancelledIsReleased /\ Ful!OwnNonceIsCurrent

\* A proof is deleted only after its row is marked handled, and a row has its
\* program and stdin in the store (submit_request, schedule_request).
ArtifactsKept == Ful!ProofKeptUntilHandled /\ Ful!RowHasInputs

\* Assigned requests and bids that may still win fit the slots, and bids are
\* positive, affordable and on the tick (bid_requests, bid_amount_outcome).
BidsFit == Bidding!CommittedFits /\ Bidding!BidsAreValid
====================================================================================
