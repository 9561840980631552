--------------------------------- MODULE Bidder ---------------------------------
(***************************************************************************)
(* The bidder's pass (bin/bidder/src/lib.rs): list what can be bid on,     *)
(* list what is assigned to us page by page, count our own bids that wait  *)
(* for their auction, decide, and bid on what was admitted in tasks that   *)
(* run side by side.                                                       *)
(*                                                                         *)
(* The network is external: it takes a bid with the signer's current nonce *)
(* on a request that is still open, and settles the auction later.  The    *)
(* ledger of pending bids and the admission test are spn_bidding's, also   *)
(* external: the ledger keeps a bid until it is visible in a listing or    *)
(* its auction was over when the pass began; the test refuses everything   *)
(* beyond the controller slots and may refuse anything else.               *)
(***************************************************************************)
EXTENDS Integers, FiniteSets

CONSTANTS
    Requests,     \* a set of numbers: the order in which the network lists them
    Slots,        \* the sum of cpu_worker_max_weights
    PageLimit,    \* REQUEST_LIMIT
    Disabled,     \* requests of a proof mode that is not served
    Short,        \* requests whose deadline is below min_deadline_secs
    PerfShort,    \* those below it once clamped to the performance budget
    StaticBid,    \* bid_amount
    Tick,         \* tick_size
    Target,       \* USD target times 10^9
    Prices,       \* PROVE/USD prices the network may publish
    Enforced,     \* whether the network may have performance requirements: in BOOLEAN
    Floor, Ceil,  \* [request -> floor and max price per PGU]
    NoPrice,      \* the empty PROVE/USD cache
    MaxBidFaults  \* bound on failed calls, restarts and suspensions

VARIABLES
    auction,      \* [request -> "hidden", "open", "bid", "assigned" or "over"]
    aggressive,   \* aggressive_mode
    usd_bid,      \* USD bids are enabled
    cache,        \* prove_usd_cache: a price, NoPrice, or NoPrice once it is stale
    requirements, \* performance requirements are known
    suspended,    \* suspended_until is in the future
    at,           \* where the pass is
    biddable,     \* requests the pass may bid on
    over,         \* bids whose auction was over when the pass began
    fetched,      \* assigned requests on the pages fetched so far
    count,        \* how many rows those pages had; later active_proofs
    page,         \* next page
    pending,      \* pending_bids
    task,         \* [request -> "none", "start" or "signed"]
    amount,       \* [request -> its bid]
    nonces,       \* tasks that read a nonce which is still the signer's
    forgotten,    \* pending bids lost with the process
    bidFaults

configVars == <<aggressive, usd_bid>>
policyVars == <<cache, requirements, suspended>>
passVars == <<biddable, over, fetched, count, page>>
taskVars == <<task, amount, nonces>>
vars == <<auction, configVars, policyVars, at, passVars, pending, taskVars, forgotten, bidFaults>>

Init ==
    /\ auction = [r \in Requests |-> "hidden"]
    /\ aggressive \in BOOLEAN /\ usd_bid \in BOOLEAN
    /\ cache = NoPrice /\ requirements = FALSE /\ suspended = FALSE
    /\ at = "idle" /\ biddable = {} /\ over = {} /\ fetched = {} /\ count = 0 /\ page = 1
    /\ pending = {} /\ forgotten = {} /\ bidFaults = 0
    /\ task = [r \in Requests |-> "none"] /\ amount = [r \in Requests |-> 0] /\ nonces = {}

BidFault == bidFaults < MaxBidFaults /\ bidFaults' = bidFaults + 1

(***************************************************************************)
(* The network.                                                            *)
(***************************************************************************)
AuctionMoves(r) ==
    /\ \/ auction[r] = "hidden" /\ auction' = [auction EXCEPT ![r] = "open"]
       \/ auction[r] = "bid" /\ auction' = [auction EXCEPT ![r] = "assigned"]
       \/ auction[r] \in {"open", "bid", "assigned"} /\ auction' = [auction EXCEPT ![r] = "over"]
    /\ UNCHANGED <<configVars, policyVars, at, passVars, pending, taskVars, forgotten, bidFaults>>

InState(a) == {r \in Requests : auction[r] = a}

\* external, get_filtered_proof_requests: one page of a listing, in its order
Page(S, n) ==
    LET Place(r) == Cardinality({q \in S : q <= r})
    IN {r \in S : Place(r) \in (n - 1) * PageLimit + 1 .. n * PageLimit}

(***************************************************************************)
(* The background tasks.                                                   *)
(***************************************************************************)
\* fetch_and_cache_prove_usd, by the prime at startup or the refresh task;
\* and a price that grows too old
RefreshPrice ==
    /\ usd_bid
    /\ cache' \in Prices \cup {NoPrice}
    /\ UNCHANGED <<auction, configVars, requirements, suspended, at, passVars, pending, taskVars, forgotten, bidFaults>>

\* Fault: a suspension once seen is never lifted.
StaysSuspended == suspended

\* the network's suspended_until has passed, or was never set
Lifted == FALSE

\* sync_requirements and sync_prover_status; an error keeps what was there
SyncPolicy ==
    /\ requirements' \in Enforced
    /\ \/ suspended' = Lifted /\ UNCHANGED bidFaults
       \/ suspended' = TRUE /\ ~suspended /\ BidFault
    /\ UNCHANGED <<auction, configVars, cache, at, passVars, pending, taskVars, forgotten>>

(***************************************************************************)
(* A pass.                                                                 *)
(***************************************************************************)
\* bid_requests: nothing while suspended; else what is open and not bid by us,
\* of which the listing has one page
ListBiddable ==
    /\ at = "idle" /\ ~suspended
    /\ at' = "paging"
    /\ biddable' = Page(InState("open"), 1)
    /\ over' = {r \in pending : auction[r] \in {"assigned", "over"}}
    /\ fetched' = {} /\ count' = 0 /\ page' = 1
    /\ UNCHANGED <<auction, configVars, policyVars, pending, taskVars, forgotten, bidFaults>>

\* fetch_assigned_requests: a page that is not full is the last, and past the
\* slots the exact number no longer matters
LastPage(batch, n) == Cardinality(batch) # PageLimit \/ n > Slots

FetchPage ==
    /\ at = "paging"
    /\ LET batch == Page(InState("assigned"), page)
           n == count + Cardinality(batch)
       IN /\ fetched' = fetched \cup batch
          /\ count' = n
          /\ IF LastPage(batch, n)
             THEN at' = "reconciling" /\ UNCHANGED page
             ELSE page' = page + 1 /\ UNCHANGED at
    /\ UNCHANGED <<auction, configVars, policyVars, biddable, over, pending, taskVars, forgotten, bidFaults>>

\* external, PendingBids::reconcile_into: the bids that are still out
Outstanding == pending \ (biddable \cup fetched \cup over)

\* resolve_gas_estimates and reconcile_pending_bids
Reconcile ==
    /\ at = "reconciling"
    /\ pending' = Outstanding
    /\ count' = count + Cardinality(Outstanding)
    /\ at' = IF biddable = {} THEN "idle" ELSE "deciding"
    /\ UNCHANGED <<auction, configVars, policyVars, biddable, over, fetched, page, taskVars, forgotten, bidFaults>>

SubTick(wei) == (wei \div Tick) * Tick = 0

\* bid_amount_outcome: the USD target at the cached price, rounded down to the
\* tick; the static amount without a fresh price, with a price of zero, and
\* when less than a tick is left
BidAmount ==
    IF ~usd_bid \/ cache = NoPrice \/ cache = 0 THEN StaticBid
    ELSE LET wei == Target \div cache
         IN IF SubTick(wei) THEN StaticBid ELSE (wei \div Tick) * Tick

AtLeastFloor(r) == IF BidAmount < Floor[r] THEN Floor[r] ELSE BidAmount

Affordable(r) == AtLeastFloor(r) <= Ceil[r]

\* the aggressive mode's only test: effective_request_duration
LongEnough(r) == r \notin Short /\ (requirements => r \notin PerfShort)

\* Fault: a request that is admitted does not count for the next one.
EachAlone(R) == R = {} \/ count < Slots

\* admit_request for each in turn: external beyond the cap on active_proofs
AdmittedTogether(R) == R = {} \/ count + Cardinality(R) <= Slots

Bid(R) ==
    /\ at' = "bidding" /\ biddable' = {}
    /\ task' = [r \in Requests |-> IF r \in R THEN "start" ELSE "none"]
    /\ amount' = [r \in Requests |-> IF r \in R THEN AtLeastFloor(r) ELSE 0]

Decide ==
    /\ at = "deciding"
    /\ LET affordable == {r \in biddable : Affordable(r)}
       IN \/ /\ aggressive
             /\ Bid({r \in affordable : LongEnough(r)})
             /\ UNCHANGED pending
          \/ /\ ~aggressive
             /\ \E R \in SUBSET (affordable \ Disabled) :
                   /\ AdmittedTogether(R)
                   /\ Bid(R)
                   /\ pending' = pending \cup R
    /\ UNCHANGED <<auction, configVars, policyVars, over, fetched, count, page, nonces, forgotten, bidFaults>>

\* bid_request: get_nonce, then the signed bid
GetNonce(r) ==
    /\ task[r] = "start"
    /\ task' = [task EXCEPT ![r] = "signed"]
    /\ nonces' = nonces \cup {r}
    /\ UNCHANGED <<auction, configVars, policyVars, at, passVars, pending, amount, forgotten, bidFaults>>

SendBid(r) ==
    /\ task[r] = "signed"
    /\ task' = [task EXCEPT ![r] = "none"]
    /\ IF r \in nonces /\ auction[r] = "open"
       THEN auction' = [auction EXCEPT ![r] = "bid"] /\ nonces' = {}
       ELSE UNCHANGED auction /\ nonces' = nonces \ {r}
    /\ UNCHANGED <<configVars, policyVars, at, passVars, pending, amount, forgotten, bidFaults>>

EndPass ==
    /\ at = "bidding" /\ \A r \in Requests : task[r] = "none"
    /\ at' = "idle"
    /\ amount' = [r \in Requests |-> 0]
    /\ UNCHANGED <<auction, configVars, policyVars, passVars, pending, task, nonces, forgotten, bidFaults>>

\* a call of the pass or of a task fails; a lost answer to a bid is SendBid
CallFails ==
    /\ BidFault
    /\ \/ /\ at \in {"paging", "reconciling"} /\ at' = "idle"
          /\ UNCHANGED <<task, nonces>>
       \/ \E r \in Requests : /\ task[r] # "none"
                              /\ task' = [task EXCEPT ![r] = "none"]
                              /\ nonces' = nonces \ {r}
                              /\ UNCHANGED at
    /\ UNCHANGED <<auction, configVars, policyVars, passVars, pending, amount, forgotten>>

\* the ledger and the caches live in memory
Restart ==
    /\ BidFault
    /\ at' = "idle" /\ task' = [r \in Requests |-> "none"] /\ nonces' = {}
    /\ amount' = [r \in Requests |-> 0] /\ biddable' = {}
    /\ pending' = {} /\ forgotten' = forgotten \cup pending
    /\ cache' = NoPrice /\ requirements' = FALSE /\ suspended' = FALSE
    /\ UNCHANGED <<auction, configVars, over, fetched, count, page>>

Next ==
    \/ \E r \in Requests : AuctionMoves(r) \/ GetNonce(r) \/ SendBid(r)
    \/ RefreshPrice \/ SyncPolicy \/ ListBiddable \/ FetchPage \/ Reconcile \/ Decide
    \/ EndPass \/ CallFails \/ Restart

Pass == ListBiddable \/ FetchPage \/ Reconcile \/ Decide \/ EndPass
Fairness == WF_vars(Pass) /\ WF_vars(SyncPolicy) /\ \A r \in Requests : WF_vars(GetNonce(r) \/ SendBid(r))

Spec == Init /\ [][Next]_vars

(***************************************************************************)
(* What must hold.                                                         *)
(***************************************************************************)
\* What is assigned to us, together with our bids that may still win, fits the
\* controller slots, although assignments arrive between the listings and pages
\* shift while they are fetched; only bids a restart forgot can come on top.
CommittedFits ==
    ~aggressive =>
        Cardinality({r \in Requests \ forgotten : auction[r] \in {"bid", "assigned"}}) <= Slots

\* Every bid is positive, at most what the requester pays, and a multiple of
\* the tick unless the requester's own floor price raised it.
BidsAreValid ==
    \A r \in Requests : task[r] # "none" =>
        amount[r] > 0 /\ amount[r] <= Ceil[r] /\ (amount[r] % Tick = 0 \/ amount[r] = Floor[r])

\* Tasks that lose the race for the nonce are bid again on a later pass: in
\* aggressive mode a request that stays open is bid on in the end.
LosersBidAgain ==
    \A r \in Requests \ (Short \cup PerfShort) :
        (aggressive /\ auction[r] = "open" /\ Floor[r] <= StaticBid /\ StaticBid <= Ceil[r] /\ ~usd_bid)
            ~> auction[r] # "open"
=================================================================================
