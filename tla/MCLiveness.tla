----------------------------- MODULE MCLiveness -----------------------------
(* What must happen in the end, of four components in one run: the bridge  *)
(* to the API, the worker's main loop, its watch over the stream, and the  *)
(* bidder.  One of them moves, the others stand at their first state.      *)
EXTENDS WorkerNode

CONSTANTS p1, NoRow, NoPrice

VARIABLES
    part,  \* the component that moves
    rows, created, wire, acks, task_map, proofs, completing, results, writer,
    inflight, claimer, reported, recorded, restarts,
    reachable, stream, prompt, pumped, buffered, stalled, asleep, tick, lastTick,
    progress, heartbeat, unread, outage, exited,
    auction, aggressive, usd_bid, cache, requirements, suspended, passAt, biddable, over,
    fetched, count, page, pending, task, amount, nonces, forgotten, bidFaults

bridge == <<rows, created, wire, acks, task_map, proofs, completing, results,
            writer, inflight, claimer, reported, recorded, restarts>>
watch == <<reachable, stream, prompt, pumped, buffered, stalled, asleep, tick,
           lastTick, progress, heartbeat, unread, outage, exited>>
bidder == <<auction, aggressive, usd_bid, cache, requirements, suspended, passAt, biddable,
            over, fetched, count, page, pending, task, amount, nonces, forgotten, bidFaults>>

Bridge == INSTANCE ProofClaimer WITH
    Proofs <- {p1}, PageSize <- 1, MaxPages <- 1, MaxRestarts <- 0, MaxResults <- 1,
    Happens <- {"cancel", "lost", "unread", "failure"}

\* The intervals of the code in their order, few enough for TLC.
Watchdog == INSTANCE SilenceWatchdog WITH
    Period <- 1, StalledTickGap <- 2, MaxSilence <- 3, HeartbeatQuiet <- 2,
    PromptInterval <- 1, Cap <- 4

Bidding == INSTANCE Bidder WITH
    Requests <- 1..2, Slots <- 1, PageLimit <- 2, Disabled <- {}, Short <- {}, PerfShort <- {2},
    StaticBid <- 5, Tick <- 5, Target <- 12, Prices <- {}, Enforced <- {TRUE},
    MaxBidFaults <- 1, Floor <- <<0, 7>>, Ceil <- <<12, 12>>, at <- passAt

LiveInit ==
    /\ part \in {"bridge", "node", "watchdog", "bidder"}
    /\ Init /\ Bridge!Init /\ Watchdog!Init
    /\ Bidding!Init /\ aggressive = (part = "bidder") /\ ~usd_bid
    /\ part # "watchdog" => stream = "flowing"

LiveNext ==
    /\ UNCHANGED part
    /\ \/ part = "bridge" /\ Bridge!Next /\ UNCHANGED <<vars, watch, bidder>>
       \/ part = "node" /\ Next /\ UNCHANGED <<bridge, watch, bidder>>
       \/ part = "watchdog" /\ Watchdog!Next /\ UNCHANGED <<vars, bridge, bidder>>
       \/ part = "bidder" /\ Bidding!Next /\ UNCHANGED <<vars, bridge, watch>>

\* The loops run on; a client that keeps retrying is answered in the end: some
\* listing, row read and write succeeds among infinitely many; a proof whose
\* row is settled is finished by its workers.
Moving(A) == part = "bridge" /\ A

BridgeFairness ==
    /\ WF_bridge(Moving(Bridge!StatusTask))
    /\ WF_bridge(Moving(Bridge!StartPoll \/ Bridge!StartConfirm \/ Bridge!SweepUnconfirmed))
    /\ SF_bridge(Moving(Bridge!ListPage))
    /\ WF_bridge(Moving(Bridge!SkipRow(p1) \/ Bridge!ClaimRow(p1) \/ Bridge!InsertPending(p1)))
    /\ SF_bridge(Moving(Bridge!ConfirmRead(p1)))
    /\ WF_bridge(Moving(Bridge!ConfirmFails(p1) \/ Bridge!StopGone(p1)))
    /\ WF_bridge(Moving(Bridge!SendSuccess(p1)))
    /\ WF_bridge(Moving(Bridge!FinishProof(p1)))
    /\ \A s \in Bridge!Terminal :
        /\ SF_bridge(Moving(Bridge!ApplyWrite(Bridge!Write("reissue", p1, s), TRUE)))
        /\ SF_bridge(Moving(Bridge!ReissueOk(Bridge!Write("reissue", p1, s))))
        /\ WF_bridge(Moving(Bridge!ReissueFails(Bridge!Write("reissue", p1, s))))

\* The runtime wakes from its stalls and its loop is scheduled; clocks advance.
Watching(A) == part = "watchdog" /\ ~exited /\ A

WatchdogFairness ==
    /\ WF_watch(Watching(Watchdog!Worker))
    /\ WF_watch(Watching(Watchdog!Second \/ Watchdog!PromptArrives))

\* The pass comes round, its tasks end, and the policy is synced again.
Bids(A) == part = "bidder" /\ A

BidderFairness ==
    /\ WF_bidder(Bids(Bidding!Pass)) /\ WF_bidder(Bids(Bidding!SyncPolicy))
    /\ \A r \in 1..2 : WF_bidder(Bids(Bidding!GetNonce(r) \/ Bidding!SendBid(r)))

\* The node at its first state has no fair step to take.
PartsSpec ==
    /\ LiveInit /\ [][LiveNext]_<<part, vars, bridge, watch, bidder>>
    /\ BridgeFairness /\ Fairness /\ WatchdogFairness /\ BidderFairness

\* Work past its time limit is reported, and a node told to stop leaves
\* (timeout_action, spawn_wedged_report, the drain of run_worker_inner).
NodeAnswersAndLeaves == OverdueIsReported /\ StoppedNodeLeaves
\* A result the bridge has recorded reaches its row (reissue_lost_status_write).
RecordedResultLands == Bridge!RecordedResultLands
\* A row that stays Pending is claimed and a proof whose row is settled ends
\* (spawn_proof_claimer_task, fail_missing_proofs).
ProofsFollowRows == Bridge!PendingRowClaimed /\ Bridge!SettledProofEnds
\* A stream that reopens and carries nothing ends the worker (MAX_CHANNEL_SILENCE).
WedgeEnds == Watchdog!WedgeEnds
\* A request that stays open is bid on, whoever wins the race for the nonce
\* (bid_requests, bid_request).
LosersBidAgain == Bidding!LosersBidAgain
=============================================================================
