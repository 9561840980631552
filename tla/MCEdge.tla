--------------------------------- MODULE MCEdge ---------------------------------
(***************************************************************************)
(* Model-checking instance of the programs around the cluster.  `part'     *)
(* says which of them moves; the others stay at a first state.  The        *)
(* fulfiller is checked in two bounds: one process (Lone) with every       *)
(* request of its own, and two that share a cluster with foreign rows,     *)
(* where no request but One is theirs.                                     *)
(***************************************************************************)
EXTENDS Edge

CONSTANTS Lone, One

VARIABLE part

\* request 2 has a floor price above the static bid, request 3 a low ceiling
Floors == <<0, 7, 0>>
Ceilings == <<12, 12, 5>>

\* the first state of the parts that do not move
Still == CHOOSE v \in Vks : TRUE

EdgeInit ==
    /\ part \in {"gateway", "alone", "sharing", "bidder", "telemetry"}
    /\ Init /\ (part # "gateway" => ~durable /\ \A c \in Calls : vk[c] = Still)
    /\ Ful!Init
    /\ part \notin {"alone", "sharing"} => ~named /\ ~shared
    /\ \A r \in Requests : IF part = "sharing" THEN (assignee[r] = NoOne) = (r # One)
                            ELSE assignee[r] = Lone
    /\ Bidding!Init /\ (part # "bidder" => ~aggressive /\ ~usd_bid)
    /\ Reporting!Init

\* One process, and no rows but its own; or One, and nothing happens to the others.
Alone ==
    /\ \A f \in Fulfillers \ {Lone} : <<phase[f], listed[f]>>' = <<phase[f], listed[f]>>
    /\ \A i \in Foreign : rows'[i] = NoRow
Sharing == \A r \in Requests \ {One} : <<net[r], exec[r]>>' = <<net[r], exec[r]>>

EdgeNext ==
    /\ UNCHANGED part
    /\ \/ part = "gateway" /\ Next /\ UNCHANGED <<fulfillerVars, bidderVars, telemetryVars>>
       \/ part = "alone" /\ Ful!Next /\ Alone /\ UNCHANGED <<vars, bidderVars, telemetryVars>>
       \/ part = "sharing" /\ Ful!Next /\ Sharing /\ UNCHANGED <<vars, bidderVars, telemetryVars>>
       \/ part = "bidder" /\ Bidding!Next /\ UNCHANGED <<vars, fulfillerVars, telemetryVars>>
       \/ part = "telemetry" /\ Reporting!Next /\ UNCHANGED <<vars, fulfillerVars, bidderVars>>

EdgeSpec == EdgeInit /\ [][EdgeNext]_<<part, vars, fulfillerVars, bidderVars, telemetryVars>>
=================================================================================
