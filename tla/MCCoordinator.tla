---------------------------- MODULE MCCoordinator ----------------------------
(* Instances of Coordinator for TLC.                                       *)
EXTENDS CoordinatorBoard, TLC

CONSTANTS p1, p2, c1, c2, s1, s2, m1, w1, w2, w3, w4

\* c1 and s1, s2, m1 belong to p1; c2 to p2.
MCProofOf == [t \in Tasks |-> IF t = c2 THEN p2 ELSE p1]
MCTaskType == [t \in Tasks |-> CASE t \in {c1, c2} -> "Controller"
                                 [] t \in {s1, s2} -> "ProveShard"
                                 [] t = m1 -> "MarkerDeferredRecord"]
\* s2 takes both units of a worker of capacity two, the others one.
MCWeight == [t \in Tasks |-> CASE t = s2 -> 2 [] t = m1 -> 0 [] OTHER -> 1]
AllWorkers == [w \in Workers |-> "All"]
\* w1 and w2 take any task, w3 and w4 one kind each.
MixedWorkers == [w \in Workers |-> CASE w = w3 -> "Cpu" [] w = w4 -> "Gpu" [] OTHER -> "All"]
UnitCapacity == [w \in Workers |-> 1]
PairCapacity == [w \in Workers |-> 2]
WorkerSymmetry == Permutations({w1, w2})

(* Bounds: what a run leaves out to make room for what it is about.        *)
NoStreams == subscribers = {} /\ \A t \in Tasks : channel[t] = "absent"
NoSweeps == deadWorkers = {} /\ expiredProofs = {}
NoSuccess == \A p \in Proofs : <<p, "success">> \notin proofResults
Scheduling == NoStreams /\ NoSweeps /\ NoSuccess
UpAndScheduling == Scheduling' /\ ~shuttingDown'

Uses(T, W) ==
    /\ workers \subseteq W /\ deadWorkers \subseteq W /\ expiredProofs \subseteq {ProofOf[t] : t \in T}
    /\ \A t \in Tasks \ T : status[t] = "Unused" /\ channel[t] = "absent" /\ t \notin awaiting
    /\ \A t \in T : attempts[t] \subseteq W

\* One proof through every sweep and stream, or two proofs that compete for a
\* CPU and a GPU worker.
OneProofOrTwo ==
    \/ Uses({c1, m1}, {w1, w2})'
    \/ (Uses({c1, s1, c2}, {w3, w4}) /\ Scheduling)'

\* proofResults is only ever written: states that differ in nothing else behave
\* alike.
WithoutResults == <<taskVars, workerVars, policyVars, proofs, activeTasks, sweepVars,
                    channel, shuttingDown, awaiting>>

DeadSweepsOnly == NoStreams /\ NoSuccess /\ expiredProofs = {}

\* The part of the behaviours without streams, expiries and success reports,
\* under the fairness of FairSpec.
FairSchedulingSpec == Init /\ [][Next /\ DeadSweepsOnly']_vars /\ Fairness
=============================================================================
