-------------------------- MODULE CoordinatorProofs --------------------------
(***************************************************************************)
(* The safety of Coordinator, proved for every set of proofs, tasks and    *)
(* workers: the other handlers preserve the inductive invariant too, and   *)
(* the properties follow.                                                  *)
(*                                                                         *)
(* Then what a step of the coordinator may do.  It takes no success back   *)
(* and gives no work to a draining worker: both follow, action by action,  *)
(* from what an assignment pass leaves alone and from the invariant IInv.  *)
(* And it is a step of TaskBoard: what a handler computes before the end   *)
(* of its step is one move of one task and a set of proofs that go         *)
(* (Moves); the end of the step starts open tasks and gives new leases     *)
(* only to those (LeaseEnd); the rest follows from IInv before and after   *)
(* the step.                                                               *)
(***************************************************************************)
EXTENDS CoordinatorBoard, CoordinatorLemmas

\* create_proof and create_task: the new task is counted once and queued once.
LEMMA StepCreate ==
    ASSUME IInv, NEW t \in Tasks, CreateTaskInternal(t), proofs' \subseteq Proofs,
           proofs \subseteq proofs', ProofOf[t] \in proofs', UNCHANGED <<workers, closed>>
    PROVE  IInv'
<1> DEFINE st == WithStatus(t, "Pending")
           q == EnqueueTask(queue, {t})
<1>1. EndOK /\ RestOK /\ activeTasks \in [Proofs -> Nat] /\ ProofOf[t] \in Proofs
    BY Parts, Zenon
<1>2. /\ AssignTasks(st, held, weight, q, proofGpuWeights)
      /\ activeTasks' = [activeTasks EXCEPT ![ProofOf[t]] = @ + 1]
      /\ status[t] = "Unused"
      /\ UNCHANGED <<channel, subscribers, awaiting, shuttingDown>>
    BY Zenon DEF CreateTaskInternal
<1>3. RestOK'
    BY <1>1, Zenon DEF CreateTaskInternal, RestOK, sweepVars
<1>4. st \in [Tasks -> Statuses] /\ st[t] = "Pending" /\ \A u \in Tasks : u # t => st[u] = status[u]
    BY <1>1, Zenon DEF WithStatus, EndOK, ArgsOK, Statuses
<1>5. /\ q \in [Tasks -> Nat]
      /\ \A u \in Tasks : q[u] = IF u = t /\ Lane(t) # "None" THEN queue[u] + 1 ELSE queue[u]
    BY <1>1, PolicyType, Zenon DEF EnqueueTask, EndOK, ArgsOK
<1> HIDE DEF st, q
<1>6. ArgsOK(st, held, weight, q, proofGpuWeights)
    BY <1>1, <1>4, <1>5, Zenon DEF EndOK, ArgsOK
<1>7. ASSUME NEW p \in Proofs PROVE activeTasks'[p] = Cardinality(ActiveIn(st, p))
  <2>1. activeTasks[p] = Cardinality(ActiveIn(status, p))
      BY CountNow, Parts, Zenon
  <2>2. CASE p = ProofOf[t]
    <3>1. ActiveIn(st, p) = ActiveIn(status, p) \cup {t} /\ t \notin ActiveIn(status, p)
        BY <1>2, <1>4, <2>2, Zenon DEF ActiveIn, Unfinished
    <3>2. Cardinality(ActiveIn(st, p)) = Cardinality(ActiveIn(status, p)) + 1
        BY <3>1, ActiveFinite, FS_AddElement, Zenon
    <3> QED
        BY <1>1, <1>2, <2>1, <2>2, <3>2, Zenon
  <2>3. CASE p # ProofOf[t]
    <3>1. ActiveIn(st, p) = ActiveIn(status, p)
        BY <1>4, <2>3, Zenon DEF ActiveIn
    <3> QED
        BY <1>1, <1>2, <2>1, <2>3, <3>1, Zenon
  <2> QED
      BY <2>2, <2>3, Zenon
<1>8. activeTasks' \in [Proofs -> Nat]
    BY <1>1, <1>2
<1>9. SlotsOK(st, held, q, owner, workers')
    BY <1>2, <1>4, <1>5, Parts DEF SlotInv, SlotsOK, Unfinished
<1>10. LifeOK(st, proofs', activeTasks', channel', subscribers', awaiting')
  <2>1. \A u \in Tasks : st[u] \notin {"Unused", "Removed"} =>
            ProofOf[u] \in proofs' /\ activeTasks'[ProofOf[u]] > 0
      BY <1>1, <1>2, <1>4, Parts DEF LifeInv, LifeOK
  <2> QED
      BY <1>2, <1>4, <2>1, Parts, Zenon DEF LifeInv, LifeOK, RestOK, Unfinished
<1>11. WeightsOK(held, weight, proofGpuWeights)
    BY Parts, Zenon DEF WeightInv
<1> QED
    BY <1>2, <1>3, <1>6, <1>7, <1>8, <1>9, <1>10, <1>11, InvEnd, Zenon

\* fail_proof, for whatever reason.
LEMMA StepFailProof ==
    ASSUME IInv, NEW p \in Proofs, FailProofInternal(p),
           proofResults' \subseteq Proofs \X {"success", "failure"}
    PROVE  IInv'
<1> DEFINE released == ReleaseRemainingAssignments({p}, {})
<1>1. EndOK /\ RestOK
    BY Parts, Zenon
<1>2. /\ Settle(DropProofs(status, {p}), HeldWithout(released),
                WeightWithout(released, {}), queue, OnProofDeleted(proofGpuWeights, {p}))
      /\ TearDown({p}) /\ UNCHANGED <<workers, closed, shuttingDown>>
    BY Zenon DEF FailProofInternal
<1>3. deadWorkers' \subseteq Workers /\ expiredProofs' \subseteq Proofs
    BY <1>1, Zenon DEF FailProofInternal, RestOK, sweepVars
<1>4. released \in [Workers -> SUBSET Tasks]
    BY <1>1, ReleaseType, Zenon
<1>5. \A v \in Workers : released[v] = {u \in held[v] : ProofOf[u] \in {p}}
    BY Parts, Zenon DEF ReleaseRemainingAssignments, SlotInv, SlotsOK
<1> HIDE DEF released
<1> QED
    BY <1>2, <1>3, <1>4, <1>5, StepTearDown, Zenon

\* cleanup_cancel_expired_proofs under its write lock.
LEMMA StepCancelExpired ==
    ASSUME IInv, CancelExpiredProofs
    PROVE  IInv'
<1> DEFINE ps == IF shuttingDown THEN {} ELSE expiredProofs \cap proofs
           released == ReleaseRemainingAssignments(ps, {})
<1>1. EndOK /\ RestOK
    BY Parts, Zenon
<1>2. /\ AssignTasks(DropProofs(status, ps), HeldWithout(released),
                     WeightWithout(released, {}), queue, OnProofDeleted(proofGpuWeights, ps))
      /\ TearDown(ps) /\ UNCHANGED <<workers, closed, shuttingDown>>
    BY Zenon DEF CancelExpiredProofs
<1>3. /\ proofResults' \subseteq Proofs \X {"success", "failure"}
      /\ deadWorkers' \subseteq Workers /\ expiredProofs' \subseteq Proofs
    BY <1>1, Zenon DEF CancelExpiredProofs, RestOK
<1> HIDE DEF ps
<1>4. released \in [Workers -> SUBSET Tasks]
    BY <1>1, ReleaseType, Zenon
<1>5. \A v \in Workers : released[v] = {u \in held[v] : ProofOf[u] \in ps}
    BY Parts, Zenon DEF ReleaseRemainingAssignments, SlotInv, SlotsOK
<1> HIDE DEF released
<1> QED
    BY <1>2, <1>3, <1>4, <1>5, StepTearDown, Zenon

\* handle_heartbeat: nothing held is ever unknown, so it only recomputes the
\* weight and may start a pass.
LEMMA StepHeartbeat ==
    ASSUME IInv, NEW w \in Workers, NEW reported, HandleHeartbeat(w, reported)
    PROVE  IInv'
<1> DEFINE lost == {t \in held[w] \ reported : ~Present(t)}
           kept == held[w] \ lost
           hd == [held EXCEPT ![w] = kept]
           load == SumWeight({t \in held[w] : Present(t)})
           wt == [weight EXCEPT ![w] = IF kept = {} THEN 0 ELSE load]
<1>1. EndOK /\ RestOK /\ activeTasks \in [Proofs -> Nat]
    BY Parts, Zenon
<1>2. /\ \/ Settle(status, hd, wt, queue, proofGpuWeights)
         \/ AssignTasks(status, hd, wt, queue, proofGpuWeights)
      /\ UNCHANGED <<proofs, activeTasks, channel, subscribers, awaiting, workers, shuttingDown>>
    BY Zenon DEF HandleHeartbeat, proofVars
<1>3. RestOK'
    BY <1>1, Zenon DEF HandleHeartbeat, RestOK, proofVars, sweepVars
<1>4. lost = {} /\ {t \in held[w] : Present(t)} = held[w]
    BY Parts, Zenon DEF SlotInv, SlotsOK, Present
<1>5. load \in Nat /\ load = SumWeight(held[w])
    BY <1>1, <1>4, SlotsFinite, Zenon DEF EndOK, ArgsOK
<1> HIDE DEF load
<1>6. hd = held
    BY <1>1, <1>4, Zenon DEF EndOK, ArgsOK
<1>7. ArgsOK(status, hd, wt, queue, proofGpuWeights)
    BY <1>1, <1>5, <1>6, ZenonT(30) DEF EndOK, ArgsOK
<1>8. WeightsOK(hd, wt, proofGpuWeights)
  <2> SUFFICES ASSUME ~shuttingDown, NEW v \in Workers
               PROVE  wt[v] = SumWeight(held[v]) /\ wt[v] <= MaxWeight[v]
      BY <1>6, Parts, ZenonT(30) DEF WeightInv, WeightsOK
  <2>1. weight[v] = SumWeight(held[v]) /\ weight[v] <= MaxWeight[v]
      BY Parts, Zenon DEF WeightInv, WeightsOK
  <2>2. CASE v # w
      BY <1>1, <2>1, <2>2, ZenonT(30) DEF EndOK, ArgsOK
  <2>3. CASE v = w /\ held[w] = {}
    <3>1. SumWeight(held[w]) = 0
        BY <2>3, SumWeightEmpty, Zenon
    <3> QED
        BY <1>1, <1>4, <2>1, <2>3, <3>1, ZenonT(30) DEF EndOK, ArgsOK
  <2>4. CASE v = w /\ held[w] # {}
      BY <1>1, <1>4, <1>5, <2>1, <2>4, ZenonT(30) DEF EndOK, ArgsOK
  <2> QED
      BY <2>2, <2>3, <2>4, ZenonT(30)
<1> HIDE DEF hd, wt
<1>9. SlotsOK(status, hd, queue, owner, workers')
    BY <1>2, <1>6, Parts, ZenonT(30) DEF SlotInv
<1>10. LifeOK(status, proofs', activeTasks', channel', subscribers', awaiting')
    BY <1>2, Parts, Zenon DEF LifeInv
<1> QED
    BY <1>1, <1>2, <1>3, <1>7, <1>8, <1>9, <1>10, CountNow, Parts, InvEnd, ZenonT(30)

\* add_worker.
LEMMA StepAddWorker ==
    ASSUME IInv, NEW w \in Workers, AddWorker(w)
    PROVE  IInv'
<1> DEFINE hd == [held EXCEPT ![w] = {}]
           wt == [weight EXCEPT ![w] = 0]
<1>1. EndOK /\ RestOK /\ activeTasks \in [Proofs -> Nat]
    BY Parts, Zenon
<1>2. /\ AssignTasks(status, hd, wt, queue, proofGpuWeights)
      /\ w \notin workers /\ workers' = workers \cup {w}
      /\ UNCHANGED <<proofs, activeTasks, channel, subscribers, awaiting, shuttingDown>>
    BY Zenon DEF AddWorker, proofVars
<1>3. RestOK'
    BY <1>1, Zenon DEF AddWorker, RestOK, proofVars, sweepVars
<1>4. held[w] = {}
    BY <1>2, Parts, Zenon DEF SlotInv, SlotsOK
<1>5. hd = held
    BY <1>1, <1>4, Zenon DEF EndOK, ArgsOK
<1>6. ArgsOK(status, hd, wt, queue, proofGpuWeights)
    BY <1>1, Zenon DEF EndOK, ArgsOK
<1>7. WeightsOK(hd, wt, proofGpuWeights)
  <2>1. SumWeight(held[w]) = 0
      BY <1>4, SumWeightEmpty, Zenon
  <2> QED
      BY <1>1, <1>5, <2>1, Parts, ConstantsAssumption, ZenonT(30) DEF WeightInv, WeightsOK, EndOK, ArgsOK
<1> HIDE DEF hd, wt
<1>8. SlotsOK(status, hd, queue, owner, workers')
    BY <1>2, <1>5, Parts, ZenonT(30) DEF SlotInv, SlotsOK
<1>9. LifeOK(status, proofs', activeTasks', channel', subscribers', awaiting')
    BY <1>2, Parts, Zenon DEF LifeInv
<1> QED
    BY <1>1, <1>2, <1>3, <1>6, <1>7, <1>8, <1>9, CountNow, Parts, InvEnd, ZenonT(30)

\* remove_worker_internal, for one worker or for those a sweep collected.
LEMMA StepRemoveWorker ==
    ASSUME IInv, NEW ws, ws \subseteq Workers, RemoveWorkerInternal(ws),
           deadWorkers' \subseteq Workers, expiredProofs' \subseteq Proofs
    PROVE  IInv'
<1> DEFINE requeued == Requeued(ws)
           hd == [w \in Workers |-> IF w \in ws THEN {} ELSE held[w]]
           wt == [w \in Workers |-> IF w \in ws THEN 0 ELSE weight[w]]
           q == EnqueueTask(queue, requeued)
           gw == [p \in Proofs |-> Monus(proofGpuWeights[p], SumWeight(GpuOf(p, requeued)))]
<1>1. EndOK /\ RestOK /\ activeTasks \in [Proofs -> Nat]
    BY Parts, Zenon
<1>2. /\ AssignTasks(status, hd, wt, q, gw)
      /\ workers' = workers \ ws
      /\ UNCHANGED <<proofs, activeTasks, channel, subscribers, awaiting, shuttingDown>>
    BY Zenon DEF RemoveWorkerInternal, proofVars
<1>3. RestOK'
    BY <1>1, Zenon DEF RemoveWorkerInternal, RestOK, proofVars
<1>4. requeued = {t \in Tasks : \E w \in ws : t \in held[w]}
  <2>1. \A w \in ws : \A t \in held[w] : Present(t)
      BY Parts, Zenon DEF SlotInv, SlotsOK, Present
  <2> QED
      BY <2>1, Zenon DEF Requeued
<1>5. \A p \in Proofs : SumWeight(GpuOf(p, requeued)) \in Nat
    BY <1>4, SlotsFinite, Zenon DEF GpuOf
<1> HIDE DEF requeued
<1>6. gw \in [Proofs -> Nat]
    BY <1>1, <1>5, MonusType, Zenon DEF EndOK, ArgsOK
<1>7. /\ q \in [Tasks -> Nat]
      /\ \A t \in Tasks : q[t] = IF t \in requeued /\ Lane(t) # "None" THEN queue[t] + 1 ELSE queue[t]
    BY <1>1, PolicyType, Zenon DEF EnqueueTask
<1>8. SlotsOK(status, hd, q, owner, workers')
  <2>1. \A t \in requeued : t \in Tasks /\ queue[t] = 0 /\ status[t] # "Unused" /\ owner[t] \in ws
      BY <1>4, Parts, ZenonT(30) DEF SlotInv, SlotsOK
  <2>2. \A t \in Tasks : q[t] <= 1 /\ (status[t] = "Unused" => q[t] = 0)
      BY <1>7, <2>1, Parts DEF SlotInv, SlotsOK
  <2>3. \A v \in Workers : \A t \in hd[v] :
            /\ v \in workers' /\ owner[t] = v
            /\ status[t] \in {"Running", "Succeeded"} /\ q[t] = 0
    <3>1. \A v \in Workers : \A t \in hd[v] : v \notin ws /\ t \in held[v] /\ t \in Tasks
        BY Parts, Zenon
    <3>2. \A v \in Workers : \A t \in hd[v] : t \notin requeued
        BY <2>1, <3>1, Parts DEF SlotInv, SlotsOK
    <3> QED
        BY <1>2, <1>7, <3>1, <3>2, Parts DEF SlotInv, SlotsOK
  <2>4. ASSUME ~shuttingDown, NEW t \in Tasks, Unfinished(status[t]), Lane(t) # "None"
        PROVE  q[t] = 1 \/ \E v \in Workers : t \in hd[v]
    <3>1. CASE t \in requeued
        BY <1>7, <2>1, <2>4, <3>1
    <3>2. CASE t \notin requeued
        BY <1>4, <1>7, <2>4, <3>2, Parts, ZenonT(30) DEF SlotInv, SlotsOK
    <3> QED
        BY <3>1, <3>2, Zenon
  <2> QED
      BY <2>2, <2>3, <2>4, ZenonT(30) DEF SlotsOK
<1>9. WeightsOK(hd, wt, gw)
  <2> SUFFICES ASSUME ~shuttingDown
               PROVE  /\ \A w \in Workers : wt[w] = SumWeight(hd[w]) /\ wt[w] <= MaxWeight[w]
                      /\ \A p \in Proofs : gw[p] = SumWeight(GpuOf(p, HeldBy(hd)))
      BY Zenon DEF WeightsOK
  <2>1. \A w \in Workers : wt[w] = SumWeight(hd[w]) /\ wt[w] <= MaxWeight[w]
    <3>1. \A w \in Workers : w \in ws => wt[w] = 0 /\ hd[w] = {} /\ MaxWeight[w] \in Nat
        BY ConstantsAssumption, Zenon
    <3>2. \A w \in Workers : w \notin ws => wt[w] = weight[w] /\ hd[w] = held[w]
        BY Zenon
    <3> HIDE DEF wt, hd
    <3>3. \A w \in Workers : w \in ws => SumWeight(hd[w]) = 0
        BY <3>1, SumWeightEmpty, Zenon
    <3>4. \A w \in Workers : w \notin ws => wt[w] = SumWeight(hd[w]) /\ wt[w] <= MaxWeight[w]
        BY <3>2, Parts, Zenon DEF WeightInv, WeightsOK
    <3> QED
        BY <3>1, <3>3, <3>4
  <2>2. requeued \subseteq HeldBy(held) /\ HeldBy(hd) = HeldBy(held) \ requeued
    <3>1. \A v \in Workers : v \notin ws => \A t \in held[v] : t \notin requeued
        BY <1>4, Parts DEF SlotInv, SlotsOK
    <3> QED
        BY <1>4, <3>1, Parts DEF HeldBy
  <2> HIDE DEF hd
  <2>3. \A p \in Proofs : gw[p] = SumWeight(GpuOf(p, HeldBy(hd)))
      BY <1>1, <2>2, GpuMinus, Parts, Zenon
  <2> QED
      BY <2>1, <2>3, Zenon
<1> HIDE DEF q, gw
<1>10. ArgsOK(status, hd, wt, q, gw)
    BY <1>1, <1>6, <1>7, ZenonT(30) DEF EndOK, ArgsOK
<1> HIDE DEF hd, wt
<1>11. LifeOK(status, proofs', activeTasks', channel', subscribers', awaiting')
    BY <1>2, Parts, Zenon DEF LifeInv
<1> QED
    BY <1>1, <1>2, <1>3, <1>8, <1>9, <1>10, <1>11, CountNow, Parts, InvEnd, ZenonT(30)

-----------------------------------------------------------------------------
(* The handlers that do not touch tasks in slots, and the whole step.      *)

\* A step that leaves tasks, slots, queue and counters alone.
LEMMA StepQuiet ==
    ASSUME IInv, RestOK',
           UNCHANGED <<activeTasks, status, owner, attempts, held, weight, queue,
                       proofGpuWeights, shuttingDown, workers>>,
           LifeOK(status, proofs', activeTasks, channel', subscribers', awaiting')
    PROVE  IInv'
<1>1. TypeOK'
    BY Parts, Zenon DEF TypeOK, EndOK, ArgsOK, RestOK
<1>2. ActiveTasksExact'
    BY Parts, Zenon DEF CountInv, ActiveTasksExact, ActiveSet
<1>3. SlotInv'
    BY Parts, Zenon DEF SlotInv, SlotsOK
<1>4. LifeInv'
    BY Zenon DEF LifeInv
<1>5. WeightInv'
    BY Parts, Zenon DEF WeightInv, WeightsOK, HeldBy
<1> QED
    BY <1>1, <1>2, <1>3, <1>4, <1>5, ZenonT(30) DEF IInv, CountInv

\* Shutdown empties the slots: from here on no pass runs and no weight counts.
LEMMA StepShutdown ==
    ASSUME IInv, Shutdown
    PROVE  IInv'
<1>1. EndOK /\ RestOK /\ activeTasks \in [Proofs -> Nat]
    BY Parts, Zenon
<1>2. channel' \in [Tasks -> {"absent", "open", "closed"}] /\ \A t \in Tasks : channel'[t] # "open"
    BY <1>1, Zenon DEF Shutdown, CloseTaskChannel, RestOK
<1>3. TypeOK'
    BY <1>1, <1>2, Zenon DEF TypeOK, EndOK, ArgsOK, RestOK, Shutdown, taskVars, policyVars, proofVars, sweepVars
<1>4. ActiveTasksExact'
    BY Parts, Zenon DEF CountInv, ActiveTasksExact, ActiveSet, Shutdown, taskVars, proofVars
<1>5. SlotInv'
    BY <1>1, Parts, Zenon DEF SlotInv, SlotsOK, Shutdown, taskVars, policyVars
<1>6. LifeInv'
    BY <1>2, Parts, Zenon DEF LifeInv, LifeOK, Shutdown, taskVars, proofVars
<1>7. WeightInv'
    BY Zenon DEF WeightInv, WeightsOK, Shutdown
<1> QED
    BY <1>3, <1>4, <1>5, <1>6, <1>7, Zenon DEF IInv, CountInv

\* The empty coordinator satisfies the invariant.
LEMMA InitInv == Init => IInv
<1> SUFFICES ASSUME Init PROVE IInv
    BY Zenon
<1>1. TypeOK
  <2>1. ArgsOK(status, held, weight, queue, proofGpuWeights)
      BY Zenon DEF Init, ArgsOK, Statuses
  <2>2. owner \in [Tasks -> Workers \cup {NoWorker}] /\ attempts \in [Tasks -> SUBSET Workers]
      BY Zenon DEF Init
  <2>3. retries \in [Tasks -> 0 .. MaxTaskRetries]
    <3>1. 0 \in 0 .. MaxTaskRetries
        BY ConstantsAssumption
    <3> QED
        BY <3>1, Zenon DEF Init
  <2>4. channel \in [Tasks -> {"absent", "open", "closed"}] /\ activeTasks \in [Proofs -> Nat]
      BY Zenon DEF Init
  <2>5. RestOK
      BY <2>3, <2>4, Zenon DEF Init, RestOK
  <2> QED
      BY <2>1, <2>2, <2>4, <2>5, TypeSplit, Zenon DEF EndOK
<1>2. ActiveTasksExact
  <2>1. \A p \in Proofs : ActiveSet(p) = {}
      BY Zenon DEF Init, ActiveSet, TasksOf, Unfinished
  <2> QED
      BY <2>1, FS_EmptySet, Zenon DEF Init, ActiveTasksExact
<1>3. SlotInv
    BY DEF Init, SlotInv, SlotsOK, Unfinished
<1>4. LifeInv
    BY Zenon DEF Init, LifeInv, LifeOK
<1>5. WeightInv
  <2>1. \A w \in Workers : SumWeight(held[w]) = 0
      BY SumWeightEmpty, Zenon DEF Init
  <2>2. \A p \in Proofs : GpuOf(p, HeldBy(held)) = {}
      BY Zenon DEF Init, GpuOf, HeldBy
  <2>3. \A p \in Proofs : SumWeight(GpuOf(p, HeldBy(held))) = 0
      BY <2>2, SumWeightEmpty, Zenon
  <2>4. \A w \in Workers : weight[w] = 0 /\ 0 <= MaxWeight[w]
      BY ConstantsAssumption DEF Init
  <2>5. \A p \in Proofs : proofGpuWeights[p] = 0
      BY Zenon DEF Init
  <2> QED
      BY <2>1, <2>3, <2>4, <2>5, Zenon DEF WeightInv, WeightsOK
<1> QED
    BY <1>1, <1>2, <1>3, <1>4, <1>5, Zenon DEF IInv, CountInv

\* Every step preserves the invariant.
LEMMA NextInv == IInv /\ [Next]_vars => IInv'
<1> SUFFICES ASSUME IInv, [Next]_vars PROVE IInv'
    BY Zenon
<1> USE DEF taskVars, workerVars, policyVars, proofVars, sweepVars
<1>1. RestOK /\ CountInv /\ LifeInv /\ ProofOf \in [Tasks -> Proofs]
    BY Parts, Zenon
<1>2. ASSUME NEW t \in Tasks, CreateProof(ProofOf[t], t) PROVE IInv'
    BY <1>1, <1>2, StepCreate, ZenonT(30) DEF CreateProof, RestOK
<1>3. ASSUME NEW t \in Tasks, CreateTask(t) PROVE IInv'
    BY <1>1, <1>3, StepCreate, ZenonT(30) DEF CreateTask, RestOK
<1>4. ASSUME NEW p \in Proofs, CreateDummyProof(p) PROVE IInv'
  <2>1. RestOK'
      BY <1>1, <1>4, Zenon DEF CreateDummyProof, RestOK
  <2>2. LifeOK(status, proofs', activeTasks, channel', subscribers', awaiting')
      BY <1>1, <1>4, ZenonT(30) DEF CreateDummyProof, LifeInv, LifeOK
  <2> QED
      BY <1>4, <2>1, <2>2, StepQuiet, ZenonT(30) DEF CreateDummyProof
<1>5. ASSUME NEW p \in Proofs, CompleteProof(p) PROVE IInv'
  <2>1. RestOK'
      BY <1>1, <1>5 DEF CompleteProof, RestOK
  <2>2. LifeOK(status, proofs', activeTasks, channel', subscribers', awaiting')
      BY <1>1, <1>5, Zenon DEF CompleteProof, LifeInv
  <2> QED
      BY <1>5, <2>1, <2>2, StepQuiet, ZenonT(30) DEF CompleteProof
<1>6. ASSUME NEW p \in Proofs, CancelProof(p) \/ FailMissingProof(p) PROVE IInv'
  <2>1. FailProofInternal(p) /\ proofResults' \subseteq Proofs \X {"success", "failure"}
      BY <1>1, <1>6 DEF CancelProof, FailMissingProof, RestOK
  <2> QED
      BY <2>1, StepFailProof, Zenon
<1>7. ASSUME NEW w \in Workers, NEW t \in Tasks, CompleteTask(w, t) \/ FailSucceededTask(w, t)
      PROVE  IInv'
    BY <1>7, StepComplete, StepFailSucceeded, Zenon
<1>8. ASSUME NEW w \in Workers, NEW t \in Tasks, NEW retryable \in BOOLEAN,
             FailTask(w, t, retryable) \/ FailTaskAndProof(w, t, retryable)
      PROVE  IInv'
    BY <1>8, StepFailTask, StepFailTaskAndProof, ZenonT(30)
<1>9. ASSUME NEW w \in Workers, NEW reported, HandleHeartbeat(w, reported) PROVE IInv'
    BY <1>9, StepHeartbeat, ZenonT(30)
<1>10. ASSUME NEW w \in Workers, AddWorker(w) PROVE IInv'
    BY <1>10, StepAddWorker, ZenonT(30)
<1>11. ASSUME NEW w \in Workers, CloseWorker(w) PROVE IInv'
  <2>1. RestOK'
      BY <1>1, <1>11, ZenonT(30) DEF CloseWorker, RestOK
  <2>2. LifeOK(status, proofs', activeTasks, channel', subscribers', awaiting')
      BY <1>1, <1>11, ZenonT(30) DEF CloseWorker, LifeInv
  <2> QED
      BY <1>11, <2>1, <2>2, StepQuiet, ZenonT(30) DEF CloseWorker
<1>12. ASSUME NEW w \in Workers, RemoveWorker(w) PROVE IInv'
  <2>1. RemoveWorkerInternal({w}) /\ deadWorkers' \subseteq Workers /\ expiredProofs' \subseteq Proofs
      BY <1>1, <1>12, ZenonT(30) DEF RemoveWorker, RestOK
  <2> QED
      BY <2>1, StepRemoveWorker, ZenonT(30)
<1>13. ASSUME NEW ws \in SUBSET workers, CollectDeadWorkers(ws) PROVE IInv'
  <2>1. RestOK'
      BY <1>1, <1>13, ZenonT(30) DEF CollectDeadWorkers, RestOK
  <2>2. LifeOK(status, proofs', activeTasks, channel', subscribers', awaiting')
      BY <1>1, <1>13, Zenon DEF CollectDeadWorkers, LifeInv
  <2> QED
      BY <1>13, <2>1, <2>2, StepQuiet, ZenonT(30) DEF CollectDeadWorkers
<1>14. ASSUME RemoveDeadWorkers PROVE IInv'
  <2>1. /\ RemoveWorkerInternal(deadWorkers \cap workers) /\ deadWorkers \cap workers \subseteq Workers
        /\ deadWorkers' \subseteq Workers /\ expiredProofs' \subseteq Proofs
      BY <1>1, <1>14, Zenon DEF RemoveDeadWorkers, RestOK
  <2> QED
      BY <2>1, StepRemoveWorker, Zenon
<1>15. ASSUME NEW t \in Tasks, FailProof(t) PROVE IInv'
  <2>1. /\ FailProofInternal(ProofOf[t]) /\ ProofOf[t] \in Proofs
        /\ proofResults' \subseteq Proofs \X {"success", "failure"}
      BY <1>1, <1>15, SMTT(30) DEF FailProof, RestOK
  <2> QED
      BY <2>1, StepFailProof, Zenon
<1>16. ASSUME NEW t \in Tasks, AddSubscription(t) PROVE IInv'
  <2>1. RestOK'
      BY <1>1, <1>16, Zenon DEF AddSubscription, RestOK
  <2>2. LifeOK(status, proofs', activeTasks, channel', subscribers', awaiting')
      BY <1>1, <1>16, Zenon DEF AddSubscription, LifeInv, LifeOK
  <2> QED
      BY <1>16, <2>1, <2>2, StepQuiet, Zenon DEF AddSubscription
<1>17. ASSUME NEW t \in Tasks, OpenChannel(t) PROVE IInv'
  <2>1. RestOK'
      BY <1>1, <1>17, ZenonT(30) DEF OpenChannel, RestOK
  <2>2. LifeOK(status, proofs', activeTasks, channel', subscribers', awaiting')
      BY <1>1, <1>17, ZenonT(30) DEF OpenChannel, LifeInv, LifeOK, RestOK
  <2> QED
      BY <1>17, <2>1, <2>2, StepQuiet, ZenonT(30) DEF OpenChannel
<1>18. ASSUME NEW ps \in SUBSET proofs, CollectExpiredProofs(ps) PROVE IInv'
  <2>1. RestOK'
      BY <1>1, <1>18, Zenon DEF CollectExpiredProofs, RestOK
  <2>2. LifeOK(status, proofs', activeTasks, channel', subscribers', awaiting')
      BY <1>1, <1>18, ZenonT(30) DEF CollectExpiredProofs, LifeInv
  <2> QED
      BY <1>18, <2>1, <2>2, StepQuiet, ZenonT(30) DEF CollectExpiredProofs
<1>19. ASSUME CancelExpiredProofs PROVE IInv'
    BY <1>19, StepCancelExpired, ZenonT(30)
<1>20. ASSUME NEW T \in SUBSET {t \in Tasks : channel[t] = "closed"}, CleanupStaleTaskChannels(T)
       PROVE  IInv'
  <2>1. RestOK'
      BY <1>1, <1>20, Zenon DEF CleanupStaleTaskChannels, RestOK
  <2>2. LifeOK(status, proofs', activeTasks, channel', subscribers', awaiting')
      BY <1>1, <1>20, ZenonT(30) DEF CleanupStaleTaskChannels, LifeInv, LifeOK
  <2> QED
      BY <1>20, <2>1, <2>2, StepQuiet, ZenonT(30) DEF CleanupStaleTaskChannels
<1>21. ASSUME Shutdown PROVE IInv'
    BY <1>21, StepShutdown, ZenonT(30)
<1>22. ASSUME UNCHANGED vars PROVE IInv'
  <2>1. RestOK'
      BY <1>1, <1>22, Zenon DEF vars, RestOK
  <2>2. LifeOK(status, proofs', activeTasks, channel', subscribers', awaiting')
      BY <1>1, <1>22, Zenon DEF vars, LifeInv
  <2> QED
      BY <1>22, <2>1, <2>2, StepQuiet, ZenonT(30) DEF vars
<1> QED
    BY <1>2, <1>3, <1>4, <1>5, <1>6, <1>7, <1>8, <1>9, <1>10, <1>11, <1>12, <1>13, <1>14,
       <1>15, <1>16, <1>17, <1>18, <1>19, <1>20, <1>21, <1>22, ZenonT(30) DEF Next

-----------------------------------------------------------------------------
(* The theorems.                                                           *)

\* The inductive invariant holds of every behaviour of the coordinator.
THEOREM InvariantHolds == Spec => []IInv
BY InitInv, NextInv, PTL DEF Spec

\* Every variable keeps its type; in particular active_tasks, a u32 decremented
\* in three handlers, never goes below zero.
THEOREM TypeCorrect == Spec => []TypeOK
<1>1. IInv => TypeOK
    BY Zenon DEF IInv, CountInv
<1> QED
    BY <1>1, InvariantHolds, PTL

\* Under the invariant a task has at most one holder, its owner.
LEMMA OneHolder ==
    ASSUME IInv, NEW t \in Tasks
    PROVE  Holders(t) = {} \/ Holders(t) = {owner[t]}
BY Parts, ZenonT(30) DEF SlotInv, SlotsOK, Holders

\* The number of holders says whether there is one.
LEMMA HolderCount ==
    ASSUME IInv, NEW t \in Tasks
    PROVE  \/ Cardinality(Holders(t)) = 0 /\ Holders(t) = {}
           \/ Cardinality(Holders(t)) = 1 /\ Holders(t) # {}
<1>1. CASE Holders(t) = {}
    BY <1>1, FS_EmptySet, Zenon
<1>2. CASE Holders(t) = {owner[t]}
    BY <1>2, FS_Singleton, Zenon
<1> QED
    BY <1>1, <1>2, OneHolder, Zenon

\* A task is never queued and held at once, nor held or queued twice, over
\* evictions, redelivery, retries and late reports (assign_task, complete_task,
\* fail_task, handle_heartbeat, remove_worker_internal).
THEOREM DispatchedOnce == Spec => []NoDoubleDispatch
<1>1. ASSUME IInv PROVE NoDoubleDispatch
  <2> SUFFICES ASSUME NEW t \in Tasks PROVE queue[t] + Cardinality(Holders(t)) <= 1
      BY Zenon DEF NoDoubleDispatch
  <2>1. queue[t] \in Nat /\ queue[t] <= 1 /\ (Holders(t) # {} => queue[t] = 0)
      BY <1>1, Parts DEF SlotInv, SlotsOK, Holders
  <2> QED
      BY <1>1, <2>1, HolderCount
<1> QED
    BY <1>1, InvariantHolds, PTL

\* Until shutdown an unfinished task that can be assigned is queued or held:
\* no handler drops it between the queue and a worker.
THEOREM NothingLost == Spec => []NoTaskLost
<1>1. ASSUME IInv PROVE NoTaskLost
  <2> SUFFICES ASSUME ~shuttingDown, NEW t \in Tasks, Unfinished(status[t]), Lane(t) # "None"
               PROVE  queue[t] + Cardinality(Holders(t)) >= 1
      BY Zenon DEF NoTaskLost
  <2>1. queue[t] \in Nat /\ (queue[t] = 1 \/ Holders(t) # {})
      BY <1>1, Parts, Zenon DEF SlotInv, SlotsOK, Holders
  <2> QED
      BY <1>1, <2>1, HolderCount
<1> QED
    BY <1>1, InvariantHolds, PTL

\* Until shutdown the weight of a worker and the GPU weight of a proof, kept by
\* increments and saturating decrements (assign_task, complete_task, fail_task,
\* post_task_update_state, remove_worker_internal), equal what is held and stay
\* within max_weight.
THEOREM WeightsStayExact == Spec => []WeightsExact
<1>1. IInv => WeightsExact
    BY Zenon DEF IInv, WeightInv, WeightsOK, WeightsExact, HeldBy
<1> QED
    BY <1>1, InvariantHolds, PTL

\* proof.active_tasks counts the unfinished tasks of the proof, and complete_task
\* and fail_task remove a proof with the last of them.
THEOREM CountersExact == Spec => [](ActiveTasksExact /\ ProofEndsWithLastTask)
<1>1. IInv => ActiveTasksExact /\ ProofEndsWithLastTask
    BY Zenon DEF IInv, CountInv, LifeInv, LifeOK, ProofEndsWithLastTask, Present
<1> QED
    BY <1>1, InvariantHolds, PTL

\* A worker holds only what task.worker says it holds, which is how
\* release_remaining_assignments finds the slots of a proof it takes down.
THEOREM SlotsOwned == Spec => []NoOrphanedSlot
<1>1. IInv => NoOrphanedSlot
    BY Zenon DEF IInv, SlotInv, SlotsOK, NoOrphanedSlot
<1> QED
    BY <1>1, InvariantHolds, PTL

\* An open channel has a task that will close it (close_task_channel), and a
\* root task that fails for good takes its proof along (fail_task).
THEOREM StreamsEnd == Spec => [](ChannelEndsWithTask /\ NoFatalRootInLiveProof)
<1>1. IInv => ChannelEndsWithTask /\ NoFatalRootInLiveProof
    BY Zenon DEF IInv, LifeInv, LifeOK, ChannelEndsWithTask, NoFatalRootInLiveProof
<1> QED
    BY <1>1, InvariantHolds, PTL

\* Whoever still waits for an answer is registered on a task that can finish
\* (add_subscriptions, notify_subscribers, fail_proof_internal).
THEOREM SubscribersAnswered == Spec => []SubscriberAnswered
<1>1. IInv => SubscriberAnswered
    BY Zenon DEF IInv, LifeInv, LifeOK, SubscriberAnswered
<1> QED
    BY <1>1, InvariantHolds, PTL

\* The safety of the coordinator in one: one place per task, none lost, exact
\* counters and weights within capacity, no orphaned slot, no proof left behind
\* without unfinished tasks, channels and subscribers that end with their task.
THEOREM CoordinatorSafe == Spec => []CoordinatorInv
<1>1. TypeOK /\ NoDoubleDispatch /\ NoTaskLost /\ NoOrphanedSlot /\ ActiveTasksExact /\ WeightsExact
      /\ ProofEndsWithLastTask /\ NoFatalRootInLiveProof /\ ChannelEndsWithTask
      /\ SubscriberAnswered => CoordinatorInv
    BY Zenon DEF CoordinatorInv
<1> QED
    BY <1>1, TypeCorrect, DispatchedOnce, NothingLost, SlotsOwned, CountersExact, WeightsStayExact,
       StreamsEnd, SubscribersAnswered, PTL

-----------------------------------------------------------------------------
(* What a step may do.                                                     *)

\* What SuccessIsFinal and DrainingWorkerGetsNothing ask of one step.
SuccessKept == \A t \in Tasks : status[t] = "Succeeded" => status'[t] \in {"Succeeded", "Removed"}
DrainKept == \A w \in closed : held'[w] \subseteq held[w] /\ (w \in closed' \/ w \notin workers')
StepOK == SuccessKept /\ DrainKept

\* Either end of a handler leaves final tasks, and workers that are draining or
\* gone, as the handler computed them.
LEMMA EndKeeps ==
    ASSUME NEW st, NEW hd, NEW wt, NEW q, NEW gw, hd \in [Workers -> SUBSET Tasks],
           Settle(st, hd, wt, q, gw) \/ AssignTasks(st, hd, wt, q, gw)
    PROVE  /\ \A t \in Tasks : ~Unfinished(st[t]) => status'[t] = st[t]
           /\ \A w \in Workers : w \in closed' \/ w \notin workers' => held'[w] = hd[w]
<1>1. CASE Settle(st, hd, wt, q, gw)
    BY <1>1, Zenon DEF Settle
<1>2. CASE ~shuttingDown /\ AssignTasks(st, hd, wt, q, gw)
  <2>1. PICK S \in SUBSET {t \in Queued(q) : Unfinished(st[t])},
             D \in SUBSET {t \in Queued(q) : ~Unfinished(st[t])} :
          \E to \in [S -> Workers] : AssignmentPass(st, hd, wt, q, gw, S, D, to)
      BY <1>2, Zenon DEF AssignTasks
  <2>2. PICK to \in [S -> Workers] : AssignmentPass(st, hd, wt, q, gw, S, D, to)
      BY <2>1, Zenon
  <2>3. /\ status' = [t \in Tasks |-> IF t \in S THEN "Running" ELSE st[t]]
        /\ held' = [w \in Workers |-> hd[w] \cup Given(S, to, w)]
        /\ \A t \in S : CanTake(to[t], t)
      BY <2>2, Zenon DEF AssignmentPass
  <2>4. \A t \in S : Unfinished(st[t])
      BY Zenon
  <2>5. \A w \in Workers : w \in closed' \/ w \notin workers' => Given(S, to, w) = {}
      BY <2>3, ZenonT(30) DEF CanTake, Given
  <2> QED
      BY <2>3, <2>4, <2>5, Zenon
<1> QED
    BY <1>1, <1>2, Zenon DEF AssignTasks

\* A handler that computed statuses keeping successes, and slots that did not
\* grow, takes a good step.
LEMMA StepEnd ==
    ASSUME NEW st, NEW hd, NEW wt, NEW q, NEW gw, IInv, hd \in [Workers -> SUBSET Tasks],
           Settle(st, hd, wt, q, gw) \/ AssignTasks(st, hd, wt, q, gw),
           \A t \in Tasks : status[t] = "Succeeded" => st[t] \in {"Succeeded", "Removed"},
           \A w \in closed : hd[w] \subseteq held[w] /\ (w \in closed' \/ w \notin workers')
    PROVE  StepOK
<1>1. closed \subseteq Workers
    BY Parts, Zenon DEF RestOK
<1>2. /\ \A t \in Tasks : ~Unfinished(st[t]) => status'[t] = st[t]
      /\ \A w \in Workers : w \in closed' \/ w \notin workers' => held'[w] = hd[w]
    BY EndKeeps, ZenonT(30)
<1>3. SuccessKept
    BY <1>2, Zenon DEF SuccessKept, Unfinished
<1>4. DrainKept
    BY <1>1, <1>2, Zenon DEF DrainKept
<1> QED
    BY <1>3, <1>4, Zenon DEF StepOK

\* A handler that gives slots up and only drops proofs' tasks takes a good step.
LEMMA StepRelease ==
    ASSUME NEW st, NEW released, NEW wt, NEW q, NEW gw, IInv, UNCHANGED closed,
           Settle(st, HeldWithout(released), wt, q, gw) \/ AssignTasks(st, HeldWithout(released), wt, q, gw),
           \A t \in Tasks : status[t] = "Succeeded" => st[t] \in {"Succeeded", "Removed"}
    PROVE  StepOK
<1> DEFINE hd == HeldWithout(released)
<1>1. hd \in [Workers -> SUBSET Tasks] /\ \A w \in Workers : hd[w] \subseteq held[w]
    BY Parts, Zenon DEF HeldWithout
<1>2. closed \subseteq Workers
    BY Parts, Zenon DEF RestOK
<1> HIDE DEF hd
<1>3. \A w \in closed : hd[w] \subseteq held[w] /\ (w \in closed' \/ w \notin workers')
    BY <1>1, <1>2, Zenon
<1>4. Settle(st, hd, wt, q, gw) \/ AssignTasks(st, hd, wt, q, gw)
    BY Zenon DEF hd
<1> QED
    BY <1>1, <1>3, <1>4, StepEnd, Zenon

\* Every step of the coordinator is a good step.
LEMMA NextStepOK == IInv /\ Next => StepOK
<1> SUFFICES ASSUME IInv, Next PROVE StepOK
    BY Zenon
<1> USE DEF taskVars, workerVars, policyVars, proofVars, sweepVars
<1>1. /\ closed \subseteq workers /\ workers \subseteq Workers /\ ProofOf \in [Tasks -> Proofs]
      /\ held \in [Workers -> SUBSET Tasks] /\ status \in [Tasks -> Statuses]
    BY Parts, Zenon DEF RestOK
<1>2. \A ps : \A t \in Tasks :
          status[t] = "Succeeded" => DropProofs(status, ps)[t] \in {"Succeeded", "Removed"}
    BY Zenon DEF DropProofs
<1>3. \A ps, s : \A u \in Tasks : status[u] # "Succeeded" \/ s = "Succeeded" =>
        \A t \in Tasks : status[t] = "Succeeded" =>
            /\ WithStatus(u, s)[t] \in {"Succeeded", "Removed"}
            /\ DropProofs(WithStatus(u, s), ps)[t] \in {"Succeeded", "Removed"}
    BY <1>1, Zenon DEF DropProofs, WithStatus
<1>4. ASSUME UNCHANGED <<status, held, closed>> PROVE StepOK
    BY <1>4, Zenon DEF StepOK, SuccessKept, DrainKept
<1>5. ASSUME NEW t \in Tasks, CreateProof(ProofOf[t], t) \/ CreateTask(t) PROVE StepOK
  <2>1. /\ AssignTasks(WithStatus(t, "Pending"), held, weight, EnqueueTask(queue, {t}), proofGpuWeights)
        /\ status[t] = "Unused" /\ UNCHANGED closed
      BY <1>5, Zenon DEF CreateProof, CreateTask, CreateTaskInternal
  <2>2. \A u \in Tasks : status[u] = "Succeeded" => WithStatus(t, "Pending")[u] \in {"Succeeded", "Removed"}
      BY <1>3, <2>1, Zenon
  <2> QED
      BY <1>1, <2>1, <2>2, StepEnd, Zenon
<1>6. ASSUME NEW w \in Workers, NEW t \in Tasks, CompleteTask(w, t) PROVE StepOK
  <2>1. PICK st, released, wt, gw, removed :
          /\ Settle(st, HeldWithout(released), wt, queue, gw)
             \/ AssignTasks(st, HeldWithout(released), wt, queue, gw)
          /\ st = DropProofs(WithStatus(t, "Succeeded"), removed)
          /\ UNCHANGED closed
      BY <1>6, Zenon DEF CompleteTask
  <2> QED
      BY <1>3, <2>1, StepRelease, Zenon
<1>7. ASSUME NEW w \in Workers, NEW t \in Tasks, FailSucceededTask(w, t) PROVE StepOK
  <2>1. PICK released, wt, gw :
          AssignTasks(status, HeldWithout(released), wt, queue, gw) /\ UNCHANGED closed
      BY <1>7, Zenon DEF FailSucceededTask
  <2> QED
      BY <2>1, StepRelease, Zenon
<1>8. ASSUME NEW w \in Workers, NEW t \in Tasks, NEW retryable \in BOOLEAN,
             FailTaskAndProof(w, t, retryable)
      PROVE  StepOK
  <2>1. PICK released, wt, gw, ps :
          /\ AssignTasks(DropProofs(status, ps), HeldWithout(released), wt, queue, gw)
          /\ UNCHANGED closed
      BY <1>8, Zenon DEF FailTaskAndProof
  <2> QED
      BY <1>2, <2>1, StepRelease, Zenon
<1>9. ASSUME NEW w \in Workers, NEW t \in Tasks, NEW retryable \in BOOLEAN,
             FailTask(w, t, retryable)
      PROVE  StepOK
  <2>1. PICK s, released, wt, q, gw, removed :
          /\ AssignTasks(DropProofs(WithStatus(t, s), removed), HeldWithout(released), wt, q, gw)
          /\ Failable(t) /\ UNCHANGED closed
      BY <1>9, Zenon DEF FailTask
  <2>2. status[t] # "Succeeded"
      BY <2>1, Zenon DEF Failable
  <2> QED
      BY <1>3, <2>1, <2>2, StepRelease, Zenon
<1>10. ASSUME NEW w \in Workers, NEW reported, HandleHeartbeat(w, reported) PROVE StepOK
  <2> DEFINE lost == {t \in held[w] \ reported : ~Present(t)}
             hd == [held EXCEPT ![w] = held[w] \ lost]
  <2>1. PICK wt : Settle(status, hd, wt, queue, proofGpuWeights)
                  \/ AssignTasks(status, hd, wt, queue, proofGpuWeights)
      BY <1>10, Zenon DEF HandleHeartbeat
  <2>2. hd \in [Workers -> SUBSET Tasks] /\ \A v \in Workers : hd[v] \subseteq held[v]
      BY <1>1, Zenon
  <2>3. UNCHANGED closed
      BY <1>10, Zenon DEF HandleHeartbeat
  <2> HIDE DEF hd
  <2>4. \A v \in closed : hd[v] \subseteq held[v] /\ (v \in closed' \/ v \notin workers')
      BY <1>1, <2>2, <2>3, Zenon
  <2> QED
      BY <2>1, <2>2, <2>4, StepEnd, Zenon
<1>11. ASSUME NEW w \in Workers, AddWorker(w) PROVE StepOK
  <2> DEFINE hd == [held EXCEPT ![w] = {}]
  <2>1. PICK wt : AssignTasks(status, hd, wt, queue, proofGpuWeights)
      BY <1>11, Zenon DEF AddWorker
  <2>2. hd \in [Workers -> SUBSET Tasks] /\ \A v \in Workers : hd[v] \subseteq held[v]
      BY <1>1, Zenon
  <2>3. UNCHANGED closed
      BY <1>11, Zenon DEF AddWorker
  <2> HIDE DEF hd
  <2>4. \A v \in closed : hd[v] \subseteq held[v] /\ (v \in closed' \/ v \notin workers')
      BY <1>1, <2>2, <2>3, Zenon
  <2> QED
      BY <2>1, <2>2, <2>4, StepEnd, Zenon
<1>12. ASSUME NEW w \in Workers, CloseWorker(w) PROVE StepOK
    BY <1>12, Zenon DEF CloseWorker, StepOK, SuccessKept, DrainKept
<1>13. ASSUME NEW ws, RemoveWorkerInternal(ws) PROVE StepOK
  <2> DEFINE hd == [v \in Workers |-> IF v \in ws THEN {} ELSE held[v]]
  <2>1. PICK wt, q, gw : AssignTasks(status, hd, wt, q, gw)
      BY <1>13, Zenon DEF RemoveWorkerInternal
  <2>2. hd \in [Workers -> SUBSET Tasks] /\ \A v \in Workers : hd[v] \subseteq held[v]
      BY <1>1, Zenon
  <2>3. workers' = workers \ ws /\ closed' = closed \ ws
      BY <1>13, Zenon DEF RemoveWorkerInternal
  <2> HIDE DEF hd
  <2>4. \A v \in closed : hd[v] \subseteq held[v] /\ (v \in closed' \/ v \notin workers')
      BY <1>1, <2>2, <2>3, Zenon
  <2> QED
      BY <2>1, <2>2, <2>4, StepEnd, Zenon
<1>14. ASSUME NEW p, FailProofInternal(p) PROVE StepOK
  <2>1. PICK released, wt, gw, ps :
          /\ Settle(DropProofs(status, ps), HeldWithout(released), wt, queue, gw)
          /\ UNCHANGED closed
      BY <1>14, Zenon DEF FailProofInternal
  <2> QED
      BY <1>2, <2>1, StepRelease, Zenon
<1>15. ASSUME CancelExpiredProofs PROVE StepOK
  <2>1. PICK released, wt, gw, ps :
          /\ AssignTasks(DropProofs(status, ps), HeldWithout(released), wt, queue, gw)
          /\ UNCHANGED closed
      BY <1>15, Zenon DEF CancelExpiredProofs
  <2> QED
      BY <1>2, <2>1, StepRelease, Zenon
<1>16. ASSUME Shutdown PROVE StepOK
    BY <1>1, <1>16, Zenon DEF Shutdown, StepOK, SuccessKept, DrainKept
<1>17. ASSUME \/ \E p \in Proofs : CreateDummyProof(p) \/ CompleteProof(p)
              \/ \E ws \in SUBSET workers : CollectDeadWorkers(ws)
              \/ \E ps \in SUBSET proofs : CollectExpiredProofs(ps)
              \/ \E t \in Tasks : AddSubscription(t) \/ OpenChannel(t)
              \/ \E T \in SUBSET {t \in Tasks : channel[t] = "closed"} : CleanupStaleTaskChannels(T)
       PROVE  StepOK
    BY <1>4, <1>17, Zenon DEF CreateDummyProof, CompleteProof, CollectDeadWorkers, CollectExpiredProofs,
           AddSubscription, OpenChannel, CleanupStaleTaskChannels
<1>18. ASSUME \/ \E w \in Workers : RemoveWorker(w)
              \/ RemoveDeadWorkers
       PROVE  StepOK
    BY <1>13, <1>18, Zenon DEF RemoveWorker, RemoveDeadWorkers
<1>19. ASSUME \/ \E p \in Proofs : CancelProof(p) \/ FailMissingProof(p)
              \/ \E t \in Tasks : FailProof(t)
       PROVE  StepOK
    BY <1>14, <1>19, Zenon DEF CancelProof, FailMissingProof, FailProof
<1> QED
    BY <1>5, <1>6, <1>7, <1>8, <1>9, <1>10, <1>11, <1>12, <1>15, <1>16, <1>17, <1>18, <1>19, Zenon DEF Next

-----------------------------------------------------------------------------
(* The theorems.                                                           *)

\* Once complete_task has recorded a success, no late failure report, eviction,
\* redelivery or assignment pass changes the task's status while it exists.
THEOREM SuccessStays == Spec => SuccessIsFinal
<1>1. IInv /\ [Next]_vars =>
        [\A t \in Tasks : status[t] = "Succeeded" => status'[t] \in {"Succeeded", "Removed"}]_vars
    BY NextStepOK, Zenon DEF StepOK, SuccessKept
<1> QED
    BY <1>1, InvariantHolds, PTL DEF Spec, SuccessIsFinal

\* A worker that close_worker marked as draining gets no task any more and stays
\* closed until it is removed.
THEOREM DrainingStays == Spec => DrainingWorkerGetsNothing
<1>1. IInv /\ [Next]_vars =>
        [\A w \in closed : held'[w] \subseteq held[w] /\ (w \in closed' \/ w \notin workers')]_vars
    BY NextStepOK, Zenon DEF StepOK, DrainKept
<1> QED
    BY <1>1, InvariantHolds, PTL DEF Spec, DrainingWorkerGetsNothing

-----------------------------------------------------------------------------
(* The coordinator implements TaskBoard.                                   *)

\* The changes of one task that TaskBoard knows, its going with its proof aside.
Allowed(a, b) ==
    \/ OutcomeOf(a) = "none" /\ OutcomeOf(b) = "open"
    \/ OutcomeOf(a) = "open" /\ OutcomeOf(b) \in {"succeeded", "failed"}
    \/ OutcomeOf(a) = "failed" /\ OutcomeOf(b) = "succeeded"

Same(mid, u) == OutcomeOf(mid[u]) = OutcomeOf(status[u])

\* One task moves at most, and no task is created in a proof that goes.
Moves(mid, ps) ==
    /\ mid \in [Tasks -> Statuses]
    /\ \A u \in Tasks :
          \/ Same(mid, u)
          \/ Allowed(status[u], mid[u]) /\ \A v \in Tasks \ {u} : Same(mid, v)
    /\ \A u \in Tasks : ProofOf[u] \in ps /\ status[u] = "Unused" => mid[u] = "Unused"

\* A slot after the step was there before it, or its task is running.
LeaseKept ==
    \A t \in Tasks : (\E w \in Workers : t \in held'[w]) =>
        \/ status'[t] = "Running"
        \/ owner'[t] = owner[t] /\ \E w \in Workers : t \in held[w]

\* A task in the table has an open one in its proof.
OpenLeft ==
    \A t \in Tasks : status[t] \notin {"Unused", "Removed"} =>
        \E u \in Tasks : ProofOf[u] = ProofOf[t] /\ Unfinished(status[u])

\* The invariant keeps a proof only as long as it has an unfinished task.
LEMMA ProofHasOpenTask == IInv => OpenLeft
<1> SUFFICES ASSUME IInv, NEW t \in Tasks, status[t] \notin {"Unused", "Removed"}
             PROVE  \E u \in Tasks : ProofOf[u] = ProofOf[t] /\ Unfinished(status[u])
    BY Zenon DEF OpenLeft
<1>1. activeTasks[ProofOf[t]] > 0 /\ ActiveTasksExact /\ ProofOf[t] \in Proofs
    BY ConstantsAssumption, Zenon DEF IInv, CountInv, LifeInv, LifeOK
<1>2. Cardinality(ActiveSet(ProofOf[t])) > 0
    BY <1>1, Zenon DEF ActiveTasksExact
<1>3. ActiveSet(ProofOf[t]) # {}
    BY <1>2, FS_EmptySet
<1> QED
    BY <1>3, Zenon DEF ActiveSet, TasksOf

\* A handler whose result is a move, and whose leases are kept, takes a step of
\* the board.
LEMMA BoardCore ==
    ASSUME IInv, IInv', NEW mid, NEW ps, Moves(mid, ps), LeaseKept,
           \A u \in Tasks : OutcomeOf(status'[u]) = OutcomeOf(DropProofs(mid, ps)[u])
    PROVE  Board!Handle
<1> DEFINE new(u) == IF ProofOf[u] \in ps /\ mid[u] # "Unused" THEN "gone" ELSE OutcomeOf(mid[u])
<1>1. \A s \in Statuses : OutcomeOf(s) \in {"none", "open", "succeeded", "failed", "gone"}
                          /\ (OutcomeOf(s) = "none" <=> s = "Unused")
                          /\ (OutcomeOf(s) = "open" <=> Unfinished(s))
                          /\ (OutcomeOf(s) = "gone" <=> s = "Removed")
    BY Zenon DEF Statuses, OutcomeOf, Unfinished
<1>2. /\ status \in [Tasks -> Statuses] /\ status' \in [Tasks -> Statuses]
      /\ owner' \in [Tasks -> Workers \cup {NoWorker}]
    BY Zenon DEF IInv, CountInv, TypeOK
<1>3. \A u \in Tasks : outcome[u] = OutcomeOf(status[u]) /\ outcome'[u] = OutcomeOf(status'[u])
    BY Zenon DEF outcome
<1>4. \A u \in Tasks : outcome'[u] = new(u)
    BY <1>3, ZenonT(30) DEF DropProofs, OutcomeOf, Unfinished
<1>5. \A u \in Tasks : OutcomeOf(status[u]) = "none" /\ ProofOf[u] \in ps => mid[u] = "Unused"
    BY <1>1, <1>2, Zenon DEF Moves
<1>6. \A u \in Tasks : mid[u] \in Statuses
    BY Zenon DEF Moves
<1>7. /\ outcome' \in [Tasks -> Board!Outcomes]
      /\ lease' \in [Tasks -> Workers \cup {NoWorker}]
    BY <1>1, <1>2, Zenon DEF outcome, lease, Board!Outcomes
<1>8. ASSUME NEW u \in Tasks
      PROVE  /\ Same(mid, u) => Board!Kept(u) \/ Board!Gone(u)
             /\ Allowed(status[u], mid[u]) =>
                   Board!Created(u) \/ Board!Settled(u) \/ Board!SucceedsLate(u) \/ Board!Gone(u)
    BY <1>1, <1>2, <1>3, <1>4, <1>5, <1>6
       DEF Same, Allowed, Board!Kept, Board!Gone, Board!Known, Board!Created, Board!Settled,
           Board!SucceedsLate
<1>9. \A u \in Tasks : Board!Kept(u) \/ Board!Created(u) \/ Board!Settled(u)
                       \/ Board!SucceedsLate(u) \/ Board!Gone(u)
    BY <1>8, Zenon DEF Moves
<1>10. Board!OneTask
    BY <1>8, Zenon DEF Moves, Board!OneTask
<1>11. Board!ProofsGoWhole
  <2>1. ASSUME NEW t \in Tasks, Board!Gone(t), NEW u \in Tasks, ProofOf[u] = ProofOf[t]
        PROVE  ~Board!Known(outcome'[u])
    <3>1. OutcomeOf(status[t]) \in {"open", "succeeded", "failed"} /\ new(t) = "gone"
        BY <1>3, <1>4, <2>1, Zenon DEF Board!Gone, Board!Known
    <3>2. Same(mid, t) \/ Allowed(status[t], mid[t])
        BY Zenon DEF Moves
    <3>3. ProofOf[t] \in ps
        BY <3>1, <3>2, Zenon DEF Same, Allowed
    <3>4. new(u) \in {"gone", "none"}
        BY <1>1, <1>6, <2>1, <3>3, Zenon
    <3> QED
        BY <1>4, <3>4, Zenon DEF Board!Known
  <2>2. ASSUME NEW t \in Tasks, Board!Known(outcome'[t])
        PROVE  \E u \in Tasks : ProofOf[u] = ProofOf[t] /\ outcome'[u] = "open"
    <3>1. OpenLeft'
        BY ProofHasOpenTask, PTL
    <3>2. status'[t] \notin {"Unused", "Removed"}
        BY <1>1, <1>2, <1>3, <2>2 DEF Board!Known
    <3>3. PICK u \in Tasks : ProofOf[u] = ProofOf[t] /\ Unfinished(status'[u])
        BY <3>1, <3>2, Zenon DEF OpenLeft
    <3> QED
        BY <1>1, <1>2, <1>3, <3>3
  <2> QED
      BY <2>1, <2>2, Zenon DEF Board!ProofsGoWhole
<1>12. ASSUME NEW t \in Tasks PROVE Board!Leased(t)
  <2>1. CASE ~ \E w \in Workers : t \in held'[w]
      BY <2>1, Zenon DEF lease, Board!Leased
  <2>2. CASE \E w \in Workers : t \in held'[w]
    <3>1. lease'[t] = owner'[t] /\ owner'[t] \in Workers /\ status'[t] \in {"Running", "Succeeded"}
        BY <2>2, Zenon DEF lease, IInv, SlotInv, SlotsOK
    <3>2. Board!Known(outcome'[t]) /\ (status'[t] = "Running" => outcome'[t] = "open")
        BY <1>3, <3>1, Zenon DEF OutcomeOf, Unfinished, Board!Known
    <3>3. status'[t] = "Running" \/ lease'[t] = lease[t]
        BY <2>2, <3>1, Zenon DEF LeaseKept, lease
    <3> QED
        BY <3>1, <3>2, <3>3, Zenon DEF Board!Leased
  <2> QED
      BY <2>1, <2>2, Zenon
<1> QED
    BY <1>7, <1>9, <1>10, <1>11, <1>12, Zenon DEF Board!Handle

-------------------------------------------------------------------------------
(* The handlers.                                                           *)

\* Either end of a handler starts open tasks and gives new slots to those only.
LEMMA LeaseEnd ==
    ASSUME NEW st, NEW hd, NEW wt, NEW q, NEW gw, IInv, IInv',
           Settle(st, hd, wt, q, gw) \/ AssignTasks(st, hd, wt, q, gw),
           hd \in [Workers -> SUBSET Tasks], \A w \in Workers : hd[w] \subseteq held[w]
    PROVE  LeaseKept /\ \A u \in Tasks : OutcomeOf(status'[u]) = OutcomeOf(st[u])
<1>1. \A u \in Tasks : (\E w \in Workers : u \in held'[w]) => status'[u] # "Removed"
    BY Zenon DEF IInv, SlotInv, SlotsOK
<1>2. CASE Settle(st, hd, wt, q, gw)
  <2>1. /\ status' = st /\ held' = hd
        /\ owner' = [t \in Tasks |-> IF st[t] = "Removed" THEN NoWorker ELSE owner[t]]
      BY <1>2, Zenon DEF Settle, KeepPresent
  <2> QED
      BY <1>1, <2>1, Zenon DEF LeaseKept
<1>3. CASE ~shuttingDown /\ AssignTasks(st, hd, wt, q, gw)
  <2>1. PICK S \in SUBSET {t \in Queued(q) : Unfinished(st[t])},
             D \in SUBSET {t \in Queued(q) : ~Unfinished(st[t])} :
          \E to \in [S -> Workers] : AssignmentPass(st, hd, wt, q, gw, S, D, to)
      BY <1>3, Zenon DEF AssignTasks
  <2>2. PICK to \in [S -> Workers] : AssignmentPass(st, hd, wt, q, gw, S, D, to)
      BY <2>1, Zenon
  <2>3. /\ status' = [t \in Tasks |-> IF t \in S THEN "Running" ELSE st[t]]
        /\ owner' = [t \in Tasks |->
                        IF t \in S THEN to[t] ELSE IF st[t] = "Removed" THEN NoWorker ELSE owner[t]]
        /\ held' = [w \in Workers |-> hd[w] \cup {t \in S : to[t] = w}]
      BY <2>2, Zenon DEF AssignmentPass, KeepPresent, Given
  <2>4. \A t \in S : Unfinished(st[t])
      BY Zenon
  <2>5. \A u \in Tasks : OutcomeOf(status'[u]) = OutcomeOf(st[u])
    <3>1. \A s : Unfinished(s) => OutcomeOf(s) = OutcomeOf("Running")
        BY Zenon DEF OutcomeOf, Unfinished
    <3> QED
        BY <2>3, <2>4, <3>1, Zenon
  <2>6. LeaseKept
      BY <1>1, <2>3, Zenon DEF LeaseKept
  <2> QED
      BY <2>5, <2>6, Zenon
<1> QED
    BY <1>2, <1>3, Zenon DEF AssignTasks

\* A handler that computes a move and takes no slot from one worker for another
\* takes a step of the board.
LEMMA BoardEnd ==
    ASSUME NEW hd, NEW wt, NEW q, NEW gw, NEW mid, NEW ps, IInv, IInv', Moves(mid, ps),
           \/ Settle(DropProofs(mid, ps), hd, wt, q, gw)
           \/ AssignTasks(DropProofs(mid, ps), hd, wt, q, gw),
           hd \in [Workers -> SUBSET Tasks], \A w \in Workers : hd[w] \subseteq held[w]
    PROVE  Board!Handle
<1> DEFINE st == DropProofs(mid, ps)
<1>1. Settle(st, hd, wt, q, gw) \/ AssignTasks(st, hd, wt, q, gw)
    BY Zenon
<1> HIDE DEF st
<1>2. LeaseKept /\ \A u \in Tasks : OutcomeOf(status'[u]) = OutcomeOf(st[u])
    BY <1>1, LeaseEnd, Zenon
<1> QED
    BY <1>2, BoardCore, Zenon DEF st

\* The same for a handler that only gives slots up.
LEMMA BoardRelease ==
    ASSUME NEW released, NEW wt, NEW q, NEW gw, NEW mid, NEW ps, IInv, IInv', Moves(mid, ps),
           \/ Settle(DropProofs(mid, ps), HeldWithout(released), wt, q, gw)
           \/ AssignTasks(DropProofs(mid, ps), HeldWithout(released), wt, q, gw)
    PROVE  Board!Handle
<1> DEFINE hd == HeldWithout(released)
<1>1. hd \in [Workers -> SUBSET Tasks] /\ \A w \in Workers : hd[w] \subseteq held[w]
    BY Parts, Zenon DEF HeldWithout
<1>2. \/ Settle(DropProofs(mid, ps), hd, wt, q, gw)
      \/ AssignTasks(DropProofs(mid, ps), hd, wt, q, gw)
    BY Zenon
<1> HIDE DEF hd
<1> QED
    BY <1>1, <1>2, BoardEnd, Zenon

\* Dropping proofs from the statuses as they are is a move.
LEMMA DropMoves ==
    ASSUME IInv, NEW ps
    PROVE  Moves(status, ps) /\ DropProofs(status, {}) = status
BY Parts, Zenon DEF Moves, Same, DropProofs

\* Setting the status of one task is a move if TaskBoard knows the change.
LEMMA OneMoves ==
    ASSUME IInv, NEW t \in Tasks, NEW s \in Statuses, NEW ps,
           OutcomeOf(s) = OutcomeOf(status[t]) \/ Allowed(status[t], s),
           status[t] = "Unused" => ps = {}
    PROVE  Moves(WithStatus(t, s), ps)
<1>1. status \in [Tasks -> Statuses]
    BY Parts, Zenon
<1>2. /\ WithStatus(t, s) \in [Tasks -> Statuses]
      /\ \A u \in Tasks : WithStatus(t, s)[u] = IF u = t THEN s ELSE status[u]
    BY <1>1, Zenon DEF WithStatus
<1>3. ASSUME NEW u \in Tasks, ProofOf[u] \in ps, status[u] = "Unused" PROVE WithStatus(t, s)[u] = "Unused"
    BY <1>2, <1>3, Zenon
<1> QED
    BY <1>2, <1>3, Zenon DEF Moves, Same

\* A handler that leaves every status alone and gives up slots takes a step of
\* the board.
LEMMA BoardHold ==
    ASSUME NEW hd, NEW wt, NEW q, NEW gw, IInv, IInv',
           Settle(status, hd, wt, q, gw) \/ AssignTasks(status, hd, wt, q, gw),
           hd \in [Workers -> SUBSET Tasks], \A w \in Workers : hd[w] \subseteq held[w]
    PROVE  Board!Handle
<1>1. DropProofs(status, {}) = status /\ Moves(status, {})
    BY DropMoves, Zenon
<1>2. \/ Settle(DropProofs(status, {}), hd, wt, q, gw)
      \/ AssignTasks(DropProofs(status, {}), hd, wt, q, gw)
    BY <1>1, Zenon
<1> QED
    BY <1>1, <1>2, BoardEnd, Zenon

\* Every step of the coordinator is a step of the board or leaves it alone.
LEMMA NextBoard == IInv /\ IInv' /\ Next => Board!Handle \/ UNCHANGED <<outcome, lease>>
<1> SUFFICES ASSUME IInv, IInv', Next PROVE Board!Handle \/ UNCHANGED <<outcome, lease>>
    BY Zenon
<1> USE DEF taskVars, workerVars, policyVars, proofVars, sweepVars
<1>1. /\ held \in [Workers -> SUBSET Tasks] /\ status \in [Tasks -> Statuses]
      /\ \A w \in Workers : \A t \in held[w] : status[t] \in {"Running", "Succeeded"}
    BY Parts, Zenon DEF SlotInv, SlotsOK
<1>2. \A s \in Statuses : OutcomeOf(s) = IF s = "Unused" THEN "none" ELSE IF Unfinished(s) THEN "open"
                                         ELSE IF s = "Succeeded" THEN "succeeded"
                                         ELSE IF s = "FailedFatal" THEN "failed" ELSE "gone"
    BY Zenon DEF OutcomeOf, Statuses, Unfinished
<1>3. ASSUME UNCHANGED <<status, held, owner>> PROVE UNCHANGED <<outcome, lease>>
    BY <1>3, Zenon DEF outcome, lease
<1>4. ASSUME NEW t \in Tasks, CreateProof(ProofOf[t], t) \/ CreateTask(t) PROVE Board!Handle
  <2>1. /\ AssignTasks(WithStatus(t, "Pending"), held, weight, EnqueueTask(queue, {t}), proofGpuWeights)
        /\ status[t] = "Unused"
      BY <1>4, Zenon DEF CreateProof, CreateTask, CreateTaskInternal
  <2>2. Moves(WithStatus(t, "Pending"), {})
    <3>1. Allowed(status[t], "Pending") /\ "Pending" \in Statuses
        BY <2>1, Zenon DEF Allowed, OutcomeOf, Unfinished, Statuses
    <3> QED
        BY <3>1, OneMoves, Zenon
  <2>3. DropProofs(WithStatus(t, "Pending"), {}) = WithStatus(t, "Pending")
      BY <1>1, Zenon DEF DropProofs, WithStatus
  <2>4. AssignTasks(DropProofs(WithStatus(t, "Pending"), {}), held, weight, EnqueueTask(queue, {t}),
                    proofGpuWeights)
      BY <2>1, <2>3, Zenon
  <2> QED
      BY <1>1, <2>2, <2>4, BoardEnd, Zenon
<1>5. ASSUME NEW w \in Workers, NEW t \in Tasks, CompleteTask(w, t) PROVE Board!Handle
  <2>1. PICK released, wt, gw, removed :
          /\ \/ Settle(DropProofs(WithStatus(t, "Succeeded"), removed), HeldWithout(released), wt, queue, gw)
             \/ AssignTasks(DropProofs(WithStatus(t, "Succeeded"), removed), HeldWithout(released), wt, queue, gw)
          /\ Present(t)
      BY <1>5, Zenon DEF CompleteTask
  <2>2. Moves(WithStatus(t, "Succeeded"), removed)
    <3>1. status[t] \in Statuses \ {"Unused", "Removed"} /\ "Succeeded" \in Statuses
        BY <1>1, <2>1, Zenon DEF Present, Statuses
    <3>2. OutcomeOf("Succeeded") = OutcomeOf(status[t]) \/ Allowed(status[t], "Succeeded")
        BY <1>2, <3>1, Zenon DEF Allowed, Statuses, Unfinished
    <3> QED
        BY <3>1, <3>2, OneMoves, Zenon
  <2> QED
      BY <2>1, <2>2, BoardRelease, Zenon
<1>6. ASSUME NEW w \in Workers, NEW t \in Tasks, FailSucceededTask(w, t) PROVE Board!Handle
  <2>1. PICK released, wt, gw : AssignTasks(status, HeldWithout(released), wt, queue, gw)
      BY <1>6, Zenon DEF FailSucceededTask
  <2> DEFINE hd == HeldWithout(released)
  <2>2. hd \in [Workers -> SUBSET Tasks] /\ \A v \in Workers : hd[v] \subseteq held[v]
      BY <1>1, Zenon DEF HeldWithout
  <2>3. AssignTasks(status, hd, wt, queue, gw)
      BY <2>1, Zenon
  <2> HIDE DEF hd
  <2> QED
      BY <2>2, <2>3, BoardHold, Zenon
<1>7. ASSUME NEW w \in Workers, NEW t \in Tasks, NEW retryable \in BOOLEAN,
             FailTaskAndProof(w, t, retryable)
      PROVE  Board!Handle
  <2>1. PICK released, wt, gw, ps :
          AssignTasks(DropProofs(status, ps), HeldWithout(released), wt, queue, gw)
      BY <1>7, Zenon DEF FailTaskAndProof
  <2> QED
      BY <2>1, DropMoves, BoardRelease, Zenon
<1>8. ASSUME NEW w \in Workers, NEW t \in Tasks, NEW retryable \in BOOLEAN,
             FailTask(w, t, retryable)
      PROVE  Board!Handle
  <2>1. PICK fatal, released, wt, q, gw, removed :
          /\ AssignTasks(DropProofs(WithStatus(t, IF fatal THEN "FailedFatal" ELSE "FailedRetryable"),
                                    removed),
                         HeldWithout(released), wt, q, gw)
          /\ Failable(t) /\ t \in held[w]
      BY <1>8, Zenon DEF FailTask
  <2> DEFINE s == IF fatal THEN "FailedFatal" ELSE "FailedRetryable"
  <2>2. status[t] = "Running"
      BY <1>1, <2>1, Zenon DEF Failable
  <2>3. Moves(WithStatus(t, s), removed)
    <3>1. s \in Statuses /\ (OutcomeOf(s) = OutcomeOf(status[t]) \/ Allowed(status[t], s))
        BY <1>2, <2>1, <2>2, ZenonT(30) DEF Allowed, Statuses, Unfinished
    <3> HIDE DEF s
    <3> QED
        BY <2>2, <3>1, OneMoves, Zenon
  <2> QED
      BY <2>1, <2>3, BoardRelease, Zenon
<1>9. ASSUME NEW w \in Workers, NEW reported, HandleHeartbeat(w, reported) PROVE Board!Handle
  <2> DEFINE lost == {t \in held[w] \ reported : ~Present(t)}
             hd == [held EXCEPT ![w] = held[w] \ lost]
  <2>1. PICK wt : Settle(status, hd, wt, queue, proofGpuWeights)
                  \/ AssignTasks(status, hd, wt, queue, proofGpuWeights)
      BY <1>9, Zenon DEF HandleHeartbeat
  <2>2. hd \in [Workers -> SUBSET Tasks] /\ \A v \in Workers : hd[v] \subseteq held[v]
      BY <1>1, Zenon
  <2> HIDE DEF hd
  <2> QED
      BY <2>1, <2>2, BoardHold, Zenon
<1>10. ASSUME NEW w \in Workers, AddWorker(w) PROVE Board!Handle
  <2> DEFINE hd == [held EXCEPT ![w] = {}]
  <2>1. PICK wt : AssignTasks(status, hd, wt, queue, proofGpuWeights)
      BY <1>10, Zenon DEF AddWorker
  <2>2. hd \in [Workers -> SUBSET Tasks] /\ \A v \in Workers : hd[v] \subseteq held[v]
      BY <1>1, Zenon
  <2> HIDE DEF hd
  <2> QED
      BY <2>1, <2>2, BoardHold, Zenon
<1>11. ASSUME NEW ws, RemoveWorkerInternal(ws) PROVE Board!Handle
  <2> DEFINE hd == [v \in Workers |-> IF v \in ws THEN {} ELSE held[v]]
  <2>1. PICK wt, q, gw : AssignTasks(status, hd, wt, q, gw)
      BY <1>11, Zenon DEF RemoveWorkerInternal
  <2>2. hd \in [Workers -> SUBSET Tasks] /\ \A v \in Workers : hd[v] \subseteq held[v]
      BY <1>1, Zenon
  <2> HIDE DEF hd
  <2> QED
      BY <2>1, <2>2, BoardHold, Zenon
<1>12. ASSUME NEW p, FailProofInternal(p) PROVE Board!Handle
  <2>1. PICK released, wt, gw, ps :
          Settle(DropProofs(status, ps), HeldWithout(released), wt, queue, gw)
      BY <1>12, Zenon DEF FailProofInternal
  <2> QED
      BY <2>1, DropMoves, BoardRelease, Zenon
<1>13. ASSUME CancelExpiredProofs PROVE Board!Handle
  <2>1. PICK released, wt, gw, ps :
          AssignTasks(DropProofs(status, ps), HeldWithout(released), wt, queue, gw)
      BY <1>13, Zenon DEF CancelExpiredProofs
  <2> QED
      BY <2>1, DropMoves, BoardRelease, Zenon
<1>14. ASSUME Shutdown PROVE Board!Handle
  <2>1. UNCHANGED status /\ held' = [w \in Workers |-> {}]
      BY <1>14, Zenon DEF Shutdown
  <2>2. LeaseKept
      BY <2>1, Zenon DEF LeaseKept
  <2>3. \A u \in Tasks : OutcomeOf(status'[u]) = OutcomeOf(DropProofs(status, {})[u])
      BY <2>1, DropMoves, Zenon
  <2> QED
      BY <2>2, <2>3, DropMoves, BoardCore, Zenon
<1>15. ASSUME \/ \E p \in Proofs : CreateDummyProof(p) \/ CompleteProof(p)
              \/ \E ws \in SUBSET workers : CollectDeadWorkers(ws)
              \/ \E ps \in SUBSET proofs : CollectExpiredProofs(ps)
              \/ \E t \in Tasks : AddSubscription(t) \/ OpenChannel(t)
              \/ \E w \in Workers : CloseWorker(w)
              \/ \E T \in SUBSET {t \in Tasks : channel[t] = "closed"} : CleanupStaleTaskChannels(T)
       PROVE  UNCHANGED <<outcome, lease>>
    BY <1>3, <1>15, Zenon DEF CreateDummyProof, CompleteProof, CollectDeadWorkers, CollectExpiredProofs,
           AddSubscription, OpenChannel, CleanupStaleTaskChannels, CloseWorker
<1>16. ASSUME \/ \E w \in Workers : RemoveWorker(w)
              \/ RemoveDeadWorkers
       PROVE  Board!Handle
    BY <1>11, <1>16, Zenon DEF RemoveWorker, RemoveDeadWorkers
<1>17. ASSUME \/ \E p \in Proofs : CancelProof(p) \/ FailMissingProof(p)
              \/ \E t \in Tasks : FailProof(t)
       PROVE  Board!Handle
    BY <1>12, <1>17, Zenon DEF CancelProof, FailMissingProof, FailProof
<1> QED
    BY <1>4, <1>5, <1>6, <1>7, <1>8, <1>9, <1>10, <1>13, <1>14, <1>15, <1>16, <1>17, ZenonT(30) DEF Next

-------------------------------------------------------------------------------
\* The coordinator implements TaskBoard for every number of proofs, tasks and
\* workers: one lease per task at a time and only while the task is open, no
\* outcome taken back, proofs that go whole (complete_task, fail_task,
\* fail_proof_internal, remove_worker_internal, assign_tasks).
THEOREM CoordinatorImplementsBoard == Spec => ImplementsTaskBoard
<1>1. Init => Board!Init
  <2> SUFFICES ASSUME Init PROVE Board!Init
      BY Zenon
  <2>1. /\ status = [t \in Tasks |-> "Unused"] /\ held = [w \in Workers |-> {}]
      BY Zenon DEF Init
  <2>2. OutcomeOf("Unused") = "none"
      BY Zenon DEF OutcomeOf, Unfinished
  <2> QED
      BY <2>1, <2>2, Zenon DEF Board!Init, outcome, lease
<1>2. IInv /\ IInv' /\ [Next]_vars => [Board!Handle]_<<outcome, lease>>
  <2>1. UNCHANGED vars => UNCHANGED <<outcome, lease>>
      BY Zenon DEF vars, taskVars, workerVars, outcome, lease
  <2> QED
      BY <2>1, NextBoard, Zenon
<1> QED
    BY <1>1, <1>2, InvariantHolds, PTL DEF Spec, ImplementsTaskBoard, Board!Spec
=============================================================================
