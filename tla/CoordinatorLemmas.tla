-------------------------- MODULE CoordinatorLemmas --------------------------
(***************************************************************************)
(* Lemmas about the pieces Coordinator's handlers are built from, for      *)
(* every set of proofs, tasks and workers and every assignment of types,   *)
(* weights and capacities; then the inductive invariant of Coordinator,    *)
(* and that a worker's report (complete_task, fail_task) preserves it.     *)
(* CoordinatorProofs has the other handlers and puts them together.        *)
(***************************************************************************)
EXTENDS Coordinator, FiniteSetTheorems, TLAPS

-----------------------------------------------------------------------------
(* Weights.                                                                *)

\* The slots of a set of tasks are finite, so its weight is a natural number.
LEMMA SlotsFinite ==
    ASSUME NEW T, T \subseteq Tasks
    PROVE  IsFiniteSet(Slots(T)) /\ SumWeight(T) \in Nat
<1>1. IsFiniteSet(T)
    BY FS_Subset, ConstantsAssumption, Zenon
<1>2. IsFiniteSet(1 .. WeightLimit)
    BY FS_Interval, ConstantsAssumption
<1>3. IsFiniteSet(T \X (1 .. WeightLimit))
    BY <1>1, <1>2, FS_Product, Zenon
<1>4. Slots(T) \subseteq T \X (1 .. WeightLimit)
    BY Zenon DEF Slots
<1>5. IsFiniteSet(Slots(T))
    BY <1>3, <1>4, FS_Subset, Zenon
<1> QED
    BY <1>5, FS_CardinalityType, Zenon DEF SumWeight

\* The empty set weighs nothing.
LEMMA SumWeightEmpty == SumWeight({}) = 0
<1>1. Slots({}) = {}
    BY Zenon DEF Slots
<1> QED
    BY <1>1, FS_EmptySet, Zenon DEF SumWeight

\* The weight of two disjoint sets is the sum of their weights.
LEMMA SumWeightUnion ==
    ASSUME NEW T, T \subseteq Tasks, NEW U, U \subseteq Tasks, T \cap U = {}
    PROVE  SumWeight(T \cup U) = SumWeight(T) + SumWeight(U)
<1>1. Slots(T \cup U) = Slots(T) \cup Slots(U)
    BY Zenon DEF Slots
<1>2. Slots(T) \cap Slots(U) = {}
    BY Zenon DEF Slots
<1>3. Cardinality(Slots(T) \cap Slots(U)) = 0
    BY <1>2, FS_EmptySet, Zenon
<1>4. IsFiniteSet(Slots(T)) /\ IsFiniteSet(Slots(U)) /\ SumWeight(T) \in Nat /\ SumWeight(U) \in Nat
    BY SlotsFinite, Zenon
<1>5. Cardinality(Slots(T) \cup Slots(U)) =
        Cardinality(Slots(T)) + Cardinality(Slots(U)) - Cardinality(Slots(T) \cap Slots(U))
    BY <1>4, FS_Union, Zenon
<1>6. SumWeight(T \cup U) = Cardinality(Slots(T) \cup Slots(U))
    BY <1>1, Zenon DEF SumWeight
<1>7. SumWeight(T \cup U) = SumWeight(T) + SumWeight(U) - 0
    BY <1>3, <1>5, <1>6, Zenon DEF SumWeight
<1> QED
    BY <1>4, <1>7

\* A single task weighs its weight.
LEMMA SumWeightSingle ==
    ASSUME NEW t \in Tasks
    PROVE  SumWeight({t}) = Weight[t]
<1> DEFINE n == Weight[t]
           f == [i \in 1 .. n |-> <<t, i>>]
<1>1. n \in 0 .. WeightLimit /\ WeightLimit \in Nat
    BY ConstantsAssumption, Zenon
<1>2. Slots({t}) = {<<t, i>> : i \in 1 .. n}
    BY <1>1 DEF Slots
<1>3. f \in Bijection(1 .. n, Slots({t}))
    BY <1>1, <1>2, Zenon DEF Bijection, Injection, Surjection, IsInjective
<1>4. ExistsBijection(1 .. n, Slots({t}))
    BY <1>3, Zenon DEF ExistsBijection
<1> QED
    BY <1>1, <1>4, FS_CountingElements DEF SumWeight

-----------------------------------------------------------------------------
(* The end of a handler: Settle or AssignTasks.                            *)

\* The values a handler passes to the end of its step are well typed.
ArgsOK(st, hd, wt, q, gw) ==
    /\ st \in [Tasks -> Statuses]
    /\ hd \in [Workers -> SUBSET Tasks]
    /\ wt \in [Workers -> Nat]
    /\ q \in [Tasks -> Nat]
    /\ gw \in [Proofs -> Nat]

\* The variables the end of a handler sets are well typed.
EndOK ==
    /\ ArgsOK(status, held, weight, queue, proofGpuWeights)
    /\ owner \in [Tasks -> Workers \cup {NoWorker}]
    /\ attempts \in [Tasks -> SUBSET Workers]

\* The end of a handler changes a status only by starting an unfinished task.
StatusKept(st) ==
    \A t \in Tasks : status'[t] = st[t] \/ (Unfinished(st[t]) /\ status'[t] = "Running")

\* A handler that does not assign keeps what it computed.
LEMMA SettleOutcome ==
    ASSUME NEW st, NEW hd, NEW wt, NEW q, NEW gw, EndOK,
           ArgsOK(st, hd, wt, q, gw), Settle(st, hd, wt, q, gw)
    PROVE  EndOK' /\ StatusKept(st)
BY Zenon DEF EndOK, ArgsOK, Settle, KeepPresent, StatusKept

\* An assignment pass keeps the types and only starts unfinished tasks.
LEMMA AssignOutcome ==
    ASSUME NEW st, NEW hd, NEW wt, NEW q, NEW gw, EndOK,
           ArgsOK(st, hd, wt, q, gw), AssignTasks(st, hd, wt, q, gw)
    PROVE  EndOK' /\ StatusKept(st)
<1>1. CASE shuttingDown
    BY <1>1, SettleOutcome, Zenon DEF AssignTasks
<1>2. CASE ~shuttingDown
  <2>1. PICK S \in SUBSET {t \in Queued(q) : Unfinished(st[t])},
             D \in SUBSET {t \in Queued(q) : ~Unfinished(st[t])} :
          \E to \in [S -> Workers] : AssignmentPass(st, hd, wt, q, gw, S, D, to)
      BY <1>2, Zenon DEF AssignTasks
  <2>2. PICK to \in [S -> Workers] : AssignmentPass(st, hd, wt, q, gw, S, D, to)
      BY <2>1, Zenon
  <2>3. S \subseteq Tasks /\ \A t \in S : q[t] > 0 /\ Unfinished(st[t])
      BY Zenon DEF Queued
  <2>4. status' \in [Tasks -> Statuses] /\ StatusKept(st)
      BY <2>2, <2>3, Zenon DEF AssignmentPass, ArgsOK, Statuses, StatusKept
  <2>5. owner' \in [Tasks -> Workers \cup {NoWorker}]
      BY <2>2, <2>3, Zenon DEF AssignmentPass, EndOK, KeepPresent
  <2>6. attempts' \in [Tasks -> SUBSET Workers]
      BY <2>2, <2>3, Zenon DEF AssignmentPass, EndOK, KeepPresent
  <2>7. held' \in [Workers -> SUBSET Tasks]
      BY <2>2, <2>3, Zenon DEF AssignmentPass, Given, ArgsOK
  <2>8. weight' \in [Workers -> Nat]
    <3>1. \A w \in Workers : SumWeight(Given(S, to, w)) \in Nat
        BY <2>3, SlotsFinite, Zenon DEF Given
    <3> QED BY <2>2, <3>1 DEF AssignmentPass, LoadWith, ArgsOK
  <2>9. queue' \in [Tasks -> Nat]
      BY <2>2, <2>3 DEF AssignmentPass, ArgsOK
  <2>10. proofGpuWeights' \in [Proofs -> Nat]
    <3>1. \A p \in Proofs : SumWeight(GpuOf(p, S)) \in Nat
        BY <2>3, SlotsFinite, Zenon DEF GpuOf
    <3> QED BY <2>2, <3>1 DEF AssignmentPass, ArgsOK
  <2> QED
      BY <2>4, <2>5, <2>6, <2>7, <2>8, <2>9, <2>10, Zenon DEF EndOK, ArgsOK
<1> QED
    BY <1>1, <1>2, Zenon

\* Either end keeps the types and only starts unfinished tasks.
LEMMA EndOutcome ==
    ASSUME NEW st, NEW hd, NEW wt, NEW q, NEW gw, EndOK, ArgsOK(st, hd, wt, q, gw),
           Settle(st, hd, wt, q, gw) \/ AssignTasks(st, hd, wt, q, gw)
    PROVE  EndOK' /\ StatusKept(st)
BY SettleOutcome, AssignOutcome, Zenon

-----------------------------------------------------------------------------
(* The pieces the handlers compute are well typed.                         *)

\* Saturating subtraction stays in the naturals.
LEMMA MonusType == \A a, b \in Nat : Monus(a, b) \in Nat
BY DEF Monus

\* What is released is a set of tasks per worker.
LEMMA ReleaseType ==
    ASSUME EndOK, NEW ps, NEW skip
    PROVE  /\ ReleaseRemainingAssignments(ps, skip) \in [Workers -> SUBSET Tasks]
           /\ \A w \in Workers : ReleaseRemainingAssignments(ps, skip)[w] \subseteq held[w]
BY Zenon DEF EndOK, ArgsOK, ReleaseRemainingAssignments

\* Slots and weights after a release are well typed.
LEMMA WithoutType ==
    ASSUME EndOK, NEW noReset, NEW released \in [Workers -> SUBSET Tasks]
    PROVE  /\ HeldWithout(released) \in [Workers -> SUBSET Tasks]
           /\ WeightWithout(released, noReset) \in [Workers -> Nat]
<1>1. \A w \in Workers : SumWeight(released[w]) \in Nat
    BY SlotsFinite, Zenon
<1>2. \A w \in Workers : Monus(weight[w], SumWeight(released[w])) \in Nat
    BY <1>1, MonusType, Zenon DEF EndOK, ArgsOK
<1> QED
    BY <1>2, Zenon DEF EndOK, ArgsOK, HeldWithout, WeightWithout

\* The policy's counters after a release are well typed.
LEMMA PolicyType ==
    ASSUME EndOK
    PROVE  /\ \A t \in Tasks : PostTaskUpdateState(t) \in [Proofs -> Nat]
           /\ \A gw \in [Proofs -> Nat] : \A ps : OnProofDeleted(gw, ps) \in [Proofs -> Nat]
           /\ \A T : EnqueueTask(queue, T) \in [Tasks -> Nat]
<1>1. ASSUME NEW t \in Tasks PROVE PostTaskUpdateState(t) \in [Proofs -> Nat]
  <2>1. Weight[t] \in Nat
      BY ConstantsAssumption
  <2>2. \A p \in Proofs : Monus(proofGpuWeights[p], Weight[t]) \in Nat
      BY <2>1, MonusType, Zenon DEF EndOK, ArgsOK
  <2> QED
      BY <2>2, Zenon DEF EndOK, ArgsOK, PostTaskUpdateState
<1>2. ASSUME NEW gw \in [Proofs -> Nat], NEW ps PROVE OnProofDeleted(gw, ps) \in [Proofs -> Nat]
    BY Zenon DEF OnProofDeleted
<1>3. ASSUME NEW T PROVE EnqueueTask(queue, T) \in [Tasks -> Nat]
    BY DEF EnqueueTask, EndOK, ArgsOK
<1> QED
    BY <1>1, <1>2, <1>3, Zenon

\* Statuses after proofs are dropped are well typed.
LEMMA DropType ==
    ASSUME NEW st \in [Tasks -> Statuses], NEW ps
    PROVE  DropProofs(st, ps) \in [Tasks -> Statuses]
BY Zenon DEF DropProofs, Statuses

-----------------------------------------------------------------------------
(* Counting the unfinished tasks of a proof.                               *)

\* The unfinished tasks of p under the statuses st.
ActiveIn(st, p) == {t \in Tasks : ProofOf[t] = p /\ Unfinished(st[t])}

\* The sets that are counted are finite.
LEMMA ActiveFinite ==
    ASSUME NEW st, NEW p
    PROVE  IsFiniteSet(ActiveIn(st, p)) /\ Cardinality(ActiveIn(st, p)) \in Nat
BY FS_Subset, FS_CardinalityType, ConstantsAssumption, Zenon DEF ActiveIn

\* Starting a task does not change what is counted.
LEMMA ActiveKept ==
    ASSUME NEW st, StatusKept(st), NEW p
    PROVE  ActiveSet(p)' = ActiveIn(st, p)
BY Zenon DEF StatusKept, ActiveSet, ActiveIn, TasksOf, Unfinished

\* The set the property counts, at the current statuses.
LEMMA ActiveNow == \A p : ActiveSet(p) = ActiveIn(status, p)
BY Zenon DEF ActiveSet, ActiveIn, TasksOf

\* Ending one task takes it out of its proof's count, and only there.
LEMMA FinishOne ==
    ASSUME NEW st \in [Tasks -> Statuses], NEW t \in Tasks, NEW s, ~Unfinished(s),
           NEW ended,
           \A u \in Tasks : ended[u] = IF u = t THEN s ELSE st[u]
    PROVE  \A p : Cardinality(ActiveIn(ended, p)) =
                  IF p = ProofOf[t] /\ Unfinished(st[t])
                  THEN Cardinality(ActiveIn(st, p)) - 1 ELSE Cardinality(ActiveIn(st, p))
<1> SUFFICES ASSUME NEW p
    PROVE  Cardinality(ActiveIn(ended, p)) =
           IF p = ProofOf[t] /\ Unfinished(st[t])
           THEN Cardinality(ActiveIn(st, p)) - 1 ELSE Cardinality(ActiveIn(st, p))
    BY Zenon
<1>1. CASE p = ProofOf[t] /\ Unfinished(st[t])
  <2>1. t \in ActiveIn(st, p)
      BY <1>1, Zenon DEF ActiveIn
  <2>2. ActiveIn(ended, p) = ActiveIn(st, p) \ {t}
      BY Zenon DEF ActiveIn
  <2> QED
      BY <1>1, <2>1, <2>2, ActiveFinite, FS_RemoveElement, ZenonT(30)
<1>2. CASE ~(p = ProofOf[t] /\ Unfinished(st[t]))
  <2>1. ActiveIn(ended, p) = ActiveIn(st, p)
      BY <1>2, Zenon DEF ActiveIn
  <2> QED
      BY <1>2, <2>1, Zenon
<1> QED
    BY <1>1, <1>2, Zenon

\* Dropped proofs count nothing, the others what they did.
LEMMA DropCount ==
    ASSUME NEW st \in [Tasks -> Statuses], NEW ps
    PROVE  \A p : Cardinality(ActiveIn(DropProofs(st, ps), p)) =
                  IF p \in ps THEN 0 ELSE Cardinality(ActiveIn(st, p))
<1>1. \A p : p \in ps => ActiveIn(DropProofs(st, ps), p) = {}
    BY Zenon DEF ActiveIn, DropProofs, Unfinished
<1>2. \A p : p \notin ps => ActiveIn(DropProofs(st, ps), p) = ActiveIn(st, p)
    BY Zenon DEF ActiveIn, DropProofs
<1> QED
    BY <1>1, <1>2, FS_EmptySet, Zenon

\* The number of unfinished tasks of a live task's proof, and what is left of it
\* once that task is final.
LEMMA RemainingExact ==
    ASSUME status \in [Tasks -> Statuses], ActiveTasksExact, NEW t \in Tasks,
           NEW s, ~Unfinished(s), NEW ended,
           \A u \in Tasks : ended[u] = IF u = t THEN s ELSE status[u]
    PROVE  /\ RemainingAfter(t) \in Nat
           /\ RemainingAfter(t) = Cardinality(ActiveIn(ended, ProofOf[t]))
<1>1. ProofOf[t] \in Proofs
    BY ConstantsAssumption, Zenon
<1>2. activeTasks[ProofOf[t]] = Cardinality(ActiveIn(status, ProofOf[t]))
    BY <1>1, ActiveNow, Zenon DEF ActiveTasksExact
<1>3. RemainingAfter(t) = Cardinality(ActiveIn(ended, ProofOf[t]))
    BY <1>2, FinishOne DEF RemainingAfter
<1> QED
    BY <1>3, ActiveFinite, Zenon

\* Removing a proof exactly when nothing is left keeps the count.
LEMMA RemovedCount ==
    ASSUME NEW st \in [Tasks -> Statuses], NEW p, NEW remaining,
           remaining = Cardinality(ActiveIn(st, p))
    PROVE  \A r : Cardinality(ActiveIn(DropProofs(st, RemovedWhenDone(p, remaining)), r)) =
                  Cardinality(ActiveIn(st, r))
BY DropCount DEF RemovedWhenDone

-----------------------------------------------------------------------------
(* TypeOK and ActiveTasksExact are one inductive invariant: that            *)
(* active_tasks never goes below zero rests on its being exact.             *)

\* The types of what the end of a handler does not set, active_tasks apart.
RestOK ==
    /\ proofs \subseteq Proofs
    /\ proofResults \subseteq Proofs \X {"success", "failure"}
    /\ retries \in [Tasks -> 0 .. MaxTaskRetries]
    /\ subscribers \subseteq Tasks /\ awaiting \subseteq Tasks
    /\ workers \subseteq Workers /\ closed \subseteq workers
    /\ channel \in [Tasks -> {"absent", "open", "closed"}]
    /\ shuttingDown \in BOOLEAN
    /\ deadWorkers \subseteq Workers /\ expiredProofs \subseteq Proofs

CountInv == TypeOK /\ ActiveTasksExact

\* TypeOK is the two halves and active_tasks.
LEMMA TypeSplit == TypeOK <=> EndOK /\ RestOK /\ activeTasks \in [Proofs -> Nat]
BY Zenon DEF TypeOK, EndOK, ArgsOK, RestOK

\* A handler preserves CountInv if its arguments are well typed and its
\* active_tasks counts the unfinished tasks among the statuses it computed.
LEMMA CountEnd ==
    ASSUME NEW st, NEW hd, NEW wt, NEW q, NEW gw, CountInv, ArgsOK(st, hd, wt, q, gw),
           Settle(st, hd, wt, q, gw) \/ AssignTasks(st, hd, wt, q, gw),
           RestOK', activeTasks' \in [Proofs -> Nat],
           \A p \in Proofs : activeTasks'[p] = Cardinality(ActiveIn(st, p))
    PROVE  CountInv'
<1>1. EndOK' /\ StatusKept(st)
    BY EndOutcome, TypeSplit, Zenon DEF CountInv
<1>2. TypeOK'
    BY <1>1, Zenon DEF TypeOK, EndOK, ArgsOK, RestOK
<1>3. \A p \in Proofs : ActiveSet(p)' = ActiveIn(st, p)
    BY <1>1, ActiveKept, Zenon
<1> QED
    BY <1>2, <1>3, Zenon DEF CountInv, ActiveTasksExact

\* active_tasks of every proof, as a number of unfinished tasks.
LEMMA CountNow ==
    ASSUME CountInv
    PROVE  \A p \in Proofs : activeTasks[p] = Cardinality(ActiveIn(status, p))
BY ActiveNow, Zenon DEF CountInv, ActiveTasksExact

\* Channels after some of them are closed are well typed.
LEMMA CloseType ==
    ASSUME RestOK, NEW T
    PROVE  CloseTaskChannel(T) \in [Tasks -> {"absent", "open", "closed"}]
BY Zenon DEF RestOK, CloseTaskChannel

\* The counts once a task has ended and its proof has been removed if it was the
\* last one.
LEMMA FinishCount ==
    ASSUME CountInv, NEW t \in Tasks, NEW s \in Statuses, ~Unfinished(s),
           activeTasks' = [activeTasks EXCEPT ![ProofOf[t]] = RemainingAfter(t)],
           NEW st, st = DropProofs(WithStatus(t, s), RemovedWhenDone(ProofOf[t], RemainingAfter(t)))
    PROVE  /\ st \in [Tasks -> Statuses]
           /\ activeTasks' \in [Proofs -> Nat]
           /\ \A p \in Proofs : activeTasks'[p] = Cardinality(ActiveIn(st, p))
<1> DEFINE ended == WithStatus(t, s)
<1>1. status \in [Tasks -> Statuses] /\ activeTasks \in [Proofs -> Nat] /\ ActiveTasksExact
    BY Zenon DEF CountInv, TypeOK
<1>2. ended \in [Tasks -> Statuses] /\ \A u \in Tasks : ended[u] = IF u = t THEN s ELSE status[u]
    BY <1>1, Zenon DEF WithStatus
<1> HIDE DEF ended
<1>3. RemainingAfter(t) \in Nat /\ RemainingAfter(t) = Cardinality(ActiveIn(ended, ProofOf[t]))
    BY <1>1, <1>2, RemainingExact, ZenonT(30)
<1>4. st \in [Tasks -> Statuses]
    BY <1>2, DropType, Zenon DEF ended
<1>5. activeTasks' \in [Proofs -> Nat]
    BY <1>1, <1>3, ConstantsAssumption, ZenonT(30)
<1>6. \A p : Cardinality(ActiveIn(st, p)) = Cardinality(ActiveIn(ended, p))
    BY <1>2, <1>3, RemovedCount DEF ended
<1>7. ASSUME NEW p \in Proofs PROVE activeTasks'[p] = Cardinality(ActiveIn(ended, p))
  <2>1. CASE p = ProofOf[t]
      BY <1>1, <1>3, <2>1, Zenon
  <2>2. CASE p # ProofOf[t]
    <3>1. Cardinality(ActiveIn(ended, p)) = Cardinality(ActiveIn(status, p))
        BY <1>1, <1>2, <2>2, FinishOne
    <3> QED
        BY <1>1, <2>2, <3>1, CountNow, Zenon
  <2> QED
      BY <2>1, <2>2, Zenon
<1> QED
    BY <1>4, <1>5, <1>6, <1>7, ZenonT(30)

\* Taking proofs down: their tasks are gone and count nothing.
LEMMA TearDownCount ==
    ASSUME CountInv, NEW ps, TearDown(ps), NEW st, st = DropProofs(status, ps)
    PROVE  /\ st \in [Tasks -> Statuses]
           /\ activeTasks' \in [Proofs -> Nat]
           /\ \A p \in Proofs : activeTasks'[p] = Cardinality(ActiveIn(st, p))
           /\ proofs' \subseteq Proofs
           /\ retries' \in [Tasks -> 0 .. MaxTaskRetries]
           /\ subscribers' \subseteq Tasks /\ awaiting' \subseteq Tasks
           /\ channel' \in [Tasks -> {"absent", "open", "closed"}]
<1>1. RestOK /\ status \in [Tasks -> Statuses] /\ activeTasks \in [Proofs -> Nat]
    BY TypeSplit, Zenon DEF CountInv, TypeOK
<1>2. st \in [Tasks -> Statuses]
    BY <1>1, DropType, Zenon
<1>3. activeTasks' \in [Proofs -> Nat]
    BY <1>1, Zenon DEF TearDown
<1>4. \A p \in Proofs : activeTasks'[p] = Cardinality(ActiveIn(st, p))
    BY <1>1, DropCount, CountNow DEF TearDown
<1>5. retries' \in [Tasks -> 0 .. MaxTaskRetries]
    BY <1>1, ConstantsAssumption DEF TearDown, RestOK
<1>6. channel' \in [Tasks -> {"absent", "open", "closed"}]
    BY <1>1, CloseType, Zenon DEF TearDown
<1> QED
    BY <1>1, <1>2, <1>3, <1>4, <1>5, <1>6, Zenon DEF TearDown, RestOK

-----------------------------------------------------------------------------
(* Queue entries and slots.  A task has one queue entry or one slot, never  *)
(* both; a slot belongs to a registered worker, the one the task was last   *)
(* given to, and its task is running or has succeeded; and an unfinished    *)
(* task has one of the two.  Each conjunct needs the others: a pass gives a *)
(* queued task a second slot unless entry and slot exclude each other, and  *)
(* a torn-down proof leaves a slot behind unless owner names its holder.    *)

SlotsOK(st, hd, q, ow, ws) ==
    /\ \A t \in Tasks : q[t] <= 1 /\ (st[t] = "Unused" => q[t] = 0)
    /\ \A w \in Workers : \A t \in hd[w] :
          w \in ws /\ ow[t] = w /\ st[t] \in {"Running", "Succeeded"} /\ q[t] = 0
    /\ ~shuttingDown =>
          \A t \in Tasks : Unfinished(st[t]) /\ Lane(t) # "None" =>
              q[t] = 1 \/ \E w \in Workers : t \in hd[w]

SlotInv == SlotsOK(status, held, queue, owner, workers)

\* Either end of a handler carries SlotsOK over from what was computed.
LEMMA SlotEnd ==
    ASSUME NEW st, NEW hd, NEW wt, NEW q, NEW gw, EndOK, ArgsOK(st, hd, wt, q, gw),
           Settle(st, hd, wt, q, gw) \/ AssignTasks(st, hd, wt, q, gw),
           SlotsOK(st, hd, q, owner, workers'), UNCHANGED shuttingDown
    PROVE  SlotInv'
<1>1. CASE Settle(st, hd, wt, q, gw)
    BY <1>1, ZenonT(30) DEF Settle, SlotInv, SlotsOK, KeepPresent, ArgsOK
<1>2. CASE ~shuttingDown /\ AssignTasks(st, hd, wt, q, gw)
  <2>1. PICK S \in SUBSET {t \in Queued(q) : Unfinished(st[t])},
             D \in SUBSET {t \in Queued(q) : ~Unfinished(st[t])} :
          \E to \in [S -> Workers] : AssignmentPass(st, hd, wt, q, gw, S, D, to)
      BY <1>2, ZenonT(30) DEF AssignTasks
  <2>2. PICK to \in [S -> Workers] : AssignmentPass(st, hd, wt, q, gw, S, D, to)
      BY <2>1, ZenonT(30)
  <2>3. /\ status' = [t \in Tasks |-> IF t \in S THEN "Running" ELSE st[t]]
        /\ owner' = [t \in Tasks |->
                        IF t \in S THEN to[t] ELSE IF st[t] = "Removed" THEN NoWorker ELSE owner[t]]
        /\ held' = [w \in Workers |-> hd[w] \cup {t \in S : to[t] = w}]
        /\ queue' = [t \in Tasks |-> IF t \in S THEN q[t] - 1 ELSE IF t \in D THEN 0 ELSE q[t]]
        /\ \A t \in S : to[t] \in workers'
      BY <2>2, ZenonT(30) DEF AssignmentPass, KeepPresent, CanTake, Given, Queued
  <2>4. /\ S \subseteq Tasks /\ \A t \in S : q[t] = 1 /\ Unfinished(st[t])
        /\ D \subseteq Tasks /\ \A t \in D : ~Unfinished(st[t])
      BY DEF SlotsOK, ArgsOK, Queued
  <2>5. \A t \in Tasks : queue'[t] <= 1 /\ (status'[t] = "Unused" => queue'[t] = 0)
      BY <2>3, <2>4, SMTT(30) DEF SlotsOK, ArgsOK
  <2>6. ASSUME NEW w \in Workers, NEW t \in held'[w]
        PROVE  /\ w \in workers' /\ owner'[t] = w
               /\ status'[t] \in {"Running", "Succeeded"} /\ queue'[t] = 0
    <3>1. CASE t \in S
      <4>1. t \notin hd[w]
          BY <2>4, <3>1, SMTT(30) DEF SlotsOK
      <4> QED
          BY <2>3, <2>4, <2>6, <3>1, <4>1, SMTT(30)
    <3>2. CASE t \notin S
      <4>1. t \in hd[w] /\ t \in Tasks
          BY <2>3, <2>6, <3>2, ZenonT(30) DEF ArgsOK
      <4> QED
          BY <2>3, <3>2, <4>1, Zenon DEF SlotsOK
    <3> QED
        BY <3>1, <3>2, ZenonT(30)
  <2>7. ASSUME NEW t \in Tasks, Unfinished(status'[t]), Lane(t) # "None"
        PROVE  queue'[t] = 1 \/ \E w \in Workers : t \in held'[w]
    <3>1. CASE t \in S
        BY <2>3, <3>1, Zenon
    <3>2. CASE t \notin S
      <4>1. Unfinished(st[t])
          BY <2>3, <2>7, <3>2, ZenonT(30)
      <4>2. q[t] = 1 \/ \E w \in Workers : t \in hd[w]
          BY <1>2, <2>7, <4>1, ZenonT(30) DEF SlotsOK
      <4> QED
          BY <2>3, <2>4, <3>2, <4>1, <4>2, ZenonT(30)
    <3> QED
        BY <3>1, <3>2, Zenon
  <2> QED
      BY <2>5, <2>6, <2>7 DEF SlotInv, SlotsOK
<1> QED
    BY <1>1, <1>2, ZenonT(30) DEF AssignTasks

\* Taking proofs down while giving up exactly the slots of their tasks.
LEMMA TearDownSlots ==
    ASSUME EndOK, SlotInv, NEW ps, NEW hd,
           \A v \in Workers : \A u : u \in hd[v] <=> u \in held[v] /\ ProofOf[u] \notin ps,
           NEW st, st = DropProofs(status, ps)
    PROVE  SlotsOK(st, hd, queue, owner, workers)
BY DEF SlotInv, SlotsOK, DropProofs, EndOK, ArgsOK, Unfinished

-----------------------------------------------------------------------------
(* Proofs, channels and subscribers live with the tasks.                   *)

LifeOK(st, prf, act, ch, sub, aw) ==
    /\ \A t \in Tasks : st[t] \notin {"Unused", "Removed"} =>
          ProofOf[t] \in prf /\ act[ProofOf[t]] > 0
    /\ \A t \in Tasks : st[t] = "FailedFatal" => ~EnableProofFail(t)
    /\ \A t \in Tasks : ch[t] = "open" => Unfinished(st[t])
    /\ \A t \in aw : t \in sub /\ Unfinished(st[t])

LifeInv == LifeOK(status, proofs, activeTasks, channel, subscribers, awaiting)

\* Starting unfinished tasks keeps LifeOK.
LEMMA LifeEnd ==
    ASSUME NEW st, StatusKept(st), awaiting' \subseteq Tasks,
           LifeOK(st, proofs', activeTasks', channel', subscribers', awaiting')
    PROVE  LifeInv'
BY Zenon DEF LifeInv, LifeOK, StatusKept, Unfinished

\* Taking proofs down keeps LifeOK: what belonged to them goes with them.
LEMMA TearDownLife ==
    ASSUME CountInv, LifeInv, NEW ps, TearDown(ps), NEW st, st = DropProofs(status, ps)
    PROVE  LifeOK(st, proofs', activeTasks', channel', subscribers', awaiting')
<1>1. /\ status \in [Tasks -> Statuses] /\ ProofOf \in [Tasks -> Proofs]
      /\ channel \in [Tasks -> {"absent", "open", "closed"}] /\ awaiting \subseteq Tasks
    BY ConstantsAssumption, Zenon DEF CountInv, TypeOK
<1>2. \A t \in Tasks : st[t] = IF ProofOf[t] \in ps /\ status[t] # "Unused" THEN "Removed" ELSE status[t]
    BY Zenon DEF DropProofs
<1>3. \A t \in Tasks : st[t] \notin {"Unused", "Removed"} =>
          ProofOf[t] \in proofs' /\ activeTasks'[ProofOf[t]] > 0
    BY <1>1, <1>2, ZenonT(30) DEF LifeInv, LifeOK, TearDown
<1>4. \A t \in Tasks : st[t] = "FailedFatal" => ~EnableProofFail(t)
    BY <1>2, Zenon DEF LifeInv, LifeOK
<1>5. \A t \in Tasks : channel'[t] = "open" => channel[t] = "open" /\ ProofOf[t] \notin ps
    BY <1>1, ZenonT(30) DEF TearDown, CloseTaskChannel, TasksOf
<1>6. \A t \in Tasks : channel'[t] = "open" => Unfinished(st[t])
    BY <1>2, <1>5, ZenonT(30) DEF LifeInv, LifeOK
<1>7. \A t \in awaiting' : t \in Tasks /\ t \in subscribers /\ Unfinished(status[t]) /\ ProofOf[t] \notin ps
    BY <1>1, ZenonT(30) DEF LifeInv, LifeOK, TearDown, NotifySubscribers, TasksOf
<1>8. \A t \in awaiting' : t \in subscribers' /\ Unfinished(st[t])
    BY <1>2, <1>7, ZenonT(30) DEF TearDown, TasksOf
<1> QED
    BY <1>3, <1>4, <1>6, <1>8, Zenon DEF LifeOK

\* A task that is not finished keeps its proof when another task ends.
LEMMA UnfinishedStays ==
    ASSUME CountInv, NEW t \in Tasks, NEW u \in Tasks, u # t, Unfinished(status[u])
    PROVE  ProofOf[u] \notin RemovedWhenDone(ProofOf[t], RemainingAfter(t))
<1> DEFINE ended == [v \in Tasks |-> IF v = t THEN "Succeeded" ELSE status[v]]
<1>1. /\ ~Unfinished("Succeeded") /\ status \in [Tasks -> Statuses] /\ ActiveTasksExact
      /\ \A v \in Tasks : ended[v] = IF v = t THEN "Succeeded" ELSE status[v]
    BY Zenon DEF Unfinished, CountInv, TypeOK
<1> HIDE DEF ended
<1>2. RemainingAfter(t) = Cardinality(ActiveIn(ended, ProofOf[t]))
    BY <1>1, RemainingExact, ZenonT(30)
<1> SUFFICES ASSUME ProofOf[u] = ProofOf[t], RemainingAfter(t) = 0 PROVE FALSE
    BY Zenon DEF RemovedWhenDone
<1>3. u \in ActiveIn(ended, ProofOf[t])
    BY <1>1, Zenon DEF ActiveIn
<1>4. ActiveIn(ended, ProofOf[t]) = {}
    BY <1>2, ActiveFinite, FS_EmptySet, Zenon
<1> QED
    BY <1>3, <1>4, ZenonT(30)

-----------------------------------------------------------------------------
(* Capacity accounting.                                                    *)

HeldBy(hd) == UNION {hd[w] : w \in Workers}

WeightsOK(hd, wt, gw) ==
    ~shuttingDown =>
        /\ \A w \in Workers : wt[w] = SumWeight(hd[w]) /\ wt[w] <= MaxWeight[w]
        /\ \A p \in Proofs : gw[p] = SumWeight(GpuOf(p, HeldBy(hd)))

WeightInv == WeightsOK(held, weight, proofGpuWeights)

\* Saturating subtraction is exact when a part is given up.
LEMMA SumWeightDiff ==
    ASSUME NEW T, T \subseteq Tasks, NEW R, R \subseteq T
    PROVE  /\ SumWeight(T \ R) = Monus(SumWeight(T), SumWeight(R))
           /\ SumWeight(T \ R) <= SumWeight(T)
<1>1. (T \ R) \cup R = T /\ (T \ R) \cap R = {} /\ T \ R \subseteq Tasks /\ R \subseteq Tasks
    BY Zenon
<1>2. SumWeight(T) = SumWeight(T \ R) + SumWeight(R)
  <2>1. SumWeight((T \ R) \cup R) = SumWeight(T \ R) + SumWeight(R)
      BY <1>1, SumWeightUnion, Zenon
  <2> QED
      BY <1>1, <2>1, Zenon
<1>3. SumWeight(T \ R) \in Nat /\ SumWeight(R) \in Nat
    BY <1>1, SlotsFinite, Zenon
<1> QED
    BY <1>2, <1>3 DEF Monus

\* A worker that gives up some of its tasks keeps an exact weight, whether it is
\* reset or subtracted from.
LEMMA ReleaseWeights ==
    ASSUME EndOK, WeightInv, ~shuttingDown, NEW noReset,
           NEW released \in [Workers -> SUBSET Tasks],
           \A w \in Workers : released[w] \subseteq held[w]
    PROVE  \A w \in Workers :
              /\ WeightWithout(released, noReset)[w] = SumWeight(HeldWithout(released)[w])
              /\ WeightWithout(released, noReset)[w] <= MaxWeight[w]
<1> SUFFICES ASSUME NEW w \in Workers
    PROVE  /\ WeightWithout(released, noReset)[w] = SumWeight(HeldWithout(released)[w])
           /\ WeightWithout(released, noReset)[w] <= MaxWeight[w]
    BY Zenon
<1>1. /\ held[w] \subseteq Tasks /\ released[w] \subseteq held[w]
      /\ weight[w] = SumWeight(held[w]) /\ weight[w] <= MaxWeight[w]
      /\ MaxWeight[w] \in Nat /\ weight[w] \in Nat
    BY ConstantsAssumption, Zenon DEF EndOK, ArgsOK, WeightInv, WeightsOK
<1>2. HeldWithout(released)[w] = held[w] \ released[w]
    BY Zenon DEF HeldWithout
<1>3. CASE released[w] = {}
  <2>1. HeldWithout(released)[w] = held[w] /\ WeightWithout(released, noReset)[w] = weight[w]
      BY <1>2, <1>3, ZenonT(30) DEF WeightWithout
  <2> QED
      BY <1>1, <2>1, Zenon
<1>4. CASE released[w] # {} /\ released[w] = held[w] /\ w \notin noReset
  <2>1. HeldWithout(released)[w] = {} /\ WeightWithout(released, noReset)[w] = 0
      BY <1>2, <1>4, Zenon DEF WeightWithout
  <2> QED
      BY <1>1, <2>1, SumWeightEmpty
<1>5. CASE released[w] # {} /\ ~(released[w] = held[w] /\ w \notin noReset)
  <2>1. WeightWithout(released, noReset)[w] = Monus(SumWeight(held[w]), SumWeight(released[w]))
      BY <1>1, <1>5, Zenon DEF WeightWithout
  <2>2. /\ SumWeight(held[w] \ released[w]) = Monus(SumWeight(held[w]), SumWeight(released[w]))
        /\ SumWeight(held[w] \ released[w]) <= SumWeight(held[w])
        /\ SumWeight(held[w] \ released[w]) \in Nat
      BY <1>1, SumWeightDiff, SlotsFinite, Zenon
  <2> QED
      BY <1>1, <1>2, <2>1, <2>2
<1> QED
    BY <1>3, <1>4, <1>5, Zenon

\* The policy's counters, saturating, follow the tasks given up.
LEMMA GpuMinus ==
    ASSUME EndOK, WeightInv, ~shuttingDown, NEW p \in Proofs,
           NEW R, R \subseteq HeldBy(held), NEW hd, HeldBy(hd) = HeldBy(held) \ R
    PROVE  Monus(proofGpuWeights[p], SumWeight(GpuOf(p, R))) = SumWeight(GpuOf(p, HeldBy(hd)))
<1> DEFINE T == GpuOf(p, HeldBy(held))
           U == GpuOf(p, R)
<1>1. T \subseteq Tasks /\ U \subseteq T
    BY DEF EndOK, ArgsOK, HeldBy, GpuOf
<1>2. GpuOf(p, HeldBy(hd)) = T \ U
    BY Zenon DEF GpuOf
<1>3. proofGpuWeights[p] = SumWeight(T)
    BY Zenon DEF WeightInv, WeightsOK
<1> HIDE DEF T, U
<1>4. SumWeight(T \ U) = Monus(SumWeight(T), SumWeight(U))
    BY <1>1, SumWeightDiff, Zenon
<1> QED
    BY <1>2, <1>3, <1>4, Zenon DEF U

\* post_task_update_state for the one task given up.
LEMMA GpuOne ==
    ASSUME EndOK, WeightInv, ~shuttingDown, NEW t \in Tasks, t \in HeldBy(held),
           NEW hd, HeldBy(hd) = HeldBy(held) \ {t}
    PROVE  \A p \in Proofs : PostTaskUpdateState(t)[p] = SumWeight(GpuOf(p, HeldBy(hd)))
<1> SUFFICES ASSUME NEW p \in Proofs
    PROVE  PostTaskUpdateState(t)[p] = SumWeight(GpuOf(p, HeldBy(hd)))
    BY Zenon
<1>1. Monus(proofGpuWeights[p], SumWeight(GpuOf(p, {t}))) = SumWeight(GpuOf(p, HeldBy(hd)))
    BY GpuMinus, ZenonT(30)
<1>2. CASE ProofOf[t] = p /\ Lane(t) = "Gpu"
  <2>1. GpuOf(p, {t}) = {t}
      BY <1>2, Zenon DEF GpuOf
  <2>2. SumWeight(GpuOf(p, {t})) = Weight[t]
      BY <2>1, SumWeightSingle, ZenonT(30)
  <2> QED
      BY <1>1, <1>2, <2>2, Zenon DEF PostTaskUpdateState, EndOK, ArgsOK
<1>3. CASE ~(ProofOf[t] = p /\ Lane(t) = "Gpu")
  <2>1. GpuOf(p, {t}) = {}
      BY <1>3, ZenonT(30) DEF GpuOf
  <2>2. SumWeight(GpuOf(p, {t})) = 0
      BY <2>1, SumWeightEmpty, ZenonT(30)
  <2>3. PostTaskUpdateState(t)[p] = proofGpuWeights[p] /\ proofGpuWeights[p] \in Nat
      BY <1>3, ZenonT(30) DEF PostTaskUpdateState, EndOK, ArgsOK
  <2> QED
      BY <1>1, <2>2, <2>3 DEF Monus
<1> QED
    BY <1>2, <1>3, Zenon

\* on_proof_deleted for proofs whose tasks are given up entirely.
LEMMA GpuDropped ==
    ASSUME EndOK, WeightInv, ~shuttingDown, NEW ps, NEW hd,
           \A v \in Workers : \A u : u \in hd[v] <=> u \in held[v] /\ ProofOf[u] \notin ps
    PROVE  \A p \in Proofs : OnProofDeleted(proofGpuWeights, ps)[p] = SumWeight(GpuOf(p, HeldBy(hd)))
<1> SUFFICES ASSUME NEW p \in Proofs
    PROVE  OnProofDeleted(proofGpuWeights, ps)[p] = SumWeight(GpuOf(p, HeldBy(hd)))
    BY Zenon
<1>1. CASE p \in ps
  <2>1. GpuOf(p, HeldBy(hd)) = {}
      BY <1>1, ZenonT(30) DEF GpuOf, HeldBy
  <2> QED
      BY <1>1, <2>1, SumWeightEmpty, ZenonT(30) DEF OnProofDeleted
<1>2. CASE p \notin ps
  <2>1. GpuOf(p, HeldBy(hd)) = GpuOf(p, HeldBy(held))
      BY <1>2 DEF GpuOf, HeldBy
  <2> QED
      BY <1>2, <2>1, ZenonT(30) DEF OnProofDeleted, WeightInv, WeightsOK
<1> QED
    BY <1>1, <1>2, ZenonT(30)

\* Either end of a handler keeps the accounting exact: a pass charges each task
\* once, to a worker with room for it, and no task it charges was charged before.
LEMMA WeightEnd ==
    ASSUME NEW st, NEW hd, NEW wt, NEW q, NEW gw, EndOK, ArgsOK(st, hd, wt, q, gw),
           Settle(st, hd, wt, q, gw) \/ AssignTasks(st, hd, wt, q, gw),
           SlotsOK(st, hd, q, owner, workers'), WeightsOK(hd, wt, gw), UNCHANGED shuttingDown
    PROVE  WeightInv'
<1>1. CASE Settle(st, hd, wt, q, gw)
    BY <1>1, ZenonT(30) DEF Settle, WeightInv, WeightsOK, HeldBy
<1>2. CASE ~shuttingDown /\ AssignTasks(st, hd, wt, q, gw)
  <2>1. PICK S \in SUBSET {t \in Queued(q) : Unfinished(st[t])},
             D \in SUBSET {t \in Queued(q) : ~Unfinished(st[t])} :
          \E to \in [S -> Workers] : AssignmentPass(st, hd, wt, q, gw, S, D, to)
      BY <1>2, ZenonT(30) DEF AssignTasks
  <2>2. PICK to \in [S -> Workers] : AssignmentPass(st, hd, wt, q, gw, S, D, to)
      BY <2>1, ZenonT(30)
  <2>3. S \subseteq Tasks /\ \A t \in S : \A w \in Workers : t \notin hd[w]
      BY SMTT(30) DEF SlotsOK, ArgsOK, Queued
  <2>4. ASSUME NEW w \in Workers
        PROVE  weight'[w] = SumWeight(held'[w]) /\ weight'[w] <= MaxWeight[w]
    <3> DEFINE G == Given(S, to, w)
    <3>1. hd[w] \subseteq Tasks /\ G \subseteq Tasks /\ hd[w] \cap G = {}
        BY <2>3, Zenon DEF ArgsOK, Given
    <3>2. held'[w] = hd[w] \cup G /\ weight'[w] = wt[w] + SumWeight(G)
        BY <2>2, ZenonT(30) DEF AssignmentPass, LoadWith
    <3>3. SumWeight(hd[w] \cup G) = SumWeight(hd[w]) + SumWeight(G)
        BY <3>1, SumWeightUnion, ZenonT(30)
    <3>4. wt[w] = SumWeight(hd[w]) /\ wt[w] <= MaxWeight[w]
        BY <1>2, Zenon DEF WeightsOK
    <3>5. weight'[w] <= MaxWeight[w]
      <4>1. CASE G = {}
        <5>1. SumWeight(G) = 0 /\ wt[w] \in Nat
          <6>1. wt[w] \in Nat
              BY ZenonT(30) DEF ArgsOK
          <6> QED
              BY <4>1, <6>1, SumWeightEmpty, Zenon
        <5> HIDE DEF G
        <5> QED
            BY <3>2, <3>4, <5>1
      <4>2. CASE G # {}
        <5>1. PICK t \in S : to[t] = w
            BY <4>2, ZenonT(30) DEF Given
        <5> QED
            BY <2>2, <3>2, <5>1, ZenonT(30) DEF AssignmentPass, LoadWith
      <4> QED
          BY <4>1, <4>2, ZenonT(30)
    <3> QED
        BY <3>2, <3>3, <3>4, <3>5, ZenonT(30)
  <2>5. ASSUME NEW p \in Proofs
        PROVE  proofGpuWeights'[p] = SumWeight(GpuOf(p, HeldBy(held')))
    <3> DEFINE H == GpuOf(p, HeldBy(hd))
               G == GpuOf(p, S)
    <3>1. H \subseteq Tasks /\ G \subseteq Tasks /\ H \cap G = {}
        BY <2>3, SMTT(30) DEF ArgsOK, GpuOf, HeldBy
    <3>2. GpuOf(p, HeldBy(held')) = H \cup G
      <4>1. held' = [w \in Workers |-> hd[w] \cup {t \in S : to[t] = w}]
          BY <2>2, ZenonT(30) DEF AssignmentPass, Given
      <4>2. \A w \in Workers : \A t : t \in held'[w] <=> t \in hd[w] \/ (t \in S /\ to[t] = w)
          BY <4>1, ZenonT(30)
      <4>3. \A t \in S : to[t] \in Workers
          BY Zenon
      <4>4. \A t : /\ t \in HeldBy(held') <=> (\E w \in Workers : t \in held'[w])
                   /\ t \in HeldBy(hd) <=> (\E w \in Workers : t \in hd[w])
          BY Zenon DEF HeldBy
      <4>5. \A t : t \in HeldBy(held') <=> t \in HeldBy(hd) \/ t \in S
          BY <4>2, <4>3, <4>4, ZenonT(30)
      <4> QED
          BY <4>5, Zenon DEF GpuOf
    <3>3. proofGpuWeights'[p] = SumWeight(H) + SumWeight(G)
        BY <1>2, <2>2, ZenonT(30) DEF AssignmentPass, WeightsOK
    <3> HIDE DEF H, G
    <3> QED
        BY <3>1, <3>2, <3>3, SumWeightUnion, ZenonT(30)
  <2>6. HeldBy(held)' = HeldBy(held')
      BY ZenonT(30) DEF HeldBy
  <2> QED
      BY <2>4, <2>5, <2>6, ZenonT(30) DEF WeightInv, WeightsOK
<1> QED
    BY <1>1, <1>2, Zenon DEF AssignTasks

-----------------------------------------------------------------------------
(* The end of one task t, reported by the worker w: its status becomes s,  *)
(* and its proof goes if `removed' says so.                                *)

\* The statuses after it.
EndedStatus(st, t, s, removed) ==
    \A u \in Tasks : st[u] = IF ProofOf[u] \in removed /\ status[u] # "Unused" THEN "Removed"
                             ELSE IF u = t THEN s ELSE status[u]

\* The slots after it.
EndedHeld(hd, w, t, removed) ==
    \A v \in Workers : \A u : u \in hd[v] <=>
        u \in held[v] /\ ProofOf[u] \notin removed /\ <<v, u>> # <<w, t>>

\* The queue after it: a task to be retried is queued again.
EndedQueue(q, t, s) ==
    \A u \in Tasks : q[u] = IF u = t /\ Unfinished(s) /\ Lane(t) # "None" THEN queue[u] + 1 ELSE queue[u]

\* The policy's GPU weights after it.
LEMMA GpuEnded ==
    ASSUME EndOK, SlotInv, WeightInv, ~shuttingDown, NEW w \in Workers, NEW t \in Tasks,
           t \in held[w], NEW removed, removed = {} \/ removed = {ProofOf[t]}, NEW hd, EndedHeld(hd, w, t, removed)
    PROVE  \A r \in Proofs : OnProofDeleted(PostTaskUpdateState(t), removed)[r] =
                             SumWeight(GpuOf(r, HeldBy(hd)))
<1>1. CASE removed = {}
  <2>1. \A v \in Workers : \A u : u \in hd[v] <=> u \in held[v] /\ <<v, u>> # <<w, t>>
      BY <1>1, ZenonT(30) DEF EndedHeld
  <2>2. \A v \in Workers : t \in held[v] => v = w
      BY Zenon DEF SlotInv, SlotsOK
  <2>3. t \in HeldBy(held) /\ HeldBy(hd) = HeldBy(held) \ {t}
      BY <2>1, <2>2, ZenonT(30) DEF HeldBy
  <2>4. \A r \in Proofs : PostTaskUpdateState(t)[r] = SumWeight(GpuOf(r, HeldBy(hd)))
      BY <2>3, GpuOne, Zenon
  <2> QED
      BY <1>1, <2>4, ZenonT(30) DEF OnProofDeleted
<1>2. CASE removed = {ProofOf[t]}
  <2>1. \A v \in Workers : \A u : u \in hd[v] <=> u \in held[v] /\ ProofOf[u] \notin removed
      BY <1>2, Zenon DEF EndedHeld
  <2>2. \A r \in Proofs : OnProofDeleted(PostTaskUpdateState(t), removed)[r] =
                          OnProofDeleted(proofGpuWeights, removed)[r]
      BY <1>2, Zenon DEF OnProofDeleted, PostTaskUpdateState, EndOK, ArgsOK
  <2> QED
      BY <2>1, <2>2, GpuDropped
<1> QED
    BY <1>1, <1>2, ZenonT(30)

-----------------------------------------------------------------------------
(* The inductive invariant, and the reports.                               *)

\* The inductive invariant.  Its parts lean on each other: active_tasks is exact
\* because a task in a slot is not FailedFatal, a slot is released because the
\* task's owner is its holder, weights are exact because nothing is given out twice.
IInv == CountInv /\ SlotInv /\ LifeInv /\ WeightInv

\* The parts of the invariant, ready for use.
LEMMA Parts ==
    ASSUME IInv
    PROVE  /\ CountInv /\ SlotInv /\ LifeInv /\ WeightInv
           /\ EndOK /\ RestOK /\ activeTasks \in [Proofs -> Nat]
           /\ status \in [Tasks -> Statuses] /\ held \in [Workers -> SUBSET Tasks]
           /\ queue \in [Tasks -> Nat] /\ ProofOf \in [Tasks -> Proofs]
BY TypeSplit, ConstantsAssumption, Zenon DEF IInv, CountInv, EndOK, ArgsOK

\* A handler preserves the invariant if what it passes to its end satisfies it.
LEMMA InvEnd ==
    ASSUME NEW st, NEW hd, NEW wt, NEW q, NEW gw, IInv, ArgsOK(st, hd, wt, q, gw),
           Settle(st, hd, wt, q, gw) \/ AssignTasks(st, hd, wt, q, gw),
           RestOK', activeTasks' \in [Proofs -> Nat], UNCHANGED shuttingDown,
           \A p \in Proofs : activeTasks'[p] = Cardinality(ActiveIn(st, p)),
           SlotsOK(st, hd, q, owner, workers'),
           LifeOK(st, proofs', activeTasks', channel', subscribers', awaiting'),
           WeightsOK(hd, wt, gw)
    PROVE  IInv'
<1>1. EndOK /\ CountInv
    BY Parts, Zenon
<1>2. CountInv'
    BY <1>1, CountEnd, Zenon
<1>3. StatusKept(st)
    BY <1>1, EndOutcome, Zenon
<1>4. SlotInv'
    BY <1>1, SlotEnd, Zenon
<1>5. LifeInv'
    BY <1>3, LifeEnd, Zenon DEF RestOK
<1>6. WeightInv'
    BY <1>1, WeightEnd, Zenon
<1> QED
    BY <1>2, <1>4, <1>5, <1>6, Zenon DEF IInv

\* A proof is removed only when nothing is left of it, so one that stays has
\* tasks to wait for and one that goes takes no other unfinished task with it.
LEMMA RemovedFacts ==
    ASSUME IInv, NEW t \in Tasks, NEW n, n = RemainingAfter(t) \/ (n = activeTasks[ProofOf[t]] /\ n > 0)
    PROVE  /\ RemovedWhenDone(ProofOf[t], n) = {} \/ RemovedWhenDone(ProofOf[t], n) = {ProofOf[t]}
           /\ ProofOf[t] \notin RemovedWhenDone(ProofOf[t], n) => n # 0
           /\ \A u \in Tasks : u # t /\ Unfinished(status[u]) =>
                 ProofOf[u] \notin RemovedWhenDone(ProofOf[t], n)
<1>1. CountInv
    BY Parts, Zenon
<1>2. CASE n = RemainingAfter(t)
    BY <1>1, <1>2, UnfinishedStays, Zenon DEF RemovedWhenDone
<1>3. CASE n = activeTasks[ProofOf[t]] /\ n > 0
    BY <1>3 DEF RemovedWhenDone
<1> QED
    BY <1>2, <1>3, Zenon

\* LifeOK after a task's end, with its proof if `removed' says so, or its retry.
LEMMA EndedLife ==
    ASSUME IInv, NEW t \in Tasks, NEW s, NEW removed, NEW st,
           status[t] \notin {"Unused", "Removed"},
           EndedStatus(st, t, s, removed),
           \A u \in Tasks : u # t /\ Unfinished(status[u]) => ProofOf[u] \notin removed,
           Unfinished(s) => removed = {},
           proofs' = proofs \ removed,
           \A r \in Proofs : r # ProofOf[t] => activeTasks'[r] = activeTasks[r],
           ProofOf[t] \notin removed => activeTasks'[ProofOf[t]] > 0,
           s = "FailedFatal" => ~EnableProofFail(t),
           channel' = CloseTaskChannel({t}),
           \A u \in awaiting' : u \in awaiting /\ (u = t => Unfinished(s)),
           \A u \in subscribers : u # t /\ ProofOf[u] \notin removed => u \in subscribers',
           Unfinished(s) => subscribers \subseteq subscribers'
    PROVE  LifeOK(st, proofs', activeTasks', channel', subscribers', awaiting')
<1> USE DEF EndedStatus
<1>1. LifeInv /\ RestOK /\ ProofOf \in [Tasks -> Proofs]
    BY Parts, Zenon
<1>2. \A u \in Tasks : st[u] \notin {"Unused", "Removed"} =>
          ProofOf[u] \in proofs' /\ activeTasks'[ProofOf[u]] > 0
  <2> SUFFICES ASSUME NEW u \in Tasks, st[u] \notin {"Unused", "Removed"}
               PROVE  ProofOf[u] \in proofs' /\ activeTasks'[ProofOf[u]] > 0
      BY Zenon
  <2>1. status[u] \notin {"Unused", "Removed"} /\ ProofOf[u] \notin removed
      BY Zenon
  <2>2. ProofOf[u] \in proofs /\ activeTasks[ProofOf[u]] > 0 /\ ProofOf[u] \in Proofs
      BY <1>1, <2>1, Zenon DEF LifeInv, LifeOK
  <2> QED
      BY <2>1, <2>2, Zenon
<1>3. \A u \in Tasks : st[u] = "FailedFatal" => ~EnableProofFail(u)
    BY <1>1, Zenon DEF LifeInv, LifeOK
<1>4. \A u \in Tasks : channel'[u] = "open" => u # t /\ Unfinished(status[u])
    BY <1>1, Zenon DEF LifeInv, LifeOK, CloseTaskChannel, RestOK
<1>5. \A u \in Tasks : u # t /\ Unfinished(status[u]) => Unfinished(st[u])
    BY Zenon
<1>6. ASSUME NEW u \in awaiting' PROVE u \in subscribers' /\ Unfinished(st[u])
  <2>1. u \in Tasks /\ u \in subscribers /\ Unfinished(status[u]) /\ (u = t => Unfinished(s))
      BY <1>1, <1>6, Zenon DEF LifeInv, LifeOK, RestOK
  <2>2. CASE u = t
      BY <2>1, <2>2, Zenon
  <2>3. CASE u # t
      BY <1>5, <2>1, <2>3, Zenon
  <2> QED
      BY <2>2, <2>3, Zenon
<1> QED
    BY <1>2, <1>3, <1>4, <1>5, <1>6, Zenon DEF LifeOK

\* SlotsOK after a worker's report on a task: the worker gives the task up, its
\* proof goes if `removed' says so, and a task to be retried is queued again.
LEMMA EndedSlots ==
    ASSUME IInv, NEW w \in Workers, NEW t \in Tasks, NEW s, NEW removed, NEW st, NEW hd, NEW q,
           status[t] \notin {"Unused", "Removed"}, s # "Unused",
           EndedStatus(st, t, s, removed),
           EndedHeld(hd, w, t, removed),
           s = "Succeeded" \/ t \in held[w],
           EndedQueue(q, t, s)
    PROVE  SlotsOK(st, hd, q, owner, workers)
<1> USE DEF EndedStatus, EndedHeld, EndedQueue
<1>1. SlotInv /\ held \in [Workers -> SUBSET Tasks] /\ queue \in [Tasks -> Nat]
    BY Parts, Zenon
<1>2. t \in held[w] => queue[t] = 0 /\ \A v \in Workers : t \in held[v] => v = w
    BY <1>1 DEF SlotInv, SlotsOK
<1>3. Unfinished(s) => s # "Succeeded" /\ s # "Removed"
    BY Zenon DEF Unfinished
<1>4. \A u \in Tasks : q[u] <= 1 /\ (st[u] = "Unused" => q[u] = 0)
    BY <1>1, <1>2, <1>3 DEF SlotInv, SlotsOK
<1>5. ASSUME NEW v \in Workers, NEW u \in hd[v]
      PROVE  /\ v \in workers /\ owner[u] = v
             /\ st[u] \in {"Running", "Succeeded"} /\ q[u] = 0
  <2>1. u \in held[v] /\ u \in Tasks /\ ProofOf[u] \notin removed
      BY <1>1, <1>5, Zenon
  <2>2. v \in workers /\ owner[u] = v /\ status[u] \in {"Running", "Succeeded"} /\ queue[u] = 0
      BY <1>1, <2>1, Zenon DEF SlotInv, SlotsOK
  <2>3. u = t => s = "Succeeded"
      BY <1>2, <1>5, <2>1, Zenon
  <2> QED
      BY <1>3, <2>1, <2>2, <2>3, Zenon
<1>6. ASSUME ~shuttingDown, NEW u \in Tasks, Unfinished(st[u]), Lane(u) # "None"
      PROVE  q[u] = 1 \/ \E v \in Workers : u \in hd[v]
  <2>1. ProofOf[u] \notin removed \/ status[u] = "Unused"
      BY <1>6, Zenon DEF Unfinished
  <2>2. CASE u = t
      BY <1>2, <1>3, <1>6, <2>1, <2>2
  <2>3. CASE u # t
    <3>1. st[u] = status[u] /\ ProofOf[u] \notin removed /\ q[u] = queue[u]
        BY <1>6, <2>1, <2>3, Zenon DEF Unfinished
    <3>2. queue[u] = 1 \/ \E v \in Workers : u \in held[v]
        BY <1>1, <1>6, <3>1, ZenonT(30) DEF SlotInv, SlotsOK
    <3> QED
        BY <2>3, <3>1, <3>2, Zenon
  <2> QED
      BY <2>2, <2>3, Zenon
<1> QED
    BY <1>4, <1>5, <1>6, Zenon DEF SlotsOK

\* complete_task, reported once or twice, by the holder or by an earlier one.
LEMMA StepComplete ==
    ASSUME IInv, NEW w \in Workers, NEW t \in Tasks, CompleteTask(w, t)
    PROVE  IInv'
<1> DEFINE p == ProofOf[t]
           removed == RemovedWhenDone(p, RemainingAfter(t))
           others == ReleaseRemainingAssignments(removed, {<<w, t>>})
           released == [others EXCEPT ![w] = @ \cup ({t} \cap held[w])]
           st == DropProofs(WithStatus(t, "Succeeded"), removed)
           gw1 == IF t \in held[w] THEN PostTaskUpdateState(t) ELSE proofGpuWeights
           gw == OnProofDeleted(gw1, removed)
           hd == HeldWithout(released)
           wt == WeightWithout(released, {})
<1>1. /\ EndOK /\ RestOK /\ CountInv /\ SlotInv /\ WeightInv
      /\ p \in Proofs /\ activeTasks \in [Proofs -> Nat] /\ queue \in [Tasks -> Nat]
    BY Parts, Zenon
<1>2. Settle(st, hd, wt, queue, gw) \/ AssignTasks(st, hd, wt, queue, gw)
    BY ZenonT(30) DEF CompleteTask
<1>3. /\ activeTasks' = [activeTasks EXCEPT ![p] = RemainingAfter(t)]
      /\ proofs' = proofs \ removed
      /\ status[t] \notin {"Unused", "Removed"}
      /\ UNCHANGED <<workers, shuttingDown>>
      /\ channel' = CloseTaskChannel({t})
      /\ awaiting' = awaiting \ NotifySubscribers(IF status[t] # "Succeeded" THEN {t} ELSE {})
      /\ \A u \in subscribers : u # t /\ u \notin TasksOf(removed) => u \in subscribers'
    BY Zenon DEF CompleteTask, Present
<1>4. /\ (removed = {} \/ removed = {p}) /\ (p \notin removed => RemainingAfter(t) # 0)
      /\ \A u \in Tasks : u # t /\ Unfinished(status[u]) => ProofOf[u] \notin removed
    BY RemovedFacts, Zenon
<1>5. EndedStatus(st, t, "Succeeded", removed)
    BY <1>3, Parts, Zenon DEF DropProofs, WithStatus, EndedStatus
<1>6. "Succeeded" \in Statuses /\ ~Unfinished("Succeeded")
    BY Zenon DEF Statuses, Unfinished
<1>7. /\ st \in [Tasks -> Statuses]
      /\ activeTasks' \in [Proofs -> Nat]
      /\ \A r \in Proofs : activeTasks'[r] = Cardinality(ActiveIn(st, r))
    BY <1>1, <1>3, <1>6, FinishCount, ZenonT(30)
<1>8. gw1 \in [Proofs -> Nat]
    BY <1>1, PolicyType, Zenon DEF EndOK, ArgsOK
<1> HIDE DEF st, removed
<1>9. /\ others \in [Workers -> SUBSET Tasks]
      /\ \A v \in Workers : others[v] \subseteq held[v]
      /\ \A v \in Workers : others[v] = {u \in held[v] : ProofOf[u] \in removed /\ <<v, u>> # <<w, t>>}
  <2>1. \A v \in Workers : \A u \in held[v] : owner[u] = v
      BY <1>1, Zenon DEF SlotInv, SlotsOK
  <2>2. \A v \in Workers : others[v] = {u \in held[v] : ProofOf[u] \in removed /\ <<v, u>> # <<w, t>>}
      BY <2>1, Zenon DEF ReleaseRemainingAssignments
  <2>3. others \in [Workers -> SUBSET Tasks] /\ \A v \in Workers : others[v] \subseteq held[v]
      BY <1>1, ReleaseType, Zenon
  <2> HIDE DEF others
  <2> QED
      BY <2>2, <2>3, Zenon
<1> HIDE DEF others
<1>10. /\ released \in [Workers -> SUBSET Tasks]
       /\ \A v \in Workers : released[v] \subseteq held[v]
    BY <1>9, Zenon
<1>11. EndedHeld(hd, w, t, removed)
    BY <1>9, Zenon DEF HeldWithout, EndedHeld
<1> HIDE DEF released
<1>12. ASSUME ~shuttingDown PROVE \A r \in Proofs : gw[r] = SumWeight(GpuOf(r, HeldBy(hd)))
  <2> HIDE DEF hd
  <2>1. CASE t \in held[w]
      BY <1>1, <1>4, <1>11, <1>12, <2>1, GpuEnded, SMTT(30)
  <2>2. CASE t \notin held[w]
    <3>1. \A v \in Workers : \A u : u \in hd[v] <=> u \in held[v] /\ ProofOf[u] \notin removed
      <4>1. \A v \in Workers : \A u \in held[v] : <<v, u>> # <<w, t>>
          BY <2>2, Zenon
      <4> QED
          BY <1>11, <4>1, Zenon DEF EndedHeld
    <3> QED
        BY <1>1, <1>12, <2>2, <3>1, GpuDropped, Zenon
  <2> QED
      BY <2>1, <2>2, Zenon
<1>13. gw \in [Proofs -> Nat]
  <2> HIDE DEF gw1
  <2> QED
      BY <1>1, <1>8, PolicyType, Zenon
<1> HIDE DEF gw1, gw
<1>14. WeightsOK(hd, wt, gw)
    BY <1>1, <1>10, <1>12, ReleaseWeights, Zenon DEF WeightsOK
<1>15. ArgsOK(st, hd, wt, queue, gw)
    BY <1>1, <1>7, <1>10, <1>13, WithoutType, ZenonT(30) DEF EndOK, ArgsOK
<1> HIDE DEF hd, wt
<1>16. RestOK'
  <2>1. retries' \in [Tasks -> 0 .. MaxTaskRetries]
    <3>1. PICK x : retries' = KeepPresent(retries, x, 0)
        BY Zenon DEF CompleteTask
    <3> QED
        BY <1>1, <3>1, ConstantsAssumption DEF KeepPresent, RestOK
  <2>2. channel' \in [Tasks -> {"absent", "open", "closed"}]
      BY <1>1, <1>3, CloseType, Zenon
  <2>3. /\ subscribers' \subseteq subscribers /\ awaiting' \subseteq awaiting /\ proofs' \subseteq proofs
        /\ UNCHANGED <<workers, closed, shuttingDown, deadWorkers, expiredProofs, proofResults>>
      BY ZenonT(30) DEF CompleteTask, sweepVars
  <2> QED
      BY <1>1, <2>1, <2>2, <2>3, Zenon DEF RestOK
<1>17. LifeOK(st, proofs', activeTasks', channel', subscribers', awaiting')
  <2>1. \A r \in Proofs : r # p => activeTasks'[r] = activeTasks[r]
      BY <1>1, <1>3, ZenonT(30)
  <2>2. p \notin removed => activeTasks'[p] > 0
      BY <1>1, <1>3, <1>4, <1>7
  <2>3. \A u \in awaiting' : u \in awaiting /\ u # t
      BY <1>3, Parts, Zenon DEF NotifySubscribers, LifeInv, LifeOK, Unfinished
  <2>4. \A u \in subscribers : u # t /\ ProofOf[u] \notin removed => u \in subscribers'
      BY <1>3, Zenon DEF TasksOf
  <2> QED
      BY <1>3, <1>4, <1>5, <1>6, <2>1, <2>2, <2>3, <2>4, EndedLife, ZenonT(30)
<1>18. SlotsOK(st, hd, queue, owner, workers')
  <2>1. SlotsOK(st, hd, queue, owner, workers)
    <3>1. EndedQueue(queue, t, "Succeeded")
        BY <1>6, Zenon DEF EndedQueue
    <3> QED
        BY <1>3, <1>5, <1>6, <1>11, <3>1, EndedSlots, Zenon
  <2> QED
      BY <1>3, <2>1, Zenon
<1> QED
    BY <1>2, <1>3, <1>7, <1>14, <1>15, <1>16, <1>17, <1>18, InvEnd, ZenonT(30)

\* fail_task for a task already recorded as succeeded: only the slot is released.
LEMMA StepFailSucceeded ==
    ASSUME IInv, NEW w \in Workers, NEW t \in Tasks, FailSucceededTask(w, t)
    PROVE  IInv'
<1> DEFINE released == [v \in Workers |-> IF v = w THEN {t} ELSE {}]
           hd == HeldWithout(released)
           wt == WeightWithout(released, {})
           gw == PostTaskUpdateState(t)
<1>1. EndOK /\ RestOK /\ activeTasks \in [Proofs -> Nat]
    BY Parts, Zenon
<1>2. /\ AssignTasks(status, hd, wt, queue, gw)
      /\ t \in held[w] /\ status[t] = "Succeeded"
      /\ UNCHANGED <<proofs, activeTasks, channel, subscribers, awaiting, workers, shuttingDown>>
    BY Zenon DEF FailSucceededTask, proofVars
<1>3. RestOK'
    BY <1>1, Zenon DEF FailSucceededTask, RestOK, proofVars, sweepVars
<1>4. /\ released \in [Workers -> SUBSET Tasks]
      /\ \A v \in Workers : released[v] \subseteq held[v]
    BY <1>2, Zenon
<1>5. gw \in [Proofs -> Nat]
    BY <1>1, PolicyType, Zenon
<1>6. EndedHeld(hd, w, t, {})
    BY Zenon DEF HeldWithout, EndedHeld
<1> HIDE DEF released
<1>7. ArgsOK(status, hd, wt, queue, gw)
    BY <1>1, <1>4, <1>5, WithoutType, ZenonT(30) DEF EndOK, ArgsOK
<1>8. ASSUME ~shuttingDown PROVE \A r \in Proofs : gw[r] = SumWeight(GpuOf(r, HeldBy(hd)))
  <2>1. \A r \in Proofs : OnProofDeleted(PostTaskUpdateState(t), {})[r] = SumWeight(GpuOf(r, HeldBy(hd)))
      BY <1>2, <1>6, <1>8, GpuEnded, Parts, SMTT(30)
  <2> QED
      BY <2>1, Zenon DEF OnProofDeleted
<1>9. WeightsOK(hd, wt, gw)
    BY <1>1, <1>4, <1>8, ReleaseWeights, Parts, Zenon DEF WeightsOK
<1> HIDE DEF hd, wt, gw
<1>10. SlotsOK(status, hd, queue, owner, workers')
  <2>1. EndedStatus(status, t, "Succeeded", {}) /\ EndedQueue(queue, t, "Succeeded")
      BY <1>2, Zenon DEF EndedStatus, EndedQueue, Unfinished
  <2>2. SlotsOK(status, hd, queue, owner, workers)
      BY <1>2, <1>6, <2>1, EndedSlots, ZenonT(30)
  <2> QED
      BY <1>2, <2>2, Zenon
<1>11. LifeOK(status, proofs', activeTasks', channel', subscribers', awaiting')
    BY <1>2, Parts, ZenonT(30) DEF LifeInv
<1> QED
    BY <1>1, <1>2, <1>3, <1>7, <1>9, <1>10, <1>11, CountNow, Parts, InvEnd, ZenonT(30)

\* What taking proofs down leaves to show: that exactly their slots are given up,
\* and that the accounting follows.
LEMMA StepTearDown ==
    ASSUME IInv, NEW ps, TearDown(ps), UNCHANGED <<workers, closed, shuttingDown>>,
           proofResults' \subseteq Proofs \X {"success", "failure"},
           deadWorkers' \subseteq Workers, expiredProofs' \subseteq Proofs,
           NEW released \in [Workers -> SUBSET Tasks], NEW noReset,
           \A v \in Workers : released[v] = {u \in held[v] : ProofOf[u] \in ps},
           NEW st, st = DropProofs(status, ps),
           NEW hd, hd = HeldWithout(released),
           NEW wt, wt = WeightWithout(released, noReset),
           NEW gw, gw = OnProofDeleted(proofGpuWeights, ps),
           Settle(st, hd, wt, queue, gw) \/ AssignTasks(st, hd, wt, queue, gw)
    PROVE  IInv'
<1>1. EndOK /\ RestOK /\ CountInv
    BY Parts, Zenon
<1>2. /\ st \in [Tasks -> Statuses]
      /\ activeTasks' \in [Proofs -> Nat]
      /\ \A r \in Proofs : activeTasks'[r] = Cardinality(ActiveIn(st, r))
    BY <1>1, TearDownCount, ZenonT(30)
<1>3. RestOK'
    BY <1>1, TearDownCount, Zenon DEF RestOK
<1>4. ArgsOK(st, hd, wt, queue, gw)
    BY <1>1, <1>2, WithoutType, PolicyType, ZenonT(30) DEF EndOK, ArgsOK
<1>5. \A v \in Workers : \A u : u \in hd[v] <=> u \in held[v] /\ ProofOf[u] \notin ps
    BY Zenon DEF HeldWithout
<1>6. SlotsOK(st, hd, queue, owner, workers')
  <2>1. SlotsOK(st, hd, queue, owner, workers)
      BY <1>1, <1>5, TearDownSlots, Parts, ZenonT(30)
  <2> QED
      BY <2>1, Zenon
<1>7. LifeOK(st, proofs', activeTasks', channel', subscribers', awaiting')
    BY <1>1, TearDownLife, Parts, ZenonT(30)
<1>8. WeightsOK(hd, wt, gw)
  <2> SUFFICES ASSUME ~shuttingDown
               PROVE  /\ \A w \in Workers : wt[w] = SumWeight(hd[w]) /\ wt[w] <= MaxWeight[w]
                      /\ \A p \in Proofs : gw[p] = SumWeight(GpuOf(p, HeldBy(hd)))
      BY Zenon DEF WeightsOK
  <2>1. \A w \in Workers : wt[w] = SumWeight(hd[w]) /\ wt[w] <= MaxWeight[w]
      BY <1>1, ReleaseWeights, Parts, SMTT(30)
  <2>2. \A p \in Proofs : gw[p] = SumWeight(GpuOf(p, HeldBy(hd)))
      BY <1>1, <1>5, GpuDropped, Parts, Zenon
  <2> QED
      BY <2>1, <2>2, ZenonT(30)
<1> QED
    BY <1>2, <1>3, <1>4, <1>6, <1>7, <1>8, InvEnd, ZenonT(30)

\* fail_task that takes the proof with it.
LEMMA StepFailTaskAndProof ==
    ASSUME IInv, NEW w \in Workers, NEW t \in Tasks, NEW retryable,
           FailTaskAndProof(w, t, retryable)
    PROVE  IInv'
<1> DEFINE p == ProofOf[t]
           others == ReleaseRemainingAssignments({p}, {<<w, t>>})
           released == [others EXCEPT ![w] = @ \cup {t}]
<1>1. EndOK /\ RestOK /\ p \in Proofs
    BY Parts, Zenon
<1>2. /\ AssignTasks(DropProofs(status, {p}), HeldWithout(released),
                     WeightWithout(released, {w}), queue, OnProofDeleted(proofGpuWeights, {p}))
      /\ TearDown({p}) /\ t \in held[w]
      /\ UNCHANGED <<workers, closed, shuttingDown>>
    BY Zenon DEF FailTaskAndProof
<1>3. /\ proofResults' \subseteq Proofs \X {"success", "failure"}
      /\ deadWorkers' \subseteq Workers /\ expiredProofs' \subseteq Proofs
  <2>1. proofResults' = proofResults \cup {<<p, "failure">>} /\ UNCHANGED <<deadWorkers, expiredProofs>>
      BY Zenon DEF FailTaskAndProof, sweepVars
  <2> HIDE DEF p
  <2> QED
      BY <1>1, <2>1, SMTT(30) DEF RestOK
<1>4. released \in [Workers -> SUBSET Tasks]
    BY <1>1, ReleaseType
<1>5. \A v \in Workers : released[v] = {u \in held[v] : ProofOf[u] \in {p}}
    BY <1>2, Parts DEF ReleaseRemainingAssignments, SlotInv, SlotsOK
<1> HIDE DEF p, released
<1> QED
    BY <1>2, <1>3, <1>4, <1>5, StepTearDown, Zenon

\* fail_task that retries the task or fails it alone.  A retry leaves
\* active_tasks alone, which is right only because a task in a slot is not
\* FailedFatal.
LEMMA StepFailTask ==
    ASSUME IInv, NEW w \in Workers, NEW t \in Tasks, NEW retryable,
           FailTask(w, t, retryable)
    PROVE  IInv'
<1> DEFINE p == ProofOf[t]
           fatal == FatalFailure(t, retryable)
           remaining == IF fatal THEN RemainingAfter(t) ELSE activeTasks[p]
           removed == RemovedWhenDone(p, remaining)
           others == ReleaseRemainingAssignments(removed, {<<w, t>>})
           released == [others EXCEPT ![w] = @ \cup {t}]
           failed == IF fatal THEN "FailedFatal" ELSE "FailedRetryable"
           st == DropProofs(WithStatus(t, failed), removed)
           hd == HeldWithout(released)
           wt == WeightWithout(released, {w})
           q == IF fatal THEN queue ELSE EnqueueTask(queue, {t})
           gw == OnProofDeleted(PostTaskUpdateState(t), removed)
<1>1. /\ EndOK /\ RestOK /\ CountInv /\ SlotInv /\ WeightInv
      /\ p \in Proofs /\ activeTasks \in [Proofs -> Nat] /\ queue \in [Tasks -> Nat]
    BY Parts, ZenonT(30)
<1>2. AssignTasks(st, hd, wt, q, gw)
    BY Zenon DEF FailTask
<1>3. /\ activeTasks' = [activeTasks EXCEPT ![p] = remaining]
      /\ proofs' = proofs \ removed
      /\ t \in held[w] /\ (fatal => ~EnableProofFail(t))
      /\ UNCHANGED <<workers, shuttingDown>>
      /\ channel' = CloseTaskChannel({t})
      /\ awaiting' = (IF fatal THEN awaiting \ NotifySubscribers({t}) ELSE awaiting)
      /\ subscribers' = subscribers \ TasksOf(removed)
    BY Zenon DEF FailTask, ManualProofFail
<1>4. status[t] = "Running" /\ activeTasks[p] > 0
    BY <1>3, Parts, ZenonT(30) DEF FailTask, Failable, SlotInv, SlotsOK, LifeInv, LifeOK
<1>5. /\ (removed = {} \/ removed = {p}) /\ (p \notin removed => remaining # 0)
      /\ \A u \in Tasks : u # t /\ Unfinished(status[u]) => ProofOf[u] \notin removed
    BY <1>4, RemovedFacts, ZenonT(30)
<1>6. ~fatal => removed = {}
    BY <1>1, <1>4 DEF RemovedWhenDone
<1>7. EndedStatus(st, t, failed, removed)
    BY <1>4, Parts, ZenonT(30) DEF DropProofs, WithStatus, EndedStatus
<1>8. st \in [Tasks -> Statuses]
  <2>1. WithStatus(t, failed) \in [Tasks -> Statuses]
      BY Parts, Zenon DEF WithStatus, Statuses
  <2> QED
      BY <2>1, DropType, ZenonT(30)
<1>9. /\ failed # "Unused" /\ failed # "Succeeded"
      /\ (failed = "FailedFatal" <=> fatal) /\ (Unfinished(failed) <=> ~fatal)
    BY Zenon DEF Unfinished
<1>10. /\ activeTasks' \in [Proofs -> Nat]
       /\ \A r \in Proofs : activeTasks'[r] = Cardinality(ActiveIn(st, r))
  <2>1. CASE fatal
    <3>1. "FailedFatal" \in Statuses /\ ~Unfinished("FailedFatal")
        BY Zenon DEF Statuses, Unfinished
    <3>2. /\ activeTasks' = [activeTasks EXCEPT ![ProofOf[t]] = RemainingAfter(t)]
          /\ st = DropProofs(WithStatus(t, "FailedFatal"), RemovedWhenDone(ProofOf[t], RemainingAfter(t)))
        BY <1>3, <2>1, Zenon
    <3> HIDE DEF st, removed, remaining
    <3> QED
        BY <1>1, <3>1, <3>2, FinishCount, ZenonT(30)
  <2>2. CASE ~fatal
    <3>1. activeTasks' = activeTasks
        BY <1>1, <1>3, <2>2, Zenon
    <3>2. \A u \in Tasks : st[u] = IF u = t THEN "FailedRetryable" ELSE status[u]
        BY <1>6, <1>7, <2>2, Zenon DEF EndedStatus
    <3> HIDE DEF st, removed, remaining
    <3>3. \A r : ActiveIn(st, r) = ActiveIn(status, r)
        BY <1>4, <3>2, Zenon DEF ActiveIn, Unfinished
    <3> QED
        BY <1>1, <3>1, <3>3, CountNow, Zenon
  <2> QED
      BY <2>1, <2>2, ZenonT(30)
<1> HIDE DEF st, removed, remaining, failed
<1>11. /\ q \in [Tasks -> Nat]
       /\ \A u \in Tasks : q[u] = IF u = t /\ ~fatal /\ Lane(t) # "None" THEN queue[u] + 1 ELSE queue[u]
    BY <1>1 DEF EnqueueTask
<1> HIDE DEF q, fatal
<1>12. /\ others \in [Workers -> SUBSET Tasks]
       /\ \A v \in Workers : others[v] \subseteq held[v]
       /\ \A v \in Workers : others[v] = {u \in held[v] : ProofOf[u] \in removed /\ <<v, u>> # <<w, t>>}
  <2>1. \A v \in Workers : \A u \in held[v] : owner[u] = v
      BY <1>1, Zenon DEF SlotInv, SlotsOK
  <2>2. \A v \in Workers : others[v] = {u \in held[v] : ProofOf[u] \in removed /\ <<v, u>> # <<w, t>>}
      BY <2>1, Zenon DEF ReleaseRemainingAssignments
  <2>3. others \in [Workers -> SUBSET Tasks] /\ \A v \in Workers : others[v] \subseteq held[v]
      BY <1>1, ReleaseType, Zenon
  <2> HIDE DEF others
  <2> QED
      BY <2>2, <2>3, Zenon
<1> HIDE DEF others
<1>13. /\ released \in [Workers -> SUBSET Tasks]
       /\ \A v \in Workers : released[v] \subseteq held[v]
    BY <1>3, <1>12, Zenon
<1>14. EndedHeld(hd, w, t, removed)
    BY <1>12, ZenonT(30) DEF HeldWithout, EndedHeld
<1> HIDE DEF released
<1>15. ASSUME ~shuttingDown PROVE \A r \in Proofs : gw[r] = SumWeight(GpuOf(r, HeldBy(hd)))
  <2> HIDE DEF hd
  <2>1. t \in held[w]
      BY <1>3, Zenon
  <2> QED
      BY <1>1, <1>5, <1>14, <1>15, <2>1, GpuEnded, SMTT(30)
<1>16. gw \in [Proofs -> Nat]
    BY <1>1, PolicyType, Zenon
<1> HIDE DEF gw
<1>17. WeightsOK(hd, wt, gw)
    BY <1>1, <1>13, <1>15, ReleaseWeights, Zenon DEF WeightsOK
<1>18. ArgsOK(st, hd, wt, q, gw)
    BY <1>1, <1>8, <1>11, <1>13, <1>16, WithoutType, ZenonT(30) DEF EndOK, ArgsOK
<1> HIDE DEF hd, wt
<1>19. RestOK'
  <2>1. retries' \in [Tasks -> 0 .. MaxTaskRetries]
    <3>1. [retries EXCEPT ![t] = IF fatal THEN @ ELSE @ + 1] \in [Tasks -> 0 .. MaxTaskRetries]
        BY <1>1, ConstantsAssumption, SMTT(30) DEF RestOK, FatalFailure, fatal
    <3> QED
        BY <3>1, ConstantsAssumption DEF FailTask, KeepPresent, fatal
  <2>2. channel' \in [Tasks -> {"absent", "open", "closed"}]
      BY <1>1, <1>3, CloseType, ZenonT(30)
  <2>3. /\ subscribers' \subseteq subscribers /\ awaiting' \subseteq awaiting /\ proofs' \subseteq proofs
        /\ UNCHANGED <<workers, closed, shuttingDown, deadWorkers, expiredProofs, proofResults>>
      BY Zenon DEF FailTask, sweepVars
  <2> QED
      BY <1>1, <2>1, <2>2, <2>3, ZenonT(30) DEF RestOK
<1>20. LifeOK(st, proofs', activeTasks', channel', subscribers', awaiting')
  <2>1. \A r \in Proofs : r # p => activeTasks'[r] = activeTasks[r]
      BY <1>1, <1>3, ZenonT(30)
  <2>2. p \notin removed => activeTasks'[p] > 0
      BY <1>1, <1>3, <1>5, <1>10, SMTT(30)
  <2>3. \A u \in awaiting' : u \in awaiting /\ (u = t => ~fatal)
      BY <1>3, Parts, Zenon DEF NotifySubscribers, LifeInv, LifeOK
  <2>4. /\ \A u \in subscribers : u # t /\ ProofOf[u] \notin removed => u \in subscribers'
        /\ ~fatal => subscribers \subseteq subscribers'
      BY <1>3, <1>6, ZenonT(30) DEF TasksOf
  <2> QED
      BY <1>3, <1>4, <1>5, <1>6, <1>7, <1>9, <2>1, <2>2, <2>3, <2>4, EndedLife, ZenonT(30)
<1>21. SlotsOK(st, hd, q, owner, workers')
  <2>1. SlotsOK(st, hd, q, owner, workers)
    <3>1. status[t] \notin {"Unused", "Removed"}
        BY <1>4, ZenonT(30)
    <3>2. EndedQueue(q, t, failed)
        BY <1>9, <1>11, ZenonT(30) DEF EndedQueue
    <3> QED
        BY <1>3, <1>7, <1>9, <1>14, <3>1, <3>2, EndedSlots, ZenonT(30)
  <2> QED
      BY <1>3, <2>1, ZenonT(30)
<1> QED
    BY <1>2, <1>3, <1>8, <1>10, <1>17, <1>18, <1>19, <1>20, <1>21, InvEnd, ZenonT(30)
=============================================================================
