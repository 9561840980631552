------------------------- MODULE ProofClaimerProofs -------------------------
(***************************************************************************)
(* The safety of the bridge, for any number of proofs, results and         *)
(* restarts, any page size, and whatever the network does.                 *)
(***************************************************************************)
EXTENDS ProofClaimer, FiniteSetTheorems, TLAPS

\* The ids that have a row, and the result that a status stands for.
Exists(p) == rows[p] # NoRow
Listed == {p \in Proofs : Exists(p)}
ResultOf(p, status) == [id |-> p, success |-> status = "Completed"]

\* No two rows were created at once, and none after the last.
StampInv ==
    /\ \A p \in Listed : created[p] <= Cardinality(Listed)
    /\ \A p, q \in Listed : created[p] = created[q] => p = q

\* What is tracked, written, listed or looked for has a row; an acknowledged
\* write has settled its row; the row that is being claimed is not tracked yet;
\* what was found gone does not come back.
KnownInv ==
    /\ \A p \in Proofs : task_map[p] # Untracked => Exists(p)
    /\ \A m \in wire : Exists(m.id)
    /\ \A m \in acks : RowSettled(m.id)
    /\ \A p \in claimer.todo \cup claimer.missing \cup claimer.gone : Exists(p)
    /\ claimer.at = "inserting" =>
         \A p \in claimer.todo : AtRow(p) => task_map[p] = Untracked
    /\ claimer.late \subseteq Late
    /\ \A p \in claimer.gone : ~StillPending(p, Late)

\* Every result on its way to a row was reported.
ReportInv ==
    /\ \A i \in DOMAIN results : results[i] \in reported
    /\ \A m \in wire : ResultOf(m.id, m.status) \in reported
    /\ \A p \in Proofs : task_map[p] \in Terminal => ResultOf(p, task_map[p]) \in reported

BridgeInv ==
    TypeOK /\ StampInv /\ KnownInv /\ ReportInv /\ UnlandedResultTracked /\ RowTellsAReport

-----------------------------------------------------------------------------
(* The types.                                                              *)

USE DEF table, memory, history

\* The operations on the table keep its rows rows.
LEMMA TableTypes ==
    ASSUME rows \in [Proofs -> ProofRequest \cup {NoRow}], NEW p \in Proofs
    PROVE  /\ \A w \in BOOLEAN : Created(rows, p, w) \in [Proofs -> ProofRequest \cup {NoRow}]
           /\ CancelledIn(rows, p) \in [Proofs -> ProofRequest \cup {NoRow}]
           /\ \A s \in Terminal : CompletedIn(rows, p, s) \in [Proofs -> ProofRequest \cup {NoRow}]
           /\ HandledIn(rows, p) \in [Proofs -> ProofRequest \cup {NoRow}]
  BY RowAssumption, Zenon
     DEF ProofRequest, RowStatus, FinalStatus, Terminal, Created, CancelledIn, CompletedIn, HandledIn

\* The bridge starts well typed, with nothing tracked, written or listed.
LEMMA BridgeInit == Init => BridgeInv
<1> SUFFICES ASSUME Init PROVE BridgeInv
  BY Zenon
<1> USE ClaimerAssumption, PagingAssumption DEF Init
<1>1. Cardinality({}) <= 1 /\ IsFiniteSet({})
  BY FS_EmptySet
<1>2. Asleep \in ClaimerState
  BY DEF Asleep, ClaimerState
<1>3. TypeOK
  BY <1>1, <1>2 DEF TypeOK, TaskState
<1>4. StampInv
  BY Zenon DEF StampInv, Listed, Exists
<1>5. KnownInv
  BY Zenon DEF KnownInv, Asleep
<1>6. ReportInv
  BY DEF ReportInv, Terminal, Untracked
<1>7. UnlandedResultTracked /\ RowTellsAReport
  BY Zenon DEF UnlandedResultTracked, RowTellsAReport, RowSettled
<1> QED
  BY <1>3, <1>4, <1>5, <1>6, <1>7, Zenon DEF BridgeInv

\* At most one write is waited for.
LEMMA OneWrite == ASSUME NEW m PROVE Cardinality({m}) <= 1
  BY FS_Singleton

\* Every step keeps the types.
LEMMA BridgeTypes == TypeOK /\ [Next]_vars => TypeOK'
<1> SUFFICES ASSUME TypeOK, [Next]_vars PROVE TypeOK'
  BY Zenon
<1> USE ClaimerAssumption, PagingAssumption
<1>1. ASSUME NEW p \in Proofs, Clients(p) PROVE TypeOK'
  <2>1. Cardinality({q \in Proofs : rows[q] # NoRow}) \in Nat
    BY FS_CardinalityType, FS_Subset, Zenon
  <2>2. ASSUME DeadlinePasses(p) PROVE rows' \in [Proofs -> ProofRequest \cup {NoRow}]
    BY <2>2, RowAssumption, Zenon DEF DeadlinePasses, ProofRequest, TypeOK
  <2>3. rows' \in [Proofs -> ProofRequest \cup {NoRow}] /\ created' \in [Proofs -> Nat]
    BY <1>1, <2>1, <2>2, TableTypes
       DEF Clients, CreateRow, CancelRow, HandleRow, DeadlinePasses, TypeOK
  <2> QED
    BY <1>1, <2>3, Zenon DEF Clients, CreateRow, CancelRow, HandleRow, DeadlinePasses, TypeOK
<1>2. ASSUME NEW p \in Proofs, CoordinatorStep(p) PROVE TypeOK'
  <2>1. \A b \in BOOLEAN : Append(results, [id |-> p, success |-> b]) \in Seq(Result)
                           /\ [id |-> p, success |-> b] \in Result
    BY DEF TypeOK, Result
  <2> QED
    BY <1>2, <2>1, Zenon DEF CoordinatorStep, CompleteProof, SendSuccess, FailProof, FinishProof,
                      ExpireProof, TypeOK
<1>3. CASE StatusTask
  <2>1. Cardinality({}) <= 1
    BY FS_EmptySet
  <2>2. CASE DropResult
    BY <2>2 DEF DropResult, TypeOK
  <2>3. CASE TakeResult
    <3>1. Head(results) \in Result /\ Tail(results) \in Seq(Result)
      BY <2>3 DEF TakeResult, TypeOK
    <3>2. StatusOf(Head(results)) \in Terminal /\ StatusOf(Head(results)) \in TaskState
      BY Zenon DEF StatusOf, Terminal, TaskState
    <3> DEFINE r == Head(results)
               m == Write("writer", r.id, StatusOf(r))
    <3>3. m \in Writes
      BY <3>1, <3>2, Zenon DEF Write, Writes, Result
    <3>4. Cardinality({m}) <= 1
      BY OneWrite, Zenon
    <3>5. /\ task_map' = [task_map EXCEPT ![r.id] = StatusOf(r)]
          /\ wire' = wire \cup {m} /\ writer' = {m}
          /\ recorded' = recorded \cup {r.id} /\ results' = Tail(results)
          /\ UNCHANGED <<table, acks, proofs, completing, inflight, claimer, reported, restarts>>
      BY <2>3, Zenon DEF TakeResult
    <3> HIDE DEF m
    <3> QED
      BY <3>1, <3>2, <3>3, <3>4, <3>5, Zenon DEF TypeOK, Result
  <2>4. ASSUME NEW m \in writer, WriteOk(m) \/ WriteFails(m) PROVE TypeOK'
    <3>1. Settled(task_map, m.id) \in [Proofs -> TaskState]
      BY Zenon DEF Settled, TaskState, TypeOK
    <3> QED
      BY <2>1, <2>4, <3>1, Zenon DEF WriteOk, WriteFails, AfterFailedWrite, TypeOK
  <2> QED
    BY <1>3, <2>2, <2>3, <2>4, Zenon DEF StatusTask
<1>4. CASE Claimer
  <2>0. Asleep \in ClaimerState /\ claimer \in ClaimerState
    BY DEF Asleep, ClaimerState, TypeOK
  <2>1. CASE StartPoll \/ ListFails
    <3>1. ASSUME NEW L \in SUBSET Proofs PROVE [Asleep EXCEPT !.at = "listing", !.late = L] \in ClaimerState
      <4> DEFINE c == Asleep
      <4> HIDE DEF c
      <4>1. c \in ClaimerState
        BY <2>0, Zenon DEF c
      <4> DEFINE d == [c EXCEPT !.at = "listing"]
      <4>2. d \in ClaimerState
        BY <4>1, SMT DEF ClaimerState
      <4> HIDE DEF d
      <4>3. [d EXCEPT !.late = L] \in ClaimerState
        BY <4>2, SMT DEF ClaimerState
      <4>4. [d EXCEPT !.late = L] = [Asleep EXCEPT !.at = "listing", !.late = L]
        BY DEF c, d
      <4> QED
        BY <4>3, <4>4, Zenon
    <3>2. Late \in SUBSET Proofs
      BY Zenon DEF Late
    <3>3. claimer' \in ClaimerState
      BY <2>0, <2>1, <3>1, <3>2, Zenon DEF StartPoll, ListFails
    <3> QED
      BY <2>1, <3>3, Zenon DEF StartPoll, ListFails, TypeOK
  <2>2. CASE ListPage
    <3>1. PICK all \in SUBSET Proofs :
            \/ /\ claimer.page + 1 < MaxPages
               /\ claimer' = [claimer EXCEPT !.page = @ + 1, !.todo = all]
            \/ claimer' = [Asleep EXCEPT !.at = "claiming", !.todo = all]
      <4> DEFINE page == Page({p \in Proofs : StillPending(p, claimer.late)}, created,
                              claimer.page * PageSize, PageSize)
      <4>1. page \in SUBSET Proofs
        BY Zenon DEF Page
      <4> HIDE DEF page
      <4>2. claimer.todo \cup page \in SUBSET Proofs
        BY <2>0, <4>1, Zenon DEF ClaimerState
      <4> QED
        BY <2>2, <4>2, Zenon DEF ListPage, page, WalkGoesOn, Deduped
    <3>2. claimer' \in ClaimerState
      <4>1. ASSUME claimer.page + 1 < MaxPages
            PROVE  [claimer EXCEPT !.page = @ + 1, !.todo = all] \in ClaimerState
        <5> DEFINE n == claimer.page + 1
        <5>1. n \in 0 .. MaxPages - 1
          BY <2>0, <4>1 DEF ClaimerState
        <5> HIDE DEF n
        <5>2. [claimer EXCEPT !.page = n, !.todo = all] \in ClaimerState
          BY <2>0, <5>1, Zenon DEF ClaimerState
        <5> QED
          BY <5>2, Zenon DEF n
      <4>2. [Asleep EXCEPT !.at = "claiming", !.todo = all] \in ClaimerState
        BY <2>0, Zenon DEF ClaimerState
      <4> QED
        BY <3>1, <4>1, <4>2, Zenon
    <3> QED
      BY <2>2, <3>2, Zenon DEF ListPage, TypeOK
  <2>3. ASSUME NEW p \in Proofs, SkipRow(p) \/ ClaimRow(p) \/ InsertPending(p) PROVE TypeOK'
    <3>1. claimer' \in ClaimerState
      <4>1. CASE SkipRow(p)
        BY <2>0, <4>1, Zenon DEF SkipRow, ClaimerState
      <4>2. CASE ClaimRow(p)
        BY <2>0, <4>2, Zenon DEF ClaimRow, ClaimerState
      <4>3. CASE InsertPending(p)
        BY <2>0, <4>3, Zenon DEF InsertPending, ClaimerState
      <4> QED
        BY <2>3, <4>1, <4>2, <4>3, Zenon
    <3>2. [task_map EXCEPT ![p] = "Pending"] \in [Proofs -> TaskState]
      BY Zenon DEF TypeOK, TaskState
    <3> QED
      BY <2>3, <3>1, <3>2, Zenon DEF SkipRow, ClaimRow, InsertPending, TypeOK
  <2>4. CASE StartConfirm
    <3>1. claimer' \in ClaimerState
      BY <2>0, <2>4, Zenon DEF StartConfirm, Late, ClaimerState
    <3> QED
      BY <2>4, <3>1, Zenon DEF StartConfirm, TypeOK
  <2>5. ASSUME NEW p \in Proofs, ConfirmRead(p) \/ ConfirmFails(p) \/ StopGone(p) PROVE TypeOK'
    <3>1. claimer' \in ClaimerState
      <4>1. CASE ConfirmRead(p)
        BY <2>0, <4>1, Zenon DEF ConfirmRead, ClaimerState
      <4>2. CASE ConfirmFails(p)
        BY <2>0, <4>2, Zenon DEF ConfirmFails, ClaimerState
      <4>3. CASE StopGone(p)
        BY <2>0, <4>3, Zenon DEF StopGone, ClaimerState
      <4> QED
        BY <2>5, <4>1, <4>2, <4>3, Zenon
    <3>2. [task_map EXCEPT ![p] = Untracked] \in [Proofs -> TaskState]
      BY Zenon DEF TypeOK, TaskState
    <3> QED
      BY <2>5, <3>1, <3>2, Zenon DEF ConfirmRead, ConfirmFails, StopGone, TypeOK
  <2>6. CASE SweepUnconfirmed
    <3>1. Reissued \in SUBSET Writes
      BY DEF Reissued, Unconfirmed, Write, Writes, TypeOK
    <3>2. claimer' \in ClaimerState
      BY <2>0, <2>6, Zenon DEF SweepUnconfirmed
    <3> QED
      BY <2>6, <3>1, <3>2, Zenon DEF SweepUnconfirmed, TypeOK
  <2> QED
    BY <1>4, <2>1, <2>2, <2>3, <2>4, <2>5, <2>6, Zenon DEF Claimer
<1>5. CASE Network
  <2>1. \A m \in wire : CompletedIn(rows, m.id, m.status) \in [Proofs -> ProofRequest \cup {NoRow}]
    BY TableTypes, Zenon DEF TypeOK, Writes
  <2>2. \A m \in inflight : Settled(task_map, m.id) \in [Proofs -> TaskState]
    BY Zenon DEF Settled, TaskState, TypeOK
  <2> QED
    BY <1>5, <2>1, <2>2, ZenonT(30) DEF Network, LoseWrite, ApplyWrite, ReissueOk, ReissueFails, TypeOK
<1>6. CASE Restart
  <2>1. Cardinality({}) <= 1 /\ <<>> \in Seq(Result)
    BY FS_EmptySet
  <2>2. Asleep \in ClaimerState /\ [p \in Proofs |-> Untracked] \in [Proofs -> TaskState]
    BY DEF Asleep, ClaimerState, TaskState
  <2> QED
    BY <1>6, <2>1, <2>2 DEF Restart, TypeOK
<1>7. CASE UNCHANGED vars
  BY <1>7, Zenon DEF vars, TypeOK
<1> QED
  BY <1>1, <1>2, <1>3, <1>4, <1>5, <1>6, <1>7, Zenon DEF Next

-----------------------------------------------------------------------------
(* The rows.                                                               *)

\* A row stays, and so do its final status, its mark and its being late.
RowAges(p) ==
    rows[p] # NoRow =>
      /\ rows'[p] # NoRow
      /\ rows[p].status # "Pending" => rows'[p].status = rows[p].status
      /\ rows[p].handled => rows'[p].handled
      /\ rows[p].expired => rows'[p].expired

\* What the steps other than those of clients and of the network leave alone.
LEMMA TableKept ==
    ASSUME \/ \E p \in Proofs : CoordinatorStep(p)
           \/ StatusTask \/ Claimer \/ Restart \/ UNCHANGED vars
    PROVE  rows' = rows /\ created' = created
  BY Zenon DEF CoordinatorStep, CompleteProof, SendSuccess, FailProof, FinishProof, ExpireProof,
         StatusTask, DropResult, TakeResult, WriteOk, WriteFails, Claimer, StartPoll, ListPage,
         ListFails, SkipRow, ClaimRow, InsertPending, StartConfirm, ConfirmRead, ConfirmFails,
         StopGone, SweepUnconfirmed, Restart, vars

\* Rows only age (guard_pending in proof_request_update).
LEMMA RowsAge == TypeOK /\ [Next]_vars => \A p \in Proofs : RowAges(p)
<1> SUFFICES ASSUME TypeOK, [Next]_vars, NEW p \in Proofs PROVE RowAges(p)
  BY Zenon
<1>1. rows \in [Proofs -> ProofRequest \cup {NoRow}]
  BY Zenon DEF TypeOK
<1>2. CASE rows' = rows
  BY <1>2, Zenon DEF RowAges
<1>3. ASSUME NEW q \in Proofs, Clients(q) PROVE RowAges(p)
  <2>1. ASSUME NEW w \in BOOLEAN, CreateRow(q, w) PROVE RowAges(p)
    BY <1>1, <2>1, Zenon DEF CreateRow, Created, RowAges
  <2>2. CASE CancelRow(q)
    BY <1>1, <2>2, RowAssumption, Zenon DEF CancelRow, CancelledIn, RowAges, ProofRequest, RowStatus, FinalStatus
  <2>3. CASE HandleRow(q)
    BY <1>1, <2>3, RowAssumption, Zenon DEF HandleRow, HandledIn, RowAges, ProofRequest
  <2>4. CASE DeadlinePasses(q)
    BY <1>1, <2>4, RowAssumption, Zenon DEF DeadlinePasses, RowAges, ProofRequest
  <2> QED
    BY <1>3, <2>1, <2>2, <2>3, <2>4, Zenon DEF Clients
<1>4. CASE Network
  <2>1. ASSUME NEW m \in wire, NEW a \in BOOLEAN, ApplyWrite(m, a) PROVE RowAges(p)
    <3>1. m.id \in Proofs /\ m.status \in Terminal
      BY Zenon DEF TypeOK, Writes
    <3> QED
      BY <1>1, <2>1, <3>1, RowAssumption, ZenonT(30)
         DEF ApplyWrite, CompletedIn, RowAges, ProofRequest, RowStatus, FinalStatus, Terminal
  <2>2. \/ rows' = rows
        \/ \E m \in wire, a \in BOOLEAN : ApplyWrite(m, a)
    BY <1>4, Zenon DEF Network, LoseWrite, ReissueOk, ReissueFails
  <2> QED
    BY <1>2, <2>1, <2>2, Zenon
<1> QED
  BY <1>2, <1>3, <1>4, TableKept, Zenon DEF Next

\* Each row is stamped once, later than all before it (CreateRow).
LEMMA StampStep == TypeOK /\ StampInv /\ [Next]_vars => StampInv'
<1> SUFFICES ASSUME TypeOK, StampInv, [Next]_vars PROVE StampInv'
  BY Zenon
<1>1. ASSUME Listed' = Listed, created' = created PROVE StampInv'
  BY <1>1, Zenon DEF StampInv
<1>2. ASSUME NEW p \in Proofs, NEW w \in BOOLEAN, CreateRow(p, w) PROVE StampInv'
  <2>1. IsFiniteSet(Listed) /\ Cardinality(Listed) \in Nat
    BY ClaimerAssumption, FS_Subset, FS_CardinalityType, Zenon DEF Listed
  <2>2. p \notin Listed /\ Listed' = Listed \cup {p}
    <3> DEFINE row == [status |-> "Pending", handled |-> FALSE, expired |-> FALSE, whole |-> w]
    <3>1. row # NoRow
      <4>1. row \in ProofRequest
        BY Zenon DEF ProofRequest, RowStatus, FinalStatus
      <4> QED
        BY <4>1, RowAssumption, Zenon
    <3>2. rows[p] = NoRow /\ rows' = [rows EXCEPT ![p] = row]
      BY <1>2, Zenon DEF CreateRow, Created
    <3> HIDE DEF row
    <3> QED
      BY <3>1, <3>2, Zenon DEF Listed, Exists, TypeOK
  <2>3. Cardinality(Listed') = Cardinality(Listed) + 1
    BY <2>1, <2>2, FS_AddElement, Zenon
  <2>4. created' = [created EXCEPT ![p] = Cardinality(Listed) + 1]
    BY <1>2, Zenon DEF CreateRow, Listed, Exists
  <2>5. created \in [Proofs -> Nat] /\ Listed \subseteq Proofs
    BY Zenon DEF TypeOK, Listed
  <2> QED
    BY <2>1, <2>2, <2>3, <2>4, <2>5 DEF StampInv
<1>3. ASSUME NEW p \in Proofs, CancelRow(p) \/ HandleRow(p) \/ DeadlinePasses(p) PROVE StampInv'
  <2>1. created' = created /\ \A q \in Proofs : rows[q] = NoRow => rows'[q] = NoRow
    BY <1>3, Zenon DEF CancelRow, HandleRow, DeadlinePasses, CancelledIn, HandledIn, TypeOK
  <2> QED
    BY <1>1, <2>1, RowsAge, Zenon DEF RowAges, Listed, Exists
<1>4. CASE Network
  <2>1. created' = created /\ \A q \in Proofs : rows[q] = NoRow => rows'[q] = NoRow
    BY <1>4, ZenonT(30) DEF Network, LoseWrite, ApplyWrite, ReissueOk, ReissueFails, CompletedIn, TypeOK
  <2> QED
    BY <1>1, <2>1, RowsAge, Zenon DEF RowAges, Listed, Exists
<1>5. CASE rows' = rows /\ created' = created
  BY <1>1, <1>5, Zenon DEF Listed, Exists
<1> QED
  BY <1>2, <1>3, <1>4, <1>5, TableKept, Zenon DEF Next, Clients

-----------------------------------------------------------------------------
(* The results.                                                            *)

\* What was reported stays reported.
LEMMA ReportedGrows == [Next]_vars => reported \subseteq reported'
  BY ZenonT(30) DEF Next, Clients, CreateRow, CancelRow, HandleRow, DeadlinePasses,
         CoordinatorStep, CompleteProof, SendSuccess, FailProof, FinishProof, ExpireProof,
         StatusTask, DropResult, TakeResult, WriteOk, WriteFails, Claimer, StartPoll, ListPage,
         ListFails, SkipRow, ClaimRow, InsertPending, StartConfirm, ConfirmRead, ConfirmFails,
         StopGone, SweepUnconfirmed, Network, LoseWrite, ApplyWrite, ReissueOk, ReissueFails,
         Restart, vars

\* Results are passed on as they were reported: by the status task, into
\* task_map, and from there into writes that are issued again.
LEMMA ReportStep == TypeOK /\ ReportInv /\ [Next]_vars => ReportInv'
<1> SUFFICES ASSUME TypeOK, ReportInv, [Next]_vars PROVE ReportInv'
  BY Zenon
<1>1. reported \subseteq reported'
  BY ReportedGrows, Zenon
<1>2. /\ results \in Seq(Result) /\ task_map \in [Proofs -> TaskState]
      /\ wire \subseteq Writes /\ inflight \subseteq Writes
  BY Zenon DEF TypeOK
<1>3. CASE UNCHANGED <<results, wire, task_map>>
  BY <1>1, <1>3, Zenon DEF ReportInv
<1>4. ASSUME NEW p \in Proofs, CoordinatorStep(p) PROVE ReportInv'
  <2>1. ASSUME NEW x \in Result, results' = Append(results, x), x \in reported', UNCHANGED <<wire, task_map>>
        PROVE  ReportInv'
    <3>1. \A i \in DOMAIN results' : results'[i] \in reported'
      BY <1>1, <1>2, <2>1, SMT DEF ReportInv
    <3> QED
      BY <1>1, <2>1, <3>1, Zenon DEF ReportInv
  <2>2. CASE SendSuccess(p)
    <3>1. [id |-> p, success |-> TRUE] \in Result
      BY SMT DEF Result
    <3> QED
      BY <2>1, <2>2, <3>1, Zenon DEF SendSuccess
  <2>3. CASE FailProof(p)
    <3>1. [id |-> p, success |-> FALSE] \in Result
      BY SMT DEF Result
    <3> QED
      BY <2>1, <2>3, <3>1, Zenon DEF FailProof
  <2> QED
    BY <1>3, <1>4, <2>2, <2>3, Zenon DEF CoordinatorStep, CompleteProof, FinishProof, ExpireProof
<1>5. CASE DropResult
  BY <1>1, <1>2, <1>5 DEF DropResult, ReportInv
<1>6. CASE TakeResult
  <2> DEFINE r == Head(results)
             m == Write("writer", r.id, StatusOf(r))
  <2>1. r \in reported /\ r \in Result /\ \A i \in DOMAIN Tail(results) : Tail(results)[i] \in reported
    BY <1>2, <1>6 DEF TakeResult, ReportInv
  <2>2. ResultOf(r.id, StatusOf(r)) = r
    BY <2>1, Zenon DEF ResultOf, StatusOf, Result
  <2>3. m.id = r.id /\ m.status = StatusOf(r)
    BY Zenon DEF Write
  <2>4. /\ task_map' = [task_map EXCEPT ![r.id] = StatusOf(r)]
        /\ wire' = wire \cup {m} /\ results' = Tail(results)
    BY <1>6, Zenon DEF TakeResult
  <2> HIDE DEF r, m
  <2> QED
    BY <1>1, <1>2, <2>1, <2>2, <2>3, <2>4, ZenonT(30) DEF ReportInv
<1>7. ASSUME NEW m, WriteOk(m) \/ WriteFails(m) \/ ReissueOk(m) PROVE ReportInv'
  BY <1>1, <1>2, <1>7, ZenonT(30)
     DEF WriteOk, WriteFails, ReissueOk, Settled, AfterFailedWrite, ReportInv, Terminal, Untracked
<1>8. ASSUME NEW p \in Proofs, InsertPending(p) \/ StopGone(p) PROVE ReportInv'
  BY <1>1, <1>2, <1>8, ZenonT(30) DEF InsertPending, StopGone, ReportInv, Terminal, Untracked
<1>9. CASE SweepUnconfirmed
  <2>1. \A m \in Reissued : ResultOf(m.id, m.status) \in reported
    BY DEF Reissued, Unconfirmed, Write, ReportInv
  <2> QED
    BY <1>1, <1>9, <2>1, ZenonT(30) DEF SweepUnconfirmed, ReportInv
<1>10. CASE \E m \in wire : LoseWrite(m) \/ \E a \in BOOLEAN : ApplyWrite(m, a)
  BY <1>1, <1>10, Zenon DEF LoseWrite, ApplyWrite, ReportInv
<1>11. CASE Restart
  BY <1>1, <1>11 DEF Restart, ReportInv, Terminal, Untracked
<1>12. \/ UNCHANGED <<results, wire, task_map>>
       \/ \E p \in Proofs : CoordinatorStep(p)
       \/ DropResult \/ TakeResult \/ SweepUnconfirmed \/ Restart
       \/ \E m \in wire : LoseWrite(m) \/ \E a \in BOOLEAN : ApplyWrite(m, a)
       \/ \E m : WriteOk(m) \/ WriteFails(m) \/ ReissueOk(m)
       \/ \E p \in Proofs : InsertPending(p) \/ StopGone(p)
  BY ZenonT(30) DEF Next, Clients, CreateRow, CancelRow, HandleRow, DeadlinePasses, StatusTask, Claimer,
         StartPoll, ListPage, ListFails, SkipRow, ClaimRow, StartConfirm, ConfirmRead,
         ConfirmFails, Network, ReissueFails, vars
<1> QED
  BY <1>3, <1>4, <1>5, <1>6, <1>7, <1>8, <1>9, <1>10, <1>11, <1>12, Zenon

\* A row becomes Completed or Failed by a write, and writes tell reports.
LEMMA TellsStep ==
    TypeOK /\ ReportInv /\ RowTellsAReport /\ [Next]_vars => RowTellsAReport'
<1> SUFFICES ASSUME TypeOK, ReportInv, RowTellsAReport, [Next]_vars,
                    NEW p \in Proofs, RowSettled(p)', rows'[p].status # "Cancelled"
             PROVE  [id |-> p, success |-> rows'[p].status = "Completed"] \in reported'
  BY Zenon DEF RowTellsAReport
<1>1. rows \in [Proofs -> ProofRequest \cup {NoRow}] /\ reported \subseteq reported'
  BY ReportedGrows, ZenonT(30) DEF TypeOK
<1>2. CASE rows'[p] # NoRow /\ rows[p] # NoRow /\ rows'[p].status = rows[p].status
  BY <1>1, <1>2, ZenonT(30) DEF RowTellsAReport, RowSettled
<1>3. CASE rows' = rows
  BY <1>2, <1>3, ZenonT(30) DEF RowSettled
<1>4. ASSUME NEW q \in Proofs, Clients(q)
      PROVE  rows[p] # NoRow /\ rows'[p].status = rows[p].status
  <2>1. ASSUME NEW w \in BOOLEAN, CreateRow(q, w) PROVE p # q /\ rows'[p] = rows[p]
    BY <1>1, <2>1, ZenonT(30) DEF CreateRow, Created, RowSettled
  <2>2. ASSUME CancelRow(q) PROVE rows'[p] = rows[p]
    BY <1>1, <2>2, RowAssumption, ZenonT(30) DEF CancelRow, CancelledIn, RowSettled, ProofRequest
  <2>3. CASE HandleRow(q)
    BY <1>1, <2>3, RowAssumption, ZenonT(30) DEF HandleRow, HandledIn, RowSettled, ProofRequest
  <2>4. CASE DeadlinePasses(q)
    BY <1>1, <2>4, RowAssumption, ZenonT(30) DEF DeadlinePasses, RowSettled, ProofRequest
  <2> QED
    BY <1>4, <2>1, <2>2, <2>3, <2>4, ZenonT(30) DEF Clients, RowSettled
<1>5. ASSUME NEW m \in wire, NEW a \in BOOLEAN, ApplyWrite(m, a)
      PROVE  [id |-> p, success |-> rows'[p].status = "Completed"] \in reported'
  <2>1. m.id \in Proofs /\ ResultOf(m.id, m.status) \in reported
    BY Zenon DEF ReportInv, TypeOK, Writes
  <2>2. CASE rows'[p] = rows[p]
    BY <1>2, <2>2, Zenon DEF RowSettled
  <2>3. CASE p = m.id /\ rows'[p].status = m.status
    BY <1>1, <2>1, <2>3, ZenonT(30) DEF ResultOf
  <2> QED
    BY <1>1, <1>5, <2>1, <2>2, <2>3, RowAssumption, ZenonT(30) DEF ApplyWrite, CompletedIn, ProofRequest
<1>6. \/ rows' = rows
      \/ \E q \in Proofs : Clients(q)
      \/ \E m \in wire, a \in BOOLEAN : ApplyWrite(m, a)
  BY TableKept, Zenon DEF Next, Network, LoseWrite, ReissueOk, ReissueFails
<1> QED
  BY <1>2, <1>3, <1>4, <1>5, <1>6, Zenon DEF RowSettled

-----------------------------------------------------------------------------
(* What is tracked, looked for and gone.                                   *)

\* What the ageing of the rows means for the bridge.
LEMMA Ageing ==
    ASSUME TypeOK, [Next]_vars
    PROVE  /\ \A p \in Proofs : Exists(p) => Exists(p)'
           /\ \A p \in Proofs : RowSettled(p) => RowSettled(p)'
           /\ Late \subseteq Late'
           /\ \A p \in Proofs : Exists(p) /\ ~StillPending(p, Late) => ~StillPending(p, Late)'
<1>1. \A p \in Proofs : RowAges(p)
  BY RowsAge, Zenon
<1>2. \A p \in Proofs : rows[p] \in ProofRequest \cup {NoRow}
  BY Zenon DEF TypeOK
<1> QED
  BY <1>1, <1>2, Zenon DEF RowAges, Exists, RowSettled, Late, StillPending, ProofRequest

\* Nothing is tracked but what was, or what the claimer has come to; nothing is
\* written but what was tracked; nothing is acknowledged but what was written.
LEMMA Sources ==
    ASSUME TypeOK, [Next]_vars
    PROVE  /\ \A p \in Proofs : task_map'[p] = Untracked
                                \/ task_map[p] # Untracked
                                \/ (claimer.at = "inserting" /\ AtRow(p))
           /\ \A m \in wire' : m \in wire \/ task_map[m.id] # Untracked
           /\ \A m \in acks' : m \in acks \/ (m \in wire /\ rows' = CompletedIn(rows, m.id, m.status))
<1> DEFINE Goal == /\ \A p \in Proofs : task_map'[p] = Untracked
                                        \/ task_map[p] # Untracked
                                        \/ (claimer.at = "inserting" /\ AtRow(p))
                   /\ \A m \in wire' : m \in wire \/ task_map[m.id] # Untracked
                   /\ \A m \in acks' : m \in acks
                                       \/ (m \in wire /\ rows' = CompletedIn(rows, m.id, m.status))
<1>1. task_map \in [Proofs -> TaskState]
  BY Zenon DEF TypeOK
<1>2. CASE UNCHANGED <<task_map, wire, acks>>
  BY <1>2, Zenon
<1>3. CASE TakeResult
  BY <1>1, <1>3 DEF TakeResult, Write
<1>4. ASSUME NEW m, WriteOk(m) \/ WriteFails(m) \/ ReissueOk(m) \/ ReissueFails(m) PROVE Goal
  BY <1>1, <1>4, Zenon DEF WriteOk, WriteFails, ReissueOk, ReissueFails, Settled, AfterFailedWrite
<1>5. ASSUME NEW p \in Proofs, InsertPending(p) \/ StopGone(p) PROVE Goal
  BY <1>1, <1>5, Zenon DEF InsertPending, StopGone
<1>6. CASE SweepUnconfirmed
  <2>1. \A m \in Reissued : task_map[m.id] # Untracked
    BY DEF Reissued, Unconfirmed, Write, Terminal, Untracked
  <2> QED
    BY <1>6, <2>1, Zenon DEF SweepUnconfirmed
<1>7. CASE \E m \in wire : LoseWrite(m) \/ \E a \in BOOLEAN : ApplyWrite(m, a)
  BY <1>7, Zenon DEF LoseWrite, ApplyWrite
<1>8. CASE Restart
  BY <1>8, Zenon DEF Restart
<1>9. \/ UNCHANGED <<task_map, wire, acks>>
      \/ TakeResult \/ SweepUnconfirmed \/ Restart
      \/ \E m \in wire : LoseWrite(m) \/ \E a \in BOOLEAN : ApplyWrite(m, a)
      \/ \E m : WriteOk(m) \/ WriteFails(m) \/ ReissueOk(m) \/ ReissueFails(m)
      \/ \E p \in Proofs : InsertPending(p) \/ StopGone(p)
  BY ZenonT(30) DEF Next, Clients, CreateRow, CancelRow, HandleRow, DeadlinePasses, CoordinatorStep,
         CompleteProof, SendSuccess, FailProof, FinishProof, ExpireProof, StatusTask, DropResult,
         Claimer, StartPoll, ListPage, ListFails, SkipRow, ClaimRow, StartConfirm, ConfirmRead,
         ConfirmFails, Network, vars
<1> QED
  BY <1>2, <1>3, <1>4, <1>5, <1>6, <1>7, <1>8, <1>9, ZenonT(30)

\* What the claimer has in hand after a step that is its own.
LEMMA ClaimerStep ==
    ASSUME TypeOK, StampInv, KnownInv, Claimer \/ Restart
    PROVE  /\ \A p \in claimer'.todo \cup claimer'.missing \cup claimer'.gone : Exists(p)
           /\ claimer'.at = "inserting" =>
                \A p \in claimer'.todo : AtRow(p)' => task_map'[p] = Untracked
           /\ claimer'.late \subseteq Late
           /\ \A p \in claimer'.gone : ~StillPending(p, Late)
<1> DEFINE Goal == /\ \A p \in claimer'.todo \cup claimer'.missing \cup claimer'.gone : Exists(p)
                   /\ claimer'.at = "inserting" =>
                        \A p \in claimer'.todo : AtRow(p)' => task_map'[p] = Untracked
                   /\ claimer'.late \subseteq Late
                   /\ \A p \in claimer'.gone : ~StillPending(p, Late)
<1>1. claimer \in ClaimerState
  BY Zenon DEF TypeOK
<1>2. /\ \A p \in claimer.todo \cup claimer.missing \cup claimer.gone : Exists(p)
      /\ claimer.late \subseteq Late
      /\ \A p \in claimer.gone : ~StillPending(p, Late)
  BY Zenon DEF KnownInv
<1>3. CASE StartPoll \/ ListFails \/ SweepUnconfirmed \/ Restart
  <2>1. /\ Asleep \in ClaimerState /\ Asleep.at = "asleep" /\ Asleep.late = {}
        /\ Asleep.todo = {} /\ Asleep.missing = {} /\ Asleep.gone = {}
    BY PagingAssumption DEF Asleep, ClaimerState
  <2>2. /\ claimer'.todo = {} /\ claimer'.missing = {} /\ claimer'.gone = {}
        /\ claimer'.late \subseteq Late /\ claimer'.at # "inserting"
    BY <1>3, <2>1, ZenonT(30) DEF StartPoll, ListFails, SweepUnconfirmed, Restart, ClaimerState
  <2> QED
    BY <2>2, Zenon
<1>4. CASE ListPage
  <2> DEFINE page == Page({p \in Proofs : StillPending(p, claimer.late)}, created,
                          claimer.page * PageSize, PageSize)
             all == claimer.todo \cup page
  <2>1. \A p \in all : Exists(p)
    BY <1>2, Zenon DEF Page, StillPending, Exists
  <2>2. \/ claimer' = [claimer EXCEPT !.page = @ + 1, !.todo = all] /\ claimer.at = "listing"
        \/ claimer' = [Asleep EXCEPT !.at = "claiming", !.todo = all]
    BY <1>4, Zenon DEF ListPage, Deduped
  <2> HIDE DEF all
  <2>3. CASE claimer' = [claimer EXCEPT !.page = @ + 1, !.todo = all] /\ claimer.at = "listing"
    BY <1>1, <1>2, <2>1, <2>3, ZenonT(30) DEF ClaimerState
  <2>4. CASE claimer' = [Asleep EXCEPT !.at = "claiming", !.todo = all]
    BY <2>1, <2>4, ZenonT(30) DEF Asleep
  <2> QED
    BY <2>2, <2>3, <2>4, Zenon
<1>5. ASSUME NEW p \in Proofs, SkipRow(p) PROVE Goal
  BY <1>1, <1>2, <1>5, ZenonT(30) DEF SkipRow, ClaimerState
<1>6. ASSUME NEW p \in Proofs, ClaimRow(p) PROVE Goal
  <2>1. /\ claimer'.todo = claimer.todo /\ claimer'.missing = claimer.missing
        /\ claimer'.gone = claimer.gone /\ claimer'.late = claimer.late
        /\ created' = created /\ task_map' = task_map
    BY <1>1, <1>6, ZenonT(30) DEF ClaimRow, ClaimerState
  <2>2. p \in claimer.todo /\ task_map[p] = Untracked /\ \A q \in claimer.todo : created[q] <= created[p]
    BY <1>6, Zenon DEF ClaimRow, AtRow, Claimable
  <2>3. ASSUME NEW q \in claimer'.todo, AtRow(q)' PROVE q = p
    <3>1. q \in Listed /\ p \in Listed /\ created[q] \in Nat /\ created[p] \in Nat
      BY <1>1, <1>2, <2>1, <2>2, Zenon DEF Listed, TypeOK, ClaimerState
    <3> QED
      BY <2>1, <2>2, <2>3, <3>1 DEF AtRow, StampInv
  <2> QED
    BY <1>2, <2>1, <2>2, <2>3, ZenonT(30)
<1>7. ASSUME NEW p \in Proofs, InsertPending(p) PROVE Goal
  BY <1>1, <1>2, <1>7, ZenonT(30) DEF InsertPending, ClaimerState
<1>8. CASE StartConfirm
  <2>1. \A p \in {q \in Proofs : task_map[q] = "Pending"} : Exists(p)
    BY Zenon DEF KnownInv, Untracked
  <2> QED
    BY <1>8, <2>1, ZenonT(30) DEF StartConfirm, Asleep
<1>9. ASSUME NEW p \in Proofs, ConfirmRead(p) PROVE Goal
  <2>1. /\ p \in claimer.missing
        /\ claimer' = [claimer EXCEPT
                         !.missing = @ \ {p},
                         !.gone = IF StillPending(p, claimer.late) THEN @ ELSE @ \cup {p}]
        /\ claimer.at = "confirming"
    BY <1>9, Zenon DEF ConfirmRead, ConfirmedAlive
  <2>2. StillPending(p, Late) => StillPending(p, claimer.late)
    BY <1>2, Zenon DEF StillPending
  <2>3. /\ claimer'.todo = claimer.todo /\ claimer'.missing \subseteq claimer.missing
        /\ claimer'.gone \subseteq claimer.gone \cup {p} /\ claimer'.late = claimer.late
        /\ claimer'.at = "confirming"
        /\ p \in claimer'.gone => p \in claimer.gone \/ ~StillPending(p, claimer.late)
    BY <1>1, <2>1, ZenonT(30) DEF ClaimerState
  <2> QED
    BY <1>2, <2>1, <2>2, <2>3, ZenonT(30)
<1>10. ASSUME NEW p \in Proofs, ConfirmFails(p) \/ StopGone(p) PROVE Goal
  <2>1. /\ claimer'.todo = claimer.todo /\ claimer'.missing \subseteq claimer.missing
        /\ claimer'.gone \subseteq claimer.gone /\ claimer'.late = claimer.late
        /\ claimer'.at = "confirming"
    BY <1>1, <1>10, ZenonT(30) DEF ConfirmFails, StopGone, ClaimerState
  <2> QED
    BY <1>2, <2>1, ZenonT(30)
<1> QED
  BY <1>3, <1>4, <1>5, <1>6, <1>7, <1>8, <1>9, <1>10, Zenon DEF Claimer

\* What the bridge tracks, writes and looks for keeps its row; what it found
\* gone stays gone.
LEMMA KnownStep == TypeOK /\ StampInv /\ KnownInv /\ [Next]_vars => KnownInv'
<1> SUFFICES ASSUME TypeOK, StampInv, KnownInv, [Next]_vars PROVE KnownInv'
  BY Zenon
<1>1. /\ \A p \in Proofs : Exists(p) => Exists(p)'
      /\ \A p \in Proofs : RowSettled(p) => RowSettled(p)'
      /\ Late \subseteq Late'
      /\ \A p \in Proofs : Exists(p) /\ ~StillPending(p, Late) => ~StillPending(p, Late)'
  BY Ageing, Zenon
<1>2. TypeOK'
  BY BridgeTypes, Zenon
<1>3. \A p \in Proofs : task_map'[p] # Untracked => Exists(p)'
  BY <1>1, Sources, ZenonT(30) DEF KnownInv, AtRow
<1>4. \A m \in wire' : Exists(m.id)'
  BY <1>1, <1>2, Sources, ZenonT(30) DEF KnownInv, TypeOK, Writes
<1>5. \A m \in acks' : RowSettled(m.id)'
  <2> SUFFICES ASSUME NEW m \in acks' PROVE RowSettled(m.id)'
    BY Zenon
  <2>1. m.id \in Proofs /\ m.status \in Terminal
    BY <1>2, Zenon DEF TypeOK, Writes
  <2>2. CASE m \in acks
    BY <1>1, <2>1, <2>2, Zenon DEF KnownInv
  <2>3. CASE m \in wire /\ rows' = CompletedIn(rows, m.id, m.status)
    <3>1. rows[m.id] # NoRow /\ rows[m.id] \in ProofRequest
      BY <2>1, <2>3, Zenon DEF KnownInv, TypeOK, Exists
    <3>2. CASE rows[m.id].status = "Pending"
      <4>1. rows'[m.id] = [rows[m.id] EXCEPT !.status = m.status]
        BY <2>1, <2>3, <3>1, <3>2, ZenonT(30) DEF CompletedIn, TypeOK
      <4> QED
        BY <1>1, <2>1, <3>1, <4>1, ZenonT(30) DEF RowSettled, Exists, Terminal, ProofRequest
    <3>3. CASE rows[m.id].status # "Pending"
      BY <1>1, <2>1, <3>1, <3>3, ZenonT(30) DEF RowSettled
    <3> QED
      BY <3>2, <3>3, Zenon
  <2> QED
    BY <2>2, <2>3, Sources, ZenonT(30)
<1>6. ASSUME Claimer \/ Restart PROVE KnownInv'
  <2>1. claimer' \in ClaimerState
    BY <1>2, Zenon DEF TypeOK
  <2> QED
    BY <1>1, <1>3, <1>4, <1>5, <1>6, <2>1, ClaimerStep, ZenonT(30) DEF KnownInv, ClaimerState
<1>7. ASSUME claimer' = claimer,
             \A p \in claimer.todo : created'[p] = created[p],
             \A p \in Proofs : task_map[p] = Untracked => task_map'[p] = Untracked
      PROVE  KnownInv'
  <2>1. claimer.todo \cup claimer.missing \cup claimer.gone \subseteq Proofs
    BY Zenon DEF TypeOK, ClaimerState
  <2>2. \A p \in claimer.todo : AtRow(p)' => AtRow(p)
    BY <1>7, Zenon DEF AtRow
  <2> QED
    BY <1>1, <1>3, <1>4, <1>5, <1>7, <2>1, <2>2, ZenonT(30) DEF KnownInv
<1>8. ASSUME ~(Claimer \/ Restart)
      PROVE  /\ claimer' = claimer
             /\ \A p \in claimer.todo : created'[p] = created[p]
             /\ \A p \in Proofs : task_map[p] = Untracked => task_map'[p] = Untracked
  <2>1. /\ task_map \in [Proofs -> TaskState] /\ created \in [Proofs -> Nat]
        /\ \A p \in claimer.todo : p \in Proofs /\ rows[p] # NoRow
    BY Zenon DEF KnownInv, TypeOK, Exists, ClaimerState
  <2>2. CASE UNCHANGED <<claimer, created, task_map>>
    BY <2>2, Zenon
  <2>3. ASSUME NEW p \in Proofs, NEW w \in BOOLEAN, CreateRow(p, w)
        PROVE  UNCHANGED <<claimer, task_map>> /\ \A q \in claimer.todo : created'[q] = created[q]
    BY <2>1, <2>3, Zenon DEF CreateRow
  <2>4. CASE TakeResult
    BY <2>1, <2>4, Zenon DEF TakeResult
  <2>5. ASSUME NEW m, WriteOk(m) \/ WriteFails(m) \/ ReissueOk(m)
        PROVE  /\ UNCHANGED <<claimer, created>>
               /\ \A p \in Proofs : task_map[p] = Untracked => task_map'[p] = Untracked
    BY <2>1, <2>5, ZenonT(30) DEF WriteOk, WriteFails, ReissueOk, Settled, AfterFailedWrite
  <2>6. \/ UNCHANGED <<claimer, created, task_map>>
        \/ \E p \in Proofs, w \in BOOLEAN : CreateRow(p, w)
        \/ TakeResult
        \/ \E m : WriteOk(m) \/ WriteFails(m) \/ ReissueOk(m)
    BY <1>8, ZenonT(30) DEF Next, Clients, CancelRow, HandleRow, DeadlinePasses, CoordinatorStep,
                CompleteProof, SendSuccess, FailProof, FinishProof, ExpireProof, StatusTask,
                DropResult, Network, LoseWrite, ApplyWrite, ReissueFails, vars
  <2> QED
    BY <2>2, <2>3, <2>4, <2>5, <2>6, ZenonT(30)
<1> QED
  BY <1>6, <1>7, <1>8, Zenon

\* An entry goes when its write is acknowledged, and is overwritten only when
\* there was none (remove_if, the insertion after create_proof).
LEMMA TrackedStep ==
    TypeOK /\ KnownInv /\ UnlandedResultTracked /\ [Next]_vars => UnlandedResultTracked'
<1> SUFFICES ASSUME TypeOK, KnownInv, UnlandedResultTracked, [Next]_vars, NEW p \in recorded'
             PROVE  task_map'[p] \in Terminal \/ RowSettled(p)'
  BY Zenon DEF UnlandedResultTracked
<1>1. p \in Proofs
  BY BridgeTypes, Zenon DEF TypeOK
<1>2. /\ task_map \in [Proofs -> TaskState] /\ results \in Seq(Result)
      /\ p \in recorded => task_map[p] \in Terminal \/ RowSettled(p)
  BY Zenon DEF TypeOK, UnlandedResultTracked
<1>3. CASE RowSettled(p)
  BY <1>1, <1>3, Ageing, Zenon
<1>4. CASE p \in recorded /\ task_map'[p] = task_map[p]
  BY <1>2, <1>3, <1>4, Zenon
<1>5. CASE TakeResult
  <2> DEFINE r == Head(results)
  <2>1. /\ task_map' = [task_map EXCEPT ![r.id] = StatusOf(r)]
        /\ recorded' = recorded \cup {r.id}
    BY <1>5, Zenon DEF TakeResult
  <2>2. StatusOf(r) \in Terminal
    BY Zenon DEF StatusOf, Terminal
  <2> HIDE DEF r
  <2> QED
    BY <1>1, <1>2, <1>4, <2>1, <2>2, ZenonT(30)
<1>6. ASSUME NEW m, WriteOk(m) \/ ReissueOk(m) PROVE p \in recorded /\ (task_map'[p] = task_map[p] \/ RowSettled(p))
  BY <1>1, <1>2, <1>6, ZenonT(30) DEF WriteOk, ReissueOk, Settled, KnownInv
<1>7. ASSUME NEW q \in Proofs, InsertPending(q)
      PROVE  p \in recorded /\ (task_map'[p] = task_map[p] \/ RowSettled(p))
  BY <1>1, <1>2, <1>7, Zenon DEF InsertPending, KnownInv, AtRow, Untracked, Terminal
<1>8. ASSUME NEW q \in Proofs, StopGone(q)
      PROVE  p \in recorded /\ (task_map'[p] = task_map[p] \/ RowSettled(p))
  BY <1>1, <1>2, <1>8, Zenon DEF StopGone, Terminal
<1>9. CASE Restart
  BY <1>9, ZenonT(30) DEF Restart
<1>10. \/ UNCHANGED <<task_map, recorded>>
       \/ TakeResult \/ Restart
       \/ \E m : WriteOk(m) \/ ReissueOk(m)
       \/ \E q \in Proofs : InsertPending(q) \/ StopGone(q)
  BY ZenonT(30) DEF Next, Clients, CreateRow, CancelRow, HandleRow, DeadlinePasses, CoordinatorStep,
         CompleteProof, SendSuccess, FailProof, FinishProof, ExpireProof, StatusTask, DropResult,
         WriteFails, AfterFailedWrite, Claimer, StartPoll, ListPage, ListFails, SkipRow, ClaimRow,
         StartConfirm, ConfirmRead, ConfirmFails, SweepUnconfirmed, Network, LoseWrite,
         ApplyWrite, ReissueFails, vars
<1> QED
  BY <1>3, <1>4, <1>5, <1>6, <1>7, <1>8, <1>9, <1>10, Zenon

-----------------------------------------------------------------------------
\* The bridge's invariant holds whatever is lost, late, repeated or restarted.
THEOREM BridgeSafe == Spec => []BridgeInv
<1>1. BridgeInv /\ [Next]_vars => BridgeInv'
  BY BridgeTypes, StampStep, KnownStep, ReportStep, TrackedStep, TellsStep, Zenon DEF BridgeInv
<1> QED
  BY <1>1, BridgeInit, PTL DEF Spec

\* A recorded result is never forgotten before its row has left Pending
\* (task_map, remove_if, reissue_lost_status_write).
THEOREM ResultsTracked == Spec => []UnlandedResultTracked
<1>1. BridgeInv => UnlandedResultTracked
  BY Zenon DEF BridgeInv
<1> QED
  BY <1>1, BridgeSafe, PTL

\* The types of the bridge, and: a row that is Completed or Failed tells a
\* result that was reported for its proof (spawn_proof_status_task).
THEOREM RowsTrue == Spec => []RowsAreTrue
<1>1. BridgeInv => RowsAreTrue
  BY Zenon DEF BridgeInv, RowsAreTrue
<1> QED
  BY <1>1, BridgeSafe, PTL

\* No step changes a final status, and the claimer stops no proof whose row is
\* still to be proved (guard_pending, fail_missing_proofs).
THEOREM RowsHeeded == Spec => RowsAreHeeded
<1>1. BridgeInv /\ [Next]_vars =>
        \A p \in Proofs : RowSettled(p) => rows'[p].status = rows[p].status
  BY RowsAge, Zenon DEF BridgeInv, RowAges, RowSettled
<1>2. ASSUME BridgeInv, [Next]_vars, NEW p \in Proofs,
             p \in proofs \ proofs', claimer'.at = "confirming", claimer' # claimer
      PROVE  ~StillPending(p, Late)
  <2>1. ~Restart
    BY <1>2 DEF Restart, Asleep
  <2>2. \E q \in Proofs : StopGone(q)
    BY <1>2, <2>1, ZenonT(30)
       DEF Next, Clients, CreateRow, CancelRow, HandleRow, DeadlinePasses, CoordinatorStep,
           CompleteProof, SendSuccess, FailProof, FinishProof, ExpireProof, StatusTask,
           DropResult, TakeResult, WriteOk, WriteFails, Claimer, StartPoll, ListPage, ListFails,
           SkipRow, ClaimRow, InsertPending, StartConfirm, ConfirmRead, ConfirmFails,
           SweepUnconfirmed, Network, LoseWrite, ApplyWrite, ReissueOk, ReissueFails, vars
  <2> QED
    BY <1>2, <2>2, Zenon DEF StopGone, BridgeInv, KnownInv
<1>3. BridgeInv /\ [Next]_vars =>
        \A p \in Proofs : p \in proofs \ proofs' /\ claimer'.at = "confirming" /\ claimer' # claimer
                            => ~StillPending(p, Late)
  BY <1>2, Zenon
<1>4. Spec => FinalRowStays
  BY <1>1, BridgeSafe, PTL DEF Spec, FinalRowStays
<1>5. Spec => OnlyGoneProofsStopped
  BY <1>3, BridgeSafe, PTL DEF Spec, OnlyGoneProofsStopped
<1> QED
  BY <1>4, <1>5, Zenon DEF RowsAreHeeded
=============================================================================
