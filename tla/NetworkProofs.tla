------------------------------- MODULE NetworkProofs -------------------------------
(***************************************************************************)
(* The safety of the fulfiller and of the bidder, for every set of         *)
(* fulfillers, requests and auctions and every number of slots.            *)
(*                                                                         *)
(* The fulfiller: what is true of a request whose task is at some step     *)
(* (TaskOK) rests on facts that nobody takes back (WorldGrows), so a step  *)
(* of one task, of another fulfiller, of the network or of the cluster     *)
(* leaves it true for every other task.                                    *)
(*                                                                         *)
(* The bidder: what a pass counts is never too small (CountInv), although  *)
(* the pages it fetches are of different moments, because a bid is in the  *)
(* ledger from before it is sent until a listing shows what became of it.  *)
(***************************************************************************)
EXTENDS Network, FiniteSetTheorems, TLAPS

------------------------------------------------------------------------------------
(* The fulfiller.                                                           *)

\* The types.
NetStates == {"assigned", "fulfilled", "unfulfillable"}
Phases == {"submit", "fail", "cancel", "schedule"}
Steps == {"idle", "start", "ready", "signed", "answered", "marked", "mismatch", "blaming", "program", "copied"}

FulTypes ==
    /\ named \in BOOLEAN /\ shared \in BOOLEAN
    /\ assignee \in [Requests -> Fulfillers \cup {NoOne}]
    /\ net \in [Requests -> NetStates]
    /\ rows \in [Ful!Ids -> Ful!ProofRequest \cup {NoRow}]
    /\ owner \in [Ful!Ids -> Fulfillers \cup {NoOne}]
    /\ phase \in [Fulfillers -> Phases]
    /\ step \in [Fulfillers -> [Ful!Ids -> Steps]]
    /\ DOMAIN kind = Fulfillers
    /\ current \in [Fulfillers -> SUBSET Ful!Ids]

\* The row of i has status s.
Ended(i, s) == rows[i] # NoRow /\ rows[i].status = s

\* Where a task may be in each phase, and what is then true of its request.
Submitting(f, i) ==
    /\ Ended(i, "Completed") /\ (named => owner[i] = f)
    /\ step[f][i] \in {"start", "ready", "signed", "answered", "marked", "mismatch", "blaming"}
    /\ step[f][i] \in {"signed", "answered", "marked"} => i \in Requests
    /\ step[f][i] \in {"answered", "marked"} => net[i] = "fulfilled"
    /\ step[f][i] = "marked" => rows[i].handled

Failing(f, i) ==
    /\ Ended(i, "Failed") /\ (named => owner[i] = f)
    /\ step[f][i] \in {"start", "signed", "answered"}
    /\ step[f][i] \in {"signed", "answered"} => i \in Requests
    /\ step[f][i] = "answered" /\ named => net[i] # "assigned"

Cancelling(f, i) ==
    /\ i \in Requests /\ assignee[i] = f
    /\ step[f][i] \in {"start", "signed", "answered"}
    /\ step[f][i] = "answered" \/ ~Ful!ShouldFailFulfillment(kind[f][i]) => net[i] # "assigned"

Scheduling(f, i) ==
    /\ i \in Requests /\ assignee[i] = f
    /\ step[f][i] \in {"start", "program", "copied"}
    /\ step[f][i] \in {"program", "copied"} => <<i, "program">> \in inputs
    /\ step[f][i] = "copied" => <<i, "stdin">> \in inputs

TaskOK(f, i) ==
    step[f][i] # "idle" =>
        /\ phase[f] = "submit" => Submitting(f, i)
        /\ phase[f] = "fail" => Failing(f, i)
        /\ phase[f] = "cancel" => Cancelling(f, i)
        /\ phase[f] = "schedule" => Scheduling(f, i)

\* Every task is at a step its request is ready for.
TasksInv == \A f \in Fulfillers, i \in Ful!Ids : TaskOK(f, i)

\* One task of a fulfiller signs at a time.
LockInv == \A f \in Fulfillers, i, j \in Ful!Ids : step[f][i] \in Ful!Signing /\ step[f][j] \in Ful!Signing => i = j

\* A row that carries a name is of a request assigned to that fulfiller, and
\* only rows that ended are marked.
RowInv == \A i \in Ful!Ids :
    /\ owner[i] # NoOne => i \in Requests /\ assignee[i] = owner[i]
    /\ rows[i] # NoRow /\ rows[i].handled => rows[i].status \in {"Completed", "Failed"}

RowsInv == RowInv /\ Ful!HandledMeansSettled /\ Ful!CancelledIsReleased /\ Ful!ProofKeptUntilHandled /\ Ful!RowHasInputs

\* The inductive invariant.
FulInv == FulTypes /\ TasksInv /\ LockInv /\ Ful!OwnNonceIsCurrent /\ RowsInv

\* What no step takes back.
WorldGrows ==
    /\ named' = named /\ assignee' = assignee /\ inputs \subseteq inputs'
    /\ \A i \in Ful!Ids : rows[i] # NoRow =>
          /\ rows'[i] # NoRow
          /\ rows[i].status # "Pending" => rows'[i].status = rows[i].status
          /\ rows[i].handled => rows'[i].handled
    /\ \A i \in Ful!Ids : owner[i] # NoOne => owner'[i] = owner[i]
    /\ \A r \in Requests : net[r] # "assigned" => net'[r] = net[r]

\* A task that does not move keeps what is true of its request.
LEMMA TaskKept ==
    ASSUME FulTypes, WorldGrows, NEW f \in Fulfillers, NEW i \in Ful!Ids, TaskOK(f, i),
           phase'[f] = phase[f], step'[f][i] = step[f][i], kind'[f][i] = kind[f][i]
    PROVE  TaskOK(f, i)'
<1> SUFFICES ASSUME step[f][i] # "idle" PROVE TaskOK(f, i)'
    BY Zenon DEF TaskOK
<1>1. CASE phase[f] = "submit"
  <2>1. Submitting(f, i)
    BY <1>1, Zenon DEF TaskOK
  <2>2. f # NoOne
    BY ForeignAssumption, Zenon
  <2>3. Submitting(f, i)'
    BY <2>1, <2>2, Zenon DEF Submitting, Ended, WorldGrows
  <2> QED
    BY <1>1, <2>3, Zenon DEF TaskOK
<1>2. CASE phase[f] = "fail"
  <2>1. Failing(f, i)
    BY <1>2, Zenon DEF TaskOK
  <2>2. f # NoOne
    BY ForeignAssumption, Zenon
  <2>3. Failing(f, i)'
    BY <2>1, <2>2, Zenon DEF Failing, Ended, WorldGrows
  <2> QED
    BY <1>2, <2>3, Zenon DEF TaskOK
<1>3. CASE phase[f] = "cancel"
  <2>1. Cancelling(f, i)
    BY <1>3, Zenon DEF TaskOK
  <2>3. Cancelling(f, i)'
    BY <2>1, Zenon DEF Cancelling, WorldGrows, Ful!ShouldFailFulfillment
  <2> QED
    BY <1>3, <2>3, Zenon DEF TaskOK
<1>4. CASE phase[f] = "schedule"
  <2>1. Scheduling(f, i)
    BY <1>4, Zenon DEF TaskOK
  <2>3. Scheduling(f, i)'
    BY <2>1, Zenon DEF Scheduling, WorldGrows
  <2> QED
    BY <1>4, <2>3, Zenon DEF TaskOK
<1>5. phase[f] \in Phases
    BY Zenon DEF FulTypes
<1> QED
    BY <1>1, <1>2, <1>3, <1>4, <1>5, Zenon DEF Phases

\* A task that moves takes its place, and no other task moves.
LEMMA Moved ==
    ASSUME FulTypes, NEW f \in Fulfillers, NEW i \in Ful!Ids, NEW s \in Steps, Ful!To(f, i, s)
    PROVE  /\ step' \in [Fulfillers -> [Ful!Ids -> Steps]] /\ step'[f][i] = s
           /\ \A g \in Fulfillers, j \in Ful!Ids : g # f \/ j # i => step'[g][j] = step[g][j]
<1> DEFINE mine == [step[f] EXCEPT ![i] = s]
<1>1. step \in [Fulfillers -> [Ful!Ids -> Steps]] /\ step' = [step EXCEPT ![f] = mine]
    BY Zenon DEF FulTypes, Ful!To
<1>2. mine \in [Ful!Ids -> Steps] /\ mine[i] = s /\ \A j \in Ful!Ids : j # i => mine[j] = step[f][j]
    BY <1>1, Zenon
<1> HIDE DEF mine
<1> QED
    BY <1>1, <1>2, Zenon

\* When one task moves, the tasks' invariant is kept if that task's is.
LEMMA TaskMoves ==
    ASSUME FulTypes, TasksInv, WorldGrows, NEW f \in Fulfillers, NEW i \in Ful!Ids, NEW s \in Steps,
           Ful!To(f, i, s), UNCHANGED <<phase, kind>>, step'[f][i] = s => TaskOK(f, i)'
    PROVE  TasksInv'
<1> SUFFICES ASSUME NEW g \in Fulfillers, NEW j \in Ful!Ids PROVE TaskOK(g, j)'
    BY Zenon DEF TasksInv
<1>0. step'[f][i] = s /\ (g # f \/ j # i => step'[g][j] = step[g][j])
    BY Moved
<1>1. CASE g = f /\ j = i
    BY <1>0, <1>1, Zenon
<1>2. CASE g # f \/ j # i
  <2>1. step'[g][j] = step[g][j] /\ phase'[g] = phase[g] /\ kind'[g][j] = kind[g][j]
    BY <1>0, <1>2, Zenon
  <2> QED
    BY <2>1, TaskKept, Zenon DEF TasksInv
<1> QED
    BY <1>1, <1>2, Zenon

\* When no task moves, the tasks' invariant is kept.
LEMMA NoTaskMoves ==
    ASSUME FulTypes, TasksInv, WorldGrows, UNCHANGED <<phase, step, kind>>
    PROVE  TasksInv'
BY TaskKept, Zenon DEF TasksInv

\* A task that lets go of the lock, or does not want it, breaks no lock.
LEMMA LockMoves ==
    ASSUME FulTypes, LockInv, NEW f \in Fulfillers, NEW i \in Ful!Ids, NEW s \in Steps \ Ful!Signing, Ful!To(f, i, s)
    PROVE  LockInv'
<1>1. /\ step'[f][i] \notin Ful!Signing
      /\ \A g \in Fulfillers, j \in Ful!Ids : g # f \/ j # i => step'[g][j] = step[g][j]
    BY Moved, Zenon
<1>2. \A g \in Fulfillers, j \in Ful!Ids : step'[g][j] \in Ful!Signing => step[g][j] \in Ful!Signing
    BY <1>1, Zenon
<1> QED
    BY <1>2, Zenon DEF LockInv, Ful!Signing

\* The same of its nonce, when no other task's nonce grows stale.
LEMMA NonceMoves ==
    ASSUME FulTypes, Ful!OwnNonceIsCurrent, NEW f \in Fulfillers, NEW i \in Ful!Ids, NEW s \in Steps \ Ful!Signing,
           Ful!To(f, i, s), UNCHANGED shared, UNCHANGED current
    PROVE  Ful!OwnNonceIsCurrent'
<1>1. /\ step'[f][i] \notin Ful!Signing
      /\ \A g \in Fulfillers, j \in Ful!Ids : g # f \/ j # i => step'[g][j] = step[g][j]
    BY Moved, Zenon
<1>2. \A g \in Fulfillers, j \in Ful!Ids : step'[g][j] \in Ful!Signing => step[g][j] \in Ful!Signing
    BY <1>1, Zenon
<1> QED
    BY <1>2, Zenon DEF Ful!OwnNonceIsCurrent, Ful!Signing

\* A table in which only the row of i may differ, and which takes nothing back.
RowsGrow(table) ==
    \A i \in Ful!Ids : rows[i] # NoRow =>
        /\ table[i] # NoRow
        /\ rows[i].status # "Pending" => table[i].status = rows[i].status
        /\ rows[i].handled => table[i].handled

Rewritten(table, i) ==
    /\ table \in [Ful!Ids -> Ful!ProofRequest \cup {NoRow}] /\ RowsGrow(table)
    /\ \A j \in Ful!Ids : j # i => table[j] = rows[j]

\* The empty row is no row of the fulfiller's table either.
LEMMA SameRows == NoRow \notin Ful!ProofRequest
BY RowAssumption, Zenon DEF ProofRequest, RowStatus, FinalStatus, Ful!ProofRequest, Ful!RowStatus, Ful!FinalStatus

\* The status of a row is set.
LEMMA StatusSet ==
    ASSUME NEW row \in Ful!ProofRequest, NEW s \in Ful!RowStatus
    PROVE  /\ [row EXCEPT !.status = s] \in Ful!ProofRequest
           /\ [row EXCEPT !.status = s].status = s
           /\ [row EXCEPT !.status = s].handled = row.handled
BY Zenon DEF Ful!ProofRequest

\* The mark is set.
LEMMA HandledSet ==
    ASSUME NEW row \in Ful!ProofRequest
    PROVE  /\ [row EXCEPT !.handled = TRUE] \in Ful!ProofRequest
           /\ [row EXCEPT !.handled = TRUE].status = row.status
           /\ [row EXCEPT !.handled = TRUE].handled = TRUE
BY Zenon DEF Ful!ProofRequest

\* One row is given a new value.
LEMMA RowSet ==
    ASSUME FulTypes, NEW i \in Ful!Ids, NEW row \in Ful!ProofRequest,
           rows[i] # NoRow => /\ rows[i].status # "Pending" => row.status = rows[i].status
                              /\ rows[i].handled => row.handled
    PROVE  /\ Rewritten([rows EXCEPT ![i] = row], i)
           /\ [rows EXCEPT ![i] = row][i] = row /\ row # NoRow
<1> DEFINE table == [rows EXCEPT ![i] = row]
<1>1. rows \in [Ful!Ids -> Ful!ProofRequest \cup {NoRow}] /\ row # NoRow
    BY SameRows, Zenon DEF FulTypes
<1>2. /\ table \in [Ful!Ids -> Ful!ProofRequest \cup {NoRow}]
      /\ table[i] = row /\ \A j \in Ful!Ids : j # i => table[j] = rows[j]
    BY <1>1, Zenon
<1> HIDE DEF table
<1>3. Rewritten(table, i) /\ table[i] = row /\ row # NoRow
    BY <1>1, <1>2, Zenon DEF RowsGrow, Rewritten
<1> QED
    BY <1>3, Zenon DEF table

\* The table as it is.
LEMMA RowsSame ==
    ASSUME FulTypes, NEW i \in Ful!Ids
    PROVE  Rewritten(rows, i)
BY Zenon DEF FulTypes, Rewritten, RowsGrow

\* A pending row is given a status.
LEMMA RowStatusSet ==
    ASSUME FulTypes, NEW i \in Ful!Ids, NEW s \in Ful!RowStatus, Ended(i, "Pending")
    PROVE  LET t == [rows EXCEPT ![i].status = s]
           IN Rewritten(t, i) /\ t[i].status = s /\ t[i].handled = rows[i].handled
<1> DEFINE row == [rows[i] EXCEPT !.status = s]
<1>1. rows[i] \in Ful!ProofRequest /\ rows[i].status = "Pending"
    BY Zenon DEF FulTypes, Ended
<1>2. row \in Ful!ProofRequest /\ row.status = s /\ row.handled = rows[i].handled
    BY <1>1, StatusSet, Zenon
<1> HIDE DEF row
<1>3. Rewritten([rows EXCEPT ![i] = row], i) /\ [rows EXCEPT ![i] = row][i] = row
    BY <1>1, <1>2, RowSet, ZenonT(30)
<1>4. LET t == [rows EXCEPT ![i] = row]
      IN Rewritten(t, i) /\ t[i].status = s /\ t[i].handled = rows[i].handled
    BY <1>2, <1>3, Zenon
<1> QED
    BY <1>4, Zenon DEF row

\* CompletedIn: the status of a pending row.
LEMMA RowCompleted ==
    ASSUME FulTypes, NEW i \in Ful!Ids, NEW s \in Ful!RowStatus, Ended(i, "Pending")
    PROVE  LET t == Ful!CompletedIn(rows, i, s)
           IN Rewritten(t, i) /\ t[i].status = s /\ t[i].handled = rows[i].handled
BY RowStatusSet, Zenon DEF Ful!CompletedIn, Ended

\* CancelledIn: a pending row is cancelled, any other stays.
LEMMA RowCancelled ==
    ASSUME FulTypes, NEW i \in Ful!Ids
    PROVE  LET t == Ful!CancelledIn(rows, i)
           IN /\ Rewritten(t, i)
              /\ Ended(i, "Pending") => t[i].status = "Cancelled" /\ t[i].handled = rows[i].handled
              /\ ~Ended(i, "Pending") => t[i] = rows[i]
<1>1. "Cancelled" \in Ful!RowStatus
    BY Zenon DEF Ful!RowStatus, Ful!FinalStatus
<1>2. CASE Ended(i, "Pending")
    BY <1>1, <1>2, RowStatusSet, Zenon DEF Ful!CancelledIn, Ended
<1>3. CASE ~Ended(i, "Pending")
    BY <1>3, RowsSame, Zenon DEF Ful!CancelledIn, Ended
<1> QED
    BY <1>2, <1>3, Zenon

\* HandledIn: the mark, and nothing else.
LEMMA RowHandled ==
    ASSUME FulTypes, NEW i \in Ful!Ids, rows[i] # NoRow
    PROVE  LET t == Ful!HandledIn(rows, i)
           IN Rewritten(t, i) /\ t[i].status = rows[i].status /\ t[i].handled = TRUE
<1> DEFINE row == [rows[i] EXCEPT !.handled = TRUE]
<1>1. rows[i] \in Ful!ProofRequest
    BY Zenon DEF FulTypes
<1>2. row \in Ful!ProofRequest /\ row.status = rows[i].status /\ row.handled = TRUE
    BY <1>1, HandledSet, Zenon
<1> HIDE DEF row
<1>3. Rewritten([rows EXCEPT ![i] = row], i) /\ [rows EXCEPT ![i] = row][i] = row
    BY <1>1, <1>2, RowSet, Zenon
<1>4. LET t == [rows EXCEPT ![i] = row]
      IN Rewritten(t, i) /\ t[i].status = rows[i].status /\ t[i].handled = TRUE
    BY <1>2, <1>3, Zenon
<1> QED
    BY <1>4, Zenon DEF row, Ful!HandledIn

\* Created: a new row is pending and not handled, an old one stays.
LEMMA RowCreated ==
    ASSUME FulTypes, NEW i \in Ful!Ids
    PROVE  LET t == Ful!Created(rows, i, TRUE)
           IN /\ Rewritten(t, i) /\ t[i] # NoRow
              /\ rows[i] # NoRow => t[i] = rows[i]
              /\ rows[i] = NoRow => t[i].status = "Pending" /\ t[i].handled = FALSE
<1>1. CASE rows[i] # NoRow
    BY <1>1, RowsSame, Zenon DEF Ful!Created
<1>2. CASE rows[i] = NoRow
  <2> DEFINE row == [status |-> "Pending", handled |-> FALSE, expired |-> FALSE, whole |-> TRUE]
  <2>1. row \in Ful!ProofRequest /\ row.status = "Pending" /\ row.handled = FALSE
    BY Zenon DEF Ful!ProofRequest, Ful!RowStatus
  <2>2. Ful!Created(rows, i, TRUE) = [rows EXCEPT ![i] = row]
    BY <1>2, Zenon DEF Ful!Created
  <2> HIDE DEF row
  <2>3. Rewritten([rows EXCEPT ![i] = row], i) /\ [rows EXCEPT ![i] = row][i] = row /\ row # NoRow
    BY <1>2, <2>1, RowSet, Zenon
  <2> QED
    BY <1>2, <2>1, <2>2, <2>3, Zenon
<1> QED
    BY <1>1, <1>2, Zenon

\* When only the network's answers change, and none is taken back, the rows'
\* invariant is kept.
LEMMA RowsKept ==
    ASSUME RowsInv, WorldGrows, UNCHANGED <<rows, owner, inputs, proofs>>
    PROVE  RowsInv'
<1>1. RowInv'
    BY Zenon DEF RowsInv, RowInv, WorldGrows
<1>2. Ful!HandledMeansSettled'
    BY Zenon DEF RowsInv, Ful!HandledMeansSettled, WorldGrows
<1>3. Ful!CancelledIsReleased'
    BY Zenon DEF RowsInv, Ful!CancelledIsReleased, WorldGrows
<1>4. Ful!ProofKeptUntilHandled' /\ Ful!RowHasInputs'
    BY Zenon DEF RowsInv, Ful!ProofKeptUntilHandled, Ful!RowHasInputs
<1> QED
    BY <1>1, <1>2, <1>3, <1>4, Zenon DEF RowsInv

\* Nothing the tasks rest on changes.
LEMMA WorldSame ==
    ASSUME UNCHANGED <<named, assignee, net, rows, owner, inputs>>
    PROVE  WorldGrows
BY Zenon DEF WorldGrows

\* A rewritten table, with all else as it was.
LEMMA WorldRewritten ==
    ASSUME NEW i \in Ful!Ids, Rewritten(rows', i), UNCHANGED <<named, assignee, net, owner, inputs>>
    PROVE  WorldGrows
BY Zenon DEF WorldGrows, Rewritten, RowsGrow

\* The network's answer to one request, given while it waits.
LEMMA NetSet ==
    ASSUME FulTypes, NEW r \in Requests, NEW s \in NetStates, net[r] = "assigned",
           net' = [net EXCEPT ![r] = s]
    PROVE  /\ net' \in [Requests -> NetStates] /\ net'[r] = s
           /\ \A q \in Requests : net[q] # "assigned" => net'[q] = net[q]
BY Zenon DEF FulTypes

\* The initial states.
LEMMA FulInit == Ful!Init => FulInv
<1> SUFFICES ASSUME Ful!Init PROVE FulInv
    BY Zenon
<1>0. "assigned" \in NetStates /\ "submit" \in Phases /\ "idle" \in Steps /\ "idle" \notin Ful!Signing
    BY Zenon DEF NetStates, Phases, Steps, Ful!Signing
<1>1. FulTypes
  <2>1. net \in [Requests -> NetStates] /\ rows \in [Ful!Ids -> Ful!ProofRequest \cup {NoRow}]
    BY <1>0, Zenon DEF Ful!Init
  <2>2. owner \in [Ful!Ids -> Fulfillers \cup {NoOne}] /\ phase \in [Fulfillers -> Phases]
    BY <1>0, Zenon DEF Ful!Init
  <2>3. Ful!Idle \in [Ful!Ids -> Steps]
    BY <1>0, Zenon DEF Ful!Idle
  <2>4. step \in [Fulfillers -> [Ful!Ids -> Steps]] /\ DOMAIN kind = Fulfillers
    BY <2>3, Zenon DEF Ful!Init
  <2>5. current \in [Fulfillers -> SUBSET Ful!Ids]
    BY Zenon DEF Ful!Init
  <2> QED
    BY <2>1, <2>2, <2>4, <2>5, Zenon DEF Ful!Init, FulTypes
<1>2. \A f \in Fulfillers, i \in Ful!Ids : step[f][i] = "idle"
    BY Zenon DEF Ful!Init, Ful!Idle
<1>3. TasksInv /\ LockInv /\ Ful!OwnNonceIsCurrent
    BY <1>0, <1>2, Zenon DEF TasksInv, TaskOK, LockInv, Ful!OwnNonceIsCurrent
<1>4. \A i \in Ful!Ids : rows[i] = NoRow /\ owner[i] = NoOne
    BY Zenon DEF Ful!Init
<1>5. \A r \in Requests : r \in Ful!Ids
    BY Zenon DEF Ful!Ids
<1>6. RowsInv
    BY <1>4, <1>5, Zenon
       DEF RowsInv, RowInv, Ful!HandledMeansSettled, Ful!CancelledIsReleased, Ful!ProofKeptUntilHandled, Ful!RowHasInputs
<1> QED
    BY <1>1, <1>3, <1>6, Zenon DEF FulInv

\* The network answers, or finds a request unexecutable.
LEMMA FulNetworkMoves ==
    ASSUME FulInv, NEW r \in Requests, Ful!NetworkMoves(r)
    PROVE  FulInv'
<1>1. UNCHANGED <<named, assignee, shared, rows, owner, late, inputs, proofs, phase, listed, step, kind, current>>
    BY Zenon DEF Ful!NetworkMoves, Ful!clusterVars, Ful!taskVars
<1>2. net' \in [Requests -> NetStates] /\ \A q \in Requests : net[q] # "assigned" => net'[q] = net[q]
  <2>1. net[r] = "assigned" /\ FulTypes
    BY Zenon DEF Ful!NetworkMoves, FulInv
  <2>2. CASE UNCHANGED net
    BY <2>1, <2>2, Zenon DEF FulTypes
  <2>3. CASE \E s \in {"fulfilled", "unfulfillable"} : net' = [net EXCEPT ![r] = s]
    BY <2>1, <2>3, NetSet, Zenon DEF NetStates
  <2> QED
    BY <2>2, <2>3, Zenon DEF Ful!NetworkMoves
<1>3. WorldGrows
    BY <1>1, <1>2, Zenon DEF WorldGrows
<1>4. FulTypes'
    BY <1>1, <1>2, Zenon DEF FulInv, FulTypes
<1>5. TasksInv'
    BY <1>1, <1>3, NoTaskMoves, Zenon DEF FulInv
<1>6. RowsInv'
    BY <1>1, <1>3, RowsKept, Zenon DEF FulInv
<1>7. LockInv' /\ Ful!OwnNonceIsCurrent'
    BY <1>1, Zenon DEF FulInv, LockInv, Ful!OwnNonceIsCurrent
<1> QED
    BY <1>4, <1>5, <1>6, <1>7, Zenon DEF FulInv

\* Another process uses the key; a deadline passes.
LEMMA FulOutside ==
    ASSUME FulInv,
           (\E f \in Fulfillers : Ful!SignerUsedElsewhere(f)) \/ (\E i \in Ful!Ids : Ful!DeadlinePasses(i))
    PROVE  FulInv'
<1>1. /\ UNCHANGED <<named, assignee, net, shared, rows, owner, inputs, proofs, phase, step, kind>>
      /\ shared \/ UNCHANGED current
    BY Zenon DEF Ful!SignerUsedElsewhere, Ful!DeadlinePasses, Ful!netVars, Ful!clusterVars, Ful!taskVars
<1>2. current' \in [Fulfillers -> SUBSET Ful!Ids]
    BY Zenon DEF Ful!SignerUsedElsewhere, Ful!DeadlinePasses, Ful!taskVars, FulInv, FulTypes
<1>3. WorldGrows
    BY <1>1, WorldSame, Zenon
<1>4. FulTypes'
    BY <1>1, <1>2, Zenon DEF FulInv, FulTypes
<1>5. TasksInv' /\ RowsInv'
    BY <1>1, <1>3, NoTaskMoves, RowsKept, Zenon DEF FulInv
<1>6. LockInv' /\ Ful!OwnNonceIsCurrent'
    BY <1>1, Zenon DEF FulInv, LockInv, Ful!OwnNonceIsCurrent
<1> QED
    BY <1>4, <1>5, <1>6, Zenon DEF FulInv

\* The coordinator's status write ends a pending row, whose proof is in the
\* store when it completed.
LEMMA FulProofEnds ==
    ASSUME FulInv, NEW i \in Ful!Ids, NEW s \in {"Completed", "Failed"}, Ful!ProofEnds(i, s)
    PROVE  FulInv'
<1>0. FulTypes /\ TasksInv /\ LockInv /\ Ful!OwnNonceIsCurrent /\ RowsInv
    BY Zenon DEF FulInv
<1>1. /\ UNCHANGED <<named, assignee, net, shared, owner, inputs, phase, step, kind, current>>
      /\ Ended(i, "Pending") /\ rows' = Ful!CompletedIn(rows, i, s)
      /\ proofs \subseteq proofs' /\ (s = "Completed" => i \in proofs')
    BY Zenon DEF Ful!ProofEnds, Ended, Ful!netVars, Ful!taskVars
<1>2. s \in Ful!RowStatus
    BY Zenon DEF Ful!RowStatus, Ful!FinalStatus
<1>3. Rewritten(rows', i) /\ rows'[i].status = s /\ rows'[i].handled = rows[i].handled
    BY <1>0, <1>1, <1>2, RowCompleted, Zenon
<1>4. WorldGrows
    BY <1>1, <1>3, WorldRewritten, Zenon
<1>5. FulTypes'
    BY <1>0, <1>1, <1>3, Zenon DEF Rewritten, FulTypes
<1>6. TasksInv' /\ LockInv' /\ Ful!OwnNonceIsCurrent'
    BY <1>0, <1>1, <1>4, NoTaskMoves, Zenon DEF LockInv, Ful!OwnNonceIsCurrent
<1>7. ~rows[i].handled /\ rows[i] # NoRow
    BY <1>0, <1>1, Zenon DEF RowsInv, RowInv, Ended
<1>8. \A j \in Ful!Ids : j # i => rows'[j] = rows[j]
    BY <1>3, Zenon DEF Rewritten
<1>9. ~rows'[i].handled /\ rows'[i].status # "Cancelled" /\ (rows'[i].status = "Completed" => i \in proofs')
    BY <1>1, <1>3, <1>7, Zenon
<1>10. Requests \subseteq Ful!Ids
    BY Zenon DEF Ful!Ids
<1>11. RowInv'
    BY <1>0, <1>1, <1>8, <1>9, Zenon DEF RowsInv, RowInv
<1>12. Ful!HandledMeansSettled' /\ Ful!CancelledIsReleased'
    BY <1>0, <1>1, <1>8, <1>9, <1>10, Zenon DEF RowsInv, Ful!HandledMeansSettled, Ful!CancelledIsReleased
<1>13. Ful!ProofKeptUntilHandled'
    BY <1>0, <1>1, <1>8, <1>9, Zenon DEF RowsInv, Ful!ProofKeptUntilHandled
<1>14. Ful!RowHasInputs'
    BY <1>0, <1>1, <1>7, <1>8, <1>10, Zenon DEF RowsInv, Ful!RowHasInputs
<1> QED
    BY <1>5, <1>6, <1>11, <1>12, <1>13, <1>14, Zenon DEF FulInv, RowsInv

\* Somebody else creates a row: under an id that is none of the network's.
LEMMA FulForeignRow ==
    ASSUME FulInv, NEW i \in Ful!Ids, Ful!ForeignRow(i)
    PROVE  FulInv'
<1>0. FulTypes /\ TasksInv /\ LockInv /\ Ful!OwnNonceIsCurrent /\ RowsInv
    BY Zenon DEF FulInv
<1>1. /\ UNCHANGED <<named, assignee, net, shared, owner, inputs, proofs, phase, step, kind, current>>
      /\ rows[i] = NoRow /\ rows' = Ful!Created(rows, i, TRUE) /\ i \notin Requests
    BY ForeignAssumption, Zenon DEF Ful!ForeignRow, Ful!netVars, Ful!taskVars
<1>3. Rewritten(rows', i) /\ rows'[i].status = "Pending" /\ rows'[i].handled = FALSE
    BY <1>0, <1>1, RowCreated, Zenon
<1>4. WorldGrows
    BY <1>1, <1>3, WorldRewritten, Zenon
<1>5. FulTypes'
    BY <1>0, <1>1, <1>3, Zenon DEF Rewritten, FulTypes
<1>6. TasksInv' /\ LockInv' /\ Ful!OwnNonceIsCurrent'
    BY <1>0, <1>1, <1>4, NoTaskMoves, Zenon DEF LockInv, Ful!OwnNonceIsCurrent
<1>8. \A j \in Ful!Ids : j # i => rows'[j] = rows[j]
    BY <1>3, Zenon DEF Rewritten
<1>9. ~rows'[i].handled /\ rows'[i].status # "Completed"
    BY <1>3, Zenon
<1>10. Requests \subseteq Ful!Ids
    BY Zenon DEF Ful!Ids
<1>11. RowInv'
    BY <1>0, <1>1, <1>8, <1>9, Zenon DEF RowsInv, RowInv
<1>12. Ful!HandledMeansSettled' /\ Ful!CancelledIsReleased' /\ Ful!RowHasInputs'
    BY <1>0, <1>1, <1>8, <1>10, Zenon DEF RowsInv, Ful!HandledMeansSettled, Ful!CancelledIsReleased, Ful!RowHasInputs
<1>13. Ful!ProofKeptUntilHandled'
    BY <1>0, <1>1, <1>8, <1>9, Zenon DEF RowsInv, Ful!ProofKeptUntilHandled
<1> QED
    BY <1>5, <1>6, <1>11, <1>12, <1>13, Zenon DEF FulInv, RowsInv

\* A loop that has no tasks, or gives up those it has, takes any place.
LEMMA FulLoopMoves ==
    ASSUME FulInv, NEW f \in Fulfillers, Ful!NextPhase(f) \/ Ful!Restart(f)
    PROVE  FulInv'
<1>0. FulTypes /\ TasksInv /\ LockInv /\ Ful!OwnNonceIsCurrent /\ RowsInv
    BY Zenon DEF FulInv
<1>1. /\ UNCHANGED <<named, assignee, net, shared, rows, owner, inputs, proofs>>
      /\ step'[f] = Ful!Idle /\ step' = [step EXCEPT ![f] = Ful!Idle]
    BY <1>0, ZenonT(30) DEF Ful!NextPhase, Ful!Restart, Ful!netVars, Ful!clusterVars, FulTypes
<1>2. Ful!Idle \in [Ful!Ids -> Steps] /\ \A i \in Ful!Ids : Ful!Idle[i] = "idle"
    BY Zenon DEF Ful!Idle, Steps
<1>3. step' \in [Fulfillers -> [Ful!Ids -> Steps]]
    BY <1>0, <1>1, <1>2, Zenon DEF FulTypes
<1>4. phase' \in [Fulfillers -> Phases] /\ \A g \in Fulfillers : g # f => phase'[g] = phase[g]
  <2>1. \A p \in Phases : Ful!After[p] \in Phases
    BY DEF Ful!After, Phases
  <2>2. "submit" \in Phases
    BY Zenon DEF Phases
  <2>3. PICK p \in Phases : phase' = [phase EXCEPT ![f] = p]
    BY <1>0, <2>1, <2>2, Zenon DEF Ful!NextPhase, Ful!Restart, FulTypes
  <2> QED
    BY <1>0, <2>3, Zenon DEF FulTypes
<1>5. DOMAIN kind' = Fulfillers /\ \A g \in Fulfillers : g # f => kind'[g] = kind[g]
    BY <1>0, Zenon DEF Ful!NextPhase, Ful!Restart, FulTypes
<1>6. current' \in [Fulfillers -> SUBSET Ful!Ids] /\ \A g \in Fulfillers : g # f => current'[g] = current[g]
    BY <1>0, Zenon DEF Ful!NextPhase, Ful!Restart, FulTypes
<1>7. FulTypes'
    BY <1>0, <1>1, <1>3, <1>4, <1>5, <1>6, Zenon DEF FulTypes
<1>8. WorldGrows
    BY <1>1, WorldSame, Zenon
<1>9. \A g \in Fulfillers : g # f => step'[g] = step[g]
    BY <1>0, <1>1, Zenon DEF FulTypes
<1>10. \A i \in Ful!Ids : step'[f][i] = "idle"
    BY <1>1, <1>2, Zenon
<1>11. TasksInv'
  <2> SUFFICES ASSUME NEW g \in Fulfillers, NEW i \in Ful!Ids PROVE TaskOK(g, i)'
    BY Zenon DEF TasksInv
  <2>1. CASE g = f
    BY <1>10, <2>1, Zenon DEF TaskOK
  <2>2. CASE g # f
    BY <1>0, <1>4, <1>5, <1>8, <1>9, <2>2, TaskKept, Zenon DEF TasksInv
  <2> QED
    BY <2>1, <2>2, Zenon
<1>12. LockInv' /\ Ful!OwnNonceIsCurrent'
  <2>1. \A g \in Fulfillers, i \in Ful!Ids : step'[g][i] \in Ful!Signing => g # f /\ step'[g] = step[g] /\ current'[g] = current[g]
    BY <1>6, <1>9, <1>10, Zenon DEF Ful!Signing
  <2> QED
    BY <1>0, <1>1, <2>1, Zenon DEF LockInv, Ful!OwnNonceIsCurrent, Ful!Signing
<1>13. RowsInv'
    BY <1>0, <1>1, <1>8, RowsKept, Zenon
<1> QED
    BY <1>7, <1>11, <1>12, <1>13, Zenon DEF FulInv

\* What a listing has: completed or failed rows of one's own, requests that are
\* to be cancelled, or requests assigned to us.
LEMMA Listings ==
    ASSUME FulTypes, NEW f \in Fulfillers, NEW i \in Ful!Ids, i \in Ful!Listing(f)
    PROVE  /\ phase[f] = "submit" => Ended(i, "Completed") /\ (named => owner[i] = f)
           /\ phase[f] = "fail" => Ended(i, "Failed") /\ (named => owner[i] = f)
           /\ phase[f] = "cancel" => /\ i \in Requests /\ assignee[i] = f
                                     /\ ~Ful!ShouldFailFulfillment(Ful!KindOf(i)) => net[i] # "assigned"
           /\ phase[f] = "schedule" => i \in Requests /\ assignee[i] = f
<1>1. CASE phase[f] = "submit"
  <2>1. i \in Ful!Unhandled(f, "Completed")
    BY <1>1, Zenon DEF Ful!Listing
  <2> QED
    BY <1>1, <2>1, Zenon DEF Ful!Unhandled, Ful!Live, Ful!OwnRow, Ended
<1>2. CASE phase[f] = "fail"
  <2>1. i \in Ful!Unhandled(f, "Failed")
    BY <1>2, Zenon DEF Ful!Listing
  <2> QED
    BY <1>2, <2>1, Zenon DEF Ful!Unhandled, Ful!Live, Ful!OwnRow, Ended
<1>3. CASE phase[f] = "cancel"
  <2>1. i \in Ful!Cancelable(f)
    BY <1>3, Zenon DEF Ful!Listing
  <2>2. i \in Requests /\ assignee[i] = f /\ Ful!KindOf(i) # NoOne
    BY <2>1, Zenon DEF Ful!Cancelable
  <2>3. net[i] = "assigned" => Ful!KindOf(i) = Ful!MainnetKind(i) /\ Ful!MainnetKind(i) \in {"Unexecutable", NoOne}
    BY <2>2, Zenon DEF Ful!KindOf, Ful!MainnetKind
  <2> QED
    BY <1>3, <2>2, <2>3, Zenon DEF Ful!ShouldFailFulfillment
<1>4. CASE phase[f] = "schedule"
  <2>1. i \in Ful!Schedulable(f)
    BY <1>4, Zenon DEF Ful!Listing
  <2> QED
    BY <1>4, <2>1, ForeignAssumption, Zenon DEF Ful!Schedulable
<1>5. phase[f] \in Phases
    BY Zenon DEF FulTypes
<1> QED
    BY <1>1, <1>2, <1>3, <1>4, <1>5, Zenon DEF Phases

\* A phase begins with its listing: one task for each request of it.
LEMMA FulList ==
    ASSUME FulInv, NEW f \in Fulfillers, Ful!List(f)
    PROVE  FulInv'
<1>0. FulTypes /\ TasksInv /\ LockInv /\ Ful!OwnNonceIsCurrent /\ RowsInv
    BY Zenon DEF FulInv
<1> DEFINE first == [i \in Ful!Ids |-> IF i \in Ful!Listing(f) THEN "start" ELSE "idle"]
           kinds == [i \in Ful!Ids |-> IF phase[f] = "cancel" /\ i \in Ful!Listing(f) THEN Ful!KindOf(i) ELSE NoOne]
<1>1. /\ UNCHANGED <<named, assignee, net, shared, rows, owner, inputs, proofs, phase, current>>
      /\ step' = [step EXCEPT ![f] = first] /\ kind' = [kind EXCEPT ![f] = kinds]
    BY Zenon DEF Ful!List, Ful!netVars, Ful!clusterVars
<1>2. first \in [Ful!Ids -> Steps] /\ \A i \in Ful!Ids : first[i] = IF i \in Ful!Listing(f) THEN "start" ELSE "idle"
    BY Zenon DEF Steps
<1>3. \A i \in Ful!Ids : phase[f] = "cancel" /\ i \in Ful!Listing(f) => kinds[i] = Ful!KindOf(i)
    BY Zenon
<1> HIDE DEF first, kinds
<1>4. /\ step' \in [Fulfillers -> [Ful!Ids -> Steps]] /\ step'[f] = first
      /\ \A g \in Fulfillers : g # f => step'[g] = step[g]
      /\ DOMAIN kind' = Fulfillers /\ kind'[f] = kinds /\ \A g \in Fulfillers : g # f => kind'[g] = kind[g]
    BY <1>0, <1>1, <1>2, Zenon DEF FulTypes
<1>5. FulTypes'
    BY <1>0, <1>1, <1>4, Zenon DEF FulTypes
<1>6. WorldGrows
    BY <1>1, WorldSame, Zenon
<1>7. \A i \in Ful!Ids : step'[f][i] \in {"idle", "start"} /\ (step'[f][i] # "idle" => i \in Ful!Listing(f))
    BY <1>2, <1>4, Zenon
<1>8. TasksInv'
  <2> SUFFICES ASSUME NEW g \in Fulfillers, NEW i \in Ful!Ids PROVE TaskOK(g, i)'
    BY Zenon DEF TasksInv
  <2>1. CASE g # f
    BY <1>0, <1>1, <1>4, <1>6, <2>1, TaskKept, Zenon DEF TasksInv
  <2>2. CASE g = f /\ step'[f][i] # "idle"
    <3>1. i \in Ful!Listing(f) /\ step'[f][i] = "start" /\ phase'[f] = phase[f]
      BY <1>1, <1>7, <2>2, Zenon
    <3>2. phase[f] = "submit" => Submitting(f, i)'
      BY <1>0, <1>1, <3>1, Listings, Zenon DEF Submitting, Ended
    <3>3. phase[f] = "fail" => Failing(f, i)'
      BY <1>0, <1>1, <3>1, Listings, Zenon DEF Failing, Ended
    <3>4. phase[f] = "cancel" => kind'[f][i] = Ful!KindOf(i)
      BY <1>3, <1>4, <3>1, Zenon
    <3>5. phase[f] = "cancel" => Cancelling(f, i)'
      BY <1>0, <1>1, <3>1, <3>4, Listings, Zenon DEF Cancelling, Ful!ShouldFailFulfillment
    <3>6. phase[f] = "schedule" => Scheduling(f, i)'
      BY <1>0, <1>1, <3>1, Listings, Zenon DEF Scheduling
    <3> QED
      BY <2>2, <3>1, <3>2, <3>3, <3>5, <3>6, Zenon DEF TaskOK
  <2> QED
    BY <2>1, <2>2, Zenon DEF TaskOK
<1>9. LockInv' /\ Ful!OwnNonceIsCurrent'
  <2>1. \A g \in Fulfillers, i \in Ful!Ids : step'[g][i] \in Ful!Signing => step'[g] = step[g]
    BY <1>4, <1>7, Zenon DEF Ful!Signing
  <2> QED
    BY <1>0, <1>1, <2>1, Zenon DEF LockInv, Ful!OwnNonceIsCurrent, Ful!Signing
<1>10. RowsInv'
    BY <1>0, <1>1, <1>6, RowsKept, Zenon
<1> QED
    BY <1>5, <1>8, <1>9, <1>10, Zenon DEF FulInv

\* A call fails, and the task ends.
LEMMA FulTaskFails ==
    ASSUME FulInv, NEW f \in Fulfillers, NEW i \in Ful!Ids, Ful!TaskFails(f, i)
    PROVE  FulInv'
<1>0. FulTypes /\ TasksInv /\ LockInv /\ Ful!OwnNonceIsCurrent /\ RowsInv
    BY Zenon DEF FulInv
<1>1. /\ UNCHANGED <<named, assignee, net, shared, rows, owner, inputs, proofs, phase, kind>>
      /\ Ful!To(f, i, "idle") /\ current' = [current EXCEPT ![f] = @ \ {i}]
    BY Zenon DEF Ful!TaskFails, Ful!netVars, Ful!clusterVars
<1>2. "idle" \in Steps \ Ful!Signing
    BY Zenon DEF Steps, Ful!Signing
<1>3. /\ step' \in [Fulfillers -> [Ful!Ids -> Steps]] /\ step'[f][i] = "idle"
      /\ \A g \in Fulfillers, j \in Ful!Ids : g # f \/ j # i => step'[g][j] = step[g][j]
    BY <1>0, <1>1, <1>2, Moved, Zenon
<1>4. /\ current' \in [Fulfillers -> SUBSET Ful!Ids] /\ current'[f] = current[f] \ {i}
      /\ \A g \in Fulfillers : g # f => current'[g] = current[g]
    BY <1>0, <1>1, Zenon DEF FulTypes
<1>5. FulTypes'
    BY <1>0, <1>1, <1>3, <1>4, Zenon DEF FulTypes
<1>6. WorldGrows
    BY <1>1, WorldSame, Zenon
<1>7. TasksInv'
    BY <1>0, <1>1, <1>2, <1>6, TaskMoves, Zenon DEF TaskOK
<1>8. LockInv'
    BY <1>0, <1>1, <1>2, LockMoves, Zenon
<1>9. Ful!OwnNonceIsCurrent'
  <2>1. \A g \in Fulfillers, j \in Ful!Ids : step'[g][j] \in Ful!Signing => step[g][j] \in Ful!Signing /\ (g # f \/ j # i)
    BY <1>2, <1>3, Zenon
  <2>2. \A g \in Fulfillers, j \in Ful!Ids : g # f \/ j # i => (j \in current[g] => j \in current'[g])
    BY <1>4, Zenon
  <2> QED
    BY <1>0, <1>1, <2>1, <2>2, Zenon DEF Ful!OwnNonceIsCurrent, Ful!Signing
<1>10. RowsInv'
    BY <1>0, <1>1, <1>6, RowsKept, Zenon
<1> QED
    BY <1>5, <1>7, <1>8, <1>9, <1>10, Zenon DEF FulInv

\* The lock is taken by one task at a time, and its nonce is the signer's.
LEMMA FulSign ==
    ASSUME FulInv, NEW f \in Fulfillers, NEW i \in Ful!Ids, Ful!Sign(f, i)
    PROVE  FulInv'
<1>0. FulTypes /\ TasksInv /\ LockInv /\ Ful!OwnNonceIsCurrent /\ RowsInv /\ TaskOK(f, i)
    BY Zenon DEF FulInv, TasksInv
<1> DEFINE s == IF step[f][i] = "mismatch" THEN "blaming" ELSE "signed"
<1>1. /\ UNCHANGED <<named, assignee, net, shared, rows, owner, inputs, proofs, phase, kind>>
      /\ Ful!To(f, i, s) /\ current' = [current EXCEPT ![f] = @ \cup {i}] /\ Ful!LockFree(f) /\ Ful!MustSign(f, i)
    BY Zenon DEF Ful!Sign, Ful!netVars, Ful!clusterVars
<1>2. s \in Steps /\ (step[f][i] = "mismatch" => s = "blaming") /\ (step[f][i] # "mismatch" => s = "signed")
    BY Zenon DEF Steps
<1> HIDE DEF s
<1>3. /\ step' \in [Fulfillers -> [Ful!Ids -> Steps]] /\ step'[f][i] = s
      /\ \A g \in Fulfillers, j \in Ful!Ids : g # f \/ j # i => step'[g][j] = step[g][j]
    BY <1>0, <1>1, <1>2, Moved, Zenon
<1>4. /\ current' \in [Fulfillers -> SUBSET Ful!Ids] /\ current'[f] = current[f] \cup {i}
      /\ \A g \in Fulfillers : g # f => current'[g] = current[g]
    BY <1>0, <1>1, Zenon DEF FulTypes
<1>5. FulTypes'
    BY <1>0, <1>1, <1>3, <1>4, Zenon DEF FulTypes
<1>6. WorldGrows
    BY <1>1, WorldSame, Zenon
<1>7. TaskOK(f, i)'
  <2>1. step[f][i] # "idle" /\ phase'[f] = phase[f] /\ kind'[f] = kind[f] /\ step'[f][i] = s
    BY <1>1, <1>3, Zenon DEF Ful!MustSign
  <2>2. phase[f] = "submit" => Submitting(f, i)'
    BY <1>0, <1>1, <1>2, <2>1, Zenon DEF TaskOK, Submitting, Ended, Ful!MustSign
  <2>3. phase[f] = "fail" => Failing(f, i)'
    BY <1>0, <1>1, <1>2, <2>1, Zenon DEF TaskOK, Failing, Ended, Ful!MustSign
  <2>4. phase[f] = "cancel" => Cancelling(f, i)'
    BY <1>0, <1>1, <1>2, <2>1, Zenon DEF TaskOK, Cancelling, Ful!MustSign, Ful!ShouldFailFulfillment
  <2>5. phase[f] # "schedule"
    BY <1>0, <1>1, <2>1, Zenon DEF TaskOK, Scheduling, Ful!MustSign
  <2> QED
    BY <2>1, <2>2, <2>3, <2>4, <2>5, Zenon DEF TaskOK
<1>8. TasksInv'
    BY <1>0, <1>1, <1>2, <1>6, <1>7, TaskMoves, Zenon
<1>9. \A g \in Fulfillers, j \in Ful!Ids : step'[g][j] \in Ful!Signing => (g = f /\ j = i) \/ (g # f /\ step[g][j] \in Ful!Signing)
    BY <1>1, <1>3, Zenon DEF Ful!LockFree
<1>10. LockInv'
  <2> SUFFICES ASSUME NEW g \in Fulfillers, NEW j \in Ful!Ids, NEW k \in Ful!Ids,
                      step'[g][j] \in Ful!Signing, step'[g][k] \in Ful!Signing
               PROVE  j = k
    BY Zenon DEF LockInv, Ful!Signing
  <2> QED
    BY <1>0, <1>9, Zenon DEF LockInv
<1>11. Ful!OwnNonceIsCurrent'
  <2>1. i \in current'[f] /\ \A g \in Fulfillers : g # f => current'[g] = current[g]
    BY <1>4, Zenon
  <2> QED
    BY <1>0, <1>1, <1>9, <2>1, Zenon DEF Ful!OwnNonceIsCurrent, Ful!Signing
<1>12. RowsInv'
    BY <1>0, <1>1, <1>6, RowsKept, Zenon
<1> QED
    BY <1>5, <1>8, <1>10, <1>11, <1>12, Zenon DEF FulInv

\* The answer to a signed message: the task gives the lock back, whatever
\* becomes of the other nonces, because no other task holds one.
LEMMA FulAnswered ==
    ASSUME FulInv, NEW f \in Fulfillers, NEW i \in Ful!Ids, NEW s \in Steps \ Ful!Signing, Ful!To(f, i, s),
           step[f][i] \in Ful!Signing,
           current' = [current EXCEPT ![f] = {}] \/ current' = [current EXCEPT ![f] = @ \ {i}],
           UNCHANGED <<named, assignee, shared, rows, owner, inputs, proofs, phase, kind>>,
           net' \in [Requests -> NetStates],
           \A r \in Requests : net[r] # "assigned" => net'[r] = net[r],
           step'[f][i] = s => TaskOK(f, i)'
    PROVE  FulInv'
<1>0. FulTypes /\ TasksInv /\ LockInv /\ Ful!OwnNonceIsCurrent /\ RowsInv
    BY Zenon DEF FulInv
<1>3. /\ step' \in [Fulfillers -> [Ful!Ids -> Steps]] /\ step'[f][i] = s
      /\ \A g \in Fulfillers, j \in Ful!Ids : g # f \/ j # i => step'[g][j] = step[g][j]
    BY <1>0, Moved, ZenonT(30)
<1>4. current' \in [Fulfillers -> SUBSET Ful!Ids] /\ \A g \in Fulfillers : g # f => current'[g] = current[g]
    BY <1>0, Zenon DEF FulTypes
<1>5. FulTypes'
    BY <1>0, <1>3, <1>4, Zenon DEF FulTypes
<1>6. WorldGrows
    BY Zenon DEF WorldGrows
<1>7. TasksInv'
    BY <1>0, <1>6, TaskMoves, Zenon
<1>8. LockInv'
    BY <1>0, LockMoves, Zenon
<1>9. Ful!OwnNonceIsCurrent'
  <2>1. \A g \in Fulfillers, j \in Ful!Ids : step'[g][j] \in Ful!Signing => step[g][j] \in Ful!Signing /\ (g # f \/ j # i)
    BY <1>3, Zenon
  <2>2. \A j \in Ful!Ids : step'[f][j] \notin Ful!Signing
    BY <1>0, <2>1, Zenon DEF LockInv
  <2> QED
    BY <1>0, <1>4, <2>1, <2>2, Zenon DEF Ful!OwnNonceIsCurrent, Ful!Signing
<1>10. RowsInv'
    BY <1>0, <1>6, RowsKept, Zenon
<1> QED
    BY <1>5, <1>7, <1>8, <1>9, <1>10, Zenon DEF FulInv

\* fulfill_proof: the network takes the proof, refuses it, or the answer is lost.
LEMMA FulSendFulfill ==
    ASSUME FulInv, NEW f \in Fulfillers, NEW i \in Ful!Ids, Ful!SendFulfill(f, i)
    PROVE  FulInv'
<1>0. FulTypes /\ Submitting(f, i) /\ i \in Requests
  <2>1. FulTypes /\ TaskOK(f, i) /\ step[f][i] = "signed" /\ phase[f] = "submit"
    BY Zenon DEF FulInv, TasksInv, Ful!SendFulfill
  <2>2. Submitting(f, i)
    BY <2>1, Zenon DEF TaskOK
  <2> QED
    BY <2>1, <2>2, Zenon DEF Submitting
<1>1. /\ UNCHANGED <<named, assignee, shared, rows, owner, inputs, proofs, phase, kind>>
      /\ phase[f] = "submit" /\ step[f][i] = "signed" /\ step[f][i] \in Ful!Signing
    BY Zenon DEF Ful!SendFulfill, Ful!clusterVars, Ful!Signing
<1>2. /\ "answered" \in Steps \ Ful!Signing /\ "idle" \in Steps \ Ful!Signing /\ "mismatch" \in Steps \ Ful!Signing
      /\ "fulfilled" \in NetStates
    BY Zenon DEF Steps, Ful!Signing, NetStates
<1>3. ASSUME Ful!Expected(f, i), Ful!Taken(f, i, "fulfilled")
      PROVE  /\ net' \in [Requests -> NetStates] /\ net'[i] = "fulfilled"
             /\ \A r \in Requests : net[r] # "assigned" => net'[r] = net[r]
             /\ current' = [current EXCEPT ![f] = {}]
    BY <1>0, <1>2, <1>3, NetSet, Zenon DEF Ful!Expected, Ful!Taken
<1>4. ASSUME Ful!Refused(f, i)
      PROVE  /\ net' \in [Requests -> NetStates]
             /\ \A r \in Requests : net[r] # "assigned" => net'[r] = net[r]
             /\ current' = [current EXCEPT ![f] = @ \ {i}]
    BY <1>0, <1>4, Zenon DEF Ful!Refused, FulTypes
<1>5. CASE Ful!Expected(f, i) /\ Ful!Taken(f, i, "fulfilled") /\ Ful!To(f, i, "answered")
  <2>1. step'[f][i] = "answered" => TaskOK(f, i)'
    BY <1>0, <1>1, <1>3, <1>5, Zenon DEF TaskOK, Submitting, Ended
  <2> QED
    BY <1>1, <1>2, <1>3, <1>5, <2>1, FulAnswered, Zenon
<1>6. CASE Ful!Expected(f, i) /\ Ful!Taken(f, i, "fulfilled") /\ Ful!To(f, i, "idle")
  <2>1. step'[f][i] = "idle" => TaskOK(f, i)'
    BY Zenon DEF TaskOK
  <2> QED
    BY <1>1, <1>2, <1>3, <1>6, <2>1, FulAnswered, Zenon
<1>7. CASE Ful!Refused(f, i) /\ Ful!To(f, i, "mismatch")
  <2>1. step'[f][i] = "mismatch" => TaskOK(f, i)'
    BY <1>0, <1>1, <1>4, <1>7, Zenon DEF TaskOK, Submitting, Ended
  <2> QED
    BY <1>1, <1>2, <1>4, <1>7, <2>1, FulAnswered, Zenon
<1>8. CASE Ful!Refused(f, i) /\ Ful!To(f, i, "idle")
  <2>1. step'[f][i] = "idle" => TaskOK(f, i)'
    BY Zenon DEF TaskOK
  <2> QED
    BY <1>1, <1>2, <1>4, <1>8, <2>1, FulAnswered, Zenon
<1> QED
    BY <1>5, <1>6, <1>7, <1>8, Zenon DEF Ful!SendFulfill

\* fail_fulfillment: the network takes the message, or refuses it, which counts
\* as an answer when it was not over the nonce.
LEMMA FulSendFail ==
    ASSUME FulInv, NEW f \in Fulfillers, NEW i \in Ful!Ids, Ful!SendFail(f, i)
    PROVE  FulInv'
<1>0. FulTypes /\ TaskOK(f, i) /\ RowInv
    BY Zenon DEF FulInv, TasksInv, RowsInv
<1>1. /\ UNCHANGED <<named, assignee, shared, rows, owner, inputs, proofs, phase, kind>>
      /\ step[f][i] \in Ful!Signing
      /\ step[f][i] = "blaming" \/ (phase[f] \in {"fail", "cancel"} /\ step[f][i] = "signed")
    BY Zenon DEF Ful!SendFail, Ful!clusterVars, Ful!Signing
<1>2. /\ "answered" \in Steps \ Ful!Signing /\ "idle" \in Steps \ Ful!Signing
      /\ "unfulfillable" \in NetStates /\ "idle" # "answered"
    BY Zenon DEF Steps, Ful!Signing, NetStates
<1>3. ASSUME Ful!Expected(f, i), Ful!Taken(f, i, "unfulfillable")
      PROVE  /\ net' \in [Requests -> NetStates] /\ (i \in Requests => net'[i] # "assigned")
             /\ \A r \in Requests : net[r] # "assigned" => net'[r] = net[r]
             /\ current' = [current EXCEPT ![f] = {}]
  <2>1. CASE i \in Requests
    <3>1. net' \in [Requests -> NetStates] /\ net'[i] = "unfulfillable" /\ \A r \in Requests : net[r] # "assigned" => net'[r] = net[r]
      BY <1>0, <1>2, <1>3, <2>1, NetSet, Zenon DEF Ful!Expected, Ful!Taken
    <3> QED
      BY <1>3, <3>1, Zenon DEF Ful!Taken
  <2>2. CASE i \notin Requests
    BY <1>0, <1>3, <2>2, Zenon DEF Ful!Taken, FulTypes
  <2> QED
    BY <2>1, <2>2, Zenon
<1>4. ASSUME Ful!Refused(f, i)
      PROVE  /\ net' = net /\ net' \in [Requests -> NetStates]
             /\ \A r \in Requests : net[r] # "assigned" => net'[r] = net[r]
             /\ current' = [current EXCEPT ![f] = @ \ {i}]
    BY <1>0, <1>4, Zenon DEF Ful!Refused, FulTypes
<1>5. step'[f][i] = "idle" => TaskOK(f, i)'
    BY Zenon DEF TaskOK
<1>6. CASE Ful!Expected(f, i) /\ Ful!Taken(f, i, "unfulfillable") /\ Ful!To(f, i, "idle")
    BY <1>1, <1>2, <1>3, <1>5, <1>6, FulAnswered, Zenon
<1>7. CASE Ful!Refused(f, i) /\ Ful!To(f, i, "idle")
    BY <1>1, <1>2, <1>4, <1>5, <1>7, FulAnswered, Zenon
<1>8. ASSUME step[f][i] # "blaming", Ful!To(f, i, "answered"), net' \in [Requests -> NetStates],
             \A r \in Requests : net[r] # "assigned" => net'[r] = net[r],
             assignee[i] = f => net'[i] # "assigned"
      PROVE  step'[f][i] = "answered" => TaskOK(f, i)'
  <2> SUFFICES ASSUME step'[f][i] = "answered" PROVE TaskOK(f, i)'
    BY Zenon
  <2>1. step[f][i] = "signed" /\ phase[f] \in {"fail", "cancel"} /\ phase'[f] = phase[f] /\ f # NoOne
    BY <1>1, <1>8, ForeignAssumption, Zenon
  <2>2. CASE phase[f] = "fail"
    <3>1. Failing(f, i)
      BY <1>0, <2>1, <2>2, Zenon DEF TaskOK
    <3>2. Failing(f, i)'
      BY <1>0, <1>1, <1>8, <2>1, <3>1, Zenon DEF Failing, Ended, RowInv
    <3> QED
      BY <2>1, <2>2, <3>2, Zenon DEF TaskOK
  <2>3. CASE phase[f] = "cancel"
    <3>1. Cancelling(f, i)
      BY <1>0, <2>1, <2>3, Zenon DEF TaskOK
    <3>2. Cancelling(f, i)'
      BY <1>1, <1>8, <2>1, <3>1, Zenon DEF Cancelling
    <3> QED
      BY <2>1, <2>3, <3>2, Zenon DEF TaskOK
  <2> QED
    BY <2>1, <2>2, <2>3, Zenon
<1>9. CASE step[f][i] # "blaming" /\ Ful!Expected(f, i) /\ Ful!Taken(f, i, "unfulfillable") /\ Ful!To(f, i, "answered")
  <2>1. i \in Requests
    BY <1>0, <1>1, <1>9, Zenon DEF TaskOK, Failing, Cancelling
  <2>2. step'[f][i] = "answered" => TaskOK(f, i)'
    BY <1>3, <1>8, <1>9, <2>1, Zenon
  <2> QED
    BY <1>1, <1>2, <1>3, <1>9, <2>2, FulAnswered, Zenon
<1>10. CASE step[f][i] # "blaming" /\ i \in current[f] /\ ~Ful!Expected(f, i) /\ Ful!Refused(f, i) /\ Ful!To(f, i, "answered")
  <2>1. assignee[i] = f => net'[i] # "assigned"
    BY <1>4, <1>10, Zenon DEF Ful!Expected
  <2>2. step'[f][i] = "answered" => TaskOK(f, i)'
    BY <1>4, <1>8, <1>10, <2>1, Zenon
  <2> QED
    BY <1>1, <1>2, <1>4, <1>10, <2>2, FulAnswered, Zenon
<1> QED
    BY <1>6, <1>7, <1>9, <1>10, Zenon DEF Ful!SendFail

\* The steps of a task that change nothing else than the store and the table.
LEMMA FulSteps ==
    ASSUME FulInv, NEW f \in Fulfillers, NEW i \in Ful!Ids, NEW s \in Steps \ Ful!Signing, Ful!To(f, i, s),
           UNCHANGED <<named, assignee, net, shared, phase, kind, current>>,
           rows' \in [Ful!Ids -> Ful!ProofRequest \cup {NoRow}], owner' \in [Ful!Ids -> Fulfillers \cup {NoOne}],
           WorldGrows, RowsInv', step'[f][i] = s => TaskOK(f, i)'
    PROVE  FulInv'
<1>0. FulTypes /\ TasksInv /\ LockInv /\ Ful!OwnNonceIsCurrent
    BY Zenon DEF FulInv
<1>1. step' \in [Fulfillers -> [Ful!Ids -> Steps]]
    BY <1>0, Moved, Zenon
<1>2. FulTypes'
    BY <1>0, <1>1, Zenon DEF FulTypes
<1>3. TasksInv'
    BY <1>0, TaskMoves, Zenon
<1>4. LockInv'
    BY <1>0, LockMoves, Zenon
<1>5. Ful!OwnNonceIsCurrent'
    BY <1>0, NonceMoves, Zenon
<1> QED
    BY <1>2, <1>3, <1>4, <1>5, Zenon DEF FulInv

\* The rows' invariant, row by row.
RowFine(i) ==
    /\ owner[i] # NoOne => i \in Requests /\ assignee[i] = owner[i]
    /\ rows[i] # NoRow /\ rows[i].handled => rows[i].status \in {"Completed", "Failed"}
    /\ named /\ i \in Requests /\ rows[i] # NoRow /\ rows[i].handled =>
          net[i] # "assigned" /\ (rows[i].status = "Completed" => net[i] = "fulfilled")
    /\ i \in Requests /\ rows[i] # NoRow /\ rows[i].status = "Cancelled" => net[i] # "assigned"
    /\ rows[i] # NoRow /\ rows[i].status = "Completed" /\ ~rows[i].handled => i \in proofs
    /\ i \in Requests /\ rows[i] # NoRow => {i} \X Ful!Inputs \subseteq inputs

\* It is the invariant of all rows.
LEMMA RowByRow == RowsInv <=> \A i \in Ful!Ids : RowFine(i)
<1>1. Requests \subseteq Ful!Ids
    BY Zenon DEF Ful!Ids
<1> QED
    BY <1>1, Zenon DEF RowFine, RowsInv, RowInv, Ful!HandledMeansSettled, Ful!CancelledIsReleased,
                       Ful!ProofKeptUntilHandled, Ful!RowHasInputs

\* When one row changes, the invariant is kept if that row's is.
LEMMA OneRow ==
    ASSUME FulTypes, RowsInv, NEW i \in Ful!Ids, Rewritten(rows', i),
           \A j \in Ful!Ids : j # i => owner'[j] = owner[j] /\ (j \in proofs => j \in proofs'),
           inputs \subseteq inputs', UNCHANGED <<named, assignee, net>>, RowFine(i)'
    PROVE  RowsInv'
<1> SUFFICES ASSUME NEW j \in Ful!Ids, j # i PROVE RowFine(j)'
  <2>1. Requests \subseteq Ful!Ids
    BY Zenon DEF Ful!Ids
  <2> QED
    BY <2>1, ZenonT(30) DEF RowFine, RowsInv, RowInv, Ful!HandledMeansSettled, Ful!CancelledIsReleased,
                       Ful!ProofKeptUntilHandled, Ful!RowHasInputs
<1>1. RowFine(j) /\ rows'[j] = rows[j] /\ owner'[j] = owner[j] /\ (j \in proofs => j \in proofs')
    BY RowByRow, Zenon DEF Rewritten
<1> QED
    BY <1>1, Zenon DEF RowFine

\* download_proof.
LEMMA FulDownloadProof ==
    ASSUME FulInv, NEW f \in Fulfillers, NEW i \in Ful!Ids, Ful!DownloadProof(f, i)
    PROVE  FulInv'
<1>0. FulTypes /\ RowsInv /\ Submitting(f, i) /\ phase[f] = "submit"
    BY Zenon DEF FulInv, TasksInv, TaskOK, Ful!DownloadProof
<1>1. /\ UNCHANGED <<named, assignee, net, shared, rows, owner, inputs, proofs, phase, kind, current>>
      /\ Ful!To(f, i, "ready")
    BY Zenon DEF Ful!DownloadProof, Ful!netVars, Ful!clusterVars
<1>2. "ready" \in Steps \ Ful!Signing
    BY Zenon DEF Steps, Ful!Signing
<1>3. WorldGrows
    BY <1>1, WorldSame, Zenon
<1>4. RowsInv'
    BY <1>0, <1>1, <1>3, RowsKept, Zenon
<1>5. step'[f][i] = "ready" => TaskOK(f, i)'
    BY <1>0, <1>1, Zenon DEF TaskOK, Submitting, Ended
<1> QED
    BY <1>0, <1>1, <1>2, <1>3, <1>4, <1>5, FulSteps, Zenon DEF FulTypes

\* A row is marked after the network's answer, and the answer was earned.
LEMMA FulMarkHandled ==
    ASSUME FulInv, NEW f \in Fulfillers, NEW i \in Ful!Ids, Ful!MarkHandled(f, i)
    PROVE  FulInv'
<1>0. FulTypes /\ RowsInv /\ TaskOK(f, i)
    BY Zenon DEF FulInv, TasksInv
<1>1. /\ UNCHANGED <<named, assignee, net, shared, owner, inputs, proofs, phase, kind, current>>
      /\ rows' = Ful!HandledIn(rows, i) /\ Ful!MayMark(f, i)
      /\ Ful!To(f, i, "idle") \/ (Ful!To(f, i, "marked") /\ phase[f] = "submit" /\ i \in Requests)
    BY Zenon DEF Ful!MarkHandled, Ful!netVars
<1>2. "idle" \in Steps \ Ful!Signing /\ "marked" \in Steps \ Ful!Signing
    BY Zenon DEF Steps, Ful!Signing
<1>3. /\ rows[i] # NoRow /\ rows[i].status \in {"Completed", "Failed"}
      /\ named /\ i \in Requests => net[i] # "assigned" /\ (rows[i].status = "Completed" => net[i] = "fulfilled")
      /\ phase[f] = "submit" => Submitting(f, i) /\ (i \in Requests => net[i] = "fulfilled")
  <2>1. CASE phase[f] = "submit"
    <3>1. Submitting(f, i) /\ (i \in Requests => step[f][i] = "answered")
      BY <1>0, <1>1, <2>1, ForeignAssumption, Zenon DEF Ful!MayMark, TaskOK
    <3> QED
      BY <3>1, <2>1, Zenon DEF Submitting, Ended
  <2>2. CASE phase[f] = "fail"
    <3>1. Failing(f, i) /\ step[f][i] = "answered"
      BY <1>0, <1>1, <2>2, Zenon DEF Ful!MayMark, TaskOK
    <3> QED
      BY <3>1, <2>2, Zenon DEF Failing, Ended
  <2> QED
    BY <1>1, <2>1, <2>2, Zenon DEF Ful!MayMark
<1>4. Rewritten(rows', i) /\ rows'[i].status = rows[i].status /\ rows'[i].handled = TRUE
    BY <1>0, <1>1, <1>3, RowHandled, Zenon
<1>5. WorldGrows
    BY <1>1, <1>4, WorldRewritten, Zenon
<1>6. RowFine(i)'
  <2>1. RowFine(i) /\ rows[i].status # "Cancelled"
    BY <1>0, <1>3, RowByRow, Zenon
  <2> QED
    BY <1>1, <1>3, <1>4, <2>1, Zenon DEF RowFine
<1>7. RowsInv'
    BY <1>0, <1>1, <1>4, <1>6, OneRow, Zenon
<1>8. step'[f][i] = "idle" => TaskOK(f, i)'
    BY Zenon DEF TaskOK
<1>9. phase[f] = "submit" /\ i \in Requests /\ step'[f][i] = "marked" => TaskOK(f, i)'
  <2> SUFFICES ASSUME phase[f] = "submit", i \in Requests, step'[f][i] = "marked" PROVE TaskOK(f, i)'
    BY Zenon
  <2>1. rows'[i] # NoRow
    BY <1>3, <1>5, Zenon DEF WorldGrows
  <2>2. Submitting(f, i)'
    BY <1>1, <1>3, <1>4, <2>1, Zenon DEF Submitting, Ended
  <2> QED
    BY <1>1, <2>2, Zenon DEF TaskOK
<1>10. rows' \in [Ful!Ids -> Ful!ProofRequest \cup {NoRow}] /\ owner' \in [Ful!Ids -> Fulfillers \cup {NoOne}]
    BY <1>0, <1>1, <1>4, Zenon DEF Rewritten, FulTypes
<1> QED
    BY <1>1, <1>2, <1>5, <1>7, <1>8, <1>9, <1>10, FulSteps, ZenonT(30)

\* A proof is deleted only from under a row that is marked.
LEMMA FulDeleteProof ==
    ASSUME FulInv, NEW f \in Fulfillers, NEW i \in Ful!Ids, Ful!DeleteProof(f, i)
    PROVE  FulInv'
<1>0. FulTypes /\ RowsInv /\ TaskOK(f, i) /\ phase[f] \in Phases
    BY Zenon DEF FulInv, TasksInv, FulTypes
<1>1. /\ UNCHANGED <<named, assignee, net, shared, rows, owner, inputs, phase, kind, current>>
      /\ proofs' = proofs \ {i} /\ step[f][i] = "marked" /\ Ful!To(f, i, "idle")
    BY Zenon DEF Ful!DeleteProof, Ful!MayDelete, Ful!netVars
<1>2. "idle" \in Steps \ Ful!Signing
    BY Zenon DEF Steps, Ful!Signing
<1>3. rows[i] # NoRow /\ rows[i].handled
    BY <1>0, <1>1, Zenon DEF TaskOK, Phases, Submitting, Failing, Cancelling, Scheduling, Ended
<1>4. WorldGrows
    BY <1>1, WorldSame, Zenon
<1>5. Rewritten(rows', i)
    BY <1>0, <1>1, RowsSame, Zenon
<1>6. RowFine(i)'
  <2>1. RowFine(i)
    BY <1>0, RowByRow, Zenon
  <2> QED
    BY <1>1, <1>3, <2>1, Zenon DEF RowFine
<1>7. \A j \in Ful!Ids : j # i => (j \in proofs => j \in proofs')
    BY <1>1, Zenon
<1>8. RowsInv'
    BY <1>0, <1>1, <1>5, <1>6, <1>7, OneRow, Zenon
<1>9. step'[f][i] = "idle" => TaskOK(f, i)'
    BY Zenon DEF TaskOK
<1> QED
    BY <1>0, <1>1, <1>2, <1>4, <1>8, <1>9, FulSteps, Zenon DEF FulTypes

\* A row is cancelled only when the network waits for nothing more.
LEMMA FulCancelOnCluster ==
    ASSUME FulInv, NEW f \in Fulfillers, NEW i \in Ful!Ids, Ful!CancelOnCluster(f, i)
    PROVE  FulInv'
<1>0. FulTypes /\ RowsInv /\ TaskOK(f, i)
    BY Zenon DEF FulInv, TasksInv
<1>1. /\ UNCHANGED <<named, assignee, net, shared, owner, inputs, proofs, phase, kind, current>>
      /\ rows' = Ful!CancelledIn(rows, i) /\ Ful!To(f, i, "idle")
    BY Zenon DEF Ful!CancelOnCluster, Ful!netVars
<1>2. "idle" \in Steps \ Ful!Signing
    BY Zenon DEF Steps, Ful!Signing
<1>3. net[i] # "assigned"
    BY <1>0, Zenon DEF Ful!CancelOnCluster, TaskOK, Cancelling
<1>4. /\ Rewritten(rows', i)
      /\ Ended(i, "Pending") => rows'[i].status = "Cancelled" /\ rows'[i].handled = rows[i].handled
      /\ ~Ended(i, "Pending") => rows'[i] = rows[i]
    BY <1>0, <1>1, RowCancelled, Zenon
<1>5. WorldGrows
    BY <1>1, <1>4, WorldRewritten, Zenon
<1>6. RowFine(i)'
  <2>1. RowFine(i)
    BY <1>0, RowByRow, Zenon
  <2>2. CASE Ended(i, "Pending")
    <3>1. rows'[i].status = "Cancelled" /\ ~rows'[i].handled /\ rows[i] # NoRow
      BY <1>4, <2>1, <2>2, Zenon DEF RowFine, Ended
    <3>2. "Cancelled" # "Completed"
      BY Zenon
    <3> QED
      BY <1>1, <1>3, <2>1, <3>1, <3>2, Zenon DEF RowFine
  <2>3. CASE ~Ended(i, "Pending")
    BY <1>1, <1>4, <2>1, <2>3, Zenon DEF RowFine
  <2> QED
    BY <2>2, <2>3, Zenon
<1>7. RowsInv'
    BY <1>0, <1>1, <1>4, <1>6, OneRow, Zenon
<1>8. step'[f][i] = "idle" => TaskOK(f, i)'
    BY Zenon DEF TaskOK
<1>9. rows' \in [Ful!Ids -> Ful!ProofRequest \cup {NoRow}] /\ owner' \in [Ful!Ids -> Fulfillers \cup {NoOne}]
    BY <1>0, <1>1, <1>4, Zenon DEF Rewritten, FulTypes
<1> QED
    BY <1>1, <1>2, <1>5, <1>7, <1>8, <1>9, FulSteps, Zenon

\* copy_artifact: the program, then the stdin.
LEMMA FulCopyArtifact ==
    ASSUME FulInv, NEW f \in Fulfillers, NEW i \in Ful!Ids, Ful!CopyArtifact(f, i)
    PROVE  FulInv'
<1>0. FulTypes /\ RowsInv /\ TaskOK(f, i)
    BY Zenon DEF FulInv, TasksInv
<1>1. /\ UNCHANGED <<named, assignee, net, shared, rows, owner, proofs, phase, kind, current>>
      /\ phase[f] = "schedule" /\ inputs \subseteq inputs'
    BY Zenon DEF Ful!CopyArtifact, Ful!netVars
<1>2. "program" \in Steps \ Ful!Signing /\ "copied" \in Steps \ Ful!Signing
    BY Zenon DEF Steps, Ful!Signing
<1>3. WorldGrows
    BY <1>1, Zenon DEF WorldGrows
<1>4. Rewritten(rows', i) /\ RowFine(i)
    BY <1>0, <1>1, RowsSame, RowByRow, Zenon
<1>5. RowFine(i)'
    BY <1>1, <1>4, Zenon DEF RowFine, Ful!Inputs
<1>6. RowsInv'
    BY <1>0, <1>1, <1>4, <1>5, OneRow, Zenon
<1>7. Scheduling(f, i)
    BY <1>0, <1>1, Zenon DEF Ful!CopyArtifact, TaskOK
<1>8. CASE step[f][i] = "start" /\ inputs' = inputs \cup {<<i, "program">>} /\ Ful!To(f, i, "program")
  <2>1. step'[f][i] = "program" => TaskOK(f, i)'
    BY <1>1, <1>7, <1>8, Zenon DEF TaskOK, Scheduling
  <2> QED
    BY <1>0, <1>1, <1>2, <1>3, <1>6, <1>8, <2>1, FulSteps, ZenonT(30) DEF FulTypes
<1>9. CASE step[f][i] = "program" /\ inputs' = inputs \cup {<<i, "stdin">>} /\ Ful!To(f, i, "copied")
  <2>1. step'[f][i] = "copied" => TaskOK(f, i)'
    BY <1>1, <1>7, <1>9, Zenon DEF TaskOK, Scheduling
  <2> QED
    BY <1>0, <1>1, <1>2, <1>3, <1>6, <1>9, <2>1, FulSteps, ZenonT(30) DEF FulTypes
<1> QED
    BY <1>8, <1>9, Zenon DEF Ful!CopyArtifact

\* create_proof_request: the new row has its inputs, and carries the name of the
\* fulfiller its request is assigned to.
LEMMA FulScheduleRequest ==
    ASSUME FulInv, NEW f \in Fulfillers, NEW i \in Ful!Ids, Ful!ScheduleRequest(f, i)
    PROVE  FulInv'
<1>0. FulTypes /\ RowsInv /\ TaskOK(f, i) /\ RowFine(i)
    BY RowByRow, Zenon DEF FulInv, TasksInv
<1>1. /\ UNCHANGED <<named, assignee, net, shared, inputs, proofs, phase, kind, current>>
      /\ phase[f] = "schedule" /\ step[f][i] = "copied" /\ Ful!To(f, i, "idle")
      /\ rows' = Ful!Created(rows, i, TRUE)
      /\ owner' = IF rows[i] = NoRow /\ named THEN [owner EXCEPT ![i] = f] ELSE owner
    BY Zenon DEF Ful!ScheduleRequest, Ful!Copied, Ful!netVars
<1>2. "idle" \in Steps \ Ful!Signing
    BY Zenon DEF Steps, Ful!Signing
<1>3. i \in Requests /\ assignee[i] = f /\ <<i, "program">> \in inputs /\ <<i, "stdin">> \in inputs
    BY <1>0, <1>1, Zenon DEF TaskOK, Scheduling
<1>4. /\ Rewritten(rows', i) /\ rows'[i] # NoRow
      /\ rows[i] # NoRow => rows'[i] = rows[i]
      /\ rows[i] = NoRow => rows'[i].status = "Pending" /\ rows'[i].handled = FALSE
    BY <1>0, <1>1, RowCreated, Zenon
<1>5. /\ owner' \in [Ful!Ids -> Fulfillers \cup {NoOne}] /\ owner'[i] \in {owner[i], f}
      /\ \A j \in Ful!Ids : j # i => owner'[j] = owner[j]
    BY <1>0, <1>1, Zenon DEF FulTypes
<1>6. owner[i] # NoOne => owner'[i] = owner[i]
    BY <1>0, <1>3, <1>5, Zenon DEF RowFine
<1>7. WorldGrows
    BY <1>1, <1>4, <1>5, <1>6, Zenon DEF WorldGrows, Rewritten, RowsGrow
<1>8. {i} \X Ful!Inputs \subseteq inputs
    BY <1>3 DEF Ful!Inputs
<1>9. RowFine(i)'
  <2>1. owner'[i] # NoOne => i \in Requests /\ assignee'[i] = owner'[i]
    BY <1>0, <1>1, <1>3, <1>5, Zenon DEF RowFine
  <2>2. CASE rows[i] # NoRow
    BY <1>0, <1>1, <1>4, <2>1, <2>2, Zenon DEF RowFine, Ful!Inputs
  <2>3. CASE rows[i] = NoRow
    <3>1. ~rows'[i].handled /\ rows'[i].status # "Cancelled" /\ rows'[i].status # "Completed"
      BY <1>4, <2>3, Zenon
    <3> QED
      BY <1>1, <1>8, <2>1, <3>1, Zenon DEF RowFine, Ful!Inputs
  <2> QED
    BY <2>2, <2>3, Zenon
<1>10. RowsInv'
    BY <1>0, <1>1, <1>4, <1>5, <1>9, OneRow, Zenon
<1>11. step'[f][i] = "idle" => TaskOK(f, i)'
    BY Zenon DEF TaskOK
<1>12. rows' \in [Ful!Ids -> Ful!ProofRequest \cup {NoRow}]
    BY <1>4, Zenon DEF Rewritten
<1> QED
    BY <1>1, <1>2, <1>5, <1>7, <1>10, <1>11, <1>12, FulSteps, ZenonT(30)

\* A step that changes nothing of the fulfiller's.
LEMMA FulStutter == ASSUME FulInv, UNCHANGED Ful!vars PROVE FulInv'
<1>1. UNCHANGED <<named, assignee, net, shared, rows, owner, inputs, proofs, phase, step, kind, current>>
    BY Zenon DEF Ful!vars, Ful!netVars, Ful!clusterVars, Ful!taskVars
<1>2. WorldGrows /\ FulTypes /\ TasksInv /\ LockInv /\ Ful!OwnNonceIsCurrent /\ RowsInv
    BY <1>1, WorldSame, Zenon DEF FulInv
<1>3. FulTypes'
    BY <1>1, <1>2, Zenon DEF FulTypes
<1>4. TasksInv' /\ RowsInv'
    BY <1>1, <1>2, NoTaskMoves, RowsKept, Zenon
<1>5. LockInv' /\ Ful!OwnNonceIsCurrent'
    BY <1>1, <1>2, Zenon DEF LockInv, Ful!OwnNonceIsCurrent, Ful!Signing
<1> QED
    BY <1>3, <1>4, <1>5, Zenon DEF FulInv

\* The inductive invariant holds throughout: FulInv, of run.
THEOREM FulfillerSafe == Ful!Spec => []FulInv
<1>1. ASSUME FulInv, [Ful!Next]_(Ful!vars) PROVE FulInv'
  <2>1. CASE \E r \in Requests : Ful!NetworkMoves(r)
    BY <1>1, <2>1, FulNetworkMoves, Zenon
  <2>2. CASE \E i \in Ful!Ids : Ful!DeadlinePasses(i)
    BY <1>1, <2>2, FulOutside, Zenon
  <2>3. CASE \E i \in Ful!Ids : Ful!ForeignRow(i)
    BY <1>1, <2>3, FulForeignRow, Zenon
  <2>4. CASE \E i \in Ful!Ids, s \in {"Completed", "Failed"} : Ful!ProofEnds(i, s)
    BY <1>1, <2>4, FulProofEnds, Zenon
  <2>5. CASE \E f \in Fulfillers : Ful!List(f)
    BY <1>1, <2>5, FulList, Zenon
  <2>6. CASE \E f \in Fulfillers : Ful!NextPhase(f) \/ Ful!Restart(f)
    BY <1>1, <2>6, FulLoopMoves, Zenon
  <2>7. CASE \E f \in Fulfillers : Ful!SignerUsedElsewhere(f)
    BY <1>1, <2>7, FulOutside, Zenon
  <2>8. ASSUME NEW f \in Fulfillers, NEW i \in Ful!Ids, Ful!Task(f, i) PROVE FulInv'
    BY <1>1, <2>8, FulSign, FulSendFulfill, FulSendFail, FulDownloadProof, FulMarkHandled,
       FulDeleteProof, FulCancelOnCluster, FulCopyArtifact, FulScheduleRequest, ZenonT(30) DEF Ful!Task
  <2>9. CASE \E f \in Fulfillers, i \in Ful!Ids : Ful!TaskFails(f, i)
    BY <1>1, <2>9, FulTaskFails, Zenon
  <2>10. CASE UNCHANGED Ful!vars
    BY <1>1, <2>10, FulStutter, Zenon
  <2> QED
    BY <1>1, <2>1, <2>2, <2>3, <2>4, <2>5, <2>6, <2>7, <2>8, <2>9, <2>10, ZenonT(30) DEF Ful!Next
<1> QED
    BY <1>1, FulInit, PTL DEF Ful!Spec

------------------------------------------------------------------------------------
(* The bidder.                                                             *)

\* The bidder counts as this module does.
LEMMA SameCount == \A S : Bidding!Cardinality(S) = Cardinality(S)
BY Zenon DEF Bidding!Cardinality, Cardinality

\* Sets of requests are finite.
LEMMA Sized ==
    ASSUME NEW S, S \subseteq Auctions
    PROVE  IsFiniteSet(S) /\ Cardinality(S) \in Nat
BY BidAssumption, FS_Subset, FS_CardinalityType, Zenon

\* A part of a set has no more members.
LEMMA Smaller ==
    ASSUME NEW S, S \subseteq Auctions, NEW T, T \subseteq S
    PROVE  Cardinality(T) <= Cardinality(S)
BY Sized, FS_Subset, Zenon

\* Two sets together have at most as many members as both.
LEMMA Together ==
    ASSUME NEW S, S \subseteq Auctions, NEW T, T \subseteq Auctions
    PROVE  Cardinality(S \cup T) <= Cardinality(S) + Cardinality(T)
<1>1. IsFiniteSet(S) /\ IsFiniteSet(T)
    BY Sized, Zenon
<1>2. /\ Cardinality(S \cup T) = Cardinality(S) + Cardinality(T) - Cardinality(S \cap T)
      /\ Cardinality(S \cup T) \in Nat /\ Cardinality(S \cap T) \in Nat
      /\ Cardinality(S) \in Nat /\ Cardinality(T) \in Nat
  <2>1. S \cap T \subseteq Auctions /\ S \cup T \subseteq Auctions
    BY Zenon
  <2> QED
    BY <1>1, <2>1, FS_Union, Sized, Zenon
<1> QED
    BY <1>2

\* The places of a listing.
Places(S) == [r \in S |-> Cardinality({q \in S : q <= r})]

\* The places are 1, 2, 3, ... without a gap: every one is taken, by one request.
LEMMA PlacesCount ==
    ASSUME NEW S, S \subseteq Auctions
    PROVE  Places(S) \in Bijection(S, 1 .. Cardinality(S))
<1> DEFINE upTo(r) == {q \in S : q <= r}
           n == Cardinality(S)
<1>1. IsFiniteSet(S) /\ n \in Nat /\ S \subseteq Nat
    BY Sized, BidAssumption, Zenon
<1>2. \A r \in S : Places(S)[r] = Cardinality(upTo(r)) /\ upTo(r) \subseteq S /\ r \in upTo(r)
  <2>1. \A r \in Nat : r <= r
    OBVIOUS
  <2> QED
    BY <1>1, <2>1, Zenon DEF Places
<1>3. \A r \in S : IsFiniteSet(upTo(r)) /\ Cardinality(upTo(r)) \in Nat /\ Cardinality(upTo(r)) <= n
    BY <1>1, <1>2, FS_Subset, FS_CardinalityType, Zenon
<1>4. \A r \in S : Cardinality(upTo(r)) # 0
    BY <1>2, <1>3, FS_EmptySet, Zenon
<1>5. \A r, t \in S : r < t => upTo(r) \subseteq upTo(t) /\ t \in upTo(t) /\ t \notin upTo(r)
  <2>1. \A q, r, t \in Nat : r < t => ~(t <= r) /\ t <= t /\ (q <= r => q <= t)
    OBVIOUS
  <2> QED
    BY <1>1, <2>1, Zenon
<1>6. \A r, t \in S : r < t => Cardinality(upTo(r)) # Cardinality(upTo(t))
  <2> SUFFICES ASSUME NEW r \in S, NEW t \in S, r < t PROVE Cardinality(upTo(r)) # Cardinality(upTo(t))
    BY Zenon
  <2>1. upTo(r) \in SUBSET upTo(t) /\ upTo(t) # upTo(r) /\ IsFiniteSet(upTo(t))
    BY <1>3, <1>5, Zenon
  <2> HIDE DEF upTo
  <2> QED
    BY <2>1, FS_Subset, Zenon
<1> HIDE DEF upTo
<1>7. \A r \in S : Places(S)[r] \in 1 .. n
    BY <1>1, <1>2, <1>3, <1>4, SMT
<1>8. \A r, t \in S : r # t => Places(S)[r] # Places(S)[t]
  <2> SUFFICES ASSUME NEW r \in S, NEW t \in S, r # t PROVE Places(S)[r] # Places(S)[t]
    BY Zenon
  <2>1. r < t \/ t < r
    BY <1>1
  <2> QED
    BY <1>2, <1>6, <2>1, Zenon
<1>9. Places(S) \in [S -> 1 .. n]
    BY <1>7, Zenon DEF Places
<1>10. Places(S) \in Injection(S, 1 .. n)
    BY <1>8, <1>9, Zenon DEF Injection, IsInjective
<1>11. IsFiniteSet(1 .. n) /\ Cardinality(1 .. n) = n
    BY <1>1, FS_Interval
<1>12. Places(S) \in Surjection(S, 1 .. n)
    BY <1>10, <1>11, FS_Injection, Zenon
<1> QED
    BY <1>10, <1>12, Zenon DEF Bijection

\* A page that is not full is the last: what is listed fits the full pages before
\* it and what it has itself.
LEMMA PageCounts ==
    ASSUME NEW S, S \subseteq Auctions, NEW k \in Nat \ {0}
    PROVE  /\ Bidding!Page(S, k) \subseteq S /\ Cardinality(Bidding!Page(S, k)) \in Nat
           /\ Cardinality(Bidding!Page(S, k)) # PageLimit => Cardinality(S) <= (k - 1) * PageLimit + Cardinality(Bidding!Page(S, k))
<1> DEFINE P == Bidding!Page(S, k)
           n == Cardinality(S)
           m == (k - 1) * PageLimit
           f == Places(S)
           to == IF n < m + PageLimit THEN n ELSE m + PageLimit
           h == [r \in P |-> f[r]]
<1>1. n \in Nat /\ f \in Bijection(S, 1 .. n)
    BY Sized, PlacesCount, Zenon
<1>2. m \in Nat /\ PageLimit \in Nat \ {0} /\ k * PageLimit = m + PageLimit
    BY BidAssumption
<1>3. P = {r \in S : f[r] \in m + 1 .. m + PageLimit}
    BY <1>2, SameCount, Zenon DEF Bidding!Page, Places
<1>4. P \subseteq S /\ IsFiniteSet(P) /\ Cardinality(P) \in Nat
    BY <1>3, Sized, Zenon
<1> HIDE DEF P, f, m
<1>5. /\ \A r \in S : f[r] \in 1 .. n
      /\ \A r, t \in S : f[r] = f[t] => r = t
      /\ \A j \in 1 .. n : \E r \in S : f[r] = j
    BY <1>1, Zenon DEF Bijection, Injection, Surjection, IsInjective
<1>6. \A j \in m + 1 .. to : j \in 1 .. n /\ j \in m + 1 .. m + PageLimit
    BY <1>1, <1>2
<1>7. \A j : j \in 1 .. n /\ j \in m + 1 .. m + PageLimit => j \in m + 1 .. to
    BY <1>1, <1>2
<1>8. to \in Int /\ m + 1 \in Int
    BY <1>1, <1>2
<1> HIDE DEF to
<1>9. h \in [P -> m + 1 .. to]
    BY <1>3, <1>5, <1>7, Zenon
<1>10. h \in Bijection(P, m + 1 .. to)
  <2>1. \A r, t \in P : h[r] = h[t] => r = t
    BY <1>3, <1>5, Zenon
  <2>2. \A j \in m + 1 .. to : \E r \in P : h[r] = j
    BY <1>3, <1>5, <1>6, Zenon
  <2> HIDE DEF h
  <2> QED
    BY <1>9, <2>1, <2>2, Zenon DEF Bijection, Injection, Surjection, IsInjective
<1> HIDE DEF h
<1>11. Cardinality(P) = Cardinality(m + 1 .. to)
  <2>1. ExistsBijection(P, m + 1 .. to)
    BY <1>10, Zenon DEF ExistsBijection
  <2> QED
    BY <1>4, <2>1, FS_Bijection, Zenon
<1>12. Cardinality(m + 1 .. to) = IF m + 1 > to THEN 0 ELSE to - (m + 1) + 1
    BY <1>8, FS_Interval, Zenon
<1>13. Cardinality(P) # PageLimit => n <= m + Cardinality(P)
    BY <1>1, <1>2, <1>4, <1>11, <1>12 DEF to
<1> QED
    BY <1>4, <1>13, Zenon DEF P, m

\* The types.
AuctionStates == {"hidden", "open", "bid", "assigned", "over"}
TaskStates == {"none", "start", "signed"}

BidTypes ==
    /\ auction \in [Auctions -> AuctionStates] /\ aggressive \in BOOLEAN
    /\ cache \in Prices \cup {NoPrice}
    /\ passAt \in {"idle", "paging", "reconciling", "deciding", "bidding"}
    /\ biddable \subseteq Auctions /\ over \subseteq Auctions /\ fetched \subseteq Auctions
    /\ pending \subseteq Auctions /\ forgotten \subseteq Auctions
    /\ count \in Nat /\ page \in Nat \ {0}
    /\ task \in [Auctions -> TaskStates] /\ amount \in [Auctions -> Nat]

\* What counts against the slots, and what is being bid on.
Active == {r \in Auctions \ forgotten : auction[r] \in {"bid", "assigned"}}
Trying == {r \in Auctions : task[r] # "none"}

\* A bid that may still win is in the ledger, from before it is sent.
LedgerInv ==
    /\ \A r \in Auctions : auction[r] = "bid" /\ r \notin forgotten => r \in pending
    /\ Trying \subseteq pending

\* What a listing has seen is not one of our bids, and no bid is sent while the
\* pass still lists.
ListedInv ==
    passAt \in {"paging", "reconciling"} => \A r \in biddable \cup fetched \cup over : auction[r] # "bid"

\* The count of a pass is never too small, or it is past the slots already.
CountInv ==
    /\ passAt = "paging" => count = (page - 1) * PageLimit
    /\ passAt = "reconciling" => Cardinality(Active \ Bidding!Outstanding) <= count \/ count > Slots
    /\ passAt = "deciding" => Cardinality(Active) <= count \/ count > Slots

\* The inductive invariant.
BidInv ==
    /\ BidTypes /\ Bidding!BidsAreValid
    /\ passAt # "bidding" => Trying = {}
    /\ ~aggressive => LedgerInv /\ ListedInv /\ CountInv /\ Cardinality(Active \cup Trying) <= Slots

\* The invariant implies that what is committed fits.
LEMMA ActiveFits == BidInv => Bidding!CommittedFits
<1>1. Active = {r \in Auctions \ forgotten : auction[r] \in {"bid", "assigned"}}
    BY Zenon DEF Active
<1>2. Active \cup Trying \subseteq Auctions
    BY Zenon DEF Active, Trying
<1>3. Cardinality(Active) <= Cardinality(Active \cup Trying)
    BY <1>2, Smaller, Zenon
<1>4. Cardinality(Active) \in Nat /\ Cardinality(Active \cup Trying) \in Nat /\ Slots \in Nat
    BY <1>2, Sized, BidAssumption, Zenon
<1>5. BidInv /\ ~aggressive => Cardinality(Active) <= Slots
    BY <1>3, <1>4 DEF BidInv
<1> QED
    BY <1>1, <1>5, SameCount, Zenon DEF Bidding!CommittedFits

\* Every bid amount is positive, and on the tick.
LEMMA AmountOnTick ==
    ASSUME BidTypes
    PROVE  Bidding!BidAmount \in Nat \ {0} /\ Bidding!BidAmount % Tick = 0
<1>1. CASE ~usd_bid \/ cache = NoPrice \/ cache = 0
    BY <1>1, BidAssumption, Zenon DEF Bidding!BidAmount
<1>2. CASE usd_bid /\ cache # NoPrice /\ cache # 0
  <2> DEFINE wei == Target \div cache
             q == wei \div Tick
  <2>1. cache \in Nat \ {0} /\ Tick \in Nat \ {0} /\ Target \in Nat
    BY <1>2, BidAssumption, Zenon DEF BidTypes
  <2>2. q \in Nat
    BY <2>1
  <2> HIDE DEF q
  <2>3. q * Tick \in Nat /\ (q * Tick) % Tick = 0
    BY <2>1, <2>2
  <2>4. Bidding!BidAmount = IF q * Tick = 0 THEN StaticBid ELSE q * Tick
    BY <1>2, Zenon DEF Bidding!BidAmount, Bidding!SubTick, q
  <2> QED
    BY <2>3, <2>4, BidAssumption, Zenon
<1> QED
    BY <1>1, <1>2, Zenon

\* The initial states.
LEMMA BidInit == Bidding!Init => BidInv
<1> SUFFICES ASSUME Bidding!Init PROVE BidInv
    BY Zenon
<1>1. BidTypes
    BY DEF Bidding!Init, BidTypes, AuctionStates, TaskStates
<1>2. Trying = {} /\ Active = {}
    BY Zenon DEF Bidding!Init, Trying, Active
<1>3. Bidding!BidsAreValid
    BY Zenon DEF Bidding!Init, Bidding!BidsAreValid
<1>4. LedgerInv /\ ListedInv /\ CountInv
    BY <1>2, Zenon DEF Bidding!Init, LedgerInv, ListedInv, CountInv
<1>5. Cardinality(Active \cup Trying) <= Slots
    BY <1>2, FS_EmptySet, BidAssumption
<1> QED
    BY <1>1, <1>2, <1>3, <1>4, <1>5, Zenon DEF BidInv

\* When no bid is added and nothing is listed or counted, the invariant of a
\* pass is kept: what counts against the slots can only become less.
LEMMA PassKept ==
    ASSUME BidInv, BidTypes', ~aggressive, LedgerInv', Active' \cup Trying' \subseteq Active \cup Trying,
           passAt \notin {"bidding"} => Active' \subseteq Active,
           ListedInv',
           passAt' = "paging" => passAt = "paging" /\ UNCHANGED <<count, page>>,
           passAt' = "reconciling" => passAt = "reconciling" /\ UNCHANGED <<count, pending, biddable, fetched, over>>,
           passAt' = "deciding" => passAt = "deciding" /\ UNCHANGED count
    PROVE  LedgerInv' /\ ListedInv' /\ CountInv' /\ Cardinality(Active \cup Trying)' <= Slots
<1>0. BidTypes /\ CountInv /\ Cardinality(Active \cup Trying) <= Slots /\ Slots \in Nat
    BY BidAssumption, Zenon DEF BidInv
<1>1. Active \cup Trying \subseteq Auctions /\ Active \subseteq Auctions
    BY Zenon DEF Active, Trying
<1>2. Cardinality(Active \cup Trying)' <= Slots
  <2>1. Cardinality(Active' \cup Trying') <= Cardinality(Active \cup Trying)
    BY <1>1, Smaller, Zenon
  <2>2. Cardinality(Active' \cup Trying') \in Nat /\ Cardinality(Active \cup Trying) \in Nat
    BY <1>1, Sized, Zenon
  <2> QED
    BY <1>0, <2>1, <2>2
<1>3. passAt' = "paging" => count' = (page' - 1) * PageLimit
    BY <1>0, Zenon DEF CountInv
<1>4. passAt' = "reconciling" => Cardinality(Active' \ Bidding!Outstanding') <= count' \/ count' > Slots
  <2> SUFFICES ASSUME passAt' = "reconciling" PROVE Cardinality(Active' \ Bidding!Outstanding') <= count \/ count > Slots
    BY Zenon
  <2>1. passAt = "reconciling" /\ Bidding!Outstanding' = Bidding!Outstanding /\ Active' \subseteq Active
    BY Zenon DEF Bidding!Outstanding
  <2>2. Active' \ Bidding!Outstanding' \subseteq Active \ Bidding!Outstanding /\ Active \ Bidding!Outstanding \subseteq Auctions
    BY <1>1, <2>1, Zenon
  <2>3. /\ Cardinality(Active' \ Bidding!Outstanding') <= Cardinality(Active \ Bidding!Outstanding)
        /\ Cardinality(Active' \ Bidding!Outstanding') \in Nat /\ Cardinality(Active \ Bidding!Outstanding) \in Nat
    BY <2>2, Smaller, Sized, Zenon
  <2>4. Cardinality(Active \ Bidding!Outstanding) <= count \/ count > Slots
    BY <1>0, <2>1, Zenon DEF CountInv
  <2> QED
    BY <1>0, <2>3, <2>4 DEF BidTypes
<1>5. passAt' = "deciding" => Cardinality(Active') <= count' \/ count' > Slots
  <2> SUFFICES ASSUME passAt' = "deciding" PROVE Cardinality(Active') <= count \/ count > Slots
    BY Zenon
  <2>1. passAt = "deciding" /\ Active' \subseteq Active
    BY Zenon
  <2>3. /\ Cardinality(Active') <= Cardinality(Active)
        /\ Cardinality(Active') \in Nat /\ Cardinality(Active) \in Nat
    BY <1>1, <2>1, Smaller, Sized, Zenon
  <2>4. Cardinality(Active) <= count \/ count > Slots
    BY <1>0, <2>1, Zenon DEF CountInv
  <2> QED
    BY <1>0, <2>3, <2>4 DEF BidTypes
<1> QED
    BY <1>2, <1>3, <1>4, <1>5, Zenon DEF CountInv

\* An auction opens, is won by us, or ends.
LEMMA BidAuctionMoves ==
    ASSUME BidInv, NEW r \in Auctions, Bidding!AuctionMoves(r)
    PROVE  BidInv'
<1>0. BidTypes /\ Bidding!BidsAreValid
    BY Zenon DEF BidInv
<1>1. UNCHANGED <<aggressive, cache, passAt, biddable, over, fetched, count, page, pending, task, amount, forgotten>>
    BY Zenon DEF Bidding!AuctionMoves, Bidding!configVars, Bidding!policyVars, Bidding!passVars, Bidding!taskVars
<1>2. /\ auction' \in [Auctions -> AuctionStates]
      /\ \A q \in Auctions : auction'[q] = "bid" => auction[q] = "bid"
      /\ \A q \in Auctions : auction'[q] \in {"bid", "assigned"} => auction[q] \in {"bid", "assigned"}
    BY <1>0, Zenon DEF Bidding!AuctionMoves, BidTypes, AuctionStates
<1>3. BidTypes'
    BY <1>0, <1>1, <1>2, Zenon DEF BidTypes
<1>4. Bidding!BidsAreValid' /\ Trying' = Trying
    BY <1>0, <1>1, Zenon DEF Bidding!BidsAreValid, Trying
<1>5. Active' \subseteq Active
    BY <1>1, <1>2, Zenon DEF Active
<1>6. ASSUME ~aggressive PROVE LedgerInv' /\ ListedInv'
    BY <1>0, <1>1, <1>2, <1>4, <1>6, Zenon DEF BidInv, LedgerInv, ListedInv, BidTypes
<1>7. ASSUME ~aggressive
      PROVE  LedgerInv' /\ ListedInv' /\ CountInv' /\ Cardinality(Active \cup Trying)' <= Slots
  <2>1. Active' \cup Trying' \subseteq Active \cup Trying
    BY <1>4, <1>5, Zenon
  <2> QED
    BY <1>1, <1>3, <1>5, <1>6, <1>7, <2>1, PassKept, ZenonT(30)
<1> QED
    BY <1>1, <1>3, <1>4, <1>7, Zenon DEF BidInv

\* The price and the policy do not touch a pass.
LEMMA BidPolicy ==
    ASSUME BidInv, Bidding!RefreshPrice \/ Bidding!SyncPolicy \/ UNCHANGED Bidding!vars
    PROVE  BidInv'
<1>0. BidTypes /\ Bidding!BidsAreValid
    BY Zenon DEF BidInv
<1>1. UNCHANGED <<auction, aggressive, passAt, biddable, over, fetched, count, page, pending, task, amount, forgotten>>
    BY Zenon DEF Bidding!RefreshPrice, Bidding!SyncPolicy, Bidding!configVars, Bidding!passVars, Bidding!taskVars, Bidding!vars
<1>2. cache' \in Prices \cup {NoPrice}
    BY <1>0, Zenon DEF Bidding!RefreshPrice, Bidding!SyncPolicy, Bidding!vars, Bidding!policyVars, BidTypes
<1>3. BidTypes'
    BY <1>0, <1>1, <1>2, Zenon DEF BidTypes
<1>4. Bidding!BidsAreValid' /\ Trying' = Trying /\ Active' = Active /\ Bidding!Outstanding' = Bidding!Outstanding
    BY <1>0, <1>1, Zenon DEF Bidding!BidsAreValid, Trying, Active, Bidding!Outstanding
<1>5. ASSUME ~aggressive PROVE LedgerInv' /\ ListedInv' /\ CountInv'
    BY <1>1, <1>4, <1>5, Zenon DEF BidInv, LedgerInv, ListedInv, CountInv
<1> QED
    BY <1>1, <1>3, <1>4, <1>5, Zenon DEF BidInv

\* A task reads the nonce, sends its bid, or fails.
LEMMA BidTask ==
    ASSUME BidInv, NEW r \in Auctions, NEW s \in TaskStates, task[r] # "none",
           task' = [task EXCEPT ![r] = s],
           auction' = auction \/ (auction[r] = "open" /\ auction' = [auction EXCEPT ![r] = "bid"] /\ s = "none"),
           UNCHANGED <<aggressive, cache, passAt, biddable, over, fetched, count, page, pending, amount, forgotten>>
    PROVE  BidInv'
<1>0. BidTypes /\ Bidding!BidsAreValid /\ r \in Trying /\ passAt = "bidding"
    BY Zenon DEF BidInv, Trying
<1>1. /\ task' \in [Auctions -> TaskStates] /\ task'[r] = s /\ \A q \in Auctions : q # r => task'[q] = task[q]
    BY <1>0, Zenon DEF BidTypes
<1>2. /\ auction' \in [Auctions -> AuctionStates] /\ \A q \in Auctions : q # r => auction'[q] = auction[q]
    BY <1>0, Zenon DEF BidTypes, AuctionStates
<1>3. BidTypes'
    BY <1>0, <1>1, <1>2, Zenon DEF BidTypes
<1>4. Bidding!BidsAreValid'
    BY <1>0, <1>1, Zenon DEF Bidding!BidsAreValid
<1>5. Trying' \subseteq Trying /\ Active' \subseteq Active \cup {r}
    BY <1>0, <1>1, <1>2, Zenon DEF Trying, Active
<1>6. ASSUME ~aggressive
      PROVE  LedgerInv' /\ ListedInv' /\ CountInv' /\ Cardinality(Active \cup Trying)' <= Slots
  <2>1. Active' \cup Trying' \subseteq Active \cup Trying
    BY <1>0, <1>5, Zenon
  <2>2. LedgerInv'
    BY <1>0, <1>2, <1>5, <1>6, Zenon DEF BidInv, LedgerInv
  <2>3. ListedInv'
    BY <1>0, Zenon DEF ListedInv
  <2>4. passAt' = "bidding"
    BY <1>0, Zenon
  <2> QED
    BY <1>0, <1>3, <1>6, <2>1, <2>2, <2>3, <2>4, PassKept, ZenonT(30)
<1> QED
    BY <1>0, <1>3, <1>4, <1>6, Zenon DEF BidInv

\* A pass lists what it may bid on.
LEMMA BidListBiddable ==
    ASSUME BidInv, Bidding!ListBiddable
    PROVE  BidInv'
<1>0. BidTypes /\ Bidding!BidsAreValid /\ passAt = "idle" /\ Trying = {}
    BY Zenon DEF BidInv, Bidding!ListBiddable
<1>1. /\ UNCHANGED <<auction, aggressive, cache, pending, task, amount, forgotten>>
      /\ passAt' = "paging" /\ count' = 0 /\ page' = 1 /\ fetched' = {}
      /\ biddable' = Bidding!Page(Bidding!InState("open"), 1)
      /\ over' = {r \in pending : auction[r] \in {"assigned", "over"}}
    BY Zenon DEF Bidding!ListBiddable, Bidding!configVars, Bidding!policyVars, Bidding!taskVars
<1>2. Bidding!InState("open") \subseteq Auctions /\ \A r \in Bidding!InState("open") : auction[r] = "open"
    BY Zenon DEF Bidding!InState
<1>3. biddable' \subseteq Bidding!InState("open")
    BY <1>1, <1>2, Zenon DEF Bidding!Page
<1>4. BidTypes'
    BY <1>0, <1>1, <1>2, <1>3 DEF BidTypes
<1>5. Bidding!BidsAreValid' /\ Trying' = Trying /\ Active' = Active
    BY <1>0, <1>1, Zenon DEF Bidding!BidsAreValid, Trying, Active
<1>6. ListedInv'
    BY <1>1, <1>2, <1>3, Zenon DEF ListedInv
<1>7. CountInv'
    BY <1>1, BidAssumption DEF CountInv
<1>8. ~aggressive => LedgerInv'
    BY <1>1, <1>5, Zenon DEF BidInv, LedgerInv
<1> QED
    BY <1>0, <1>1, <1>4, <1>5, <1>6, <1>7, <1>8, Zenon DEF BidInv

\* A page of the assigned requests: the walk ends on one that is not full, or
\* past the slots.
LEMMA BidFetchPage ==
    ASSUME BidInv, Bidding!FetchPage
    PROVE  BidInv'
<1> DEFINE A == Bidding!InState("assigned")
           batch == Bidding!Page(A, page)
           n == count + Cardinality(batch)
<1>0. BidTypes /\ Bidding!BidsAreValid /\ passAt = "paging" /\ Trying = {} /\ page \in Nat \ {0} /\ count \in Nat
    BY Zenon DEF BidInv, Bidding!FetchPage, BidTypes
<1>1. UNCHANGED <<auction, aggressive, cache, biddable, over, pending, task, amount, forgotten>>
    BY Zenon DEF Bidding!FetchPage, Bidding!configVars, Bidding!policyVars, Bidding!taskVars
<1>2. /\ fetched' = fetched \cup batch /\ count' = n
      /\ \/ Bidding!LastPage(batch, n) /\ passAt' = "reconciling" /\ page' = page
         \/ ~Bidding!LastPage(batch, n) /\ passAt' = passAt /\ page' = page + 1
    BY SameCount, Zenon DEF Bidding!FetchPage
<1>3. A \subseteq Auctions /\ \A r \in A : auction[r] = "assigned"
    BY Zenon DEF Bidding!InState
<1>4. /\ batch \subseteq A /\ Cardinality(batch) \in Nat
      /\ Cardinality(batch) # PageLimit => Cardinality(A) <= (page - 1) * PageLimit + Cardinality(batch)
    BY <1>0, <1>3, PageCounts, Zenon
<1> HIDE DEF batch, A
<1>5. BidTypes'
  <2>1. fetched' \subseteq Auctions
    BY <1>0, <1>2, <1>3, <1>4, Zenon DEF BidTypes
  <2>2. count' \in Nat /\ page' \in Nat \ {0}
    BY <1>0, <1>2, <1>4
  <2>3. passAt' \in {"idle", "paging", "reconciling", "deciding", "bidding"}
    BY <1>0, <1>2, Zenon
  <2> QED
    BY <1>0, <1>1, <2>1, <2>2, <2>3, Zenon DEF BidTypes
<1>6. Bidding!BidsAreValid' /\ Trying' = Trying /\ Active' = Active
    BY <1>0, <1>1, Zenon DEF Bidding!BidsAreValid, Trying, Active
<1>7. ASSUME ~aggressive PROVE LedgerInv' /\ ListedInv' /\ CountInv'
  <2>0. LedgerInv /\ ListedInv /\ CountInv
    BY <1>7, Zenon DEF BidInv
  <2>1. LedgerInv'
    BY <1>1, <1>6, <2>0, Zenon DEF LedgerInv
  <2>2. \A r \in biddable' \cup fetched' \cup over' : auction'[r] # "bid"
    <3>1. \A r \in biddable \cup fetched \cup over : auction[r] # "bid"
      BY <1>0, <2>0, Zenon DEF ListedInv
    <3>2. \A r \in batch : auction[r] # "bid"
      BY <1>3, <1>4, Zenon
    <3> QED
      BY <1>1, <1>2, <3>1, <3>2, Zenon
  <2>3. ListedInv'
    BY <2>2, Zenon DEF ListedInv
  <2>4. count = (page - 1) * PageLimit /\ PageLimit \in Nat \ {0} /\ Slots \in Nat
    BY <1>0, <2>0, BidAssumption, Zenon DEF CountInv
  <2>5. CASE ~Bidding!LastPage(batch, n)
    <3>1. Cardinality(batch) = PageLimit /\ passAt' = "paging" /\ page' = page + 1
      BY <1>0, <1>2, <2>5, SameCount, Zenon DEF Bidding!LastPage
    <3>2. count' = (page' - 1) * PageLimit
      BY <1>0, <1>2, <2>4, <3>1
    <3> QED
      BY <2>1, <2>3, <3>1, <3>2, Zenon DEF CountInv
  <2>6. CASE Bidding!LastPage(batch, n)
    <3>1. passAt' = "reconciling" /\ count' = n
      BY <1>2, <2>6, Zenon
    <3>2. Active' \ Bidding!Outstanding' \subseteq A
      <4> SUFFICES ASSUME NEW r \in Active', r \notin A PROVE r \in Bidding!Outstanding'
        BY Zenon
      <4>1. r \in Auctions /\ auction'[r] = "bid" /\ r \notin forgotten'
        BY <1>1, Zenon DEF Active, A, Bidding!InState
      <4>2. r \in pending'
        BY <2>1, <4>1, Zenon DEF LedgerInv
      <4> QED
        BY <2>2, <4>1, <4>2, Zenon DEF Bidding!Outstanding
    <3>3. /\ Cardinality(Active' \ Bidding!Outstanding') <= Cardinality(A)
          /\ Cardinality(Active' \ Bidding!Outstanding') \in Nat /\ Cardinality(A) \in Nat
      BY <1>3, <3>2, Smaller, Sized, Zenon
    <3>4. Cardinality(batch) # PageLimit \/ n > Slots
      BY <2>6, SameCount, Zenon DEF Bidding!LastPage
    <3>5. Cardinality(Active' \ Bidding!Outstanding') <= n \/ n > Slots
      BY <1>0, <1>4, <2>4, <3>3, <3>4
    <3> QED
      BY <2>1, <2>3, <3>1, <3>5, Zenon DEF CountInv
  <2> QED
    BY <2>5, <2>6, Zenon
<1>8. passAt' # "bidding"
    BY <1>0, <1>2, Zenon
<1> QED
    BY <1>0, <1>1, <1>5, <1>6, <1>7, <1>8, Zenon DEF BidInv

\* The ledger is settled against the listings, and what is left of it counts.
LEMMA BidReconcile ==
    ASSUME BidInv, Bidding!Reconcile
    PROVE  BidInv'
<1>0. BidTypes /\ Bidding!BidsAreValid /\ passAt = "reconciling" /\ Trying = {} /\ count \in Nat
    BY Zenon DEF BidInv, Bidding!Reconcile, BidTypes
<1>1. /\ UNCHANGED <<auction, aggressive, cache, biddable, over, fetched, page, task, amount, forgotten>>
      /\ pending' = Bidding!Outstanding /\ count' = count + Cardinality(Bidding!Outstanding)
      /\ passAt' \in {"idle", "deciding"}
    BY SameCount, Zenon DEF Bidding!Reconcile, Bidding!configVars, Bidding!policyVars, Bidding!taskVars
<1>2. Bidding!Outstanding \subseteq pending /\ Bidding!Outstanding \subseteq Auctions /\ Cardinality(Bidding!Outstanding) \in Nat
  <2>1. Bidding!Outstanding \subseteq pending /\ Bidding!Outstanding \subseteq Auctions
    BY <1>0, Zenon DEF Bidding!Outstanding, BidTypes
  <2> QED
    BY <2>1, Sized, Zenon
<1>3. BidTypes'
  <2>1. count' \in Nat
    BY <1>0, <1>1, <1>2
  <2> QED
    BY <1>0, <1>1, <1>2, <2>1, Zenon DEF BidTypes
<1>4. Bidding!BidsAreValid' /\ Trying' = Trying /\ Active' = Active
    BY <1>0, <1>1, Zenon DEF Bidding!BidsAreValid, Trying, Active
<1>5. ListedInv' /\ passAt' # "bidding" /\ passAt' # "paging" /\ passAt' # "reconciling"
    BY <1>1, Zenon DEF ListedInv
<1>6. ASSUME ~aggressive PROVE LedgerInv' /\ CountInv'
  <2>0. LedgerInv /\ ListedInv /\ CountInv
    BY <1>6, Zenon DEF BidInv
  <2>1. LedgerInv'
    BY <1>0, <1>1, <1>4, <2>0, Zenon DEF LedgerInv, ListedInv, Bidding!Outstanding
  <2>2. Active \ Bidding!Outstanding \subseteq Auctions /\ Active = (Active \ Bidding!Outstanding) \cup (Active \cap Bidding!Outstanding)
    BY Zenon DEF Active
  <2>3. /\ Cardinality(Active) <= Cardinality(Active \ Bidding!Outstanding) + Cardinality(Active \cap Bidding!Outstanding)
        /\ Cardinality(Active \cap Bidding!Outstanding) <= Cardinality(Bidding!Outstanding)
        /\ Cardinality(Active) \in Nat /\ Cardinality(Active \ Bidding!Outstanding) \in Nat
        /\ Cardinality(Active \cap Bidding!Outstanding) \in Nat
    <3>1. Active \cap Bidding!Outstanding \subseteq Bidding!Outstanding /\ Active \cap Bidding!Outstanding \subseteq Auctions /\ Active \subseteq Auctions
      BY <1>2, Zenon DEF Active
    <3>2. Cardinality((Active \ Bidding!Outstanding) \cup (Active \cap Bidding!Outstanding)) <= Cardinality(Active \ Bidding!Outstanding) + Cardinality(Active \cap Bidding!Outstanding)
      BY <2>2, <3>1, Together, Zenon
    <3> QED
      BY <1>2, <2>2, <3>1, <3>2, Smaller, Sized, Zenon
  <2>4. Cardinality(Active \ Bidding!Outstanding) <= count \/ count > Slots
    BY <1>0, <2>0, Zenon DEF CountInv
  <2>5. Cardinality(Active) <= count' \/ count' > Slots
    BY <1>0, <1>1, <1>2, <2>3, <2>4, BidAssumption
  <2> QED
    BY <1>4, <1>5, <2>1, <2>5, Zenon DEF CountInv
<1> QED
    BY <1>0, <1>1, <1>3, <1>4, <1>5, <1>6, Zenon DEF BidInv

\* What Bid writes: the tasks of R, each with its amount.
LEMMA BidWrites ==
    ASSUME BidTypes, NEW R, R \subseteq Auctions, \A r \in R : Bidding!Affordable(r), Bidding!Bid(R)
    PROVE  /\ passAt' = "bidding" /\ biddable' = {} /\ Trying' = R
           /\ task' \in [Auctions -> TaskStates] /\ amount' \in [Auctions -> Nat]
           /\ Bidding!BidsAreValid'
<1>1. /\ passAt' = "bidding" /\ biddable' = {}
      /\ task' = [r \in Auctions |-> IF r \in R THEN "start" ELSE "none"]
      /\ amount' = [r \in Auctions |-> IF r \in R THEN Bidding!AtLeastFloor(r) ELSE 0]
    BY Zenon DEF Bidding!Bid
<1>2. task' \in [Auctions -> TaskStates] /\ \A r \in Auctions : task'[r] # "none" <=> r \in R
    BY <1>1, Zenon DEF TaskStates
<1>3. Trying' = R
    BY <1>2, Zenon DEF Trying
<1>4. Bidding!BidAmount \in Nat \ {0} /\ Bidding!BidAmount % Tick = 0
    BY AmountOnTick, Zenon
<1>5. ASSUME NEW r \in Auctions
      PROVE  /\ Bidding!AtLeastFloor(r) \in Nat \ {0}
             /\ Bidding!AtLeastFloor(r) % Tick = 0 \/ Bidding!AtLeastFloor(r) = Floor[r]
             /\ Bidding!Affordable(r) => Bidding!AtLeastFloor(r) <= Ceil[r]
  <2>1. Floor[r] \in Nat /\ Ceil[r] \in Nat
    BY BidAssumption, Zenon
  <2>2. CASE Bidding!BidAmount < Floor[r]
    BY <1>4, <2>1, <2>2 DEF Bidding!AtLeastFloor, Bidding!Affordable
  <2>3. CASE ~(Bidding!BidAmount < Floor[r])
    BY <1>4, <2>3, Zenon DEF Bidding!AtLeastFloor, Bidding!Affordable
  <2> QED
    BY <2>2, <2>3, Zenon
<1>6. amount' \in [Auctions -> Nat] /\ \A r \in R : amount'[r] = Bidding!AtLeastFloor(r)
    BY <1>1, <1>5, Zenon
<1>7. Bidding!BidsAreValid'
  <2> SUFFICES ASSUME NEW r \in Auctions, task'[r] # "none"
               PROVE  amount'[r] > 0 /\ amount'[r] <= Ceil[r] /\ (amount'[r] % Tick = 0 \/ amount'[r] = Floor[r])
    BY Zenon DEF Bidding!BidsAreValid
  <2>1. r \in R /\ amount'[r] = Bidding!AtLeastFloor(r) /\ Bidding!Affordable(r)
    BY <1>2, <1>6, Zenon
  <2>2. Bidding!AtLeastFloor(r) > 0
    BY <1>5
  <2> QED
    BY <1>5, <2>1, <2>2, Zenon
<1> QED
    BY <1>1, <1>2, <1>3, <1>6, <1>7, Zenon

\* Decide admits nothing beyond the slots.
LEMMA BidDecide ==
    ASSUME BidInv, Bidding!Decide
    PROVE  BidInv'
<1>0. BidTypes /\ passAt = "deciding" /\ Trying = {} /\ count \in Nat /\ Slots \in Nat
    BY BidAssumption, Zenon DEF BidInv, Bidding!Decide, BidTypes
<1>1. UNCHANGED <<auction, aggressive, cache, over, fetched, count, page, forgotten>>
    BY Zenon DEF Bidding!Decide, Bidding!configVars, Bidding!policyVars
<1>2. Active' = Active /\ Active \subseteq Auctions
    BY <1>1, Zenon DEF Active
<1>3. ASSUME NEW R, R \subseteq biddable, \A r \in R : Bidding!Affordable(r), Bidding!Bid(R), pending' = pending \/ pending' = pending \cup R
      PROVE  /\ BidTypes' /\ Bidding!BidsAreValid' /\ passAt' = "bidding" /\ Trying' = R /\ ListedInv' /\ CountInv'
             /\ R \subseteq Auctions
  <2>1. R \subseteq Auctions
    BY <1>0, <1>3, Zenon DEF BidTypes
  <2>2. /\ passAt' = "bidding" /\ biddable' = {} /\ Trying' = R
        /\ task' \in [Auctions -> TaskStates] /\ amount' \in [Auctions -> Nat]
        /\ Bidding!BidsAreValid'
    BY <1>0, <1>3, <2>1, BidWrites, Zenon
  <2>3. BidTypes'
    BY <1>0, <1>1, <1>3, <2>1, <2>2, Zenon DEF BidTypes
  <2>4. ListedInv' /\ CountInv'
    BY <2>2, Zenon DEF ListedInv, CountInv
  <2> QED
    BY <2>1, <2>2, <2>3, <2>4, Zenon
<1>4. CASE aggressive
  <2> DEFINE R == {r \in {q \in biddable : Bidding!Affordable(q)} : Bidding!LongEnough(r)}
  <2>1. Bidding!Bid(R) /\ pending' = pending
    BY <1>4, Zenon DEF Bidding!Decide
  <2>2. R \subseteq biddable /\ \A r \in R : Bidding!Affordable(r)
    BY Zenon
  <2> HIDE DEF R
  <2>3. BidTypes' /\ Bidding!BidsAreValid' /\ passAt' = "bidding"
    BY <1>3, <2>1, <2>2, Zenon
  <2> QED
    BY <1>1, <1>4, <2>3, Zenon DEF BidInv
<1>5. CASE ~aggressive
  <2>1. PICK R \in SUBSET ({r \in biddable : Bidding!Affordable(r)} \ Disabled) :
            Bidding!AdmittedTogether(R) /\ Bidding!Bid(R) /\ pending' = pending \cup R
    BY <1>5, Zenon DEF Bidding!Decide
  <2>2. R \subseteq biddable /\ \A r \in R : Bidding!Affordable(r)
    BY <2>1, Zenon
  <2>3. /\ BidTypes' /\ Bidding!BidsAreValid' /\ passAt' = "bidding" /\ Trying' = R /\ ListedInv' /\ CountInv'
        /\ R \subseteq Auctions
    BY <1>3, <2>1, <2>2, Zenon
  <2>4. LedgerInv /\ CountInv /\ Cardinality(Active \cup Trying) <= Slots
    BY <1>5, Zenon DEF BidInv
  <2>5. LedgerInv'
    BY <1>1, <2>1, <2>3, <2>4, Zenon DEF LedgerInv
  <2>6. Cardinality(Active' \cup Trying') <= Slots
    <3>1. Active \cup {} = Active /\ Active \cup Trying = Active
      BY <1>0, Zenon
    <3>2. CASE R = {}
      BY <1>2, <2>3, <2>4, <3>1, <3>2, Zenon
    <3>3. CASE count + Cardinality(R) <= Slots
      <4>1. Cardinality(Active) <= count \/ count > Slots
        BY <1>0, <2>4, Zenon DEF CountInv
      <4>2. /\ Cardinality(Active \cup R) <= Cardinality(Active) + Cardinality(R)
            /\ Cardinality(Active) \in Nat /\ Cardinality(R) \in Nat /\ Cardinality(Active \cup R) \in Nat
        <5>1. Active \cup R \subseteq Auctions
          BY <1>2, <2>3, Zenon
        <5> QED
          BY <1>2, <2>3, <5>1, Together, Sized, Zenon
      <4>3. Cardinality(Active \cup R) <= Slots
        BY <1>0, <3>3, <4>1, <4>2
      <4> QED
        BY <1>2, <2>3, <4>3, Zenon
    <3> QED
      BY <2>1, <3>2, <3>3, SameCount, Zenon DEF Bidding!AdmittedTogether
  <2> QED
    BY <1>1, <1>5, <2>3, <2>5, <2>6, Zenon DEF BidInv
<1> QED
    BY <1>0, <1>4, <1>5, Zenon DEF BidTypes

\* A pass ends, or a listing fails.
LEMMA BidPassEnds ==
    ASSUME BidInv, passAt' = "idle", Trying = {}, amount' \in [Auctions -> Nat],
           UNCHANGED <<auction, aggressive, cache, biddable, over, fetched, count, page, pending, task, forgotten>>
    PROVE  BidInv'
<1>0. BidTypes
    BY Zenon DEF BidInv
<1>1. BidTypes'
    BY <1>0, Zenon DEF BidTypes
<1>2. Trying' = Trying /\ Active' = Active
    BY Zenon DEF Trying, Active
<1>3. Bidding!BidsAreValid'
    BY <1>2, Zenon DEF Bidding!BidsAreValid, Trying
<1>4. ~aggressive => LedgerInv'
    BY <1>2, Zenon DEF BidInv, LedgerInv
<1>5. ListedInv' /\ CountInv'
    BY Zenon DEF ListedInv, CountInv
<1> QED
    BY <1>1, <1>2, <1>3, <1>4, <1>5, Zenon DEF BidInv

\* A restart forgets the ledger.
LEMMA BidRestart ==
    ASSUME BidInv, Bidding!Restart
    PROVE  BidInv'
<1>0. BidTypes
    BY Zenon DEF BidInv
<1>1. /\ UNCHANGED <<auction, aggressive, over, fetched, count, page>>
      /\ passAt' = "idle" /\ biddable' = {} /\ pending' = {} /\ forgotten' = forgotten \cup pending
      /\ task' = [r \in Auctions |-> "none"] /\ amount' = [r \in Auctions |-> 0] /\ cache' = NoPrice
    BY Zenon DEF Bidding!Restart, Bidding!configVars
<1>2. BidTypes'
    BY <1>0, <1>1, Zenon DEF BidTypes, TaskStates
<1>3. Trying' = {} /\ Active' \subseteq Active
    BY <1>1, Zenon DEF Trying, Active
<1>4. Bidding!BidsAreValid'
    BY <1>1, Zenon DEF Bidding!BidsAreValid
<1>5. ListedInv' /\ CountInv'
    BY <1>1, Zenon DEF ListedInv, CountInv
<1>6. ~aggressive => LedgerInv'
    BY <1>1, <1>3, Zenon DEF BidInv, LedgerInv
<1>7. ~aggressive => Cardinality(Active' \cup Trying') <= Slots
  <2>1. Active' \cup Trying' \subseteq Active \cup Trying /\ Active \cup Trying \subseteq Auctions
    BY <1>3, Zenon DEF Active, Trying
  <2>2. /\ Cardinality(Active' \cup Trying') <= Cardinality(Active \cup Trying)
        /\ Cardinality(Active' \cup Trying') \in Nat /\ Cardinality(Active \cup Trying) \in Nat
    BY <2>1, Smaller, Sized, Zenon
  <2> QED
    BY <2>2, BidAssumption DEF BidInv
<1> QED
    BY <1>1, <1>2, <1>3, <1>4, <1>5, <1>6, <1>7, Zenon DEF BidInv

\* The inductive invariant holds throughout: BidInv, of run.
THEOREM BidderSafe == Bidding!Spec => []BidInv
<1>1. ASSUME BidInv, [Bidding!Next]_(Bidding!vars) PROVE BidInv'
  <2>0. BidTypes
    BY <1>1, Zenon DEF BidInv
  <2>1. CASE \E r \in Auctions : Bidding!AuctionMoves(r)
    BY <1>1, <2>1, BidAuctionMoves, Zenon
  <2>2. ASSUME NEW r \in Auctions, Bidding!GetNonce(r) \/ Bidding!SendBid(r) PROVE BidInv'
    <3>1. "none" \in TaskStates /\ "signed" \in TaskStates
      BY Zenon DEF TaskStates
    <3>2. CASE Bidding!GetNonce(r)
      <4>1. /\ task[r] # "none" /\ task' = [task EXCEPT ![r] = "signed"] /\ auction' = auction
            /\ UNCHANGED <<aggressive, cache, passAt, biddable, over, fetched, count, page, pending, amount, forgotten>>
        BY <3>2, Zenon DEF Bidding!GetNonce, Bidding!configVars, Bidding!policyVars, Bidding!passVars
      <4> QED
        BY <1>1, <3>1, <4>1, BidTask, Zenon
    <3>3. CASE Bidding!SendBid(r)
      <4>1. /\ task[r] # "none" /\ task' = [task EXCEPT ![r] = "none"]
            /\ auction' = auction \/ (auction[r] = "open" /\ auction' = [auction EXCEPT ![r] = "bid"])
            /\ UNCHANGED <<aggressive, cache, passAt, biddable, over, fetched, count, page, pending, amount, forgotten>>
        BY <3>3, Zenon DEF Bidding!SendBid, Bidding!configVars, Bidding!policyVars, Bidding!passVars
      <4> QED
        BY <1>1, <3>1, <4>1, BidTask, Zenon
    <3> QED
      BY <2>2, <3>2, <3>3, Zenon
  <2>3. CASE Bidding!RefreshPrice \/ Bidding!SyncPolicy \/ UNCHANGED Bidding!vars
    BY <1>1, <2>3, BidPolicy, Zenon
  <2>4. CASE Bidding!ListBiddable \/ Bidding!FetchPage \/ Bidding!Reconcile \/ Bidding!Decide
    BY <1>1, <2>4, BidListBiddable, BidFetchPage, BidReconcile, BidDecide, Zenon
  <2>5. CASE Bidding!EndPass
    <3>1. /\ passAt' = "idle" /\ amount' = [r \in Auctions |-> 0] /\ Trying = {}
          /\ UNCHANGED <<auction, aggressive, cache, biddable, over, fetched, count, page, pending, task, forgotten>>
      BY <2>5, Zenon DEF Bidding!EndPass, Trying, Bidding!configVars, Bidding!policyVars, Bidding!passVars
    <3>2. amount' \in [Auctions -> Nat]
      BY <3>1, Zenon
    <3> QED
      BY <1>1, <3>1, <3>2, BidPassEnds, Zenon
  <2>6. CASE Bidding!CallFails
    <3>1. UNCHANGED <<auction, aggressive, cache, biddable, over, fetched, count, page, pending, amount, forgotten>>
      BY <2>6, Zenon DEF Bidding!CallFails, Bidding!configVars, Bidding!policyVars, Bidding!passVars
    <3>2. CASE passAt \in {"paging", "reconciling"} /\ passAt' = "idle" /\ UNCHANGED <<task, nonces>>
      <4>1. Trying = {} /\ amount' \in [Auctions -> Nat]
        BY <1>1, <2>0, <3>1, <3>2, Zenon DEF BidInv, BidTypes
      <4> QED
        BY <1>1, <3>1, <3>2, <4>1, BidPassEnds, Zenon
    <3>3. ASSUME NEW r \in Auctions, task[r] # "none", task' = [task EXCEPT ![r] = "none"], UNCHANGED passAt
          PROVE  BidInv'
      <4>1. "none" \in TaskStates
        BY Zenon DEF TaskStates
      <4> QED
        BY <1>1, <3>1, <3>3, <4>1, BidTask, Zenon
    <3> QED
      BY <2>6, <3>2, <3>3, Zenon DEF Bidding!CallFails
  <2>7. CASE Bidding!Restart
    BY <1>1, <2>7, BidRestart, Zenon
  <2> QED
    BY <1>1, <2>1, <2>2, <2>3, <2>4, <2>5, <2>6, <2>7, Zenon DEF Bidding!Next
<1> QED
    BY <1>1, BidInit, PTL DEF Bidding!Spec

------------------------------------------------------------------------------------
(* The results.                                                            *)

\* A row is marked handled, or cancelled, only when the network waits for nothing
\* more, and under nonce_lock no message of a process makes the nonce of another
\* one of its own stale: MarksAreEarned, of every fulfiller.
THEOREM MarksEarned == Ful!Spec => []MarksAreEarned
<1>1. FulInv => MarksAreEarned
    BY Zenon DEF FulInv, RowsInv, MarksAreEarned
<1> QED
    BY <1>1, FulfillerSafe, PTL

\* A proof is kept until its row is marked handled, and a row has its program and
\* stdin in the store (submit_request, schedule_request): ArtifactsKept.
THEOREM ArtifactsAreKept == Ful!Spec => []ArtifactsKept
<1>1. FulInv => ArtifactsKept
    BY Zenon DEF FulInv, RowsInv, ArtifactsKept
<1> QED
    BY <1>1, FulfillerSafe, PTL

\* Assigned requests and bids that may still win fit the controller slots, and
\* every bid is positive, affordable and on the tick (bid_requests): BidsFit.
THEOREM BidsAlwaysFit == Bidding!Spec => []BidsFit
<1>1. BidInv => BidsFit
    BY ActiveFits, Zenon DEF BidInv, BidsFit
<1> QED
    BY <1>1, BidderSafe, PTL
====================================================================================
