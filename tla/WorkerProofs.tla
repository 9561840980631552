----------------------------- MODULE WorkerProofs -----------------------------
(***************************************************************************)
(* Proofs about the worker: its beats, its main loop and its watch over    *)
(* the stream, for every choice of their constants, and what follows for   *)
(* the composition.                                                        *)
(***************************************************************************)
EXTENDS Worker, TLAPS

-----------------------------------------------------------------------------
(* The main loop.                                                          *)

\* What an accepted delivery leaves: work and a reporter; before it, nothing.
GivenInv ==
    \A id \in Node!Ids :
        IF Node!Given(id) THEN work[id] # "none" /\ reporter[id] # "none"
        ELSE work[id] = "none" /\ reporter[id] = "none"

\* The entry about to be inserted replaces none.
InsertInv == \A id \in Node!Ids : loop = Node!Insert(id) => tasks[id[1]] = Node!NoEntry

\* A reporter past its wait has work that has ended.
EndedInv == \A id \in Node!Ids : reporter[id] \in Node!Verdict \cup {"done"} => work[id] # "running"

\* What was told of an attempt the sweep did not give up on is its reporter's.
ToldInv ==
    \A id \in Node!Ids \ wedged : \A v, u \in Node!Verdict :
        <<id, v>> \in told => reporter[id] \in {v, "done"} /\ (<<id, u>> \in told => u = v)

\* Work given up on has closed the node, and only such work is in a batch.
WedgedInv == (wedged # {} => closed) /\ \A w \in batches : w.ids \subseteq wedged

\* Work is aborted by a cancellation or by the sweep, and grace follows a stamp.
AbortInv ==
    /\ aborting \subseteq recalled \cup aborted_at
    /\ \A id \in Node!Ids :
        /\ age[id] = "graceless" => id \in aborted_at
        /\ work[id] = "cancelled" => id \in aborting

\* A reporter that has ended leaves its attempt settled.
SettledInv ==
    \A id \in Node!Ids : reporter[id] = "done" =>
        Node!Told(id) \/ Node!GivenUp(id) \/ (work[id] = "cancelled" /\ id \in recalled)

\* Reporters that have not ended.
Reporting == {id \in Node!Ids : reporter[id] \in {"waiting"} \cup Node!Verdict}

\* What keeps the drain waiting.
Owed == ({"reporter"} \X Reporting) \cup ({"batch"} \X batches)

\* The members of S can have a number up to n each.
Fits(S, n) == \E f \in [S -> 1 .. n] : \A x, y \in S : f[x] = f[y] => x = y

\* The counter has room for every reporter and every batch.
CountInv == Fits(Owed, reporters_in_flight)

NodeInv ==
    /\ Node!TypeOK /\ Node!RunningWorkTracked
    /\ GivenInv /\ InsertInv /\ EndedInv /\ ToldInv /\ WedgedInv /\ AbortInv
    /\ SettledInv /\ CountInv /\ Node!DrainedOwesNothing

\* Where the main loop can stand, told apart by `at'.
LEMMA LoopForms ==
    /\ Node!AtLoop \in Node!LoopState /\ Node!AtLoop.at = "select"
    /\ Node!AtClose \in Node!LoopState /\ Node!AtClose.at = "close"
    /\ \A id \in Node!Ids : /\ Node!Insert(id) \in Node!LoopState
                            /\ Node!Insert(id).at = "insert" /\ Node!Insert(id).id = id
    /\ \A how \in {"drained", "drain timeout"} :
        Node!Left(how) \in Node!LoopState /\ Node!Left(how).at = "left"
    /\ \A l \in Node!LoopState : l.at = "insert" => l.id \in Node!Ids /\ l = Node!Insert(l.id)
<1> USE DEF Node!AtLoop, Node!AtClose, Node!Insert, Node!Left
<1>1. /\ Node!AtLoop \in Node!LoopState /\ Node!AtClose \in Node!LoopState
      /\ \A id \in Node!Ids : Node!Insert(id) \in Node!LoopState
      /\ \A how \in {"drained", "drain timeout"} : Node!Left(how) \in Node!LoopState
  BY Zenon DEF Node!LoopState
<1>2. Node!AtLoop.at = "select" /\ Node!AtClose.at = "close"
  BY Zenon
<1>3. \A id \in Node!Ids : Node!Insert(id).at = "insert" /\ Node!Insert(id).id = id
  BY Zenon
<1>4. \A how \in {"drained", "drain timeout"} : Node!Left(how).at = "left"
  BY Zenon
<1>5. ASSUME NEW l \in Node!LoopState, l.at = "insert"
      PROVE  l.id \in Node!Ids /\ l = Node!Insert(l.id)
  <2>1. l # Node!AtLoop /\ l # Node!AtClose BY <1>5, <1>2, Zenon
  <2>2. \A how \in {"drained", "drain timeout"} : l # Node!Left(how) BY <1>5, <1>4, Zenon
  <2>3. PICK id \in Node!Ids : l = Node!Insert(id)
    <3> HIDE DEF Node!AtLoop, Node!AtClose, Node!Insert, Node!Left
    <3> QED BY <2>1, <2>2, Zenon DEF Node!LoopState
  <2> QED BY <2>3, <1>3, Zenon
<1> QED BY <1>1, <1>2, <1>3, <1>4, <1>5, Zenon

\* An id is a task and the number of an attempt.
LEMMA IdForm ==
    /\ \A id \in Node!Ids : /\ id[1] \in Tasks /\ id[2] \in Node!Attempts /\ id[2] # Node!NoEntry
                            /\ id = <<id[1], id[2]>>
    /\ \A k \in Tasks, a \in Node!Attempts :
        <<k, a>> \in Node!Ids /\ <<k, a>>[1] = k /\ <<k, a>>[2] = a
  BY DEF Node!Ids, Node!Attempts, Node!NoEntry

\* The next attempt of a task that may be delivered again.
LEMMA NextId ==
    ASSUME Node!TypeOK, NEW k \in Tasks, started[k] < MaxAttempts
    PROVE  <<k, started[k] + 1>> \in Node!Ids /\ ~Node!Given(<<k, started[k] + 1>>)
  BY IdForm, NodeAssumption DEF Node!TypeOK, Node!Given, Node!Attempts

\* Nothing fits in no room, and only nothing does.
LEMMA NoneFit == Fits({}, 0) /\ \A S : Fits(S, 0) => S = {}
<1>1. Fits({}, 0)
  <2>1. [x \in {} |-> 1] \in [{} -> 1 .. 0] BY Zenon
  <2> QED BY <2>1, Zenon DEF Fits
<1>2. ASSUME NEW S, Fits(S, 0) PROVE S = {}
  <2>1. PICK f \in [S -> 1 .. 0] : TRUE BY <1>2, Zenon DEF Fits
  <2> QED BY <2>1
<1> QED BY <1>1, <1>2, Zenon

\* One more takes one more place.
LEMMA OneMore ==
    ASSUME NEW S, NEW n \in Nat, NEW x, Fits(S, n)
    PROVE  Fits(S \cup {x}, n + 1)
<1>1. PICK f \in [S -> 1 .. n] : \A y, z \in S : f[y] = f[z] => y = z BY Zenon DEF Fits
<1> DEFINE T == S \cup {x}
           g == [y \in T |-> IF y \in S THEN f[y] ELSE n + 1]
<1>2. \A y \in S : f[y] \in 1 .. n BY Zenon
<1>3. \A y \in T : /\ g[y] \in 1 .. n + 1
                   /\ y \in S => g[y] = f[y] /\ g[y] # n + 1
                   /\ y \notin S => g[y] = n + 1 /\ y = x
  BY <1>2
<1>4. g \in [T -> 1 .. n + 1] BY <1>3, Zenon
<1> HIDE DEF g
<1>5. \A y, z \in T : g[y] = g[z] => y = z BY <1>1, <1>3, Zenon
<1> QED BY <1>4, <1>5, Zenon DEF Fits

\* One less leaves a place: what had the last number takes the one that is free.
LEMMA OneLess ==
    ASSUME NEW S, NEW n \in Nat, NEW x \in S, Fits(S, n)
    PROVE  n - 1 \in Nat /\ Fits(S \ {x}, n - 1)
<1>1. PICK f \in [S -> 1 .. n] : \A y, z \in S : f[y] = f[z] => y = z BY Zenon DEF Fits
<1>2. \A y \in S : f[y] \in 1 .. n BY Zenon
<1>3. n - 1 \in Nat BY <1>2
<1> DEFINE T == S \ {x}
           g == [y \in T |-> IF f[y] = n THEN f[x] ELSE f[y]]
<1>4. \A y \in T : /\ y \in S /\ f[y] # f[x]
                   /\ g[y] \in 1 .. n - 1
                   /\ f[y] = n => g[y] = f[x]
                   /\ f[y] # n => g[y] = f[y]
  BY <1>1, <1>2
<1>5. g \in [T -> 1 .. n - 1] BY <1>4, Zenon
<1> HIDE DEF g
<1>6. \A y, z \in T : g[y] = g[z] => y = z BY <1>1, <1>4, Zenon
<1> QED BY <1>3, <1>5, <1>6, Zenon DEF Fits

\* A worker that has just registered: no work, no reporter, nothing told.
LEMMA NodeInit == Node!Init => NodeInv
<1> SUFFICES ASSUME Node!Init PROVE NodeInv
  BY Zenon
<1> USE DEF Node!Init
<1>1. Node!TypeOK
  <2>1. loop \in Node!LoopState BY LoopForms, Zenon
  <2>2. started \in [Tasks -> 0 .. MaxAttempts] /\ tries \in [Node!Ids -> 0 .. MaxTries]
    BY NodeAssumption
  <2>3. work \in [Node!Ids -> Node!WorkState] BY Zenon DEF Node!WorkState
  <2> QED BY <2>1, <2>2, <2>3, Zenon DEF Node!TypeOK
<1>2. Node!RunningWorkTracked /\ EndedInv /\ ToldInv /\ WedgedInv
  BY Zenon DEF Node!RunningWorkTracked, EndedInv, ToldInv, WedgedInv, Node!Verdict
<1>3. GivenInv
  BY IdForm, NodeAssumption DEF GivenInv, Node!Given, Node!Attempts
<1>4. InsertInv /\ AbortInv /\ SettledInv /\ Node!DrainedOwesNothing
  BY LoopForms, IdForm, Zenon DEF InsertInv, AbortInv, SettledInv, Node!DrainedOwesNothing
<1>5. CountInv
  <2>1. Owed = {} /\ reporters_in_flight = 0
    BY Zenon DEF Owed, Reporting, Node!Verdict
  <2> QED BY <2>1, NoneFit, Zenon DEF CountInv
<1> QED BY <1>1, <1>2, <1>3, <1>4, <1>5, Zenon DEF NodeInv

\* report_for owes nothing only to cancelled work the sweep has not stamped.
LEMMA ReportForms ==
    ASSUME NEW outcome \in {"cancelled"} \cup Node!Outcome, NEW timedOut
    PROVE  /\ Node!ReportFor(outcome, timedOut) \in Node!Verdict \cup {"nothing"}
           /\ Node!ReportFor(outcome, timedOut) = "nothing" => outcome = "cancelled" /\ ~timedOut
  BY Zenon DEF Node!ReportFor, Node!Verdict, Node!Outcome

\* The steps of a reporter: it wakes with a verdict, ends at once or after its
\* report, or has a try that fails.
LEMMA ReporterSteps ==
    ASSUME NodeInv, NEW id \in Node!Ids, Node!Reporter(id)
    PROVE  /\ Node!Up /\ UNCHANGED <<started, work, aborting, aborted_at, age, batches, closed,
                                     close_acked, draining, loop, wedged, recalled>>
           /\ \/ /\ reporter[id] = "waiting" /\ work[id] # "running"
                 /\ \E v \in Node!Verdict : reporter' = [reporter EXCEPT ![id] = v]
                 /\ UNCHANGED <<tasks, tries, reporters_in_flight, told>>
              \/ /\ reporter[id] = "waiting" /\ work[id] = "cancelled" /\ id \notin aborted_at
                 /\ reporter' = [reporter EXCEPT ![id] = "done"]
                 /\ reporters_in_flight' = reporters_in_flight - 1
                 /\ UNCHANGED <<tasks, tries, told>>
              \/ /\ reporter[id] \in Node!Verdict /\ Node!ReporterEnds(id)
                 /\ \/ told' = told \cup {<<id, reporter[id]>>}
                    \/ told' = told /\ tries[id] = MaxTries
                 /\ UNCHANGED tries
              \/ /\ reporter[id] \in Node!Verdict /\ tries[id] < MaxTries
                 /\ tries' = [tries EXCEPT ![id] = @ + 1]
                 /\ told' \in {told, told \cup {<<id, reporter[id]>>}}
                 /\ UNCHANGED <<tasks, reporter, reporters_in_flight>>
<1> USE DEF Node!drain, Node!history
<1>1. CASE Node!ReporterWakes(id)
  <2>1. reporter[id] = "waiting" /\ work[id] # "running" BY <1>1, Zenon DEF Node!ReporterWakes
  <2>2. work[id] # "none"
    BY <2>1, Zenon DEF NodeInv, GivenInv
  <2>3. work[id] \in {"cancelled"} \cup Node!Outcome
    BY <2>1, <2>2, Zenon DEF NodeInv, Node!TypeOK, Node!WorkState
  <2> DEFINE report == Node!ReportFor(work[id], id \in aborted_at)
  <2>4. report \in Node!Verdict \cup {"nothing"} /\ (report = "nothing" => work[id] = "cancelled" /\ id \notin aborted_at)
    BY <2>3, ReportForms, Zenon
  <2>5. IF report = "nothing"
        THEN /\ reporter' = [reporter EXCEPT ![id] = "done"]
             /\ reporters_in_flight' = reporters_in_flight - 1
        ELSE /\ reporter' = [reporter EXCEPT ![id] = report]
             /\ UNCHANGED reporters_in_flight
    BY <1>1, Zenon DEF Node!ReporterWakes
  <2>6. Node!Up /\ UNCHANGED <<started, tasks, work, aborting, aborted_at, age, tries, batches, closed,
                  close_acked, draining, loop, told, wedged, recalled>>
    BY <1>1, Zenon DEF Node!ReporterWakes
  <2> HIDE DEF report
  <2> QED BY <2>1, <2>4, <2>5, <2>6, Zenon
<1>2. CASE Node!ReportLands(id) BY <1>2, Zenon DEF Node!ReportLands
<1>3. CASE \E landed \in BOOLEAN : Node!ReportTryFails(id, landed)
  BY <1>3, Zenon DEF Node!ReportTryFails
<1>4. CASE Node!ReportGivenUp(id) BY <1>4, Zenon DEF Node!ReportGivenUp
<1> QED BY <1>1, <1>2, <1>3, <1>4, Zenon DEF Node!Reporter

\* A reporter at work and a batch each have a place in the counter.
LEMMA Counted ==
    ASSUME NodeInv
    PROVE  /\ \A id \in Reporting : reporters_in_flight - 1 \in Nat
           /\ \A w \in batches : reporters_in_flight - 1 \in Nat
           /\ reporters_in_flight = 0 => Reporting = {}
<1>1. reporters_in_flight \in Nat /\ Fits(Owed, reporters_in_flight)
  BY Zenon DEF NodeInv, CountInv, Node!TypeOK
<1>2. \A x \in Owed : reporters_in_flight - 1 \in Nat BY <1>1, OneLess, Zenon
<1>3. \A id \in Reporting : <<"reporter", id>> \in Owed BY Zenon DEF Owed
<1>4. \A w \in batches : <<"batch", w>> \in Owed BY Zenon DEF Owed
<1>5. reporters_in_flight = 0 => Owed = {} BY <1>1, NoneFit, Zenon
<1> QED BY <1>2, <1>3, <1>4, <1>5, Zenon

\* The steps of a batch: it goes on with less to do, or ends; what it tells is
\* of the attempts it is about.
LEMMA BatchSteps ==
    ASSUME Node!TypeOK, NEW w \in batches, Node!Batch(w)
    PROVE  /\ UNCHANGED <<started, tasks, work, aborting, aborted_at, age, reporter, tries,
                          closed, draining, loop, wedged, recalled>>
           /\ Node!Up /\ close_acked' \in BOOLEAN
           /\ \/ told' = told
              \/ \E id \in w.ids : told' = told \cup {<<id, "retry">>}
           /\ \/ /\ reporters_in_flight' = reporters_in_flight - 1
                 /\ batches' = batches \ {w}
              \/ /\ UNCHANGED reporters_in_flight
                 /\ \E x \in [ids: SUBSET w.ids, closing: BOOLEAN] :
                        batches' = (batches \ {w}) \cup {x}
<1> USE DEF Node!attempt, Node!drain, Node!history
<1>w. w \in [ids: SUBSET Node!Ids, closing: BOOLEAN] BY Zenon DEF Node!TypeOK
<1>1. ASSUME NEW ok \in BOOLEAN, Node!BatchCloses(w, ok)
      PROVE  /\ UNCHANGED reporters_in_flight /\ close_acked' \in BOOLEAN
             /\ \E x \in [ids: SUBSET w.ids, closing: BOOLEAN] : batches' = (batches \ {w}) \cup {x}
  <2> DEFINE x == [w EXCEPT !.closing = FALSE]
  <2>1. batches' = (batches \ {w}) \cup {x} /\ UNCHANGED reporters_in_flight
    BY <1>1, Zenon DEF Node!BatchCloses
  <2>2. x \in [ids: SUBSET w.ids, closing: BOOLEAN] BY <1>w, Zenon
  <2>3. close_acked' \in BOOLEAN BY <1>1, Zenon DEF Node!BatchCloses
  <2> QED BY <2>1, <2>2, <2>3, Zenon
<1>2. ASSUME NEW ok \in BOOLEAN, NEW id \in w.ids, Node!BatchReports(w, id, ok)
      PROVE  \/ /\ reporters_in_flight' = reporters_in_flight - 1
                /\ batches' = batches \ {w}
             \/ /\ UNCHANGED reporters_in_flight
                /\ \E x \in [ids: SUBSET w.ids, closing: BOOLEAN] :
                       batches' = (batches \ {w}) \cup {x}
  <2> DEFINE x == [w EXCEPT !.ids = @ \ {id}]
  <2>1. x \in [ids: SUBSET w.ids, closing: BOOLEAN] BY <1>w, Zenon
  <2>2. \/ reporters_in_flight' = reporters_in_flight - 1 /\ batches' = batches \ {w}
        \/ UNCHANGED reporters_in_flight /\ batches' = (batches \ {w}) \cup {x}
    BY <1>2, Zenon DEF Node!BatchReports
  <2> HIDE DEF x
  <2> QED BY <2>1, <2>2, Zenon
<1>3. CASE \E ok \in BOOLEAN : Node!BatchCloses(w, ok)
  BY <1>1, <1>3, Zenon DEF Node!BatchCloses
<1>4. CASE \E ok \in BOOLEAN : \E id \in w.ids : Node!BatchReports(w, id, ok)
  <2>1. PICK ok \in BOOLEAN, id \in w.ids : Node!BatchReports(w, id, ok) BY <1>4, Zenon
  <2>2. /\ UNCHANGED <<started, tasks, work, aborting, aborted_at, age, reporter, tries,
                       closed, draining, loop, wedged, recalled, close_acked>>
        /\ Node!Up /\ told' \in {told, told \cup {<<id, "retry">>}}
    BY <2>1, Zenon DEF Node!BatchReports
  <2>3. close_acked \in BOOLEAN BY Zenon DEF Node!TypeOK
  <2> QED BY <1>2, <2>1, <2>2, <2>3, Zenon
<1> QED BY <1>3, <1>4, Zenon DEF Node!Batch

\* What a sweep changes.
LEMMA SweepSteps ==
    ASSUME Node!TypeOK, Node!Sweep
    PROVE  /\ Node!TimedOut \subseteq Node!Ids /\ Node!Wedged \subseteq Node!Ids
           /\ \/ UNCHANGED <<batches, reporters_in_flight>> /\ Node!Wedged = {}
              \/ /\ reporters_in_flight' = reporters_in_flight + 1
                 /\ batches' = batches \cup {[ids |-> Node!Wedged, closing |-> TRUE]}
           /\ draining' \in {"no", "yes", "overdue"} /\ closed' \in BOOLEAN
<1>1. Node!TimedOut \subseteq Node!Ids /\ Node!Wedged \subseteq Node!Ids
  BY Zenon DEF Node!TimedOut, Node!Wedged, Node!Entries
<1>2. draining' \in {"no", "yes", "overdue"} BY Zenon DEF Node!Sweep, Node!TypeOK
<1>3. closed' \in BOOLEAN BY Zenon DEF Node!Sweep, Node!ClosedBySweep
<1>4. \/ UNCHANGED <<batches, reporters_in_flight>> /\ Node!Wedged = {}
      \/ /\ reporters_in_flight' = reporters_in_flight + 1
         /\ batches' = batches \cup {[ids |-> Node!Wedged, closing |-> TRUE]}
  BY Zenon DEF Node!Sweep, Node!BatchCounted
<1> QED BY <1>1, <1>2, <1>3, <1>4, Zenon

\* Every step of the main loop and of what runs beside it keeps the types.
LEMMA NodeTypes == ASSUME NodeInv, Node!Next PROVE Node!TypeOK'
<1> USE DEF Node!TypeOK, Node!drain, Node!history, Node!attempt
<1>t. Node!TypeOK BY Zenon DEF NodeInv
<1>1. ASSUME NEW k \in Tasks, Node!NewTask(k) PROVE Node!TypeOK'
  <2> DEFINE id == <<k, started[k] + 1>>
  <2>1. started[k] < MaxAttempts /\ loop' = Node!Insert(id) BY <1>1, ZenonT(30) DEF Node!NewTask
  <2>2. id \in Node!Ids BY <1>t, <2>1, NextId, Zenon
  <2>3. loop' \in Node!LoopState BY <2>1, <2>2, LoopForms, ZenonT(30)
  <2>4. started' \in [Tasks -> 0 .. MaxAttempts]
    BY <1>t, <1>1, <2>1, NodeAssumption DEF Node!NewTask
  <2>5. work' = [work EXCEPT ![id] = "running"] /\ reporter' = [reporter EXCEPT ![id] = "waiting"]
    BY <1>1, Zenon DEF Node!NewTask
  <2> HIDE DEF id
  <2>6. work' \in [Node!Ids -> Node!WorkState] BY <1>t, <2>2, <2>5, Zenon DEF Node!WorkState
  <2>7. reporter' \in [Node!Ids -> {"none", "waiting", "done"} \cup Node!Verdict]
    BY <1>t, <2>2, <2>5, Zenon
  <2> QED BY <1>t, <1>1, <2>3, <2>4, <2>6, <2>7, SMTT(30) DEF Node!NewTask
<1>2. ASSUME NEW k \in Tasks, Node!CancelTask(k) PROVE Node!TypeOK'
  <2>1. <<k, tasks[k]>> \in Node!Ids BY <1>t, <1>2, IdForm, Zenon DEF Node!CancelTask
  <2> QED BY <1>t, <1>2, <2>1, Zenon DEF Node!CancelTask
<1>3. ASSUME NEW id \in Node!Ids, Node!Work(id) PROVE Node!TypeOK'
  <2>1. work' \in [Node!Ids -> Node!WorkState]
    BY <1>t, <1>3, ZenonT(30) DEF Node!Work, Node!WorkEnds, Node!WorkCancelled, Node!WorkState
  <2> QED BY <1>t, <1>3, <2>1, Zenon DEF Node!Work, Node!WorkEnds, Node!WorkCancelled
<1>4. ASSUME NEW id \in Node!Ids, Node!Overdue(id) \/ Node!GraceOver(id) PROVE Node!TypeOK'
  BY <1>t, <1>4, Zenon DEF Node!Overdue, Node!GraceOver
<1>5. ASSUME NEW id \in Node!Ids, Node!Reporter(id) PROVE Node!TypeOK'
  <2>1. reporter' \in [Node!Ids -> {"none", "waiting", "done"} \cup Node!Verdict]
    BY <1>t, <1>5, ReporterSteps, ZenonT(30) DEF Node!ReporterEnds
  <2>2. tasks' \in [Tasks -> {Node!NoEntry} \cup Node!Attempts]
    <3>1. id[1] \in Tasks BY IdForm, Zenon
    <3>2. Node!DropIfCurrent(id[1], id[2]) \in {Node!NoEntry} \cup Node!Attempts
      BY <1>t, <3>1, Zenon DEF Node!DropIfCurrent
    <3>3. tasks' \in {tasks, [tasks EXCEPT ![id[1]] = Node!DropIfCurrent(id[1], id[2])]}
      BY <1>t, <1>5, ReporterSteps, Zenon DEF Node!ReporterEnds
    <3> QED BY <1>t, <3>1, <3>2, <3>3, Zenon
  <2>3. tries' \in [Node!Ids -> 0 .. MaxTries]
    BY <1>t, <1>5, ReporterSteps, NodeAssumption DEF Node!ReporterEnds
  <2>4. told' \subseteq Node!Ids \X Node!Verdict
    BY <1>t, <1>5, ReporterSteps
  <2>5. reporters_in_flight' \in Nat
    BY <1>t, <1>5, ReporterSteps, Counted, ZenonT(30) DEF Node!ReporterEnds, Reporting
  <2> QED BY <1>t, <1>5, ReporterSteps, <2>1, <2>2, <2>3, <2>4, <2>5, Zenon
<1>6. ASSUME NEW w \in batches, Node!Batch(w) PROVE Node!TypeOK'
  <2>1. w \in [ids: SUBSET Node!Ids, closing: BOOLEAN] BY <1>t, <1>6, Zenon
  <2>2. batches' \subseteq [ids: SUBSET Node!Ids, closing: BOOLEAN]
    BY <1>t, <1>6, <2>1, BatchSteps
  <2>3. told' \subseteq Node!Ids \X Node!Verdict
    BY <1>t, <1>6, <2>1, BatchSteps DEF Node!Verdict
  <2>4. reporters_in_flight' \in Nat
    BY <1>t, <1>6, BatchSteps, Counted, Zenon
  <2> QED BY <1>t, <1>6, BatchSteps, <2>2, <2>3, <2>4, Zenon
<1>7. CASE Node!InsertEntry
  <2>1. loop.id \in Node!Ids /\ loop' \in Node!LoopState
    BY <1>t, <1>7, LoopForms, Zenon DEF Node!InsertEntry
  <2>2. loop.id[1] \in Tasks /\ loop.id[2] \in Node!Attempts BY <2>1, IdForm, Zenon
  <2>3. tasks' \in [Tasks -> {Node!NoEntry} \cup Node!Attempts]
    BY <1>t, <1>7, <2>2, Zenon DEF Node!InsertEntry
  <2> QED BY <1>t, <1>7, <2>1, <2>3, Zenon DEF Node!InsertEntry
<1>8. CASE Node!LeaveDrained \/ Node!LeaveOverdue
  <2>1. loop' \in Node!LoopState
    BY <1>8, LoopForms, ZenonT(30) DEF Node!LeaveDrained, Node!LeaveOverdue
  <2> QED BY <1>t, <1>8, <2>1, ZenonT(30) DEF Node!LeaveDrained, Node!LeaveOverdue
<1>9. CASE Node!Sweep
  <2>1. tasks' \in [Tasks -> {Node!NoEntry} \cup Node!Attempts] BY <1>t, <1>9, Zenon DEF Node!Sweep
  <2>2. aborted_at' \subseteq Node!Ids /\ aborting' \subseteq Node!Ids /\ wedged' \subseteq Node!Ids
    BY <1>t, <1>9, SweepSteps, Zenon DEF Node!Sweep
  <2>3. batches' \subseteq [ids: SUBSET Node!Ids, closing: BOOLEAN]
    <3> DEFINE new == [ids |-> Node!Wedged, closing |-> TRUE]
    <3>1. new \in [ids: SUBSET Node!Ids, closing: BOOLEAN] BY <1>t, <1>9, SweepSteps, Zenon
    <3>2. batches' \in {batches, batches \cup {new}} BY <1>t, <1>9, SweepSteps, Zenon
    <3> HIDE DEF new
    <3> QED BY <1>t, <3>1, <3>2
  <2>4. reporters_in_flight' \in Nat /\ draining' \in {"no", "yes", "overdue"} /\ closed' \in BOOLEAN
    BY <1>t, <1>9, SweepSteps
  <2> QED BY <1>t, <1>9, <2>1, <2>2, <2>3, <2>4, Zenon DEF Node!Sweep, Node!SweepSays
<1>10. CASE \E ok \in BOOLEAN : Node!CloseReturns(ok)
  <2>1. loop' \in Node!LoopState BY <1>10, LoopForms, ZenonT(30) DEF Node!CloseReturns
  <2> QED BY <1>t, <1>10, <2>1, Zenon DEF Node!CloseReturns
<1>11. CASE Node!TokenCancelled \/ Node!DrainOverdue
  <2>1. loop' \in Node!LoopState
    BY <1>t, <1>11, LoopForms, Zenon DEF Node!TokenCancelled, Node!DrainOverdue
  <2> QED BY <1>t, <1>11, <2>1, ZenonT(30) DEF Node!TokenCancelled, Node!DrainOverdue
<1> QED
  BY <1>1, <1>2, <1>3, <1>4, <1>5, <1>6, <1>7, <1>8, <1>9, <1>10, <1>11, Zenon
     DEF Node!Next, Node!MainLoop

\* A fresh attempt has work and a reporter, and no other attempt is touched.
LEMMA GivenStep == ASSUME NodeInv, Node!Next PROVE GivenInv'
<1>t. Node!TypeOK /\ GivenInv BY Zenon DEF NodeInv
<1> USE DEF Node!attempt
<1>1. ASSUME NEW k \in Tasks, Node!NewTask(k) PROVE GivenInv'
  <2>1. PICK new \in Node!Ids : new = <<k, started[k] + 1>>
    BY <1>t, <1>1, NextId, Zenon DEF Node!NewTask
  <2>2. /\ work' = [work EXCEPT ![new] = "running"]
        /\ reporter' = [reporter EXCEPT ![new] = "waiting"]
        /\ started' = [started EXCEPT ![k] = @ + 1]
    BY <1>1, <2>1, Zenon DEF Node!NewTask
  <2>3. ASSUME NEW id \in Node!Ids, id # new
        PROVE  Node!Given(id)' <=> Node!Given(id)
    <3>1. id[1] # k \/ id[2] # started[k] + 1 BY <2>1, <2>3, IdForm, Zenon
    <3> QED BY <1>t, <2>2, <3>1, IdForm DEF Node!TypeOK, Node!Given, Node!Attempts
  <2>4. Node!Given(new)' BY <1>t, <2>1, <2>2 DEF Node!TypeOK, Node!Given
  <2> QED BY <1>t, <2>2, <2>3, <2>4, Zenon DEF GivenInv, Node!TypeOK
<1>2. ASSUME NEW id \in Node!Ids, Node!Work(id) PROVE GivenInv'
  BY <1>t, <1>2, ZenonT(30) DEF Node!Work, Node!WorkEnds, Node!WorkCancelled, GivenInv, Node!Given,
                    Node!Outcome, Node!TypeOK
<1>3. ASSUME NEW id \in Node!Ids, Node!Reporter(id) PROVE GivenInv'
  <2>1. UNCHANGED <<started, work>> /\ reporter[id] # "none"
    BY <1>3, ReporterSteps, Zenon DEF Node!Verdict
  <2>2. \/ reporter' = reporter
        \/ \E v \in Node!Verdict \cup {"done"} : reporter' = [reporter EXCEPT ![id] = v]
    BY <1>3, ReporterSteps, Zenon DEF Node!ReporterEnds
  <2> QED BY <1>t, <2>1, <2>2, ZenonT(30) DEF GivenInv, Node!Given, Node!TypeOK, Node!Verdict
<1>4. CASE UNCHANGED <<started, work, reporter>>
  BY <1>t, <1>4, Zenon DEF GivenInv, Node!Given
<1>5. ASSUME NEW w \in batches, Node!Batch(w) PROVE UNCHANGED <<started, work, reporter>>
  BY <1>t, <1>5, BatchSteps, Zenon
<1>6. \/ UNCHANGED <<started, work, reporter>>
      \/ \E k \in Tasks : Node!NewTask(k)
      \/ \E id \in Node!Ids : Node!Work(id) \/ Node!Reporter(id)
  BY <1>5, Zenon DEF Node!Next, Node!MainLoop, Node!CancelTask, Node!Overdue, Node!GraceOver,
     Node!InsertEntry, Node!LeaveDrained, Node!LeaveOverdue, Node!Sweep, Node!CloseReturns,
     Node!TokenCancelled, Node!DrainOverdue
<1> QED BY <1>1, <1>2, <1>3, <1>4, <1>6, Zenon

\* A reporter leaves its wait only when the work has ended, and no attempt is
\* started twice.
LEMMA EndedStep == ASSUME NodeInv, Node!Next PROVE EndedInv'
<1>t. Node!TypeOK /\ GivenInv /\ EndedInv BY Zenon DEF NodeInv
<1> USE DEF Node!attempt
<1>1. ASSUME NEW k \in Tasks, Node!NewTask(k) PROVE EndedInv'
  <2>1. PICK new \in Node!Ids : new = <<k, started[k] + 1>>
    BY <1>t, <1>1, NextId, Zenon DEF Node!NewTask
  <2>2. /\ work' = [work EXCEPT ![new] = "running"]
        /\ reporter' = [reporter EXCEPT ![new] = "waiting"]
    BY <1>1, <2>1, Zenon DEF Node!NewTask
  <2> QED BY <1>t, <2>2, Zenon DEF EndedInv, Node!TypeOK, Node!Verdict
<1>2. ASSUME NEW id \in Node!Ids, Node!Work(id) PROVE EndedInv'
  BY <1>t, <1>2, Zenon DEF Node!Work, Node!WorkEnds, Node!WorkCancelled, EndedInv, Node!Outcome,
                    Node!TypeOK
<1>3. ASSUME NEW id \in Node!Ids, Node!Reporter(id) PROVE EndedInv'
  <2>1. work' = work BY <1>3, ReporterSteps, Zenon
  <2>2. \/ reporter' = reporter
        \/ /\ work[id] # "running"
           /\ \E v \in Node!Verdict \cup {"done"} : reporter' = [reporter EXCEPT ![id] = v]
    BY <1>t, <1>3, ReporterSteps, Zenon DEF Node!ReporterEnds, EndedInv
  <2> QED BY <1>t, <2>1, <2>2, Zenon DEF EndedInv, Node!TypeOK
<1>4. CASE UNCHANGED <<work, reporter>>
  BY <1>t, <1>4, Zenon DEF EndedInv
<1>5. ASSUME NEW w \in batches, Node!Batch(w) PROVE UNCHANGED <<work, reporter>>
  BY <1>t, <1>5, BatchSteps, Zenon
<1>6. \/ UNCHANGED <<work, reporter>>
      \/ \E k \in Tasks : Node!NewTask(k)
      \/ \E id \in Node!Ids : Node!Work(id) \/ Node!Reporter(id)
  BY <1>5, ZenonT(30) DEF Node!Next, Node!MainLoop, Node!CancelTask, Node!Overdue, Node!GraceOver,
     Node!InsertEntry, Node!LeaveDrained, Node!LeaveOverdue, Node!Sweep, Node!CloseReturns,
     Node!TokenCancelled, Node!DrainOverdue
<1> QED BY <1>1, <1>2, <1>3, <1>4, <1>6, Zenon

\* Between the acceptance of a task and the insertion of its entry nothing
\* gives the task an entry.
LEMMA InsertStep == ASSUME NodeInv, Node!Next PROVE InsertInv'
<1>t. Node!TypeOK /\ InsertInv BY Zenon DEF NodeInv
<1> USE DEF Node!attempt
<1> SUFFICES ASSUME NEW id \in Node!Ids, loop' = Node!Insert(id)
             PROVE  tasks'[id[1]] = Node!NoEntry
  BY Zenon DEF InsertInv
<1>1. loop'.at = "insert" BY LoopForms, Zenon
<1>2. ASSUME NEW k \in Tasks, Node!NewTask(k) PROVE tasks'[id[1]] = Node!NoEntry
  <2>1. PICK new \in Node!Ids : new = <<k, started[k] + 1>>
    BY <1>t, <1>2, NextId, Zenon DEF Node!NewTask
  <2>2. loop' = Node!Insert(new) BY <1>2, <2>1, Zenon DEF Node!NewTask
  <2>3. id = new
    <3>1. Node!Insert(id).id = id /\ Node!Insert(new).id = new BY LoopForms, Zenon
    <3> QED BY <2>2, <3>1, Zenon
  <2> QED BY <1>2, <2>1, <2>3, Zenon DEF Node!NewTask
<1>3. CASE loop' = loop /\ \A k \in Tasks : tasks'[k] \in {tasks[k], Node!NoEntry}
  BY <1>t, <1>3, IdForm, ZenonT(30) DEF InsertInv
<1>4. ASSUME NEW w \in batches, Node!Batch(w) PROVE UNCHANGED <<loop, tasks>>
  BY <1>t, <1>4, BatchSteps, Zenon
<1>5. ASSUME NEW j \in Node!Ids, Node!Reporter(j)
      PROVE  loop' = loop /\ \A k \in Tasks : tasks'[k] \in {tasks[k], Node!NoEntry}
  <2>1. loop' = loop /\ tasks' \in {tasks, [tasks EXCEPT ![j[1]] = Node!DropIfCurrent(j[1], j[2])]}
    BY <1>5, ReporterSteps, Zenon DEF Node!ReporterEnds
  <2> QED BY <1>t, <2>1, IdForm DEF Node!DropIfCurrent, Node!TypeOK
<1>6. ASSUME NEW k \in Tasks, Node!CancelTask(k)
      PROVE  loop' = loop /\ \A j \in Tasks : tasks'[j] \in {tasks[j], Node!NoEntry}
  BY <1>t, <1>6, Zenon DEF Node!CancelTask, Node!TypeOK
<1>7. ASSUME Node!Sweep
      PROVE  loop' = loop /\ \A j \in Tasks : tasks'[j] \in {tasks[j], Node!NoEntry}
  BY <1>t, <1>7, Zenon DEF Node!Sweep, Node!TypeOK
<1>8. \/ loop' = loop /\ tasks' = tasks
      \/ \E k \in Tasks : Node!NewTask(k) \/ Node!CancelTask(k)
      \/ \E j \in Node!Ids : Node!Reporter(j)
      \/ Node!Sweep
  BY <1>1, <1>4, LoopForms, ZenonT(30)
     DEF Node!Next, Node!MainLoop, Node!Work, Node!WorkEnds, Node!WorkCancelled,
         Node!Overdue, Node!GraceOver, Node!InsertEntry, Node!LeaveDrained, Node!LeaveOverdue,
         Node!CloseReturns, Node!TokenCancelled, Node!DrainOverdue
<1> QED BY <1>2, <1>3, <1>5, <1>6, <1>7, <1>8, ZenonT(30)

\* The entry of running work goes only with an abort or a wedged report: an
\* older attempt's reporter leaves it (drop_if_current).
LEMMA TrackStep == ASSUME NodeInv, Node!Next PROVE Node!RunningWorkTracked'
<1>t. Node!TypeOK /\ InsertInv /\ EndedInv /\ Node!RunningWorkTracked BY Zenon DEF NodeInv
<1> USE DEF Node!attempt
<1> SUFFICES ASSUME NEW id \in Node!Ids,
                    Node!Up', work'[id] = "running", id \notin aborting'
             PROVE  tasks'[id[1]] = id[2] \/ loop' = Node!Insert(id)
  BY Zenon DEF Node!RunningWorkTracked
<1>i. id[1] \in Tasks /\ id[2] # Node!NoEntry /\ id = <<id[1], id[2]>> BY IdForm, Zenon
<1>1. ASSUME NEW k \in Tasks, Node!NewTask(k)
      PROVE  tasks'[id[1]] = id[2] \/ loop' = Node!Insert(id)
  <2>1. PICK new \in Node!Ids : new = <<k, started[k] + 1>>
    BY <1>t, <1>1, NextId, Zenon DEF Node!NewTask
  <2>2. /\ work' = [work EXCEPT ![new] = "running"] /\ loop' = Node!Insert(new)
        /\ tasks' = tasks /\ aborting' = aborting /\ loop = Node!AtLoop
    BY <1>1, <2>1, Zenon DEF Node!NewTask
  <2>3. Node!Up /\ loop # Node!Insert(id) BY <2>2, LoopForms, ZenonT(30) DEF Node!Up
  <2> QED BY <1>t, <2>2, <2>3, Zenon DEF Node!RunningWorkTracked, Node!TypeOK
<1>2. CASE Node!InsertEntry
  <2>1. loop.id \in Node!Ids /\ loop = Node!Insert(loop.id) /\ Node!Up
    BY <1>t, <1>2, LoopForms, ZenonT(30) DEF Node!InsertEntry, Node!TypeOK, Node!Up
  <2>2. PICK new \in Node!Ids : loop = Node!Insert(new) /\ loop.id = new BY <2>1, Zenon
  <2>3. /\ tasks' = [tasks EXCEPT ![new[1]] = new[2]]
        /\ UNCHANGED <<work, aborting>>
    BY <1>2, <2>2, ZenonT(30) DEF Node!InsertEntry
  <2>4. tasks[new[1]] = Node!NoEntry BY <1>t, <2>2, Zenon DEF InsertInv
  <2>5. tasks[id[1]] = id[2] \/ id = new
    BY <1>t, <2>1, <2>2, <2>3, LoopForms, ZenonT(30) DEF Node!RunningWorkTracked
  <2> QED BY <1>t, <1>i, <2>3, <2>4, <2>5, Zenon DEF Node!TypeOK
<1>3. ASSUME NEW k \in Tasks, Node!CancelTask(k)
      PROVE  tasks'[id[1]] = id[2] \/ loop' = Node!Insert(id)
  <2>1. /\ aborting' = aborting \cup {<<k, tasks[k]>>} /\ UNCHANGED <<work, loop>>
        /\ tasks' = [tasks EXCEPT ![k] = Node!NoEntry]
    BY <1>3, Zenon DEF Node!CancelTask
  <2>2. tasks[id[1]] = id[2] \/ loop = Node!Insert(id)
    BY <1>t, <2>1, Zenon DEF Node!RunningWorkTracked, Node!Up
  <2> QED BY <1>t, <1>i, <2>1, <2>2, Zenon DEF Node!TypeOK
<1>4. ASSUME NEW j \in Node!Ids, Node!Reporter(j)
      PROVE  tasks'[id[1]] = id[2] \/ loop' = Node!Insert(id)
  <2>1. /\ UNCHANGED <<work, aborting, loop>>
        /\ \/ tasks' = tasks
           \/ /\ tasks' = [tasks EXCEPT ![j[1]] = Node!DropIfCurrent(j[1], j[2])]
              /\ reporter[j] \in Node!Verdict
    BY <1>4, ReporterSteps, ZenonT(30) DEF Node!ReporterEnds
  <2>2. tasks[id[1]] = id[2] \/ loop = Node!Insert(id)
    BY <1>t, <2>1, Zenon DEF Node!RunningWorkTracked, Node!Up
  <2>3. reporter[id] \notin Node!Verdict BY <1>t, <2>1, Zenon DEF EndedInv
  <2>4. CASE tasks' = tasks BY <2>1, <2>2, <2>4, Zenon
  <2>5. CASE /\ tasks' = [tasks EXCEPT ![j[1]] = Node!DropIfCurrent(j[1], j[2])]
             /\ reporter[j] \in Node!Verdict
    <3>1. j # id BY <2>3, <2>5, Zenon
    <3>2. j[1] # id[1] \/ j[2] # id[2] BY <3>1, <1>i, IdForm, ZenonT(30)
    <3> QED BY <1>t, <1>i, <2>1, <2>2, <2>5, <3>2, IdForm, ZenonT(30) DEF Node!TypeOK, Node!DropIfCurrent
  <2> QED BY <2>1, <2>4, <2>5, Zenon
<1>5. CASE Node!Sweep
  <2>1. /\ UNCHANGED <<work, loop>> /\ aborting' = aborting \cup Node!TimedOut \cup Node!Wedged
        /\ tasks'[id[1]] = IF <<id[1], tasks[id[1]]>> \in Node!Finished \cup Node!Wedged
                           THEN Node!NoEntry ELSE tasks[id[1]]
    BY <1>5, <1>i, Zenon DEF Node!Sweep
  <2>2. tasks[id[1]] = id[2] \/ loop = Node!Insert(id)
    BY <1>t, <2>1, Zenon DEF Node!RunningWorkTracked, Node!Up
  <2>3. id \notin Node!Finished BY <1>t, <2>1, Zenon DEF EndedInv, Node!Finished
  <2> QED BY <1>i, <2>1, <2>2, <2>3, Zenon
<1>6. CASE /\ tasks' = tasks /\ Node!Up /\ (loop' = loop \/ loop = Node!AtLoop \/ loop = Node!AtClose)
           /\ \A j \in Node!Ids : work'[j] = "running" /\ j \notin aborting' =>
                                  work[j] = "running" /\ j \notin aborting
  BY <1>t, <1>6, LoopForms, ZenonT(30) DEF Node!RunningWorkTracked
<1>7. ASSUME NEW w \in batches, Node!Batch(w) PROVE UNCHANGED <<tasks, work, aborting, loop>> /\ Node!Up
  BY <1>t, <1>7, BatchSteps, Zenon
<1>8. ASSUME NEW j \in Node!Ids, Node!Work(j)
      PROVE /\ UNCHANGED <<tasks, loop, aborting>> /\ Node!Up
            /\ \A i \in Node!Ids : work'[i] = "running" => work[i] = "running"
  BY <1>t, <1>8, Zenon DEF Node!Work, Node!WorkEnds, Node!WorkCancelled, Node!TypeOK, Node!Outcome
<1>9. \/ /\ UNCHANGED <<tasks, work, aborting>> /\ Node!Up
         /\ (loop' = loop \/ loop = Node!AtLoop \/ loop = Node!AtClose)
      \/ \E k \in Tasks : Node!NewTask(k) \/ Node!CancelTask(k)
      \/ \E j \in Node!Ids : Node!Reporter(j) \/ Node!Work(j)
      \/ Node!Sweep \/ Node!InsertEntry
  BY <1>7, LoopForms, Zenon
     DEF Node!Next, Node!MainLoop, Node!Up, Node!Overdue, Node!GraceOver, Node!LeaveDrained,
         Node!LeaveOverdue, Node!CloseReturns, Node!TokenCancelled, Node!DrainOverdue
<1> QED BY <1>1, <1>2, <1>3, <1>4, <1>5, <1>6, <1>8, <1>9, ZenonT(30)

\* A reporter tells its own verdict; a batch speaks only of wedged work.
LEMMA ToldStep == ASSUME NodeInv, Node!Next PROVE ToldInv'
<1>t. Node!TypeOK /\ GivenInv /\ ToldInv /\ WedgedInv BY Zenon DEF NodeInv
<1> USE DEF Node!attempt, Node!history
<1>1. ASSUME NEW k \in Tasks, Node!NewTask(k) PROVE ToldInv'
  <2>1. PICK new \in Node!Ids : new = <<k, started[k] + 1>> /\ ~Node!Given(new)
    BY <1>t, <1>1, NextId, Zenon DEF Node!NewTask
  <2>2. /\ reporter' = [reporter EXCEPT ![new] = "waiting"] /\ UNCHANGED <<told, wedged>>
    BY <1>1, <2>1, Zenon DEF Node!NewTask
  <2>3. reporter[new] = "none" BY <1>t, <2>1, Zenon DEF GivenInv
  <2> QED BY <1>t, <2>2, <2>3, ZenonT(30) DEF ToldInv, Node!TypeOK, Node!Verdict
<1>2. ASSUME NEW j \in Node!Ids, Node!Reporter(j) PROVE ToldInv'
  <2>1. CASE reporter[j] = "waiting"
    <3>1. /\ UNCHANGED <<told, wedged>>
          /\ \E v \in Node!Verdict \cup {"done"} : reporter' = [reporter EXCEPT ![j] = v]
      BY <1>2, <2>1, ReporterSteps, Zenon DEF Node!Verdict
    <3> QED BY <1>t, <2>1, <3>1, ZenonT(30) DEF ToldInv, Node!TypeOK, Node!Verdict
  <2>2. CASE reporter[j] \in Node!Verdict
    <3>1. /\ wedged' = wedged /\ told' \in {told, told \cup {<<j, reporter[j]>>}}
          /\ reporter' \in {reporter, [reporter EXCEPT ![j] = "done"]}
      BY <1>2, <2>2, ReporterSteps, Zenon DEF Node!Verdict, Node!ReporterEnds
    <3>2. ASSUME NEW id \in Node!Ids \ wedged, NEW v \in Node!Verdict, <<id, v>> \in told'
          PROVE  \/ id = j /\ v = reporter[j]
                 \/ <<id, v>> \in told
      BY <3>1, <3>2
    <3>3. ASSUME NEW v \in Node!Verdict, <<j, v>> \in told, j \notin wedged PROVE v = reporter[j]
      BY <1>t, <2>2, <3>3, ZenonT(30) DEF ToldInv, Node!Verdict
    <3> QED BY <1>t, <2>2, <3>1, <3>2, <3>3 DEF ToldInv, Node!TypeOK
  <2> QED BY <1>2, <2>1, <2>2, ReporterSteps, Zenon
<1>3. ASSUME NEW w \in batches, Node!Batch(w) PROVE ToldInv'
  <2>1. /\ UNCHANGED <<reporter, wedged>>
        /\ \/ told' = told
           \/ \E id \in w.ids : told' = told \cup {<<id, "retry">>}
    BY <1>t, <1>3, BatchSteps, Zenon
  <2>2. w.ids \subseteq wedged BY <1>t, <1>3, Zenon DEF WedgedInv
  <2> QED BY <1>t, <2>1, <2>2, ZenonT(30) DEF ToldInv
<1>4. CASE UNCHANGED <<reporter, told>> /\ wedged \subseteq wedged'
  BY <1>t, <1>4, Zenon DEF ToldInv
<1>5. \/ UNCHANGED <<reporter, told>> /\ wedged \subseteq wedged'
      \/ \E k \in Tasks : Node!NewTask(k)
      \/ \E j \in Node!Ids : Node!Reporter(j)
      \/ \E w \in batches : Node!Batch(w)
  BY Zenon DEF Node!Next, Node!MainLoop, Node!CancelTask, Node!Work, Node!WorkEnds, Node!WorkCancelled,
     Node!Overdue, Node!GraceOver,
     Node!InsertEntry, Node!LeaveDrained, Node!LeaveOverdue, Node!Sweep, Node!SweepSays,
     Node!CloseReturns, Node!TokenCancelled, Node!DrainOverdue
<1> QED BY <1>1, <1>2, <1>3, <1>4, <1>5, Zenon

\* A node with wedged work is closed for good.
LEMMA WedgedStep == ASSUME NodeInv, Node!Next PROVE WedgedInv'
<1>t. Node!TypeOK /\ WedgedInv BY Zenon DEF NodeInv
<1> USE DEF Node!attempt, Node!drain, Node!history
<1>1. CASE Node!Sweep
  <2>1. /\ wedged' = wedged \cup Node!Wedged /\ closed' = (closed \/ Node!Wedged # {})
    BY <1>1, Zenon DEF Node!Sweep, Node!ClosedBySweep
  <2> DEFINE new == [ids |-> Node!Wedged, closing |-> TRUE]
  <2>2. batches' \in {batches, batches \cup {new}} BY <1>t, <1>1, SweepSteps, Zenon
  <2>3. new.ids = Node!Wedged BY Zenon
  <2> HIDE DEF new
  <2> QED BY <1>t, <2>1, <2>2, <2>3, ZenonT(30) DEF WedgedInv
<1>2. ASSUME NEW w \in batches, Node!Batch(w) PROVE WedgedInv'
  <2>1. UNCHANGED <<wedged, closed>>
    BY <1>t, <1>2, BatchSteps, Zenon
  <2>2. \A x \in batches' : x \in batches \/ x.ids \subseteq w.ids
    BY <1>t, <1>2, BatchSteps
  <2> QED BY <1>t, <1>2, <2>1, <2>2, Zenon DEF WedgedInv
<1>3. CASE UNCHANGED <<wedged, batches>> /\ (closed => closed')
  BY <1>t, <1>3, Zenon DEF WedgedInv
<1>4. ASSUME NEW j \in Node!Ids, Node!Reporter(j) PROVE UNCHANGED <<wedged, batches, closed>>
  BY <1>4, ReporterSteps, Zenon
<1>5. \/ UNCHANGED <<wedged, batches>> /\ (closed => closed')
      \/ Node!Sweep
      \/ \E w \in batches : Node!Batch(w)
  BY <1>4, ZenonT(30) DEF Node!Next, Node!MainLoop, Node!NewTask, Node!CancelTask, Node!Work, Node!WorkEnds,
     Node!WorkCancelled, Node!Overdue, Node!GraceOver, Node!InsertEntry, Node!LeaveDrained,
     Node!LeaveOverdue, Node!CloseReturns, Node!TokenCancelled, Node!DrainOverdue
<1> QED BY <1>1, <1>2, <1>3, <1>5, Zenon

\* Work is cancelled only under an abort, which a cancellation or a stamp of
\* the sweep precedes.
LEMMA AbortStep == ASSUME NodeInv, Node!Next PROVE AbortInv'
<1>t. Node!TypeOK /\ GivenInv /\ AbortInv BY Zenon DEF NodeInv
<1> USE DEF Node!attempt, Node!history
<1>1. ASSUME NEW k \in Tasks, Node!NewTask(k) PROVE AbortInv'
  <2>1. PICK new \in Node!Ids : new = <<k, started[k] + 1>>
    BY <1>t, <1>1, NextId, Zenon DEF Node!NewTask
  <2>2. work' = [work EXCEPT ![new] = "running"] /\ UNCHANGED <<aborting, aborted_at, age, recalled>>
    BY <1>1, <2>1, Zenon DEF Node!NewTask
  <2> QED BY <1>t, <2>2, Zenon DEF AbortInv, Node!TypeOK
<1>2. ASSUME NEW k \in Tasks, Node!CancelTask(k) PROVE AbortInv'
  BY <1>t, <1>2, Zenon DEF Node!CancelTask, AbortInv
<1>3. ASSUME NEW j \in Node!Ids, Node!Work(j) PROVE AbortInv'
  BY <1>t, <1>3, Zenon DEF Node!Work, Node!WorkEnds, Node!WorkCancelled, AbortInv, Node!TypeOK, Node!Outcome
<1>4. ASSUME NEW j \in Node!Ids, Node!Overdue(j) \/ Node!GraceOver(j) PROVE AbortInv'
  BY <1>t, <1>4, Zenon DEF Node!Overdue, Node!GraceOver, AbortInv, Node!TypeOK
<1>5. CASE Node!Sweep
  <2>1. /\ aborted_at' = aborted_at \cup Node!TimedOut
        /\ aborting' = aborting \cup Node!TimedOut \cup Node!Wedged
        /\ UNCHANGED <<work, age, recalled>>
    BY <1>5, Zenon DEF Node!Sweep
  <2>2. Node!Wedged \subseteq aborted_at BY <1>t, Zenon DEF AbortInv, Node!Wedged, Node!Entries
  <2> QED BY <1>t, <2>1, <2>2, Zenon DEF AbortInv
<1>6. CASE UNCHANGED <<work, aborting, aborted_at, age, recalled>>
  BY <1>t, <1>6, Zenon DEF AbortInv
<1>7. ASSUME NEW j \in Node!Ids, Node!Reporter(j)
      PROVE  UNCHANGED <<work, aborting, aborted_at, age, recalled>>
  BY <1>7, ReporterSteps, Zenon
<1>8. ASSUME NEW w \in batches, Node!Batch(w)
      PROVE  UNCHANGED <<work, aborting, aborted_at, age, recalled>>
  BY <1>t, <1>8, BatchSteps, Zenon
<1>9. \/ UNCHANGED <<work, aborting, aborted_at, age, recalled>>
      \/ \E k \in Tasks : Node!NewTask(k) \/ Node!CancelTask(k)
      \/ \E j \in Node!Ids : Node!Work(j) \/ Node!Overdue(j) \/ Node!GraceOver(j)
      \/ Node!Sweep
  BY <1>7, <1>8, Zenon DEF Node!Next, Node!MainLoop, Node!InsertEntry, Node!LeaveDrained,
     Node!LeaveOverdue, Node!CloseReturns, Node!TokenCancelled, Node!DrainOverdue
<1> QED BY <1>1, <1>2, <1>3, <1>4, <1>5, <1>6, <1>9, Zenon

\* A reporter that ends has told, has spent its budget, or had nothing to say
\* of recalled work.
LEMMA SettledStep == ASSUME NodeInv, Node!Next PROVE SettledInv'
<1>t. Node!TypeOK /\ GivenInv /\ EndedInv /\ AbortInv /\ SettledInv BY Zenon DEF NodeInv
<1> USE DEF Node!attempt, Node!history
<1>1. ASSUME NEW k \in Tasks, Node!NewTask(k) PROVE SettledInv'
  <2>1. PICK new \in Node!Ids : new = <<k, started[k] + 1>> /\ ~Node!Given(new)
    BY <1>t, <1>1, NextId, Zenon DEF Node!NewTask
  <2>2. /\ work' = [work EXCEPT ![new] = "running"]
        /\ reporter' = [reporter EXCEPT ![new] = "waiting"]
        /\ UNCHANGED <<told, tries, recalled>>
    BY <1>1, <2>1, Zenon DEF Node!NewTask
  <2> QED BY <1>t, <2>2, ZenonT(30) DEF SettledInv, Node!TypeOK, Node!Told, Node!GivenUp
<1>2. ASSUME NEW j \in Node!Ids, Node!Work(j) PROVE SettledInv'
  <2>1. work[j] = "running" /\ \A i \in Node!Ids \ {j} : work'[i] = work[i]
    BY <1>t, <1>2, Zenon DEF Node!Work, Node!WorkEnds, Node!WorkCancelled, Node!TypeOK
  <2>2. UNCHANGED <<reporter, told, tries, recalled>>
    BY <1>2, Zenon DEF Node!Work, Node!WorkEnds, Node!WorkCancelled
  <2>3. reporter[j] # "done" BY <1>t, <2>1, Zenon DEF EndedInv
  <2> QED BY <1>t, <2>1, <2>2, <2>3, Zenon DEF SettledInv, Node!Told, Node!GivenUp
<1>3. ASSUME NEW j \in Node!Ids, Node!Reporter(j) PROVE SettledInv'
  <2>1. UNCHANGED <<work, recalled>> /\ told \subseteq told' BY <1>3, ReporterSteps, Zenon
  <2>2. \A i \in Node!Ids \ {j} : reporter'[i] = reporter[i] /\ tries'[i] = tries[i]
    BY <1>t, <1>3, ReporterSteps, ZenonT(30) DEF Node!ReporterEnds, Node!TypeOK
  <2>3. ASSUME reporter'[j] = "done"
        PROVE  Node!Told(j)' \/ Node!GivenUp(j)' \/ (work[j] = "cancelled" /\ j \in recalled)
    <3>1. CASE reporter[j] = "waiting"
      <4>1. work[j] = "cancelled" /\ j \notin aborted_at
        BY <1>t, <1>3, <2>3, <3>1, ReporterSteps, Zenon DEF Node!TypeOK, Node!Verdict
      <4> QED BY <1>t, <4>1, Zenon DEF AbortInv
    <3>2. CASE reporter[j] \in Node!Verdict
      <4>1. Node!ReporterEnds(j) \/ reporter' = reporter
        BY <1>3, <3>2, ReporterSteps, Zenon DEF Node!Verdict
      <4>2. reporter[j] # "done" BY <3>2, Zenon DEF Node!Verdict
      <4>3. \/ told' = told \cup {<<j, reporter[j]>>}
            \/ tries[j] = MaxTries /\ tries' = tries
        BY <1>3, <2>3, <3>2, <4>2, ReporterSteps, Zenon DEF Node!Verdict
      <4> QED BY <2>3, <3>2, <4>3, Zenon DEF Node!Told, Node!GivenUp
    <3> QED BY <1>3, <3>1, <3>2, ReporterSteps, Zenon
  <2> QED BY <1>t, <2>1, <2>2, <2>3, Zenon DEF SettledInv, Node!Told, Node!GivenUp
<1>4. CASE UNCHANGED <<work, reporter, tries>> /\ told \subseteq told' /\ recalled \subseteq recalled'
  BY <1>t, <1>4, ZenonT(30) DEF SettledInv, Node!Told, Node!GivenUp
<1>5. ASSUME NEW w \in batches, Node!Batch(w)
      PROVE  UNCHANGED <<work, reporter, tries, recalled>> /\ told \subseteq told'
  BY <1>t, <1>5, BatchSteps, Zenon
<1>6. \/ UNCHANGED <<work, reporter, tries>> /\ told \subseteq told' /\ recalled \subseteq recalled'
      \/ \E k \in Tasks : Node!NewTask(k)
      \/ \E j \in Node!Ids : Node!Work(j) \/ Node!Reporter(j)
  BY <1>5, Zenon DEF Node!Next, Node!MainLoop, Node!CancelTask, Node!Overdue, Node!GraceOver,
     Node!InsertEntry, Node!LeaveDrained, Node!LeaveOverdue, Node!Sweep, Node!SweepSays,
     Node!CloseReturns, Node!TokenCancelled, Node!DrainOverdue
<1> QED BY <1>1, <1>2, <1>3, <1>4, <1>6, Zenon

\* Every reporter and every batch that starts is counted, and counted out once.
LEMMA CountStep == ASSUME NodeInv, Node!Next PROVE CountInv'
<1>t. Node!TypeOK /\ GivenInv /\ CountInv BY Zenon DEF NodeInv
<1>c. Fits(Owed, reporters_in_flight) /\ reporters_in_flight \in Nat
  BY <1>t, Zenon DEF CountInv, Node!TypeOK
<1> USE DEF Node!attempt
<1>1. ASSUME NEW k \in Tasks, Node!NewTask(k) PROVE CountInv'
  <2>1. PICK new \in Node!Ids : new = <<k, started[k] + 1>>
    BY <1>t, <1>1, NextId, Zenon DEF Node!NewTask
  <2>2. /\ reporter' = [reporter EXCEPT ![new] = "waiting"] /\ batches' = batches
        /\ reporters_in_flight' = reporters_in_flight + 1
    BY <1>1, <2>1, Zenon DEF Node!NewTask
  <2>3. Reporting' = Reporting \cup {new} BY <1>t, <2>2, Zenon DEF Reporting, Node!TypeOK
  <2>4. Owed' = Owed \cup {<<"reporter", new>>} BY <2>2, <2>3 DEF Owed
  <2> QED BY <1>c, <2>2, <2>4, OneMore, Zenon DEF CountInv
<1>2. ASSUME NEW j \in Node!Ids, Node!Reporter(j) PROVE CountInv'
  <2>1. batches' = batches /\ j \in Reporting BY <1>2, ReporterSteps, Zenon DEF Reporting
  <2>2. \/ reporters_in_flight' = reporters_in_flight /\ Reporting' = Reporting
        \/ reporters_in_flight' = reporters_in_flight - 1 /\ Reporting' = Reporting \ {j}
    <3>1. CASE reporter' = reporter /\ reporters_in_flight' = reporters_in_flight
      BY <3>1, Zenon DEF Reporting
    <3>2. CASE /\ \E v \in Node!Verdict : reporter' = [reporter EXCEPT ![j] = v]
               /\ reporters_in_flight' = reporters_in_flight
      BY <1>t, <2>1, <3>2, ZenonT(30) DEF Reporting, Node!TypeOK
    <3>3. CASE /\ reporter' = [reporter EXCEPT ![j] = "done"]
               /\ reporters_in_flight' = reporters_in_flight - 1
      BY <1>t, <2>1, <3>3, Zenon DEF Reporting, Node!TypeOK, Node!Verdict
    <3> QED BY <1>2, <3>1, <3>2, <3>3, ReporterSteps, ZenonT(30) DEF Node!ReporterEnds
  <2>3. CASE reporters_in_flight' = reporters_in_flight /\ Reporting' = Reporting
    BY <1>c, <2>1, <2>3, Zenon DEF CountInv, Owed
  <2>4. CASE reporters_in_flight' = reporters_in_flight - 1 /\ Reporting' = Reporting \ {j}
    <3>1. <<"reporter", j>> \in Owed /\ Owed' = Owed \ {<<"reporter", j>>} BY <2>1, <2>4 DEF Owed
    <3> QED BY <1>c, <2>4, <3>1, OneLess, Zenon DEF CountInv
  <2> QED BY <2>2, <2>3, <2>4, Zenon
<1>3. ASSUME NEW w \in batches, Node!Batch(w) PROVE CountInv'
  <2>1. Reporting' = Reporting BY <1>t, <1>3, BatchSteps, Zenon DEF Reporting
  <2>4. <<"batch", w>> \in Owed BY <1>3, Zenon DEF Owed
  <2>2. CASE reporters_in_flight' = reporters_in_flight - 1 /\ batches' = batches \ {w}
    <3>1. Owed' = Owed \ {<<"batch", w>>} BY <2>1, <2>2 DEF Owed
    <3> QED BY <1>c, <2>2, <2>4, <3>1, OneLess, Zenon DEF CountInv
  <2>3. ASSUME NEW x, batches' = (batches \ {w}) \cup {x}, UNCHANGED reporters_in_flight
        PROVE  CountInv'
    <3>1. Owed' = (Owed \ {<<"batch", w>>}) \cup {<<"batch", x>>} BY <2>1, <2>3 DEF Owed
    <3>2. /\ reporters_in_flight - 1 \in Nat
          /\ Fits(Owed \ {<<"batch", w>>}, reporters_in_flight - 1)
      BY <1>c, <2>4, OneLess, Zenon
    <3>3. Fits(Owed', (reporters_in_flight - 1) + 1) BY <3>1, <3>2, OneMore, Zenon
    <3> QED BY <1>c, <2>3, <3>3 DEF CountInv
  <2> QED BY <1>t, <1>3, <2>2, <2>3, BatchSteps, ZenonT(30)
<1>4. CASE Node!Sweep
  <2>1. Reporting' = Reporting BY <1>4, Zenon DEF Node!Sweep, Reporting
  <2>2. CASE UNCHANGED <<batches, reporters_in_flight>> BY <1>c, <2>1, <2>2, Zenon DEF CountInv, Owed
  <2>3. ASSUME NEW x, batches' = batches \cup {x}, reporters_in_flight' = reporters_in_flight + 1
        PROVE  CountInv'
    <3>1. Owed' = Owed \cup {<<"batch", x>>} BY <2>1, <2>3 DEF Owed
    <3> QED BY <1>c, <2>3, <3>1, OneMore, Zenon DEF CountInv
  <2> QED BY <1>t, <1>4, <2>2, <2>3, SweepSteps, Zenon
<1>5. CASE UNCHANGED <<reporter, batches, reporters_in_flight>>
  BY <1>c, <1>5, Zenon DEF CountInv, Owed, Reporting
<1>6. \/ UNCHANGED <<reporter, batches, reporters_in_flight>>
      \/ \E k \in Tasks : Node!NewTask(k)
      \/ \E j \in Node!Ids : Node!Reporter(j)
      \/ \E w \in batches : Node!Batch(w)
      \/ Node!Sweep
  BY ZenonT(30) DEF Node!Next, Node!MainLoop, Node!CancelTask, Node!Work, Node!WorkEnds, Node!WorkCancelled,
     Node!Overdue, Node!GraceOver, Node!InsertEntry, Node!LeaveDrained, Node!LeaveOverdue,
     Node!CloseReturns, Node!TokenCancelled, Node!DrainOverdue
<1> QED BY <1>1, <1>2, <1>3, <1>4, <1>5, <1>6, Zenon

\* When nothing is counted, every accepted attempt is settled.
LEMMA NothingCounted ==
    ASSUME NodeInv, reporters_in_flight = 0, NEW id \in Node!Ids, Node!Given(id)
    PROVE  Node!Told(id) \/ Node!GivenUp(id) \/ (work[id] = "cancelled" /\ id \in recalled)
<1>1. id \notin Reporting BY Counted, Zenon
<1>2. reporter[id] = "done" BY <1>1, Zenon DEF NodeInv, GivenInv, Reporting, Node!TypeOK
<1> QED BY <1>2, Zenon DEF NodeInv, SettledInv

\* The drain ends only when nothing is counted, and nothing moves after it.
LEMMA DrainStep == ASSUME NodeInv, Node!Next PROVE Node!DrainedOwesNothing'
<1>t. Node!TypeOK BY Zenon DEF NodeInv
<1> USE DEF Node!attempt, Node!drain, Node!history
<1> SUFFICES ASSUME loop' = Node!Left("drained"), NEW id \in Node!Ids, Node!Given(id)'
             PROVE  Node!Told(id)' \/ Node!GivenUp(id)' \/ (work'[id] = "cancelled" /\ id \in recalled')
  BY Zenon DEF Node!DrainedOwesNothing
<1>l. Node!Left("drained").at = "left" BY LoopForms, Zenon
<1>1. loop # loop'
  <2>1. ASSUME NEW w \in batches, Node!Batch(w) PROVE Node!Up BY <1>t, <2>1, BatchSteps, Zenon
  <2>2. ASSUME NEW j \in Node!Ids, Node!Reporter(j) PROVE Node!Up BY <2>2, ReporterSteps, ZenonT(30)
  <2>3. loop.at # "left"
    BY <2>1, <2>2, LoopForms, ZenonT(30)
       DEF Node!Next, Node!MainLoop, Node!Up, Node!NewTask, Node!CancelTask, Node!Work,
           Node!WorkEnds, Node!WorkCancelled, Node!Overdue, Node!GraceOver, Node!InsertEntry,
           Node!LeaveDrained, Node!LeaveOverdue, Node!Sweep, Node!CloseReturns,
           Node!TokenCancelled, Node!DrainOverdue
  <2> QED BY <1>l, <2>3, Zenon
<1>2. Node!LeaveDrained \/ \E ok \in BOOLEAN : Node!CloseReturns(ok) /\ Node!NothingOwed
  <2>1. /\ loop' # Node!AtLoop /\ loop' # Node!AtClose
        /\ \A j \in Node!Ids : loop' # Node!Insert(j)
    BY <1>l, LoopForms, Zenon
  <2>2. loop' # Node!Left("drain timeout") BY ZenonT(30) DEF Node!Left
  <2>3. ASSUME NEW k \in Tasks, Node!NewTask(k) PROVE FALSE
    BY <1>t, <2>1, <2>3, NextId, ZenonT(30) DEF Node!NewTask
  <2>4. ASSUME NEW w \in batches, Node!Batch(w) PROVE FALSE BY <1>t, <1>1, <2>4, BatchSteps, Zenon
  <2>5. ASSUME NEW j \in Node!Ids, Node!Reporter(j) PROVE FALSE BY <1>1, <2>5, ReporterSteps, Zenon
  <2>6. ASSUME NEW j \in Node!Ids, Node!Work(j) \/ Node!Overdue(j) \/ Node!GraceOver(j) PROVE FALSE
    BY <1>1, <2>6, Zenon DEF Node!Work, Node!WorkEnds, Node!WorkCancelled, Node!Overdue, Node!GraceOver
  <2>7. CASE Node!MainLoop
    BY <1>1, <2>1, <2>2, <2>7, ZenonT(30)
       DEF Node!MainLoop, Node!InsertEntry, Node!LeaveOverdue, Node!Sweep, Node!CloseReturns
  <2>8. CASE Node!TokenCancelled \/ Node!DrainOverdue
    BY <1>1, <2>1, <2>8, Zenon DEF Node!TokenCancelled, Node!DrainOverdue
  <2>9. ASSUME NEW k \in Tasks, Node!CancelTask(k) PROVE FALSE
    BY <1>1, <2>9, Zenon DEF Node!CancelTask
  <2> QED BY <2>3, <2>4, <2>5, <2>6, <2>7, <2>8, <2>9, Zenon DEF Node!Next
<1>3. reporters_in_flight = 0 /\ UNCHANGED <<started, told, reporter, tries, work, recalled>>
  BY <1>2, Zenon DEF Node!LeaveDrained, Node!CloseReturns, Node!NothingOwed
<1>4. Node!Given(id) BY <1>3, Zenon DEF Node!Given
<1> QED BY <1>3, <1>4, NothingCounted, Zenon DEF Node!Told, Node!GivenUp

\* Each step of the main loop, of a task and of a reporter keeps the invariant.
LEMMA NodeStep == NodeInv /\ [Node!Next]_Node!vars => NodeInv'
<1> SUFFICES ASSUME NodeInv, [Node!Next]_Node!vars PROVE NodeInv'
  BY Zenon
<1>1. CASE Node!Next
  BY <1>1, NodeTypes, TrackStep, GivenStep, InsertStep, EndedStep, ToldStep, WedgedStep,
     AbortStep, SettledStep, CountStep, DrainStep, Zenon DEF NodeInv
<1>2. CASE UNCHANGED Node!vars
  <2> USE <1>2 DEF Node!vars, NodeInv
  <2>1. Node!TypeOK' BY Zenon DEF Node!TypeOK
  <2>2. Node!RunningWorkTracked' BY Zenon DEF Node!RunningWorkTracked, Node!Up
  <2>3. GivenInv' /\ InsertInv' /\ EndedInv'
    BY Zenon DEF GivenInv, Node!Given, InsertInv, EndedInv
  <2>4. ToldInv' /\ WedgedInv' /\ AbortInv' BY Zenon DEF ToldInv, WedgedInv, AbortInv
  <2>5. SettledInv' BY ZenonT(30) DEF SettledInv, Node!Told, Node!GivenUp
  <2>6. CountInv' BY Zenon DEF CountInv, Owed, Reporting
  <2>7. Node!DrainedOwesNothing'
    BY Zenon DEF Node!DrainedOwesNothing, Node!Given, Node!Told, Node!GivenUp
  <2> QED BY <2>1, <2>2, <2>3, <2>4, <2>5, <2>6, <2>7, Zenon
<1> QED BY <1>1, <1>2, Zenon

\* The invariant of the main loop, for every set of tasks and every bound on
\* deliveries and tries.
THEOREM NodeSafe == Node!Spec => []NodeInv
  BY NodeInit, NodeStep, PTL DEF Node!Spec

\* Running work is tracked until it is aborted, whatever older attempts of the
\* task are still reporting (drop_if_current, the sweep).
THEOREM WorkTracked == Node!Spec => []RunningWorkTracked
<1>1. NodeInv => RunningWorkTracked BY Zenon DEF NodeInv, RunningWorkTracked
<1> QED BY <1>1, NodeSafe, PTL

\* Two verdicts reach the coordinator for wedged work only, and a node that
\* leaves drained owes no report (report_for, reporters_in_flight).
THEOREM ReportsAreSettled == Node!Spec => []ReportsSettled
<1>1. NodeInv => Node!OneVerdict BY Zenon DEF NodeInv, ToldInv, Node!OneVerdict
<1>2. NodeInv => ReportsSettled BY <1>1, Zenon DEF NodeInv, ReportsSettled
<1> QED BY <1>2, NodeSafe, PTL

\* While wedged work burns no attempt is started: the sweep that gave up on it
\* closed the node for good (spawn_wedged_report).
THEOREM WedgedWorkAlone == Node!Spec => NothingBesideWedgedWork
<1>1. ASSUME NodeInv, [Node!Next]_Node!vars
      PROVE  [\A id \in wedged : work[id] = "running" => started' = started]_Node!vars
  <2>1. wedged # {} => closed BY <1>1, Zenon DEF NodeInv, WedgedInv
  <2>2. ASSUME NEW w \in batches, Node!Batch(w) PROVE started' = started
    BY <1>1, <2>2, BatchSteps, Zenon DEF NodeInv
  <2>3. ASSUME NEW j \in Node!Ids, Node!Reporter(j) PROVE started' = started
    BY <1>1, <2>3, ReporterSteps, Zenon
  <2>4. started' = started \/ \E k \in Tasks : Node!NewTask(k)
    BY <1>1, <2>2, <2>3, ZenonT(30)
       DEF Node!Next, Node!MainLoop, Node!vars, Node!CancelTask, Node!Work, Node!WorkEnds,
           Node!WorkCancelled, Node!Overdue, Node!GraceOver, Node!InsertEntry, Node!LeaveDrained,
           Node!LeaveOverdue, Node!Sweep, Node!CloseReturns, Node!TokenCancelled,
           Node!DrainOverdue
  <2> QED BY <2>1, <2>4, ZenonT(30) DEF Node!NewTask
<1>2. Node!Spec => [][\A id \in wedged : work[id] = "running" => started' = started]_Node!vars
  BY <1>1, NodeSafe, PTL DEF Node!Spec
<1> QED BY <1>2, Zenon DEF NothingBesideWedgedWork, Node!NothingBesideWedgedWork

-----------------------------------------------------------------------------
(* The beats.                                                              *)

\* A registered worker starts within the bounds.
LEMMA BeatsInit == Init => BeatsInv
<1> SUFFICES ASSUME Init PROVE BeatsInv
  BY Zenon
<1> USE BeatsAssumption DEF Init, Idle, Stale
<1>1. hung \in BOOLEAN BY Zenon
<1>2. TypeOK BY <1>1, SMT DEF TypeOK
<1>3. ThreadBound BY SMT DEF ThreadBound
<1>4. StreamBound BY SMT DEF StreamBound, MinTimeout
<1> QED BY <1>2, <1>3, <1>4, Zenon DEF BeatsInv

\* Each step keeps the bounds: time passes only while a timer is running, and
\* a landing restarts the count (heartbeat_loop, the ServerHeartbeat arm).
LEMMA BeatsStep == BeatsInv /\ [Next]_vars => BeatsInv'
<1> SUFFICES ASSUME BeatsInv, [Next]_vars PROVE BeatsInv'
  BY Zenon
<1> USE BeatsAssumption
    DEF BeatsInv, TypeOK, ThreadBound, StreamBound, Idle, Stale, MinTimeout
<1>1. CASE StartBeat BY <1>1, SMT DEF StartBeat
<1>2. CASE BeatLands BY <1>2, SMT DEF BeatLands, Record
<1>3. CASE BeatFails BY <1>3, SMT DEF BeatFails, Record
<1>4. CASE ThreadHangs BY <1>4, Zenon DEF ThreadHangs
<1>5. CASE PromptArrives BY <1>5, SMT DEF PromptArrives, Covered
<1>6. CASE PromptLost BY <1>6, SMT DEF PromptLost
<1>7. CASE CoverLands BY <1>7, SMT DEF CoverLands
<1>8. CASE CoverFails BY <1>8, SMT DEF CoverFails
<1>9. CASE Second
  <2>1. TypeOK'
    BY <1>9, SMT DEF Second, Due, Older, Sooner, TickerRuns
  <2>2. ThreadBound'
    BY <1>9, SMT DEF Second, Due, Sooner, TickerRuns
  <2>3. StreamBound'
    BY <1>9, SMTT(30) DEF Second, Due, Older, Sooner, TickerRuns
  <2> QED BY <2>1, <2>2, <2>3, Zenon
<1>10. CASE UNCHANGED vars BY <1>10, Zenon DEF vars
<1> QED
  BY <1>1, <1>2, <1>3, <1>4, <1>5, <1>6, <1>7, <1>8, <1>9, <1>10, ZenonT(30) DEF Next

\* The bounds hold in every state a worker reaches.
THEOREM BeatsBounded == Spec => []BeatsInv
  BY BeatsInit, BeatsStep, PTL DEF Spec

\* One working path keeps a worker from being evicted: no silence reaches
\* MIN_WORKER_HEARTBEAT_TIMEOUT.
THEOREM OnePathIsEnough == Spec => []NeverEvictedWhileOnePathWorks
<1>1. BeatsInv => NeverEvictedWhileOnePathWorks
  BY BeatsAssumption, SMT
     DEF BeatsInv, TypeOK, ThreadBound, StreamBound, Idle, Stale, MinTimeout,
         NeverEvictedWhileOnePathWorks
<1> QED BY <1>1, BeatsBounded, PTL

\* A working heartbeat thread needs no help from the delivery stream.
THEOREM ThreadIsEnough == Spec => []ThreadAloneSuffices
<1>1. BeatsInv => ThreadAloneSuffices
  BY BeatsAssumption, SMT
     DEF BeatsInv, TypeOK, ThreadBound, Idle, ThreadAloneSuffices
<1> QED BY <1>1, BeatsBounded, PTL

-----------------------------------------------------------------------------
(* The watch over the stream.                                              *)

\* Without a flowing stream there is no new message; an outage is timed.
OutageInv == (reachable => outage = 0) /\ (~reachable => stream # "flowing")

\* During an outage the heartbeat is older than the outage, or a message the
\* stream had left behind was read since, which was progress.
QuietInv == ~reachable => heartbeat >= outage \/ progress <= heartbeat

\* The last tick found a recent heartbeat, or a connect has failed since.
TickInv == heartbeat <= HeartbeatQuiet + lastTick \/ progress <= lastTick

\* What waits has waited no longer than since the last tick; or it is in the
\* channel, which the loop reads before it ticks; or it is in the pump and the
\* loop has just ticked.
UnreadInv ==
    /\ ~pumped /\ ~buffered => unread = 0
    /\ \/ unread <= lastTick \/ progress <= lastTick \/ buffered
       \/ pumped /\ ~stalled /\ tick > 0

WatchInv ==
    /\ Watchdog!TypeOK /\ OutageInv /\ QuietInv /\ TickInv /\ UnreadInv
    /\ Watchdog!StallIsNoSilence /\ Watchdog!OutageIsNoWedge

\* A worker that has just connected has heard a heartbeat and waits for none.
LEMMA WatchInit == Watchdog!Init => WatchInv
<1> SUFFICES ASSUME Watchdog!Init PROVE WatchInv
  BY Zenon
<1> USE WatchAssumption DEF Watchdog!Init
<1>0. reachable \in BOOLEAN /\ pumped \in BOOLEAN /\ buffered \in BOOLEAN /\ stalled \in BOOLEAN /\ exited \in BOOLEAN
  BY Zenon
<1>1. Watchdog!TypeOK BY <1>0, SMT DEF Watchdog!TypeOK
<1>2. OutageInv /\ QuietInv /\ TickInv /\ UnreadInv
  BY DEF OutageInv, QuietInv, TickInv, UnreadInv
<1>3. Watchdog!StallIsNoSilence /\ Watchdog!OutageIsNoWedge
  BY Zenon DEF Watchdog!StallIsNoSilence, Watchdog!OutageIsNoWedge
<1> QED BY <1>1, <1>2, <1>3, Zenon DEF WatchInv

\* Each step of the network, of the runtime and of the loop keeps the invariant.
LEMMA WatchStep == WatchInv /\ [Watchdog!Next]_Watchdog!vars => WatchInv'
<1> SUFFICES ASSUME WatchInv, [Watchdog!Next]_Watchdog!vars PROVE WatchInv'
  BY Zenon
<1> USE WatchAssumption
    DEF WatchInv, Watchdog!TypeOK, OutageInv, QuietInv, TickInv, UnreadInv,
        Watchdog!StallIsNoSilence, Watchdog!OutageIsNoWedge, Watchdog!env
<1>1. CASE ~exited /\ Watchdog!Environment
  <2>1. UNCHANGED <<pumped, buffered, asleep, tick, lastTick, progress, heartbeat, unread, exited>>
    BY <1>1, Zenon DEF Watchdog!Environment
  <2>2. CASE Watchdog!StreamBreaks
    <3>1. /\ stream' \in {"silent", "closed"} /\ reachable' \in BOOLEAN
          /\ UNCHANGED <<streamPrompt, stalled, outage>>
      BY <2>2, Zenon DEF Watchdog!StreamBreaks
    <3>2. reachable' => reachable BY <2>2, Zenon DEF Watchdog!StreamBreaks
    <3> QED BY <1>1, <2>1, <2>2, <3>1, <3>2 DEF Watchdog!StreamBreaks
  <2>3. CASE Watchdog!CoordinatorLeaves
    <3>1. reachable' \in BOOLEAN /\ outage = 0 BY <2>3, Zenon DEF Watchdog!CoordinatorLeaves
    <3>2. stream # "flowing" /\ UNCHANGED <<stream, streamPrompt, stalled, outage>>
      BY <2>3, Zenon DEF Watchdog!CoordinatorLeaves
    <3> QED BY <1>1, <2>1, <3>1, <3>2
  <2>4. CASE Watchdog!CoordinatorReturns BY <1>1, <2>1, <2>4 DEF Watchdog!CoordinatorReturns
  <2>5. CASE Watchdog!StallOrWake BY <1>1, <2>1, <2>5, Zenon DEF Watchdog!StallOrWake
  <2> QED BY <1>1, <2>2, <2>3, <2>4, <2>5, Zenon DEF Watchdog!Environment
<1>2. CASE ~exited /\ Watchdog!PromptArrives BY <1>2 DEF Watchdog!PromptArrives
<1>3. CASE ~exited /\ Watchdog!Pump BY <1>3, Zenon DEF Watchdog!Pump
<1>4. CASE ~exited /\ Watchdog!Receive
  <2>1. unread' \in {0, unread} /\ (~pumped => unread' = 0) BY <1>4, Zenon DEF Watchdog!Receive
  <2>2. buffered' \in BOOLEAN /\ ~buffered' BY <1>4, Zenon DEF Watchdog!Receive
  <2>3. /\ progress' = 0 /\ heartbeat' = 0
        /\ UNCHANGED <<reachable, stream, streamPrompt, stalled, outage, pumped, asleep, tick,
                       lastTick, exited>>
    BY <1>4, Zenon DEF Watchdog!Receive
  <2> QED BY <1>4, <2>1, <2>2, <2>3
<1>r. ASSUME Watchdog!Reconnect
      PROVE  \/ /\ reachable /\ stream' \in {"flowing", "silent"} /\ streamPrompt' = StreamInterval
                /\ pumped' \in BOOLEAN /\ ~pumped' /\ buffered' \in BOOLEAN /\ ~buffered'
                /\ heartbeat' = 0 /\ unread' = 0
                /\ UNCHANGED <<reachable, stalled, outage, asleep, progress>>
             \/ /\ ~reachable /\ progress' = 0 /\ asleep' = 1
                /\ UNCHANGED <<reachable, stream, streamPrompt, stalled, outage, pumped,
                               buffered, heartbeat, unread>>
  BY <1>r, Zenon DEF Watchdog!Reconnect, Watchdog!Connected, Watchdog!ConnectFailed
<1>5. CASE ~exited /\ Watchdog!ServerClosed
  <2>1. UNCHANGED <<tick, lastTick, exited>> BY <1>5, Zenon DEF Watchdog!ServerClosed
  <2> QED BY <1>5, <1>r, <2>1 DEF Watchdog!ServerClosed
<1>6. CASE ~exited /\ Watchdog!GiveUp
  BY <1>6 DEF Watchdog!GiveUp, Watchdog!CanTick, Watchdog!Wedged, Watchdog!WokeFromStall
<1>7. CASE ~exited /\ Watchdog!HeartbeatTimedOut
  <2>1. tick' = Period /\ lastTick' = 0 /\ UNCHANGED exited
    BY <1>7, Zenon DEF Watchdog!HeartbeatTimedOut
  <2> QED BY <1>7, <1>r, <2>1 DEF Watchdog!HeartbeatTimedOut
<1>8. CASE ~exited /\ Watchdog!PlainTick
  BY <1>8 DEF Watchdog!PlainTick, Watchdog!CanTick, Watchdog!Runs
<1>9. CASE ~exited /\ Watchdog!Second
  BY <1>9 DEF Watchdog!Second, Watchdog!Busy, Watchdog!Older, Watchdog!Sooner
<1>10. CASE UNCHANGED Watchdog!vars BY <1>10, ZenonT(30) DEF Watchdog!vars
<1> QED
  BY <1>1, <1>2, <1>3, <1>4, <1>5, <1>6, <1>7, <1>8, <1>9, <1>10, ZenonT(30)
     DEF Watchdog!Next, Watchdog!Worker

\* The invariant of the watch, for every choice of its intervals.
THEOREM WatchSafe == Watchdog!Spec => []WatchInv
  BY WatchInit, WatchStep, PTL DEF Watchdog!Spec

\* The worker takes neither a stall of its runtime nor an outage of the
\* coordinator for a dead stream (STALLED_TICK_GAP, the biased select,
\* last_progress on a failed connect).
THEOREM NoAlarmIsFalse == Watchdog!Spec => []NoFalseAlarm
<1>1. WatchInv => NoFalseAlarm BY Zenon DEF WatchInv, NoFalseAlarm
<1> QED BY <1>1, WatchSafe, PTL
===============================================================================
