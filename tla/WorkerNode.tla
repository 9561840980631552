----------------------------- MODULE WorkerNode -----------------------------
(***************************************************************************)
(* The worker node's main loop (src/bin/node/src/lib.rs): what becomes of  *)
(* a task from its delivery to the report of its outcome.                  *)
(*                                                                         *)
(* A delivery starts an attempt: a work future and a reporter that waits   *)
(* for it, tells the coordinator and drops the attempt's entry of `tasks`. *)
(* A cancelled task loses its entry at once, so the same task can be       *)
(* delivered again while the old attempt is still running or reporting.    *)
(* Work that overruns its time limit is aborted; work that ignores the     *)
(* abort is reported by the watchdog itself, which also closes the node.   *)
(* A closed node takes no tasks and leaves when nothing is owed any more.  *)
(*                                                                         *)
(* The main loop is one thread of control; a step of it ends where it      *)
(* awaits.  Reporters, work futures and the batches of wedged reports run  *)
(* beside it.  Keys are tasks, attempts of a task are numbered.  Time is   *)
(* abstract: an attempt is young, then overdue, and after an abort its     *)
(* grace can run out.  The watch over the stream is SilenceWatchdog.       *)
(***************************************************************************)
EXTENDS Naturals

CONSTANTS
    Tasks,        \* keys of tasks this node may be given
    MaxAttempts,  \* bound on the deliveries of one task that are accepted
    MaxTries,     \* tries a report gets before its retry budget is spent
    MayStop       \* may the node be told to stop?

Attempts == 1 .. MaxAttempts
NoEntry == 0

VARIABLES
    started,              \* accepted deliveries per task
    tasks,                \* the attempt that owns the task's entry, or NoEntry
    work,                 \* state of each attempt's work future
    aborting,             \* attempts whose work was told to abort
    aborted_at,           \* attempts the sweep has stamped
    age,                  \* "young", "overdue" or "graceless"
    reporter,             \* state of each attempt's reporter
    tries,                \* failed tries of the report under way
    batches,              \* running reports of wedged tasks
    reporters_in_flight,  \* the counter the drain looks at
    closed,               \* the node takes no more tasks
    close_acked,          \* the coordinator has acknowledged the close
    draining,             \* "no", "yes" or "overdue"
    loop,                 \* the main loop: where it stands
    told,                 \* history: verdicts that reached the coordinator
    wedged,               \* history: attempts the sweep gave up on
    recalled              \* history: attempts the coordinator cancelled

vars == <<started, tasks, work, aborting, aborted_at, age, reporter, tries,
          batches, reporters_in_flight, closed, close_acked, draining, loop,
          told, wedged, recalled>>

attempt == <<work, aborting, aborted_at, age, reporter, tries>>
drain == <<closed, close_acked, draining>>
history == <<told, wedged, recalled>>

Ids == Tasks \X Attempts

\* What run_task can leave: success, an execution error (success without
\* metadata), a retryable or fatal failure, a panic.
Outcome == {"success", "execution_error", "retryable", "fatal", "panic"}
WorkState == {"none", "running", "cancelled"} \cup Outcome

Verdict == {"complete", "retry", "fail"}

\* The main loop waits for the next event, is about to insert the entry of an
\* accepted task, waits for its close call, or has left.
Insert(id) == [at |-> "insert", id |-> id]
AtLoop == [at |-> "select"]
AtClose == [at |-> "close"]
Left(how) == [at |-> "left", how |-> how]
LoopState == {AtLoop, AtClose} \cup {Insert(id) : id \in Ids}
             \cup {Left(how) : how \in {"drained", "drain timeout"}}

Init ==
    /\ started = [k \in Tasks |-> 0]
    /\ tasks = [k \in Tasks |-> NoEntry]
    /\ work = [id \in Ids |-> "none"]
    /\ aborting = {}
    /\ aborted_at = {}
    /\ age = [id \in Ids |-> "young"]
    /\ reporter = [id \in Ids |-> "none"]
    /\ tries = [id \in Ids |-> 0]
    /\ batches = {}
    /\ reporters_in_flight = 0
    /\ closed = FALSE
    /\ close_acked = FALSE
    /\ draining = "no"
    /\ loop = AtLoop
    /\ told = {}
    /\ wedged = {}
    /\ recalled = {}

Up == loop.at # "left"

-----------------------------------------------------------------------------
(* Deliveries.                                                             *)

\* NewTask: ignored when the node is closed or already works on the task.
\* Otherwise the work and its reporter are spawned ...
NewTask(k) ==
    /\ loop = AtLoop
    /\ ~closed
    /\ tasks[k] = NoEntry
    /\ started[k] < MaxAttempts
    /\ LET id == <<k, started[k] + 1>>
       IN  /\ started' = [started EXCEPT ![k] = @ + 1]
           /\ work' = [work EXCEPT ![id] = "running"]
           /\ reporter' = [reporter EXCEPT ![id] = "waiting"]
           /\ loop' = Insert(id)
    /\ reporters_in_flight' = reporters_in_flight + 1
    /\ UNCHANGED <<tasks, aborting, aborted_at, age, tries, batches, drain,
                   history>>

\* ... and the entry is inserted, possibly after a fast reporter has ended.
InsertEntry ==
    /\ loop.at = "insert"
    /\ tasks' = [tasks EXCEPT ![loop.id[1]] = loop.id[2]]
    /\ loop' = AtLoop
    /\ UNCHANGED <<started, attempt, batches, reporters_in_flight, drain, history>>

\* CancelTask: abort the work and drop the entry at once.
CancelTask(k) ==
    /\ loop = AtLoop
    /\ tasks[k] # NoEntry
    /\ aborting' = aborting \cup {<<k, tasks[k]>>}
    /\ tasks' = [tasks EXCEPT ![k] = NoEntry]
    /\ recalled' = recalled \cup {<<k, tasks[k]>>}
    /\ UNCHANGED <<started, work, aborted_at, age, reporter, tries, batches,
                   reporters_in_flight, drain, loop, told, wedged>>

-----------------------------------------------------------------------------
(* Work futures and reporters.                                             *)

\* The work ends by itself, an abort under way notwithstanding.
WorkEnds(id, outcome) ==
    /\ Up /\ work[id] = "running"
    /\ work' = [work EXCEPT ![id] = outcome]
    /\ UNCHANGED <<started, tasks, aborting, aborted_at, age, reporter, tries,
                   batches, reporters_in_flight, drain, loop, history>>

\* The abort takes effect at a yield point; work that never yields ignores it.
WorkCancelled(id) ==
    /\ Up /\ work[id] = "running" /\ id \in aborting
    /\ work' = [work EXCEPT ![id] = "cancelled"]
    /\ UNCHANGED <<started, tasks, aborting, aborted_at, age, reporter, tries,
                   batches, reporters_in_flight, drain, loop, history>>

\* report_for: what the reporter owes; a cancelled work that the sweep has not
\* stamped owes nothing.
ReportFor(outcome, timedOut) ==
    CASE outcome = "success" -> "complete"
      [] outcome = "retryable" -> "retry"
      [] outcome \in {"execution_error", "fatal", "panic"} -> "fail"
      [] outcome = "cancelled" -> IF timedOut THEN "retry" ELSE "nothing"

\* A reporter that has nothing to say ends without touching the entry.
ReporterWakes(id) ==
    /\ Up /\ reporter[id] = "waiting" /\ work[id] # "running"
    /\ LET report == ReportFor(work[id], id \in aborted_at)
       IN  IF report = "nothing"
           THEN /\ reporter' = [reporter EXCEPT ![id] = "done"]
                /\ reporters_in_flight' = reporters_in_flight - 1
           ELSE /\ reporter' = [reporter EXCEPT ![id] = report]
                /\ UNCHANGED reporters_in_flight
    /\ UNCHANGED <<started, tasks, work, aborting, aborted_at, age, tries,
                   batches, drain, loop, history>>

\* The entry goes with the reporter, whoever owns it.
DropAny(k, a) == NoEntry

\* drop_if_current: a redelivery may have replaced the entry.
DropIfCurrent(k, a) == IF tasks[k] = a THEN NoEntry ELSE tasks[k]

ReporterEnds(id) ==
    /\ reporter' = [reporter EXCEPT ![id] = "done"]
    /\ tasks' = [tasks EXCEPT ![id[1]] = DropIfCurrent(id[1], id[2])]
    /\ reporters_in_flight' = reporters_in_flight - 1

\* complete_task or fail_task reaches the coordinator and is acknowledged.
ReportLands(id) ==
    /\ Up /\ reporter[id] \in Verdict
    /\ told' = told \cup {<<id, reporter[id]>>}
    /\ ReporterEnds(id)
    /\ UNCHANGED <<started, work, aborting, aborted_at, age, tries, batches,
                   drain, loop, wedged, recalled>>

\* A try fails for now; it may have landed all the same.
ReportTryFails(id, landed) ==
    /\ Up /\ reporter[id] \in Verdict
    /\ tries[id] < MaxTries
    /\ tries' = [tries EXCEPT ![id] = @ + 1]
    /\ told' = IF landed THEN told \cup {<<id, reporter[id]>>} ELSE told
    /\ UNCHANGED <<started, tasks, work, aborting, aborted_at, age, reporter,
                   batches, reporters_in_flight, drain, loop, wedged, recalled>>

\* The retry budget is spent: the error is logged and the reporter ends.
ReportGivenUp(id) ==
    /\ Up /\ reporter[id] \in Verdict
    /\ tries[id] = MaxTries
    /\ ReporterEnds(id)
    /\ UNCHANGED <<started, work, aborting, aborted_at, age, tries, batches,
                   drain, loop, history>>

-----------------------------------------------------------------------------
(* Time.                                                                   *)

\* An attempt passes task_timeout; an abort passes ABORT_GRACE.
Overdue(id) ==
    /\ Up /\ work[id] = "running" /\ age[id] = "young"
    /\ age' = [age EXCEPT ![id] = "overdue"]
    /\ UNCHANGED <<started, tasks, work, aborting, aborted_at, reporter, tries,
                   batches, reporters_in_flight, drain, loop, history>>

GraceOver(id) ==
    /\ Up /\ id \in aborted_at /\ age[id] = "overdue"
    /\ age' = [age EXCEPT ![id] = "graceless"]
    /\ UNCHANGED <<started, tasks, work, aborting, aborted_at, reporter, tries,
                   batches, reporters_in_flight, drain, loop, history>>

DrainOverdue ==
    /\ Up /\ draining = "yes"
    /\ draining' = "overdue"
    /\ UNCHANGED <<started, tasks, attempt, batches, reporters_in_flight, closed,
                   close_acked, loop, history>>

-----------------------------------------------------------------------------
(* The watchdog tick.                                                      *)

Entries == {id \in Ids : tasks[id[1]] = id[2]}

\* Entries whose reporter has ended: the fast reporters InsertEntry missed.
Finished == {id \in Entries : reporter[id] = "done"}

\* timeout_action.
TimedOut == {id \in Entries \ Finished : work[id] = "running" /\ age[id] = "overdue"}
Wedged == {id \in Entries \ Finished : work[id] = "running" /\ age[id] = "graceless"}

\* Only the entries count, not the reporters.
NoEntryLeft == \A k \in Tasks : tasks[k] = NoEntry

\* Nothing is owed: no entry and no reporter.
NothingOwed == NoEntryLeft /\ reporters_in_flight = 0

\* The node stays open.
StaysOpen == FALSE

\* A wedged task closes the node.
ClosedBySweep == Wedged # {}

\* The drain is over.
LeaveDrained ==
    /\ loop = AtLoop /\ closed /\ NothingOwed
    /\ loop' = Left("drained")
    /\ UNCHANGED <<started, tasks, attempt, batches, reporters_in_flight, drain,
                   history>>

\* There is no limit on the drain.
LeaveOnlyDrained == LeaveDrained

\* The drain takes too long.
LeaveOverdue ==
    /\ loop = AtLoop /\ closed /\ ~NothingOwed /\ draining = "overdue"
    /\ loop' = Left("drain timeout")
    /\ UNCHANGED <<started, tasks, attempt, batches, reporters_in_flight, drain,
                   history>>

\* The batch is not counted.
Uncounted(n) == n

\* The counter of reporters when a batch is spawned.
BatchCounted(n) == n + 1

\* The sweep reports what it aborts, beside the reporter.
SweepReports == told \cup {<<id, "retry">> : id \in TimedOut}

\* The sweep itself tells the coordinator nothing: the reporter does.
SweepSays == told

\* The sweep: forget finished entries, stamp and abort what is overdue, take
\* what ignored its abort out of `tasks` and report it in a batch of its own.
Sweep ==
    /\ loop = AtLoop
    /\ ~(closed /\ NothingOwed) /\ draining # "overdue"
    /\ Finished \cup TimedOut \cup Wedged # {}
    /\ tasks' = [k \in Tasks |-> IF <<k, tasks[k]>> \in Finished \cup Wedged
                                 THEN NoEntry ELSE tasks[k]]
    /\ aborted_at' = aborted_at \cup TimedOut
    /\ aborting' = aborting \cup TimedOut \cup Wedged
    /\ told' = SweepSays
    /\ wedged' = wedged \cup Wedged
    /\ IF Wedged # {}
       THEN /\ batches' = batches \cup {[ids |-> Wedged, closing |-> TRUE]}
            /\ reporters_in_flight' = BatchCounted(reporters_in_flight)
            /\ draining' = IF draining = "no" THEN "yes" ELSE draining
       ELSE UNCHANGED <<batches, reporters_in_flight, draining>>
    /\ closed' = (closed \/ ClosedBySweep)
    /\ UNCHANGED <<started, work, age, reporter, tries, close_acked, loop, recalled>>

\* spawn_wedged_report: close the node at the coordinator first; a close that
\* fails for good does not keep the report back ...
BatchCloses(b, ok) ==
    /\ Up /\ b \in batches /\ b.closing
    /\ close_acked => ok
    /\ close_acked' = (close_acked \/ ok)
    /\ batches' = (batches \ {b}) \cup {[b EXCEPT !.closing = FALSE]}
    /\ UNCHANGED <<started, tasks, attempt, reporters_in_flight, closed, draining,
                   loop, history>>

\* ... then fail the tasks one by one; the last one ends the batch.
BatchReports(b, id, lands) ==
    /\ Up /\ b \in batches /\ ~b.closing /\ id \in b.ids
    /\ told' = IF lands THEN told \cup {<<id, "retry">>} ELSE told
    /\ IF b.ids = {id}
       THEN /\ batches' = batches \ {b}
            /\ reporters_in_flight' = reporters_in_flight - 1
       ELSE /\ batches' = (batches \ {b}) \cup {[b EXCEPT !.ids = @ \ {id}]}
            /\ UNCHANGED reporters_in_flight
    /\ UNCHANGED <<started, tasks, attempt, drain, loop, wedged, recalled>>

-----------------------------------------------------------------------------
(* Shutdown.                                                               *)

\* token.cancelled(): close, and wait for the coordinator's answer.
TokenCancelled ==
    /\ MayStop
    /\ loop = AtLoop /\ ~closed
    /\ closed' = TRUE
    /\ draining' = "yes"
    /\ loop' = AtClose
    /\ UNCHANGED <<started, tasks, attempt, batches, reporters_in_flight,
                   close_acked, history>>

\* The close call is over; an idle node leaves at once.
CloseReturns(ok) ==
    /\ loop = AtClose
    /\ close_acked' = (close_acked \/ ok)
    /\ loop' = IF NothingOwed THEN Left("drained") ELSE AtLoop
    /\ UNCHANGED <<started, tasks, attempt, batches, reporters_in_flight, closed,
                   draining, history>>

-----------------------------------------------------------------------------
Work(id) ==
    \/ \E outcome \in Outcome : WorkEnds(id, outcome)
    \/ WorkCancelled(id)

Reporter(id) ==
    \/ ReporterWakes(id) \/ ReportLands(id)
    \/ \E landed \in BOOLEAN : ReportTryFails(id, landed)
    \/ ReportGivenUp(id)

Batch(b) ==
    \E ok \in BOOLEAN : BatchCloses(b, ok) \/ \E id \in b.ids : BatchReports(b, id, ok)

MainLoop ==
    \/ InsertEntry \/ LeaveDrained \/ LeaveOverdue \/ Sweep
    \/ \E ok \in BOOLEAN : CloseReturns(ok)

Next ==
    \/ \E k \in Tasks : NewTask(k) \/ CancelTask(k)
    \/ \E id \in Ids : Work(id) \/ Reporter(id) \/ Overdue(id) \/ GraceOver(id)
    \/ \E b \in batches : Batch(b)
    \/ MainLoop \/ TokenCancelled
    \/ DrainOverdue

Spec == Init /\ [][Next]_vars

\* The main loop, the reporters and the batches are scheduled; clocks advance;
\* a report that is tried for ever lands; work need not end nor heed an abort.
Fairness ==
    /\ WF_vars(MainLoop)
    /\ WF_vars(DrainOverdue)
    /\ \A id \in Ids :
        /\ WF_vars(Overdue(id)) /\ WF_vars(GraceOver(id))
        /\ WF_vars(ReporterWakes(id)) /\ SF_vars(ReportLands(id))
        /\ WF_vars(Reporter(id))
    /\ WF_vars(\E b \in batches : Batch(b))
    /\ \A id \in Ids : SF_vars(\E b \in batches : BatchReports(b, id, TRUE))

LiveSpec == Spec /\ Fairness

-----------------------------------------------------------------------------
TypeOK ==
    /\ started \in [Tasks -> 0 .. MaxAttempts]
    /\ tasks \in [Tasks -> {NoEntry} \cup Attempts]
    /\ work \in [Ids -> WorkState]
    /\ aborting \subseteq Ids /\ aborted_at \subseteq Ids
    /\ age \in [Ids -> {"young", "overdue", "graceless"}]
    /\ reporter \in [Ids -> {"none", "waiting", "done"} \cup Verdict]
    /\ tries \in [Ids -> 0 .. MaxTries]
    /\ batches \subseteq [ids: SUBSET Ids, closing: BOOLEAN]
    /\ reporters_in_flight \in Nat
    /\ closed \in BOOLEAN /\ close_acked \in BOOLEAN
    /\ draining \in {"no", "yes", "overdue"}
    /\ loop \in LoopState
    /\ told \subseteq Ids \X Verdict
    /\ wedged \subseteq Ids /\ recalled \subseteq Ids

Given(id) == id[2] <= started[id[1]]
Told(id) == \E v \in Verdict : <<id, v>> \in told
GivenUp(id) == reporter[id] = "done" /\ tries[id] = MaxTries

\* A node that leaves because its drain is over owes nothing: every attempt it
\* accepted was reported, was recalled in time, or had its report's budget spent.  An
\* outcome still being delivered keeps the node up, also when its entry has
\* gone with a cancellation (reporters_in_flight).
DrainedOwesNothing ==
    loop = Left("drained") => \A id \in Ids :
        Given(id) => \/ Told(id) \/ GivenUp(id)
                     \/ work[id] = "cancelled" /\ id \in recalled

\* Work that runs, was not aborted and is not about to be inserted owns its
\* task's entry, so it is beaten for and timed: neither the end of an older
\* attempt's reporter nor a sweep takes the entry away (drop_if_current).
RunningWorkTracked ==
    \A id \in Ids : Up /\ work[id] = "running" /\ id \notin aborting =>
        tasks[id[1]] = id[2] \/ loop = Insert(id)

\* The coordinator never hears two different verdicts on one attempt, unless
\* the sweep had to speak for work that ignored its abort: a timeout is told
\* by the reporter alone, which prefers a real result (report_for).
OneVerdict ==
    \A id \in Ids \ wedged : \A v, u \in Verdict :
        <<id, v>> \in told /\ <<id, u>> \in told => v = u

\* While work that ignored its abort still burns, the node takes no second
\* attempt of any task: the wedged report closes it for good.
NothingBesideWedgedWork ==
    [][\A id \in wedged : work[id] = "running" => started' = started]_vars

\* An attempt that overruns its time limit is not forgotten: it is reported,
\* cancelled, given up on after the whole retry budget, or the node leaves.
OverdueIsReported ==
    \A id \in Ids : age[id] # "young"
                       ~> Told(id) \/ GivenUp(id) \/ ~Up \/ id \in recalled

\* A told-to-stop node leaves in the end, whatever its tasks do.
StoppedNodeLeaves == closed ~> ~Up

\* A report of a finished attempt lands: "`infinite` for calls that must
\* eventually land (task reports, close)".
ReportEventuallyLands ==
    \A id \in Ids : reporter[id] \in Verdict ~> Told(id) \/ ~Up
=============================================================================
