------------------------------- MODULE Worker -------------------------------
(***************************************************************************)
(* A worker: its beats (WorkerBeats), its main loop (WorkerNode) and its   *)
(* watch over the delivery stream (SilenceWatchdog), each over variables   *)
(* of its own, and what must hold of them.                                 *)
(***************************************************************************)
EXTENDS WorkerBeats

CONSTANTS
    Tasks, MaxAttempts, MaxTries, MayStop,  \* of the main loop
    Period, StalledTickGap, MaxSilence, HeartbeatQuiet, StreamInterval, Cap  \* of the watch

ASSUME NodeAssumption == MaxAttempts \in Nat /\ MaxTries \in Nat

ASSUME WatchAssumption ==
    /\ Period \in Nat \ {0} /\ StreamInterval \in Nat /\ Cap \in Nat
    /\ StalledTickGap \in Nat /\ MaxSilence \in Nat /\ HeartbeatQuiet \in Nat
    /\ HeartbeatQuiet + StalledTickGap <= MaxSilence

VARIABLES
    started, tasks, work, aborting, aborted_at, age, reporter, tries, batches,
    reporters_in_flight, closed, close_acked, draining, loop, told, wedged, recalled,
    reachable, stream, streamPrompt, pumped, buffered, stalled, asleep, tick, lastTick,
    progress, heartbeat, unread, outage, exited

node == <<started, tasks, work, aborting, aborted_at, age, reporter, tries,
          batches, reporters_in_flight, closed, close_acked, draining, loop,
          told, wedged, recalled>>
watch == <<reachable, stream, streamPrompt, pumped, buffered, stalled, asleep, tick,
           lastTick, progress, heartbeat, unread, outage, exited>>

Node == INSTANCE WorkerNode

Watchdog == INSTANCE SilenceWatchdog WITH PromptInterval <- StreamInterval, prompt <- streamPrompt

\* The types of the main loop, and: running work owns its task's entry
\* (drop_if_current).
RunningWorkTracked == Node!TypeOK /\ Node!RunningWorkTracked
\* One verdict per attempt (report_for), and a drained node owes no report
\* (reporters_in_flight).
ReportsSettled == Node!OneVerdict /\ Node!DrainedOwesNothing
\* No second attempt beside wedged work (spawn_wedged_report).
NothingBesideWedgedWork == Node!NothingBesideWedgedWork
\* The types of the watch, and: neither a stall of the runtime nor an outage of
\* the coordinator is taken for a dead stream (STALLED_TICK_GAP, last_progress).
NoFalseAlarm == Watchdog!TypeOK /\ Watchdog!StallIsNoSilence /\ Watchdog!OutageIsNoWedge
=============================================================================
