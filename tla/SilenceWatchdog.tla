--------------------------- MODULE SilenceWatchdog ---------------------------
(***************************************************************************)
(* The worker's watch over its delivery stream: the receive and watchdog   *)
(* arms of the main loop in src/bin/node/src/lib.rs.  The stream may       *)
(* close, go silent while it looks open, or reopen and carry nothing; the  *)
(* coordinator may be unreachable; the whole runtime may stall, and when   *)
(* it wakes a message may still sit in the receive pump.  A worker that is *)
(* not draining ends its process when it takes the stream for wedged.      *)
(*                                                                         *)
(* Time advances in seconds, and not past a step the loop is free to take. *)
(***************************************************************************)
EXTENDS Integers

CONSTANTS
    Period,          \* WATCHDOG_PERIOD
    StalledTickGap,  \* STALLED_TICK_GAP
    MaxSilence,      \* MAX_CHANNEL_SILENCE
    HeartbeatQuiet,  \* quiet after which the loop reconnects
    PromptInterval,  \* the coordinator's prompts
    Cap              \* where counters stop

VARIABLES
    reachable,  \* a connect would succeed
    stream,     \* "flowing", "silent" or "closed"
    prompt,     \* seconds until the coordinator's next prompt
    pumped,     \* a message is in the receive pump
    buffered,   \* a message is in the channel
    stalled,    \* no task of the runtime runs
    asleep,     \* seconds the loop sleeps after a failed connect
    tick,       \* seconds until the watchdog ticks
    lastTick,   \* seconds since it last did
    progress,   \* seconds since a message or a failed connect (last_progress)
    heartbeat,  \* seconds since a prompt or a reconnect (last_heartbeat)
    unread,     \* seconds the oldest message the loop has not read has waited
    outage,     \* seconds for which the coordinator has been unreachable
    exited      \* the worker ended its process

env == <<reachable, stream, prompt, stalled, outage>>
vars == <<env, pumped, buffered, asleep, tick, lastTick, progress, heartbeat, unread, exited>>

Older(n) == IF n < Cap THEN n + 1 ELSE Cap

Sooner(n) == IF n > 0 THEN n - 1 ELSE 0

\* The channel has just been opened.
Init ==
    /\ reachable = TRUE
    /\ stream \in {"flowing", "silent"}
    /\ prompt = PromptInterval
    /\ pumped = FALSE /\ buffered = FALSE
    /\ stalled = FALSE /\ asleep = 0
    /\ tick = 0 /\ lastTick = 0
    /\ progress = 0 /\ heartbeat = 0
    /\ unread = 0 /\ outage = 0
    /\ exited = FALSE

-----------------------------------------------------------------------------
(* What the network, the coordinator and the runtime do.                   *)

\* The stream breaks, visibly or not, perhaps because the coordinator is gone.
StreamBreaks ==
    /\ stream = "flowing"
    /\ stream' \in {"silent", "closed"}
    /\ reachable' \in BOOLEAN /\ (reachable' => reachable)
    /\ UNCHANGED <<prompt, stalled, outage>>

CoordinatorLeaves ==
    /\ reachable /\ stream # "flowing"
    /\ reachable' = FALSE
    /\ UNCHANGED <<stream, prompt, stalled, outage>>

CoordinatorReturns ==
    /\ ~reachable
    /\ reachable' = TRUE /\ outage' = 0
    /\ UNCHANGED <<stream, prompt, stalled>>

\* Every runtime thread is held in a long poll, or let go again.  Between two
\* stalls each ready task has a turn, the stream's included.
StallOrWake ==
    /\ ~stalled => ~pumped
    /\ stalled' = ~stalled
    /\ UNCHANGED <<reachable, stream, prompt, outage>>

Environment ==
    /\ StreamBreaks \/ CoordinatorLeaves \/ CoordinatorReturns \/ StallOrWake
    /\ UNCHANGED <<pumped, buffered, asleep, tick, lastTick, progress, heartbeat, unread,
                   exited>>

\* The coordinator's prompt reaches the process.
PromptArrives ==
    /\ stream = "flowing" /\ prompt = 0
    /\ prompt' = PromptInterval
    /\ pumped' = TRUE
    /\ UNCHANGED <<reachable, stream, stalled, outage, buffered, asleep, tick,
                   lastTick, progress, heartbeat, unread, exited>>

-----------------------------------------------------------------------------
(* What the worker does.                                                   *)

\* The stream's task moves a message into the channel the loop reads.
Pump ==
    /\ ~stalled /\ pumped
    /\ pumped' = FALSE /\ buffered' = TRUE
    /\ UNCHANGED <<env, asleep, tick, lastTick, progress, heartbeat, unread, exited>>

Runs == ~stalled /\ asleep = 0

\* channel.recv() yields a message.
Receive ==
    /\ Runs /\ buffered
    /\ buffered' = FALSE
    /\ progress' = 0 /\ heartbeat' = 0
    /\ unread' = IF pumped THEN unread ELSE 0
    /\ UNCHANGED <<env, pumped, asleep, tick, lastTick, exited>>

\* A failed connect is an outage, not a wedge.
ConnectFailed == 0

\* A successful connect counts as progress.
FreshProgress == 0

\* A successful connect may still carry nothing.
Connected == progress

\* worker_client.open(): the old channel and what it holds are dropped.
Reconnect ==
    \/ /\ reachable
       /\ stream' \in {"flowing", "silent"}
       /\ prompt' = PromptInterval
       /\ pumped' = FALSE /\ buffered' = FALSE
       /\ heartbeat' = 0 /\ unread' = 0
       /\ progress' = Connected
       /\ UNCHANGED <<reachable, stalled, outage, asleep>>
    \/ /\ ~reachable
       /\ progress' = ConnectFailed
       /\ asleep' = 1
       /\ UNCHANGED <<env, pumped, buffered, heartbeat, unread>>

\* channel.recv() yields None once the channel is drained.
HasEnded == stream = "closed" /\ ~pumped /\ ~buffered

ServerClosed ==
    /\ Runs /\ HasEnded
    /\ Reconnect
    /\ UNCHANGED <<tick, lastTick, exited>>

\* The silence check runs on every tick.
NeverStalled == FALSE

\* A tick this late means the runtime just woke from a stall.
WokeFromStall == lastTick > StalledTickGap

\* The watchdog arm runs when recv has nothing to yield (biased).
CanTick == Runs /\ tick = 0 /\ ~buffered /\ ~HasEnded

Wedged == ~WokeFromStall /\ progress > MaxSilence

GiveUp ==
    /\ CanTick /\ Wedged
    /\ exited' = TRUE
    /\ UNCHANGED <<env, pumped, buffered, asleep, tick, lastTick, progress,
                   heartbeat, unread>>

HeartbeatTimedOut ==
    /\ CanTick /\ ~Wedged /\ heartbeat > HeartbeatQuiet
    /\ tick' = Period /\ lastTick' = 0
    /\ Reconnect
    /\ UNCHANGED exited

PlainTick ==
    /\ CanTick /\ ~Wedged /\ heartbeat <= HeartbeatQuiet
    /\ tick' = Period /\ lastTick' = 0
    /\ UNCHANGED <<env, pumped, buffered, asleep, progress, heartbeat, unread, exited>>

Worker == Pump \/ Receive \/ ServerClosed \/ GiveUp \/ HeartbeatTimedOut \/ PlainTick

Busy == ~stalled /\ (pumped \/ (asleep = 0 /\ (buffered \/ HasEnded \/ tick = 0)))

Second ==
    /\ ~Busy
    /\ ~(stream = "flowing" /\ prompt = 0)
    /\ prompt' = IF stream = "flowing" THEN Sooner(prompt) ELSE prompt
    /\ asleep' = IF stalled THEN asleep ELSE Sooner(asleep)
    /\ tick' = Sooner(tick)
    /\ lastTick' = Older(lastTick)
    /\ progress' = Older(progress)
    /\ heartbeat' = Older(heartbeat)
    /\ unread' = IF pumped \/ buffered THEN Older(unread) ELSE 0
    /\ outage' = IF reachable THEN 0 ELSE Older(outage)
    /\ UNCHANGED <<reachable, stream, stalled, pumped, buffered, exited>>

Next == ~exited /\ (Environment \/ PromptArrives \/ Worker \/ Second)

Spec == Init /\ [][Next]_vars

TypeOK ==
    /\ reachable \in BOOLEAN /\ stream \in {"flowing", "silent", "closed"}
    /\ prompt \in 0 .. PromptInterval
    /\ pumped \in BOOLEAN /\ buffered \in BOOLEAN /\ stalled \in BOOLEAN
    /\ asleep \in 0 .. 1 /\ tick \in 0 .. Period
    /\ lastTick \in 0 .. Cap /\ progress \in 0 .. Cap /\ heartbeat \in 0 .. Cap
    /\ unread \in 0 .. Cap /\ outage \in 0 .. Cap
    /\ exited \in BOOLEAN

\* A worker does not end its process over messages it has received and not yet
\* read: however long the runtime stalled, no message has waited longer than
\* the jitter the stall guard allows (STALLED_TICK_GAP, the biased select).
StallIsNoSilence == exited => unread <= StalledTickGap

\* An unreachable coordinator is an outage, not a wedge: a worker does not give
\* up once it has had time to notice (last_progress on a failed connect).
OutageIsNoWedge == exited => outage <= HeartbeatQuiet + StalledTickGap

\* A stream that carries nothing ends the worker, however often it reconnects
\* with success, once the runtime keeps running and the coordinator stays
\* reachable: the beats of the dedicated thread cannot hold its tasks forever.
WedgeEnds ==
    <>[](reachable /\ ~stalled /\ stream # "flowing") => <>exited
=============================================================================
