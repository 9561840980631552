----------------------------- MODULE WorkerBeats -----------------------------
(***************************************************************************)
(* How a worker proves that it is alive (src/bin/node/src/heartbeat.rs and *)
(* the ServerHeartbeat arm of the main loop in src/bin/node/src/lib.rs).   *)
(*                                                                         *)
(* A dedicated thread beats every HeartbeatInterval over a connection of   *)
(* its own and notes in the BeatClock when a beat landed; a beat that does *)
(* not land clears the clock.  The main loop gets a prompt from the        *)
(* coordinator every PromptInterval and beats over its own connection when *)
(* the clock is stale.  The coordinator evicts a worker it has not heard   *)
(* of for longer than its timeout, which is never below MinTimeout.        *)
(*                                                                         *)
(* Time advances in seconds; it cannot pass a timer that is due.  One of   *)
(* the two paths is sound: its calls land within RpcTimeout.  The other    *)
(* does as it pleases, and its thread may hang.                            *)
(***************************************************************************)
EXTENDS Naturals

CONSTANTS
    HeartbeatInterval,  \* HEARTBEAT_INTERVAL
    RpcTimeout,         \* HEARTBEAT_RPC_TIMEOUT
    StaleAfter,         \* BEATS_STALE_AFTER
    PromptInterval      \* SERVER_HEARTBEAT_INTERVAL

\* A timeout that forgets the covering beat's own deadline.
ThreeIntervals == 3 * PromptInterval

\* MIN_WORKER_HEARTBEAT_TIMEOUT
MinTimeout == 4 * PromptInterval

\* The intervals as the comments on the constants argue them: a beat that
\* fails, or a thread that falls silent, leaves time for the next prompt and
\* the covering beat.
ASSUME BeatsAssumption ==
    /\ HeartbeatInterval \in Nat \ {0}
    /\ RpcTimeout \in Nat \ {0}
    /\ StaleAfter \in Nat \ {0}
    /\ PromptInterval \in Nat \ {0}
    /\ RpcTimeout < HeartbeatInterval
    /\ HeartbeatInterval + RpcTimeout + PromptInterval + RpcTimeout <= 4 * PromptInterval
    /\ StaleAfter + 1 + PromptInterval + RpcTimeout <= 4 * PromptInterval

VARIABLES
    sound,    \* the path that works: "thread" or "stream"
    quiet,    \* seconds since a beat last reached the coordinator
    clock,    \* BeatClock: seconds since the thread's last landed beat, or Stale
    hung,     \* the thread has stopped without a sign
    ticker,   \* seconds until the thread's next tick
    beating,  \* seconds the thread's call has taken, or Idle
    prompt,   \* seconds until the coordinator's next prompt
    covering  \* seconds the main loop's call has taken, or Idle

vars == <<sound, quiet, clock, hung, ticker, beating, prompt, covering>>

Idle == RpcTimeout + 1

\* A cleared clock and one older than StaleAfter are told apart by nothing.
Stale == StaleAfter + 1

\* The worker has registered: its Open counts as a sign of life.
Init ==
    /\ sound \in {"thread", "stream"}
    /\ quiet = 0
    /\ clock = Stale
    /\ hung = FALSE
    /\ ticker = HeartbeatInterval
    /\ beating = Idle
    /\ prompt \in 0 .. PromptInterval
    /\ covering = Idle

\* BeatClock::record
Record(landed) == IF landed THEN 0 ELSE Stale

-----------------------------------------------------------------------------
\* heartbeat_loop: the ticker fires and a beat is sent.
StartBeat ==
    /\ ~hung /\ ticker = 0 /\ beating = Idle
    /\ beating' = 0
    /\ ticker' = HeartbeatInterval
    /\ UNCHANGED <<sound, quiet, clock, hung, prompt, covering>>

\* send_beat lands.
BeatLands ==
    /\ ~hung /\ beating # Idle
    /\ beating' = Idle
    /\ clock' = Record(TRUE)
    /\ quiet' = 0
    /\ UNCHANGED <<sound, hung, ticker, prompt, covering>>

\* send_beat is refused or times out; never on a sound path.
BeatFails ==
    /\ ~hung /\ beating # Idle /\ sound = "stream"
    /\ beating' = Idle
    /\ clock' = Record(FALSE)
    /\ UNCHANGED <<sound, quiet, hung, ticker, prompt, covering>>

\* The thread hangs, in a call or between two.
ThreadHangs ==
    /\ ~hung /\ sound = "stream"
    /\ hung' = TRUE
    /\ UNCHANGED <<sound, quiet, clock, ticker, beating, prompt, covering>>

\* ServerHeartbeat: the main loop beats itself when the thread's are stale.
Covered == IF clock = Stale THEN 0 ELSE Idle

\* A prompt reaches the main loop, which is not waiting for an earlier call.
PromptArrives ==
    /\ prompt = 0 /\ covering = Idle
    /\ prompt' = PromptInterval
    /\ covering' = Covered
    /\ UNCHANGED <<sound, quiet, clock, hung, ticker, beating>>

\* An unsound stream loses the prompt.
PromptLost ==
    /\ prompt = 0 /\ sound = "thread"
    /\ prompt' = PromptInterval
    /\ UNCHANGED <<sound, quiet, clock, hung, ticker, beating, covering>>

\* The covering beat lands; it does not touch the clock.
CoverLands ==
    /\ covering # Idle
    /\ covering' = Idle
    /\ quiet' = 0
    /\ UNCHANGED <<sound, clock, hung, ticker, beating, prompt>>

CoverFails ==
    /\ covering # Idle /\ sound = "thread"
    /\ covering' = Idle
    /\ UNCHANGED <<sound, quiet, clock, hung, ticker, beating, prompt>>

\* What happens before another second passes: a timer that is due fires, and a
\* call ends at its deadline.
Due ==
    \/ ~hung /\ (ticker = 0 \/ beating = RpcTimeout)
    \/ prompt = 0 /\ covering = Idle
    \/ covering = RpcTimeout

Older(n, cap) == IF n < cap THEN n + 1 ELSE n

Sooner(n) == IF n > 0 THEN n - 1 ELSE 0

\* ticker.tick() counts from the previous tick (MissedTickBehavior::Delay).
TickerRuns == IF hung THEN ticker ELSE Sooner(ticker)

Second ==
    /\ ~Due
    /\ quiet' = quiet + 1
    /\ clock' = Older(clock, Stale)
    /\ ticker' = TickerRuns
    /\ beating' = IF beating = Idle \/ hung THEN beating ELSE beating + 1
    /\ prompt' = Sooner(prompt)
    /\ covering' = IF covering = Idle THEN Idle ELSE covering + 1
    /\ UNCHANGED <<sound, hung>>

Next ==
    \/ StartBeat \/ BeatLands \/ BeatFails \/ ThreadHangs
    \/ PromptArrives \/ PromptLost \/ CoverLands \/ CoverFails
    \/ Second

Spec == Init /\ [][Next]_vars

-----------------------------------------------------------------------------
\* Types; a call never outlasts its deadline (HEARTBEAT_RPC_TIMEOUT).
TypeOK ==
    /\ sound \in {"thread", "stream"}
    /\ quiet \in Nat
    /\ clock \in 0 .. Stale
    /\ hung \in BOOLEAN
    /\ ticker \in 0 .. HeartbeatInterval
    /\ beating \in 0 .. Idle
    /\ prompt \in 0 .. PromptInterval
    /\ covering \in 0 .. Idle

\* As long as one of its two paths works, a worker is heard of often enough
\* that even the shortest timeout the coordinator accepts does not evict it: a
\* failed or hung thread is covered for in time (MIN_WORKER_HEARTBEAT_TIMEOUT).
NeverEvictedWhileOnePathWorks == quiet <= MinTimeout

\* A sound thread is enough on its own: whatever the stream does, a beat lands
\* within one interval and one call of the one before it.
ThreadAloneSuffices == sound = "thread" => quiet <= HeartbeatInterval + RpcTimeout

\* The bounds behind the two, per path.  With a sound thread the next landing
\* is at most the rest of its interval and one call away.  With a sound stream
\* a fresh clock bounds the silence, and a stale one leaves time for the next
\* prompt and its call.
ThreadBound ==
    sound = "thread" =>
        /\ ~hung
        /\ IF beating = Idle THEN quiet + ticker <= HeartbeatInterval
           ELSE /\ quiet <= HeartbeatInterval + beating
                /\ ticker + beating = HeartbeatInterval

StreamBound ==
    sound = "stream" =>
        /\ clock # Stale => quiet <= clock
        /\ clock # Stale /\ ~hung =>
              IF beating = Idle THEN clock + ticker <= HeartbeatInterval
              ELSE clock <= HeartbeatInterval + beating
        /\ ~hung /\ beating # Idle => ticker + beating = HeartbeatInterval
        /\ clock = Stale =>
              IF covering = Idle THEN quiet + prompt + RpcTimeout <= MinTimeout
              ELSE quiet + RpcTimeout <= MinTimeout + covering
        /\ covering # Idle => quiet + RpcTimeout <= MinTimeout + covering

BeatsInv == TypeOK /\ ThreadBound /\ StreamBound
=============================================================================
