------------------------------ MODULE Subscribers ------------------------------
(***************************************************************************)
(* One task-result subscription, end to end: the client's reader and asker *)
(* (crates/worker/src/client.rs, subscriber), the stream's sender task     *)
(* with its unacknowledged messages (bin/coordinator/src/server.rs,        *)
(* open_sub, ack_sub, spawn_subscriber_channel_task) and the coordinator's *)
(* subscriber entry (bin/coordinator/src/lib.rs).                          *)
(*                                                                         *)
(* A message is named by its content, and a queue or stream is the set of  *)
(* the messages in it: a second message that says the same of the same     *)
(* task adds nothing, and what one message does does not depend on the     *)
(* others (so the model also lets them arrive in any order).               *)
(* Only the sender task of the latest open_sub is registered; a message    *)
(* for the channel of an earlier one is lost.                              *)
(***************************************************************************)
EXTENDS Naturals, FiniteSets, Functions

CONSTANTS
    Tasks,        \* tasks of one proof that the caller waits for
    Outcomes,     \* how tasks end: "Succeeded", "FailedFatal"
    MaxResends,   \* resends before a message is given up (3 in the code)
    Sample,       \* tasks a keep-alive names at most (30 in the code)
    MaxFaults     \* bound: broken streams, lost calls, stalls, shutdown

ASSUME SubscribersAssumption ==
    Outcomes \subseteq {"Succeeded", "FailedFatal"} /\ MaxResends \in Nat

None == "none"
Heartbeat == <<None, "heartbeat">>
EndOfStream == <<None, "end">>
\* an answer about a task: <<task, what the message says>>
Answers == Tasks \X {"Succeeded", "FailedFatal", "UnknownTask"}

VARIABLES
    task,       \* [task -> "live", "Succeeded" or "FailedFatal"]
    gone,       \* the proof, and its tasks with it, was removed
    listed,     \* tasks whose `subscribers` hold this subscription
    sub,        \* the channel of the coordinator's entry, 0 when there is none
    stale,      \* the entry's last_update is over twenty seconds old
    handler,    \* the registered sender task, named by its channel; 0 for none
    opened,     \* open_sub calls served so far: channels are numbered
    outer,      \* messages queued for the registered sender task
    unacked,    \* [message -> resends], for the messages not acknowledged
    wire,       \* the stream of channel `opened`
    up,         \* that stream is connected
    call,       \* ["reader", "asker" -> the client's call in progress]
    to_ask,     \* tasks the caller has not subscribed yet
    closed,     \* the caller is done: the client's closed_rx
    tasks_set,  \* tasks the client waits for
    told,       \* [task -> statuses given to the caller]
    reader,     \* "reading" or "ended"
    faults

coordVars == <<task, gone, listed, sub, stale>>
serverVars == <<handler, opened, outer, unacked, wire, up>>
callerVars == <<to_ask, closed>>
readerVars == <<tasks_set, told, reader>>
vars == <<coordVars, serverVars, call, callerVars, readerVars, faults>>

NoCall == [kind |-> None]
Update(T) == [kind |-> "update", tasks |-> T, tx |-> 0]
Open(T) == [kind |-> "open", tasks |-> T, tx |-> 0]
Looking(T, c) == [kind |-> "looking", tasks |-> T, tx |-> c]

Init ==
    /\ task = [t \in Tasks |-> "live"] /\ gone = FALSE /\ listed = {}
    /\ sub = 0 /\ stale = FALSE /\ handler = 0 /\ opened = 0
    /\ outer = {} /\ unacked = [x \in {} |-> 0] /\ wire = {} /\ up = FALSE
    /\ call = [reader |-> Open({}), asker |-> NoCall]
    /\ to_ask = Tasks /\ closed = FALSE
    /\ tasks_set = {} /\ told = [t \in Tasks |-> {}] /\ reader = "reading"
    /\ faults = 0

Fault == faults < MaxFaults /\ faults' = faults + 1

\* tx.send on the channel numbered c: lost unless that sender task still runs
Sent(c, ms) == outer' = IF c = handler /\ c # 0 THEN outer \cup ms ELSE outer

(***************************************************************************)
(* The coordinator.                                                        *)
(***************************************************************************)
\* notify_subscribers
NotifySubscribers(T, s) == Sent(sub, {<<t, s>> : t \in T \cap listed})

TaskEnds(t, s) ==
    /\ ~gone /\ task[t] = "live"
    /\ task' = [task EXCEPT ![t] = s]
    /\ NotifySubscribers({t}, s)
    /\ listed' = listed \ {t}
    /\ UNCHANGED <<gone, sub, stale, handler, opened, unacked, wire, up, call, callerVars, readerVars, faults>>

\* fail_proof_internal, or the proof ends with its last task
ProofRemoved ==
    /\ ~gone /\ gone' = TRUE
    /\ NotifySubscribers(Tasks, "FailedFatal")
    /\ listed' = {}
    /\ UNCHANGED <<task, sub, stale, handler, opened, unacked, wire, up, call, callerVars, readerVars, faults>>

\* cleanup_dead_subscribers: evict a silent entry, send the others a heartbeat
EvictSubscriber ==
    /\ sub # 0 /\ stale
    /\ sub' = 0
    /\ UNCHANGED <<task, gone, listed, stale, serverVars, call, callerVars, readerVars, faults>>

SendHeartbeat ==
    /\ sub # 0 /\ ~stale
    /\ Sent(sub, {Heartbeat})
    /\ UNCHANGED <<coordVars, handler, opened, unacked, wire, up, call, callerVars, readerVars, faults>>

\* twenty seconds pass without a call of this client
GoesStale ==
    /\ sub # 0 /\ ~stale
    /\ stale' = TRUE
    /\ IF reader = "ended" THEN UNCHANGED faults ELSE Fault
    /\ UNCHANGED <<task, gone, listed, sub, serverVars, call, callerVars, readerVars>>

\* shutdown tells every subscriber the end
Shutdown ==
    /\ sub # 0 /\ Fault
    /\ Sent(sub, {EndOfStream})
    /\ UNCHANGED <<coordVars, handler, opened, unacked, wire, up, call, callerVars, readerVars>>

(***************************************************************************)
(* The stream's sender task.                                               *)
(***************************************************************************)
OnWire(ms) == wire' = IF up THEN wire \cup ms ELSE wire

Forward(m) ==
    /\ handler # 0 /\ m \in outer
    /\ outer' = outer \ {m}
    /\ unacked' = [x \in DOMAIN unacked \cup {m} |-> IF x = m THEN 0 ELSE unacked[x]]
    /\ OnWire({m})
    /\ UNCHANGED <<coordVars, handler, opened, up, call, callerVars, readerVars, faults>>

KeepsTrying(n) == n < MaxResends

\* the tick resends the messages unacknowledged for four seconds
Resend(M) ==
    /\ handler # 0 /\ up /\ M # {} /\ M \subseteq DOMAIN unacked
    /\ OnWire(M)
    /\ unacked' = [x \in {y \in DOMAIN unacked : y \notin M \/ KeepsTrying(unacked[y])} |->
                      IF x \in M THEN unacked[x] + 1 ELSE unacked[x]]
    /\ UNCHANGED <<coordVars, handler, opened, outer, up, call, callerVars, readerVars, faults>>

Drained == DOMAIN unacked = {} \/ ~up

\* every sender of the sender task's channel is gone
OuterClosed == sub # handler /\ \A w \in DOMAIN call : call[w].kind = "looking" => call[w].tx # handler

SenderEnds ==
    /\ handler # 0 /\ outer = {} /\ OuterClosed /\ Drained
    /\ handler' = 0 /\ up' = FALSE /\ wire' = {} /\ unacked' = [x \in {} |-> 0]
    /\ UNCHANGED <<coordVars, opened, outer, call, callerVars, readerVars, faults>>

(***************************************************************************)
(* open_sub and update_sub.                                                *)
(***************************************************************************)
After(w, T, c) == call' = [call EXCEPT ![w] = IF T = {} THEN NoCall ELSE Looking(T, c)]

\* create_subscriber: the entry is new, or it gets the new stream.
CreateSubscriber(tx) == sub' = tx /\ stale' = FALSE

\* open_sub replaces the sender task, keeps the unacknowledged messages and
\* greets the stream; create_subscriber then replaces or makes the entry
OpenSub ==
    /\ call.reader.kind = "open"
    /\ opened' = opened + 1
    /\ handler' = opened' /\ CreateSubscriber(opened')
    /\ unacked' = IF handler = 0 THEN [x \in {} |-> 0] ELSE unacked
    /\ outer' = {} /\ wire' = {Heartbeat} /\ up' = TRUE
    /\ After("reader", call.reader.tasks, opened')
    /\ UNCHANGED <<task, gone, listed, callerVars, readerVars, faults>>

\* add_subscriptions, first half: the entry is touched, its channel is copied
UpdateSub(w) ==
    /\ call[w].kind = "update" /\ sub # 0
    /\ stale' = FALSE
    /\ After(w, call[w].tasks, sub)
    /\ UNCHANGED <<task, gone, listed, sub, serverVars, callerVars, readerVars, faults>>

UpdateNotFound(w) ==
    /\ call[w].kind = "update" /\ sub = 0
    /\ call' = [call EXCEPT ![w] = NoCall]
    /\ UNCHANGED <<coordVars, serverVars, callerVars, readerVars, faults>>

\* Fault: a task that is already over is passed over in silence.
OnlyUnknown(T) == {<<t, "UnknownTask">> : t \in {u \in T : gone}}

\* what is answered at once: tasks that are gone or final
AnswersFor(T) ==
    {<<t, IF gone THEN "UnknownTask" ELSE task[t]>> : t \in {u \in T : gone \/ task[u] # "live"}}

\* add_subscriptions, second half, under the state's write lock
AddSubscriptions(w) ==
    /\ call[w].kind = "looking"
    /\ Sent(call[w].tx, AnswersFor(call[w].tasks))
    /\ listed' = listed \cup {t \in call[w].tasks : ~gone /\ task[t] = "live"}
    /\ call' = [call EXCEPT ![w] = NoCall]
    /\ UNCHANGED <<task, gone, sub, stale, handler, opened, unacked, wire, up, callerVars, readerVars, faults>>

\* the reader's call fails on the way and is retried; an open_sub takes the
\* client's tasks anew.  The asker's call is made once.
ReaderRetries ==
    /\ call.reader.kind = "looking" /\ Fault
    /\ \/ call' = [call EXCEPT !.reader = Open(tasks_set)]
       \/ call' = [call EXCEPT !.reader = Update(@.tasks)]
    /\ UNCHANGED <<coordVars, serverVars, callerVars, readerVars>>

AskLost ==
    /\ call.asker.kind = "update" /\ Fault
    /\ call' = [call EXCEPT !.asker = NoCall]
    /\ UNCHANGED <<coordVars, serverVars, callerVars, readerVars>>

(***************************************************************************)
(* The client.                                                             *)
(***************************************************************************)
\* the caller subscribes a task
Ask(t) ==
    /\ t \in to_ask /\ call.asker = NoCall /\ opened > 0
    /\ to_ask' = to_ask \ {t}
    /\ tasks_set' = tasks_set \cup {t}
    /\ call' = [call EXCEPT !.asker = Update({t})]
    /\ UNCHANGED <<coordVars, serverVars, closed, told, reader, faults>>

\* the caller drops its end
Close ==
    /\ to_ask = {} /\ call.asker = NoCall /\ ~closed
    /\ closed' = TRUE
    /\ UNCHANGED <<coordVars, serverVars, call, to_ask, readerVars, faults>>

CanRead == reader = "reading" /\ call.reader = NoCall /\ opened > 0

ReadEnds ==
    /\ reader' = "ended" /\ up' = FALSE /\ wire' = {}

Leave ==
    /\ CanRead /\ closed /\ tasks_set = {}
    /\ ReadEnds
    /\ UNCHANGED <<coordVars, handler, opened, outer, unacked, call, callerVars, tasks_set, told, faults>>

\* ack_sub: forgotten if a sender task is registered, refused otherwise
Acked(m) == unacked' = Restrict(unacked, DOMAIN unacked \ {m})

\* Fault: a task the coordinator no longer knows counts as done.
AllSucceeded(s) == "Succeeded"

\* what the caller is told on TaskResult and on UnknownTask
Reported(s) == IF s = "Succeeded" THEN s ELSE "FailedFatal"

ReadAnswer(t, s) ==
    /\ CanRead /\ <<t, s>> \in wire
    /\ tasks_set' = tasks_set \ {t}
    /\ told' = [told EXCEPT ![t] = @ \cup {Reported(s)}]
    /\ Acked(<<t, s>>)
    /\ wire' = wire \ {<<t, s>>}
    /\ UNCHANGED <<coordVars, handler, opened, outer, up, call, callerVars, reader, faults>>

KeepAliveNames(T) ==
    {S \in SUBSET T : Cardinality(S) = IF Cardinality(T) < Sample THEN Cardinality(T) ELSE Sample}

ReadHeartbeat ==
    /\ CanRead /\ Heartbeat \in wire
    /\ Acked(Heartbeat)
    /\ wire' = wire \ {Heartbeat}
    /\ \E S \in KeepAliveNames(tasks_set) : call' = [call EXCEPT !.reader = Update(S)]
    /\ UNCHANGED <<coordVars, handler, opened, outer, up, callerVars, readerVars, faults>>

ReadEndOfStream ==
    /\ CanRead /\ EndOfStream \in wire
    /\ ReadEnds
    /\ Acked(EndOfStream)
    /\ UNCHANGED <<coordVars, handler, opened, outer, call, callerVars, tasks_set, told, faults>>

StreamBreaks ==
    /\ up /\ Fault
    /\ up' = FALSE /\ wire' = {}
    /\ UNCHANGED <<coordVars, handler, opened, outer, unacked, call, callerVars, readerVars>>

\* heartbeats reach the client: its entry, sender task and stream are one
Healthy == up /\ sub = handler /\ sub # 0 /\ ~stale

\* the stream failed, or no heartbeat came for ten seconds
Reopen ==
    /\ CanRead /\ Heartbeat \notin wire
    /\ IF Healthy THEN Fault ELSE UNCHANGED faults
    /\ call' = [call EXCEPT !.reader = Open(tasks_set)]
    /\ up' = FALSE /\ wire' = {}
    /\ UNCHANGED <<coordVars, handler, opened, outer, unacked, callerVars, readerVars>>

Next ==
    \/ \E t \in Tasks : Ask(t) \/ \E s \in Outcomes : TaskEnds(t, s)
    \/ ProofRemoved \/ EvictSubscriber \/ SendHeartbeat \/ GoesStale \/ Shutdown
    \/ (\E m \in outer : Forward(m)) \/ SenderEnds \/ \E M \in SUBSET DOMAIN unacked : Resend(M)
    \/ OpenSub \/ ReaderRetries \/ AskLost
    \/ \E w \in DOMAIN call : UpdateSub(w) \/ UpdateNotFound(w) \/ AddSubscriptions(w)
    \/ \E t \in Tasks, s \in {"Succeeded", "FailedFatal", "UnknownTask"} : ReadAnswer(t, s)
    \/ Close \/ Leave \/ ReadHeartbeat \/ ReadEndOfStream \/ StreamBreaks \/ Reopen

Spec == Init /\ [][Next]_vars

--------------------------------------------------------------------------------
\* Types; no message is resent more often than the limit.
TypeOK ==
    /\ listed \subseteq Tasks /\ tasks_set \subseteq Tasks /\ sub <= opened /\ handler <= opened
    /\ DOMAIN unacked \subseteq Answers \cup {Heartbeat, EndOfStream}
    /\ \A m \in DOMAIN unacked : unacked[m] \in 0..MaxResends

\* The caller is told what happened: Succeeded only of a task that succeeded,
\* FailedFatal only of one that failed or whose proof is gone; a message that
\* was resent, or came from a stream before, changes nothing.
ToldTheTruth ==
    \A t \in Tasks :
        /\ "Succeeded" \in told[t] => task[t] = "Succeeded"
        /\ "FailedFatal" \in told[t] => task[t] = "FailedFatal" \/ gone

================================================================================
