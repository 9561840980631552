------------------------------ MODULE TaskChannel ------------------------------
(***************************************************************************)
(* The message channel of one task: `task_channels` of the coordinator     *)
(* (bin/coordinator/src/lib.rs), the worker's send_task_message and the    *)
(* reader's drive_message_stream (crates/worker/src/client.rs).            *)
(*                                                                         *)
(* A call first looks the entry up without the state lock.  If there is    *)
(* none it waits for the state's read lock, looks again and, when the task *)
(* can still send, opens an entry.  Tasks finish under the write lock and  *)
(* close their entry in the same step; a retryable failure closes it too.  *)
(* A closed entry is collected a minute later, and the retried task may    *)
(* then open another.  A reader whose stream breaks subscribes again from  *)
(* the number of payloads it has forwarded.                                *)
(***************************************************************************)
EXTENDS Naturals, Sequences

CONSTANTS
    Readers,     \* clients of subscribe_task_messages
    Payloads,    \* send_task_message calls the runs of the task make
    MaxBreaks,   \* bound: streams and answers lost
    MaxRetries   \* bound: retryable failures of the task

Eos == "eos"     \* EndOfStream; every other item of a stream is a payload

VARIABLES
    status,      \* "running", "retry", "final" or "unknown": its proof is gone
    failures,    \* retryable failures so far
    logs,        \* the buffer of every entry the task has had, in order
    entry,       \* "absent", "open" or "closed": the entry of the last of `logs`
    attached,    \* readers in the entry's `subscribers`
    sends,       \* [payload -> "new", "calling", "waiting", "kept" or "dropped"]
    client,      \* [reader -> "calling", "waiting", "reading" or "ended"]
    stream,      \* [reader -> what its stream holds and it has not read]
    forwarded,   \* [reader -> payloads given to its caller]
    endedBy,     \* [reader -> the log whose end it was told, 0 for a bare EndOfStream]
    breaks

taskVars == <<status, failures>>
entryVars == <<logs, entry, attached>>
readerVars == <<client, stream, forwarded, endedBy>>
vars == <<taskVars, entryVars, sends, readerVars, breaks>>

Init ==
    /\ status = "running" /\ failures = 0
    /\ logs = <<>> /\ entry = "absent" /\ attached = {}
    /\ sends = [n \in Payloads |-> "new"]
    /\ client = [r \in Readers |-> "calling"]
    /\ stream = [r \in Readers |-> <<>>]
    /\ forwarded = [r \in Readers |-> <<>>]
    /\ endedBy = [r \in Readers |-> 0]
    /\ breaks = 0

Buffer == logs[Len(logs)]

\* Fault: only a task on its way back to the queue counts as able to send.
OnlyRetryingCanSend(s) == s = "retry"

\* task_can_still_send: the task exists and is not final; a retrying one counts
TaskCanStillSend(s) == s \in {"running", "retry"}

(***************************************************************************)
(* The entry.  Every operation below holds the entry's mutex throughout.   *)
(***************************************************************************)
\* MessageChannelState::push on an entry that holds log `l`
Push(n, l) ==
    IF entry = "closed"
    THEN /\ sends' = [sends EXCEPT ![n] = "dropped"]
         /\ UNCHANGED <<entryVars, stream>>
    ELSE /\ sends' = [sends EXCEPT ![n] = "kept"]
         /\ logs' = (IF entry = "absent" THEN logs ELSE SubSeq(logs, 1, Len(logs) - 1)) \o <<Append(l, n)>>
         /\ entry' = "open"
         /\ stream' = [r \in Readers |-> IF r \in attached THEN Append(stream[r], n)
                                                           ELSE stream[r]]
         /\ UNCHANGED attached

\* Fault: a reader that comes back gets the whole buffer again.
WholeBuffer(l, offset) == l

Replay(l, offset) == SubSeq(l, offset + 1, Len(l))

\* attach_subscriber: replay from the offset, then follow or end
Attach(r) ==
    LET l == IF entry = "absent" THEN <<>> ELSE Buffer
        replay == Replay(l, Len(forwarded[r]))
    IN  /\ logs' = IF entry = "absent" THEN Append(logs, <<>>) ELSE logs
        /\ entry' = IF entry = "absent" THEN "open" ELSE entry
        /\ attached' = IF entry = "closed" THEN attached ELSE attached \cup {r}
        /\ stream' = [stream EXCEPT ![r] = IF entry = "closed" THEN Append(replay, Eos) ELSE replay]
        /\ endedBy' = [endedBy EXCEPT ![r] = Len(logs')]
        /\ client' = [client EXCEPT ![r] = "reading"]

\* close_task_channel
CloseTaskChannel ==
    /\ entry' = IF entry = "open" THEN "closed" ELSE entry
    /\ attached' = {}
    /\ stream' = [r \in Readers |-> IF r \in attached THEN Append(stream[r], Eos) ELSE stream[r]]

(***************************************************************************)
(* The task, under the state's write lock.                                 *)
(***************************************************************************)
\* complete_task, or fail_task without a retry left
TaskEnds ==
    /\ status \in {"running", "retry"}
    /\ status' = "final"
    /\ CloseTaskChannel
    /\ UNCHANGED <<failures, logs, sends, client, forwarded, endedBy, breaks>>

\* fail_task with a retry left
TaskFailsRetryable ==
    /\ status = "running" /\ failures < MaxRetries
    /\ status' = "retry"
    /\ failures' = failures + 1
    /\ CloseTaskChannel
    /\ UNCHANGED <<logs, sends, client, forwarded, endedBy, breaks>>

\* assign_tasks gives the task to a worker again
TaskRunsAgain ==
    /\ status = "retry"
    /\ status' = "running"
    /\ UNCHANGED <<failures, entryVars, sends, readerVars, breaks>>

\* fail_proof_internal closes the channels of all tasks and drops the proof
ProofRemoved ==
    /\ status # "unknown"
    /\ status' = "unknown"
    /\ CloseTaskChannel
    /\ UNCHANGED <<failures, logs, sends, client, forwarded, endedBy, breaks>>

\* cleanup_stale_task_channels, a minute after the close
Collect ==
    /\ entry = "closed"
    /\ entry' = "absent"
    /\ UNCHANGED <<taskVars, logs, attached, sends, readerVars, breaks>>

(***************************************************************************)
(* send_task_message.  A call whose answer is lost is made again.          *)
(***************************************************************************)
SendCalled(n) ==
    /\ sends[n] = "new" /\ status = "running"
    /\ sends' = [sends EXCEPT ![n] = "calling"]
    /\ UNCHANGED <<taskVars, entryVars, readerVars, breaks>>

\* the first lookup, without the state lock
SendFindsEntry(n) ==
    /\ sends[n] = "calling" /\ entry # "absent"
    /\ Push(n, Buffer)
    /\ UNCHANGED <<taskVars, client, forwarded, endedBy, breaks>>

SendFindsNone(n) ==
    /\ sends[n] = "calling" /\ entry = "absent"
    /\ sends' = [sends EXCEPT ![n] = "waiting"]
    /\ UNCHANGED <<taskVars, entryVars, readerVars, breaks>>

\* under the read lock: look again, then open an entry or drop the payload
SendLocked(n) ==
    /\ sends[n] = "waiting"
    /\ \/ entry # "absent" /\ Push(n, Buffer)
       \/ entry = "absent" /\ TaskCanStillSend(status) /\ Push(n, <<>>)
       \/ /\ entry = "absent" /\ ~TaskCanStillSend(status)
          /\ sends' = [sends EXCEPT ![n] = "dropped"]
          /\ UNCHANGED <<entryVars, stream>>
    /\ UNCHANGED <<taskVars, client, forwarded, endedBy, breaks>>

\* the answer of a call is lost and the client's retry repeats it
SendRepeated(n) ==
    /\ sends[n] \in {"kept", "dropped"} /\ breaks < MaxBreaks
    /\ sends' = [sends EXCEPT ![n] = "calling"]
    /\ breaks' = breaks + 1
    /\ UNCHANGED <<taskVars, entryVars, readerVars>>

(***************************************************************************)
(* subscribe_task_channel and drive_message_stream.                        *)
(***************************************************************************)
SubscribeFindsEntry(r) ==
    /\ client[r] = "calling" /\ entry # "absent"
    /\ Attach(r)
    /\ UNCHANGED <<taskVars, sends, forwarded, breaks>>

SubscribeFindsNone(r) ==
    /\ client[r] = "calling" /\ entry = "absent"
    /\ client' = [client EXCEPT ![r] = "waiting"]
    /\ UNCHANGED <<taskVars, entryVars, sends, stream, forwarded, endedBy, breaks>>

\* under the read lock; a task that cannot send any more and has no entry
\* gets a bare EndOfStream
SubscribeLocked(r) ==
    /\ client[r] = "waiting"
    /\ \/ (entry # "absent" \/ TaskCanStillSend(status)) /\ Attach(r)
       \/ /\ entry = "absent" /\ ~TaskCanStillSend(status)
          /\ stream' = [stream EXCEPT ![r] = <<Eos>>]
          /\ endedBy' = [endedBy EXCEPT ![r] = 0]
          /\ client' = [client EXCEPT ![r] = "reading"]
          /\ UNCHANGED entryVars
    /\ UNCHANGED <<taskVars, sends, forwarded, breaks>>

ReadPayload(r) ==
    /\ client[r] = "reading" /\ stream[r] # <<>> /\ Head(stream[r]) # Eos
    /\ forwarded' = [forwarded EXCEPT ![r] = Append(@, Head(stream[r]))]
    /\ stream' = [stream EXCEPT ![r] = Tail(@)]
    /\ UNCHANGED <<taskVars, entryVars, sends, client, endedBy, breaks>>

ReadEndOfStream(r) ==
    /\ client[r] = "reading" /\ stream[r] # <<>> /\ Head(stream[r]) = Eos
    /\ client' = [client EXCEPT ![r] = "ended"]
    /\ stream' = [stream EXCEPT ![r] = <<>>]
    /\ UNCHANGED <<taskVars, entryVars, sends, forwarded, endedBy, breaks>>

\* the stream fails, or ends without EndOfStream: what it held is lost and the
\* reader subscribes again (its dead sender is dropped by the next push)
StreamBreaks(r) ==
    /\ client[r] = "reading" /\ breaks < MaxBreaks
    /\ breaks' = breaks + 1
    /\ stream' = [stream EXCEPT ![r] = <<>>]
    /\ attached' = attached \ {r}
    /\ client' = [client EXCEPT ![r] = "calling"]
    /\ UNCHANGED <<taskVars, logs, entry, sends, forwarded, endedBy>>

Next ==
    \/ TaskEnds \/ TaskFailsRetryable \/ TaskRunsAgain \/ ProofRemoved \/ Collect
    \/ \E n \in Payloads : SendCalled(n) \/ SendFindsEntry(n) \/ SendFindsNone(n)
                           \/ SendLocked(n) \/ SendRepeated(n)
    \/ \E r \in Readers : SubscribeFindsEntry(r) \/ SubscribeFindsNone(r) \/ SubscribeLocked(r)
                          \/ ReadPayload(r) \/ ReadEndOfStream(r) \/ StreamBreaks(r)

Spec == Init /\ [][Next]_vars

--------------------------------------------------------------------------------
\* What a stream holds before the end, if it holds the end: nothing may follow it.
BeforeEnd(s) == IF s # <<>> /\ s[Len(s)] = Eos THEN SubSeq(s, 1, Len(s) - 1) ELSE s

\* As long as the task has had one entry, what a reader has given to its caller
\* and what its stream still holds is a prefix of what the entry accepted: a
\* reader that comes back with `start_offset` neither misses nor repeats a
\* payload, whatever was pushed between the break and the new subscription
\* (attach_subscriber, drive_message_stream).
ReaderFollowsLog ==
    Len(logs) = 1 =>
        \A r \in Readers :
            LET got == forwarded[r] \o BeforeEnd(stream[r])
            IN  Len(got) <= Len(logs[1]) /\ got = SubSeq(logs[1], 1, Len(got))

\* A reader that was told EndOfStream by an entry holds as many payloads as the
\* entry ever accepted: nothing is pushed behind the end, and the end overtakes
\* nothing (push after close, close_task_channel).
EndMeansAll ==
    \A r \in Readers : client[r] = "ended" /\ endedBy[r] # 0 =>
        Len(forwarded[r]) >= Len(logs[endedBy[r]])

\* A reader whose stream is up will be told the end: the end is in its stream,
\* or it is attached to an open entry, and such an entry belongs to a task that
\* will still finish and close it.
StreamWillEnd ==
    /\ entry = "open" => status \in {"running", "retry"}
    /\ \A r \in Readers : client[r] = "reading" =>
          \/ \E i \in DOMAIN stream[r] : stream[r][i] = Eos
          \/ r \in attached /\ entry = "open" /\ status \in {"running", "retry"}

\* A message of a task that runs and has not failed before is buffered: only
\* messages of finished or unknown tasks, and those of a retry that finds the
\* closed entry of the attempt before, are dropped (send_task_message).
FirstRunLosesNothing ==
    [][\A n \in Payloads : sends[n] \in {"calling", "waiting"} /\ sends'[n] = "dropped" =>
           status \in {"final", "unknown"} \/ failures > 0]_vars
================================================================================
