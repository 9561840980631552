------------------------------- MODULE S3Store -------------------------------
(***************************************************************************)
(* Transfers of one object to and from S3 (crates/artifact/src/s3.rs).  A  *)
(* small object is one request.  A large one is split over threads; each   *)
(* holds a permit of the client's semaphore, works through its chunks one  *)
(* after the other and hands them over a channel to the caller, who puts   *)
(* them together.  Chunks are as large as a request, so an object is a     *)
(* number of chunks; its content is the upload it came from.  S3 is        *)
(* external: a completed upload replaces the object at once.               *)
(***************************************************************************)
EXTENDS Naturals, Sequences, FiniteSets

CONSTANTS
    Downloads, Uploads,
    Chunks,    \* [upload -> chunks of its object]
    Permits,   \* concurrency
    NoObject

VARIABLES
    object,    \* the upload whose object is there, or NoObject
    at,        \* [transfer -> where its caller is]
    size,      \* [transfer -> chunks to transfer]
    todo,      \* [transfer -> the chunks left for each of its threads]
    holds,     \* [transfer -> threads that hold a permit]
    item,      \* [transfer -> <<thread, chunk, content>> read and not handed over]
    channel,   \* [transfer -> <<chunk, content>> handed over]
    result,    \* [transfer -> [chunk -> content]]
    broken,    \* transfers with a thread that failed
    replaced   \* downloads whose object changed under them

vars == <<object, at, size, todo, holds, item, channel, result, broken, replaced>>

Transfers == Downloads \cup Uploads

\* the content of an upload: its chunks in order
Whole(u) == [i \in 1..Chunks[u] |-> <<u, i>>]

Init ==
    /\ object = NoObject
    /\ at = [t \in Transfers |-> "idle"] /\ size = [t \in Transfers |-> 0]
    /\ todo = [t \in Transfers |-> << >>] /\ holds = [t \in Transfers |-> {}]
    /\ item = [t \in Transfers |-> {}] /\ channel = [t \in Transfers |-> << >>]
    /\ result = [t \in Transfers |-> << >>] /\ broken = {} /\ replaced = {}

Least(a, b) == IF a < b THEN a ELSE b
DivCeil(a, b) == (a + b - 1) \div b

\* slice::chunks: runs of k, the last one shorter
Runs(n, k) == [j \in 1..DivCeil(n, k) |->
                 [i \in 1..(Least(j * k, n) - (j - 1) * k) |-> (j - 1) * k + i]]

\* a download gives every thread an equal run; an upload gives every thread a
\* run as long as there are permits
ThreadsOf(t, n) ==
    IF t \in Downloads THEN Runs(n, DivCeil(n, Least(Permits, n))) ELSE Runs(n, Permits)

\* mpsc::channel: as many places as a download has threads, as an upload chunks
Capacity(t) == IF t \in Downloads THEN Least(Permits, size[t]) ELSE size[t]

Live(t) == {j \in DOMAIN todo[t] : todo[t][j] # << >> \/ j \in holds[t]}
Held == LET pairs == UNION {{t} \X holds[t] : t \in Transfers} IN Cardinality(pairs)

\* the object becomes o
Becomes(o) ==
    /\ object' = o
    /\ replaced' = replaced \cup {d \in Downloads : at[d] \notin {"idle", "done", "failed"}}

StartThreads(t, n) ==
    /\ at' = [at EXCEPT ![t] = "threads"] /\ size' = [size EXCEPT ![t] = n]
    /\ todo' = [todo EXCEPT ![t] = ThreadsOf(t, n)]
    /\ UNCHANGED <<holds, item, channel, broken>>

Finish(t, s) ==
    /\ at' = [at EXCEPT ![t] = s]
    /\ UNCHANGED <<size, todo, holds, item, channel, broken>>

\* par_download_file: the size first; only a missing object is final at once,
\* other errors are repeated until the backoff gives up
HeadObject(d) ==
    /\ at[d] = "idle"
    /\ \/ Finish(d, "failed")
       \/ object # NoObject /\ Chunks[object] = 1 /\ Finish(d, "single")
       \/ object # NoObject /\ Chunks[object] > 1 /\ StartThreads(d, Chunks[object])
    /\ UNCHANGED <<object, result, replaced>>

ReadSingle(d) ==
    /\ at[d] = "single"
    /\ IF object = NoObject THEN Finish(d, "failed") /\ UNCHANGED result
       ELSE /\ Finish(d, "done")
            /\ result' = [result EXCEPT ![d] = Whole(object)]
    /\ UNCHANGED <<object, replaced>>

\* par_upload_file: put_object or create_multipart_upload.  A request that is
\* carried out may still fail, when its answer is lost.
StartUpload(u) ==
    /\ at[u] = "idle"
    /\ \/ Finish(u, "failed") /\ UNCHANGED <<object, replaced>>
       \/ Chunks[u] = 1 /\ (\E s \in {"done", "failed"} : Finish(u, s)) /\ Becomes(u)
       \/ Chunks[u] > 1 /\ StartThreads(u, Chunks[u]) /\ UNCHANGED <<object, replaced>>
    /\ UNCHANGED result

(***************************************************************************)
(* Threads.                                                                *)
(***************************************************************************)
Acquire(t, j) ==
    /\ j \in Live(t) \ holds[t] /\ Held < Permits
    /\ holds' = [holds EXCEPT ![t] = @ \cup {j}]
    /\ UNCHANGED <<object, at, size, todo, item, channel, result, broken, replaced>>

\* a part is uploaded, or a range of the object as it is now is read
Transfer(t, j) ==
    /\ j \in holds[t] /\ todo[t][j] # << >> /\ \A x \in item[t] : x[1] # j
    /\ t \in Downloads => object # NoObject /\ todo[t][j][1] <= Chunks[object]
    /\ item' = [item EXCEPT ![t] = @ \cup {<<j, todo[t][j][1], <<IF t \in Downloads THEN object ELSE t, todo[t][j][1]>>>>}]
    /\ UNCHANGED <<object, at, size, todo, holds, channel, result, broken, replaced>>

\* the request fails for good: the thread returns its error or panics, and
\* its permit goes with it
ThreadFails(t, j) ==
    /\ j \in holds[t] /\ \A x \in item[t] : x[1] # j
    /\ todo[t][j] # << >>
    /\ broken' = broken \cup {t}
    /\ todo' = [todo EXCEPT ![t][j] = << >>] /\ holds' = [holds EXCEPT ![t] = @ \ {j}]
    /\ UNCHANGED <<object, at, size, item, channel, result, replaced>>

Send(t, x) ==
    /\ x \in item[t] /\ Len(channel[t]) < Capacity(t)
    /\ channel' = [channel EXCEPT ![t] = Append(@, <<x[2], x[3]>>)]
    /\ item' = [item EXCEPT ![t] = @ \ {x}]
    /\ todo' = [todo EXCEPT ![t][x[1]] = Tail(@)]
    /\ UNCHANGED <<object, at, size, holds, result, broken, replaced>>

ThreadEnds(t, j) ==
    /\ j \in holds[t] /\ todo[t][j] = << >>
    /\ holds' = [holds EXCEPT ![t] = @ \ {j}]
    /\ UNCHANGED <<object, at, size, todo, item, channel, result, broken, replaced>>

(***************************************************************************)
(* The caller.                                                             *)
(***************************************************************************)
\* Fault: the caller waits for its threads before it empties the channel.
JoinFirst(t) == at[t] = "threads" /\ Live(t) = {}

Receives(t) == at[t] = "threads"

\* every chunk goes to its own place
Placed(t, x) == [i \in DOMAIN result[t] \cup {x[1]} |-> IF i = x[1] THEN x[2] ELSE result[t][i]]

Receive(t) ==
    /\ Receives(t) /\ channel[t] # << >>
    /\ result' = [result EXCEPT ![t] = Placed(t, Head(channel[t]))]
    /\ channel' = [channel EXCEPT ![t] = Tail(@)]
    /\ UNCHANGED <<object, at, size, todo, holds, item, broken, replaced>>

\* the channel is closed and empty: a failed thread is a panic of the caller;
\* complete_multipart_upload replaces the object or fails, or both
Join(t) ==
    /\ at[t] = "threads" /\ Live(t) = {} /\ channel[t] = << >>
    /\ \/ t \in broken \cup Uploads /\ Finish(t, "failed") /\ UNCHANGED <<object, replaced>>
       \/ t \in Downloads \ broken /\ Finish(t, "done") /\ UNCHANGED <<object, replaced>>
       \/ t \in Uploads \ broken /\ (\E s \in {"done", "failed"} : Finish(t, s)) /\ Becomes(t)
    /\ UNCHANGED result

\* the caller is dropped, and its threads with it
Abandon(t) ==
    /\ at[t] \in {"threads", "single"}
    /\ at' = [at EXCEPT ![t] = "failed"] /\ todo' = [todo EXCEPT ![t] = << >>]
    /\ holds' = [holds EXCEPT ![t] = {}] /\ item' = [item EXCEPT ![t] = {}]
    /\ channel' = [channel EXCEPT ![t] = << >>]
    /\ UNCHANGED <<object, size, result, broken, replaced>>

Delete ==
    /\ object # NoObject
    /\ Becomes(NoObject)
    /\ UNCHANGED <<at, size, todo, holds, item, channel, result, broken>>

Step(t) ==
    \/ \E j \in DOMAIN todo[t] : Acquire(t, j) \/ Transfer(t, j) \/ ThreadFails(t, j) \/ ThreadEnds(t, j)
    \/ \E x \in item[t] : Send(t, x)
    \/ Receive(t) \/ Join(t)

Next ==
    \/ \E d \in Downloads : HeadObject(d) \/ ReadSingle(d)
    \/ \E u \in Uploads : StartUpload(u)
    \/ \E t \in Transfers : Step(t) \/ Abandon(t)
    \/ Delete

Spec == Init /\ [][Next]_vars

(***************************************************************************)
(* What must hold.                                                         *)
(***************************************************************************)
\* A download that succeeds is one upload, whole and in order, whatever the
\* order its chunks arrive in, unless the object changed while it was read
\* (par_download_file sizes the object and then reads it range by range).
DownloadIsWhole ==
    \A d \in Downloads : at[d] = "done" /\ d \notin replaced =>
        \E u \in Uploads : result[d] = Whole(u)

\* Threads that hold permits wait for their caller at most, and callers for
\* threads that hold permits or can have one: transfers that share the
\* semaphore never wait for each other in a circle.
NoTransferStuck ==
    \A t \in Transfers : at[t] = "threads" => \E s \in Transfers : at[s] = "threads" /\ ENABLED Step(s)
==============================================================================
