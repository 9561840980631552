--------------------------- MODULE RedisAdmission ---------------------------
(***************************************************************************)
(* Admission of uploads to one Redis shard (check_admission and its guard  *)
(* in src/crates/artifact/src/redis.rs).  An upload above the bypass size  *)
(* waits until the memory in use, the bytes already promised and its own   *)
(* bytes fit the budget; it then holds a reservation until its write has   *)
(* landed.  The memory in use is asked of Redis, the promised bytes are a  *)
(* counter: two reads, with other uploads landing in between.              *)
(***************************************************************************)
EXTENDS Naturals, FiniteSets

CONSTANTS
    Uploads,  \* uploads that can be under way at the same time
    Bytes,    \* size of each
    Budget,   \* MEMORY_BUDGET_FRACTION of maxmemory
    Bypass    \* ADMISSION_BYPASS_BYTES

VARIABLES
    used,       \* used_memory of the shard
    in_flight,  \* promised bytes
    decide,     \* uploads in the mutex: at most one
    at,         \* where each upload stands
    seen,       \* used_memory as the upload last read it
    reserved,   \* bytes its guard holds
    unguarded   \* let through without a reservation

vars == <<used, in_flight, decide, at, seen, reserved, unguarded>>

Init ==
    /\ used = 0
    /\ in_flight = 0
    /\ decide = {}
    /\ at = [u \in Uploads |-> "idle"]
    /\ seen = [u \in Uploads |-> 0]
    /\ reserved = [u \in Uploads |-> 0]
    /\ unguarded = {}

Move(u, state) == at' = [at EXCEPT ![u] = state]

\* upload_to_transport: small writes skip the gate.
Begin(u) ==
    /\ at[u] = "idle"
    /\ IF Bytes[u] <= Bypass
       THEN Move(u, "writing") /\ unguarded' = unguarded \cup {u}
       ELSE Move(u, "queued") /\ UNCHANGED unguarded
    /\ UNCHANGED <<used, in_flight, decide, seen, reserved>>

MutexFree == decide = {}

\* Take the mutex, for the first time or after a wait.
Lock(u) ==
    /\ at[u] = "queued" /\ MutexFree
    /\ decide' = decide \cup {u}
    /\ Move(u, "locked")
    /\ UNCHANGED <<used, in_flight, seen, reserved, unguarded>>

\* INFO memory answers ...
QueryMemory(u) ==
    /\ at[u] = "locked"
    /\ seen' = [seen EXCEPT ![u] = used]
    /\ Move(u, "read")
    /\ UNCHANGED <<used, in_flight, decide, reserved, unguarded>>

\* ... or not: the upload goes ahead without a reservation.
FailOpen(u) ==
    /\ at[u] = "locked"
    /\ decide' = decide \ {u}
    /\ Move(u, "writing")
    /\ unguarded' = unguarded \cup {u}
    /\ UNCHANGED <<used, in_flight, seen, reserved>>

\* Fault: promised bytes are not part of the sum.
FitsUsed(u) == seen[u] + Bytes[u] <= Budget

Fits(u) == seen[u] + in_flight + Bytes[u] <= Budget

Admit(u) ==
    /\ at[u] = "read" /\ Fits(u)
    /\ in_flight' = in_flight + Bytes[u]
    /\ reserved' = [reserved EXCEPT ![u] = Bytes[u]]
    /\ seen' = [seen EXCEPT ![u] = 0]
    /\ decide' = decide \ {u}
    /\ Move(u, "writing")
    /\ UNCHANGED <<used, unguarded>>

\* The upload waits and asks again, or fails after ADMISSION_MAX_WAIT.
Refuse(u, waits) ==
    /\ at[u] = "read" /\ ~Fits(u)
    /\ seen' = [seen EXCEPT ![u] = 0]
    /\ decide' = decide \ {u}
    /\ Move(u, IF waits THEN "queued" ELSE "idle")
    /\ UNCHANGED <<used, in_flight, reserved, unguarded>>

\* AdmissionGuard::drop, when the upload has ended.
ReleaseAtEnd(u) == at[u] = "landed" /\ reserved[u] > 0

\* The write lands, in one of the attempts of the retry loop; its bytes are in
\* use from then on.
Land(u) ==
    /\ at[u] = "writing"
    /\ used' = used + Bytes[u]
    /\ Move(u, "landed")
    /\ UNCHANGED <<in_flight, decide, seen, reserved, unguarded>>

\* Every attempt fails; the guard is dropped with the error.
UploadFails(u) ==
    /\ at[u] = "writing"
    /\ in_flight' = in_flight - reserved[u]
    /\ reserved' = [reserved EXCEPT ![u] = 0]
    /\ unguarded' = unguarded \ {u}
    /\ Move(u, "idle")
    /\ UNCHANGED <<used, decide, seen>>

DropGuard(u) ==
    /\ ReleaseAtEnd(u)
    /\ in_flight' = in_flight - reserved[u]
    /\ reserved' = [reserved EXCEPT ![u] = 0]
    /\ UNCHANGED <<used, decide, at, seen, unguarded>>

\* The artifact is deleted or expires.
Free(u) ==
    /\ at[u] = "landed" /\ reserved[u] = 0
    /\ used' = used - Bytes[u]
    /\ unguarded' = unguarded \ {u}
    /\ Move(u, "idle")
    /\ UNCHANGED <<in_flight, decide, seen, reserved>>

Next ==
    \E u \in Uploads :
        \/ Begin(u) \/ Lock(u) \/ QueryMemory(u) \/ FailOpen(u) \/ Admit(u)
        \/ \E waits \in BOOLEAN : Refuse(u, waits)
        \/ Land(u) \/ UploadFails(u) \/ DropGuard(u) \/ Free(u)

Spec == Init /\ [][Next]_vars

-----------------------------------------------------------------------------
\* The bytes of a set of uploads, counted one by one.
Total(S) == Cardinality(UNION {{u} \X (1 .. Bytes[u]) : u \in S})

\* However uploads land between the two reads, the bytes in use and those
\* admitted and yet to be written never exceed twice the budget, those of
\* uploads let through aside: only what was promised when the mutex was taken
\* can be missed (check_admission, Admission::decide).
OvershootBounded ==
    used + Total({u \in Uploads : at[u] = "writing"} \ unguarded)
        <= 2 * Budget + Total(unguarded)

\* An admitted upload is counted at every moment until its artifact is gone,
\* as promised or as in use: the guard outlives the write (AdmissionGuard).
AdmittedIsCounted ==
    used + in_flight >= Total({u \in Uploads : at[u] \in {"writing", "landed"}} \ unguarded)
=============================================================================
