---------------------------- MODULE ArtifactRefs ----------------------------
(***************************************************************************)
(* Reference counting of an artifact (add_ref and remove_ref in            *)
(* src/crates/artifact/src/redis.rs).  The references are a Redis set;     *)
(* removing one takes up to four commands, each a step: remove, count,     *)
(* drop the empty set, delete the artifact.  A command that fails makes    *)
(* the retry loop start over, and the loop may give up.  The holders       *)
(* refer to the artifact before any of them lets go of it, and let go of   *)
(* it before the set expires (ARTIFACT_TIMEOUT_SECONDS).                   *)
(***************************************************************************)
EXTENDS Naturals

CONSTANTS
    Holders,     \* tasks that refer to the artifact
    MaxFailures  \* bound on failing commands

VARIABLES
    refs,      \* the set under refs:{id}
    step,      \* where each holder stands
    stored,    \* the artifact is there
    failures,  \* commands that failed so far
    lost       \* holders whose retries ran out

vars == <<refs, step, stored, failures, lost>>

Init ==
    /\ refs = {}
    /\ step = [h \in Holders |-> "new"]
    /\ stored = TRUE
    /\ failures = 0
    /\ lost = {}

Move(h, s) == step' = [step EXCEPT ![h] = s]

\* add_ref: SADD, whose repetition changes nothing.
AddRef(h) ==
    /\ step[h] = "new"
    /\ refs' = refs \cup {h}
    /\ Move(h, "holding")
    /\ UNCHANGED <<stored, failures, lost>>

AllRefer == \A h \in Holders : step[h] # "new"

Release(h) ==
    /\ step[h] = "holding" /\ AllRefer
    /\ Move(h, "remove")
    /\ UNCHANGED <<refs, stored, failures, lost>>

\* SREM
Remove(h) ==
    /\ step[h] = "remove"
    /\ refs' = refs \ {h}
    /\ Move(h, "count")
    /\ UNCHANGED <<stored, failures, lost>>

\* Fault: the last but one reference counts as the last.
OneIsNone == \A h, k \in refs : h = k

NoneLeft == refs = {}

\* SCARD
Count(h) ==
    /\ step[h] = "count"
    /\ Move(h, IF NoneLeft THEN "drop" ELSE "done")
    /\ UNCHANGED <<refs, stored, failures, lost>>

\* DEL of the set
DropSet(h) ==
    /\ step[h] = "drop"
    /\ refs' = {}
    /\ Move(h, "delete")
    /\ UNCHANGED <<stored, failures, lost>>

DeletedBy == FALSE

\* try_delete
Delete(h) ==
    /\ step[h] = "delete"
    /\ stored' = DeletedBy
    /\ Move(h, "done")
    /\ UNCHANGED <<refs, failures, lost>>

\* A command fails, before or after it was carried out: from the start again,
\* or the error is returned.
CommandFails(h, again) ==
    /\ step[h] \in {"remove", "count", "drop", "delete"}
    /\ failures < MaxFailures
    /\ step[h] = "delete" => ~again
    /\ failures' = failures + 1
    /\ Move(h, IF again THEN "remove" ELSE "done")
    /\ lost' = IF again THEN lost ELSE lost \cup {h}
    /\ UNCHANGED <<refs, stored>>

Next ==
    \E h \in Holders :
        \/ AddRef(h) \/ Release(h) \/ Remove(h) \/ Count(h) \/ DropSet(h) \/ Delete(h)
        \/ \E again \in BOOLEAN : CommandFails(h, again)

Spec == Init /\ [][Next]_vars

-----------------------------------------------------------------------------
\* The artifact is not deleted under a holder that has not let go of it,
\* although the four commands of one holder interleave with those of others.
KeptWhileReferred == ~stored => \A h \in Holders : step[h] \notin {"new", "holding"}

\* When every holder has let go and no call was given up, the artifact is
\* gone: two holders that let go at once do not leave it to each other.
LastReleaseDeletes ==
    (\A h \in Holders : step[h] = "done") /\ lost = {} => ~stored
=============================================================================
