------------------------------ MODULE Artifacts ------------------------------
(***************************************************************************)
(* The artifact store in Redis: one artifact under concurrent uploads,     *)
(* downloads and deletions (RedisStore), the admission of uploads to a     *)
(* shard (RedisAdmission) and the reference counts (ArtifactRefs), each    *)
(* over variables of its own, and what must hold of them.                  *)
(***************************************************************************)
EXTENDS Naturals, FiniteSets

CONSTANTS
    Uploads, Chunks, Readers, MaxAttempts, MaxDeletes, None,  \* of the artifact
    Writers, Bytes, Budget, Bypass,                           \* of the admission
    Holders, MaxFailures                                      \* of the references

ASSUME StoreAssumption ==
    /\ Chunks \in [Uploads -> Nat \ {0}] /\ None \notin Uploads
    /\ MaxAttempts \in Nat /\ MaxDeletes \in Nat

ASSUME AdmissionAssumption ==
    IsFiniteSet(Writers) /\ Bytes \in [Writers -> Nat] /\ Budget \in Nat /\ Bypass \in Nat

ASSUME RefsAssumption == Holders # {} /\ MaxFailures \in Nat

VARIABLES
    kind, inline, hash, phase, attempt, staged, wire, unlinks, deletes, readers,
    used, in_flight, decide, upload_at, seen, reserved, unguarded,
    refs, step, stored, failures, lost

redisVars == <<kind, inline, hash, phase, attempt, staged, wire, unlinks, deletes, readers>>
admissionVars == <<used, in_flight, decide, upload_at, seen, reserved, unguarded>>
refVars == <<refs, step, stored, failures, lost>>

Redis == INSTANCE RedisStore
Admission == INSTANCE RedisAdmission WITH Uploads <- Writers, at <- upload_at
Refs == INSTANCE ArtifactRefs

\* An artifact that is declared is whole, a download that succeeds is one upload,
\* and what is reported missing was missing (publish_staged, upload_inline,
\* par_download_file, exists).
ReadsAreTrue == Redis!PublishedIsWhole /\ Redis!NoTornRead /\ Redis!NotFoundMeansAbsent

\* A published hash does not change, an acknowledged upload leaves an artifact,
\* and an artifact goes by deletion or expiry only (PUBLISH_SCRIPT,
\* upload_to_transport, upload_inline).
PublishedStays ==
    Redis!PublishedNeverMutates /\ Redis!AckMeansStored /\ Redis!OnlyDeletedOrExpired

\* Admission overshoots by one budget at most, and an admitted upload is
\* counted until it has landed (check_admission, AdmissionGuard).
AdmissionBounded == Admission!OvershootBounded /\ Admission!AdmittedIsCounted

\* No holder loses its artifact and the last one to release it deletes it
\* (remove_ref).
RefsDecide == Refs!KeptWhileReferred /\ Refs!LastReleaseDeletes
==============================================================================
