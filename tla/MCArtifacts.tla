------------------------------ MODULE MCArtifacts ------------------------------
(***************************************************************************)
(* Model-checking instance of the artifact store: the three parts of the   *)
(* store in Redis (Artifacts), and transfers to and from S3.  They share   *)
(* no state, so `part` says which of them moves.  The artifact in Redis is *)
(* checked in two bounds: a small and two chunked uploads, and a small and *)
(* a chunked one that are repeated.                                        *)
(***************************************************************************)
EXTENDS Artifacts

CONSTANTS Small, Single, NoObject

VARIABLES part, object, at, size, todo, holds, item, channel, result, broken, replaced

s3Vars == <<object, at, size, todo, holds, item, channel, result, broken, replaced>>

SmallOrTwo == [u \in Uploads |-> IF u = Small THEN 1 ELSE 2]

\* the fourth writer's upload is small enough to skip the gate
FourSizes == <<2, 2, 3, 1>>

S3 == INSTANCE S3Store WITH
    Downloads <- {"d1", "d2"}, Uploads <- {"a", "b"}, Chunks <- [a |-> 3, b |-> 1], Permits <- 2

InRedis == part \in {"many", "repeated"}

ArtifactsInit ==
    /\ part \in {"many", "repeated", "admission", "refs", "s3"}
    /\ Redis!Init /\ (~InRedis => kind = "other" /\ hash = Redis!EmptyHash)
    /\ Admission!Init /\ Refs!Init /\ S3!Init

\* Every upload is tried once, or all but Single are repeated.
Once == \A u \in Uploads : attempt'[u] <= 1
Repeated == attempt'[Single] = 0

ArtifactsNext ==
    /\ UNCHANGED part
    /\ \/ /\ InRedis /\ Redis!Next /\ UNCHANGED <<admissionVars, refVars, s3Vars>>
          /\ IF part = "many" THEN Once ELSE Repeated
       \/ part = "admission" /\ Admission!Next /\ UNCHANGED <<redisVars, refVars, s3Vars>>
       \/ part = "refs" /\ Refs!Next /\ UNCHANGED <<redisVars, admissionVars, s3Vars>>
       \/ part = "s3" /\ S3!Next /\ UNCHANGED <<redisVars, admissionVars, refVars>>

ArtifactsSpec ==
    ArtifactsInit /\ [][ArtifactsNext]_<<part, redisVars, admissionVars, refVars, s3Vars>>

--------------------------------------------------------------------------------
\* A download from S3 that succeeds is one upload in order, and threads,
\* callers and permits never wait in a circle (par_download_file,
\* par_upload_file).
TransfersSound == part = "s3" => S3!DownloadIsWhole /\ S3!NoTransferStuck
================================================================================
