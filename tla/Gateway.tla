--------------------------------- MODULE Gateway ---------------------------------
(***************************************************************************)
(* The network gateway (bin/network-gateway): SDK calls against a          *)
(* self-hosted cluster.  create_program registers a program in the durable *)
(* program store and warms the cluster's artifact store; request_proof     *)
(* makes sure the program is warm and creates a row; the SDK then polls    *)
(* and lists.  Calls run side by side, and each may fail or be dropped     *)
(* between any two of its steps; the process may stop and start again.     *)
(*                                                                         *)
(* A file of the program store is a set of the parts written to it: it is  *)
(* whole when it has them all.  The path <file>.tmp of a program is one    *)
(* name for all calls; creating it again empties the file it names.        *)
(***************************************************************************)
EXTENDS ClusterApi, FiniteSets

CONSTANTS
    Calls,      \* handlers that may run
    Vks,        \* programs, by vk_hash
    ProofIds,   \* what mint_request_id yields, in any order
    Members,    \* signers the auth mode admits
    Signers,    \* signers that call
    Parts,      \* parts of a program record: vk_len, vk, elf
    NoFile      \* a name without a file

ASSUME PartsAssumption == Parts \in Nat \ {0}
ASSUME FileAssumption == NoFile \notin Calls

VARIABLES
    durable,    \* the program store is on disk, not in memory
    final, tmp, \* [vk -> the file its path and its .tmp path name]
    content,    \* [file -> the parts written to it]
    registered, \* programs of the in-memory store
    warm,       \* [vk -> the parts of the ELF in the cluster's store; {} for none]
    table,      \* the cluster's table of proof requests
    at,         \* [call -> where it is]
    vk, id, file, pos,   \* [call -> its program, request, open file, parts written]
    orphan,     \* calls whose uploaded ELF is in the cluster's store
    seen,       \* [request -> the last status the SDK was told]
    overlap     \* programs that two calls have put at once

fileVars == <<final, tmp, content>>
storeVars == <<durable, registered, fileVars>>
callVars == <<at, vk, id, file, pos, orphan>>
vars == <<storeVars, warm, table, callVars, seen, overlap>>

Whole == 1..Parts
Files == Calls   \* a call creates at most one file

Init ==
    /\ durable \in BOOLEAN
    /\ final = [v \in Vks |-> NoFile] /\ tmp = [v \in Vks |-> NoFile]
    /\ content = [f \in Files |-> {}] /\ registered = {}
    /\ warm = [v \in Vks |-> {}]
    /\ table = [p \in ProofIds |-> NoRow]
    /\ at = [c \in Calls |-> "idle"] /\ vk \in [Calls -> Vks]
    /\ id = [c \in Calls |-> NoRow] /\ file = [c \in Calls |-> NoFile]
    /\ pos = [c \in Calls |-> 0] /\ orphan = {}
    /\ seen = [p \in ProofIds |-> "Unspecified"] /\ overlap = {}

To(c, s) == at' = [at EXCEPT ![c] = s]

(***************************************************************************)
(* The program store.                                                      *)
(***************************************************************************)
\* get: the record of a program, as the parts a reader finds; {} for none
Record(v) ==
    IF durable THEN IF final[v] = NoFile THEN {} ELSE content[final[v]]
    ELSE IF v \in registered THEN Whole ELSE {}

Known(v) == IF durable THEN final[v] # NoFile ELSE v \in registered

\* the names of finished records do not change when a put begins
Untouched(c) == final

\* FilesystemProgramStore::put, File::create
OpenTmp(c) ==
    /\ at[c] = "put" /\ durable
    /\ LET f == IF tmp[vk[c]] = NoFile THEN c ELSE tmp[vk[c]]
       IN /\ tmp' = [tmp EXCEPT ![vk[c]] = f]
          /\ file' = [file EXCEPT ![c] = f]
          /\ content' = [content EXCEPT ![f] = {}]
    /\ final' = Untouched(c)
    /\ overlap' = IF \E d \in Calls \ {c} : at[d] \in {"writing", "renaming"} /\ vk[d] = vk[c]
                  THEN overlap \cup {vk[c]} ELSE overlap
    /\ pos' = [pos EXCEPT ![c] = 0]
    /\ To(c, "writing")
    /\ UNCHANGED <<durable, registered, warm, table, vk, id, orphan, seen>>

\* write_all, once per part, at the call's own position
WritePart(c) ==
    /\ at[c] = "writing"
    /\ pos' = [pos EXCEPT ![c] = @ + 1]
    /\ content' = [content EXCEPT ![file[c]] = @ \cup {pos[c] + 1}]
    /\ To(c, IF pos[c] + 1 = Parts THEN "renaming" ELSE "writing")
    /\ UNCHANGED <<durable, final, tmp, registered, warm, table, vk, id, file, orphan, seen, overlap>>

\* rename: fails when another call has renamed the .tmp file before
RenameTmp(c) ==
    /\ at[c] = "renaming"
    /\ IF tmp[vk[c]] = NoFile
       THEN To(c, "failed") /\ UNCHANGED <<final, tmp>>
       ELSE /\ final' = [final EXCEPT ![vk[c]] = tmp[vk[c]]]
            /\ tmp' = [tmp EXCEPT ![vk[c]] = NoFile]
            /\ To(c, "warming")
    /\ UNCHANGED <<durable, content, registered, warm, table, vk, id, file, pos, orphan, seen, overlap>>

\* InMemoryProgramStore::put
PutInMemory(c) ==
    /\ at[c] = "put" /\ ~durable
    /\ registered' = registered \cup {vk[c]}
    /\ To(c, "warming")
    /\ UNCHANGED <<durable, fileVars, warm, table, vk, id, file, pos, orphan, seen, overlap>>

(***************************************************************************)
(* create_program.                                                         *)
(***************************************************************************)
Authorized(s) == s \in Members

\* create_artifact, then the SDK's PUT of the ELF to the URI it was given
UploadElf(c) ==
    /\ at[c] = "idle"
    /\ \E s \in Signers : Authorized(s)
    /\ orphan' = orphan \cup {c}
    /\ To(c, "uploaded")
    /\ UNCHANGED <<storeVars, warm, table, vk, id, file, pos, seen, overlap>>

\* Fault: the program is warmed and never registered.
WarmsOnly == "warming"

\* the durable copy comes before the warm one
FirstCopy == "put"

\* authorize, download_raw of the uploaded ELF
CreateProgram(c) ==
    /\ at[c] = "uploaded"
    /\ \E s \in Signers : To(c, IF Authorized(s) /\ c \in orphan THEN FirstCopy ELSE "failed")
    /\ UNCHANGED <<storeVars, warm, table, vk, id, file, pos, orphan, seen, overlap>>

WarmUpload(c) ==
    /\ at[c] = "warming"
    /\ warm' = [warm EXCEPT ![vk[c]] = Whole]
    /\ To(c, "cleaning")
    /\ UNCHANGED <<storeVars, table, vk, id, file, pos, orphan, seen, overlap>>

\* Fault: the upload is deleted once it is downloaded.
CleansEarly(c) == at[c] \in {"put", "writing", "cleaning"}

Cleans(c) == at[c] = "cleaning"

\* try_delete; its failure is ignored
DeleteUpload(c) ==
    /\ Cleans(c)
    /\ orphan' \in {orphan, orphan \ {c}}
    /\ To(c, IF at[c] = "cleaning" THEN "registered" ELSE at[c])
    /\ UNCHANGED <<storeVars, warm, table, vk, id, file, pos, seen, overlap>>

(***************************************************************************)
(* request_proof.                                                          *)
(***************************************************************************)
Unminted == {p \in ProofIds : \A c \in Calls : id[c] # p}

\* authorize; exists: a warm program needs nothing; a cold one is read from
\* the program store and uploaded again under the same id
RequestProof(c) ==
    /\ at[c] = "idle"
    /\ \E s \in Signers :
         To(c, IF ~Authorized(s) THEN "failed" ELSE IF warm[vk[c]] # {} THEN "minting"
               ELSE IF Known(vk[c]) THEN "loading" ELSE "failed")
    /\ UNCHANGED <<storeVars, warm, table, vk, id, file, pos, orphan, seen, overlap>>

LoadProgram(c) ==
    /\ at[c] = "loading"
    /\ warm' = [warm EXCEPT ![vk[c]] = Record(vk[c])]
    /\ To(c, "minting")
    /\ UNCHANGED <<storeVars, table, vk, id, file, pos, orphan, seen, overlap>>

MintRequestId(c) ==
    /\ at[c] = "minting"
    /\ \E p \in Unminted : id' = [id EXCEPT ![c] = p]
    /\ To(c, "creating")
    /\ UNCHANGED <<storeVars, warm, table, vk, file, pos, orphan, seen, overlap>>

\* Fault: any error of the insert counts as an earlier attempt of our own.
AnyError(c) == TRUE

\* AlreadyExists: only an earlier attempt of this call can have used the id
OwnCommittedAttempt(c) == table[id[c]] # NoRow

\* create_proof_request; the client repeats an attempt whose answer is lost
CreateRow(c) ==
    /\ at[c] = "creating"
    /\ \/ table' = Created(table, id[c], TRUE) /\ To(c, "accepted")
       \/ table' = Created(table, id[c], TRUE) /\ UNCHANGED at
       \/ OwnCommittedAttempt(c) /\ UNCHANGED table /\ To(c, "accepted")
    /\ UNCHANGED <<storeVars, warm, vk, id, file, pos, orphan, seen, overlap>>

(***************************************************************************)
(* Status and listing.                                                     *)
(***************************************************************************)
\* fulfillment_from_cluster
FulfillmentFrom(s) ==
    CASE s = "Pending" -> "Requested"
      [] s = "Completed" -> "Fulfilled"
      [] s \in {"Failed", "Cancelled"} -> "Unfulfillable"

SdkStatus == {"Unspecified", "Requested", "Assigned", "Fulfilled", "Reverted", "Expired", "Unfulfillable"}

\* cluster_fulfillment_filter, where the status is one the cluster can express
ClusterFilter(s) ==
    CASE s = "Requested" -> {"Pending"}
      [] s = "Fulfilled" -> {"Completed"}
      [] s = "Unfulfillable" -> {"Failed", "Cancelled"}
      [] OTHER -> {}

\* external to the gateway, proof_request_list: an empty filter is no filter
ClusterList(F) == {p \in ProofIds : table[p] # NoRow /\ (F = {} \/ table[p].status \in F)}

\* get_filtered_proof_requests: such a filter is answered at once
AnsweredHere(s) == s \notin {"Unspecified"} /\ ClusterFilter(s) = {}

Filtered(s) == IF AnsweredHere(s) THEN {} ELSE ClusterList(ClusterFilter(s))

\* get_proof_request_status and get_proof_request_details
Poll(p) ==
    /\ table[p] # NoRow
    /\ seen' = [seen EXCEPT ![p] = FulfillmentFrom(table[p].status)]
    /\ UNCHANGED <<storeVars, warm, table, callVars, overlap>>

(***************************************************************************)
(* Around the calls.                                                       *)
(***************************************************************************)
ProofEnds(p, s) ==
    /\ table' = IF s = "Cancelled" THEN CancelledIn(table, p) ELSE CompletedIn(table, p, s)
    /\ UNCHANGED <<storeVars, warm, callVars, seen, overlap>>

\* the artifact store forgets a program: TTL
Expire(v) ==
    /\ warm[v] # {}
    /\ warm' = [warm EXCEPT ![v] = {}]
    /\ UNCHANGED <<storeVars, table, callVars, seen, overlap>>

Running(c) == at[c] \notin {"idle", "registered", "accepted", "failed"}

\* a step returns an error, or the client goes away and the handler is dropped
CallFails(c) ==
    /\ Running(c)
    /\ To(c, "failed")
    /\ UNCHANGED <<storeVars, warm, table, vk, id, file, pos, orphan, seen, overlap>>

\* the process stops; what is on disk stays
Restart ==
    /\ at' = [c \in Calls |-> IF Running(c) THEN "failed" ELSE at[c]]
    /\ registered' = {}
    /\ UNCHANGED <<durable, fileVars, warm, table, vk, id, file, pos, orphan, seen, overlap>>

Next ==
    \/ \E c \in Calls :
         \/ UploadElf(c) \/ CreateProgram(c) \/ OpenTmp(c) \/ WritePart(c) \/ RenameTmp(c)
         \/ PutInMemory(c) \/ WarmUpload(c) \/ DeleteUpload(c)
         \/ RequestProof(c) \/ LoadProgram(c) \/ MintRequestId(c) \/ CreateRow(c) \/ CallFails(c)
    \/ \E p \in ProofIds : Poll(p) \/ (\E s \in FinalStatus : ProofEnds(p, s))
    \/ \E v \in Vks : Expire(v)
    \/ Restart

Spec == Init /\ [][Next]_vars

(***************************************************************************)
(* What must hold.                                                         *)
(***************************************************************************)
\* Whatever step of a put a crash or an error interrupts, a reader finds no
\* record of the program or all of it, as long as puts of the same program do
\* not overlap: they share the name of the .tmp file.
RecordIsWhole == \A v \in Vks \ overlap : Known(v) => Record(v) = Whole

\* On disk a program that is warm is also registered: request_proof accepts
\* nothing that get_program reports as unknown, and nothing the program store
\* could not warm again.
WarmIsRegistered == durable => \A v \in Vks : warm[v] # {} => Known(v)

\* The SDK's upload is given up only when the program is registered, so a
\* create_program that failed halfway can be repeated with the same URI.
UploadKeptUntilRegistered ==
    [][\A c \in orphan : c \notin orphan' => Known(vk[c]) /\ at'[c] = "registered"]_vars

\* An accepted request has a row, and no two accepted requests share one,
\* although the insert is repeated when its answer is lost.
AcceptedHasRow ==
    \A c \in Calls : at[c] = "accepted" =>
        /\ table[id[c]] # NoRow
        /\ \A d \in Calls \ {c} : id[d] # id[c]

\* A filter returns exactly the requests the SDK sees in that status, also for
\* the statuses that the cluster cannot express.
FilterMatches ==
    \A s \in SdkStatus \ {"Unspecified"} :
        Filtered(s) = {p \in ProofIds : table[p] # NoRow /\ FulfillmentFrom(table[p].status) = s}

\* What the SDK was told is final stays so: wait_proof may stop polling.
ToldFinalStays ==
    [][\A p \in ProofIds : seen[p] \in {"Fulfilled", "Unfulfillable"} => seen'[p] = seen[p]]_vars

\* A program's record is whole unless two puts of it overlap, and on disk no
\* program is warm that is not registered (put, create_program).
ProgramsRegistered == RecordIsWhole /\ WarmIsRegistered

\* A request that was accepted has its row, and a filtered listing has the rows
\* whose status the gateway reports as asked (request_proof,
\* get_filtered_proof_requests).
RequestsAccountedFor == AcceptedHasRow /\ FilterMatches

\* A final status that was told stays, and an uploaded program stays until it
\* is registered (get_proof_request_status, create_program).
NothingTakenBack == ToldFinalStays /\ UploadKeptUntilRegistered

\* A crash in the middle of a write leaves no torn record for readers.
CrashLeavesNoTornRecord ==
    \A v \in Vks : (\A c \in Calls : ~Running(c)) /\ Known(v) => Record(v) = Whole
===================================================================================
