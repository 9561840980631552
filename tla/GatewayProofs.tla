------------------------------ MODULE GatewayProofs ------------------------------
(***************************************************************************)
(* What holds of the gateway for any programs, calls and parts of a        *)
(* record.  The invariant follows the files: a file belongs to the program *)
(* of the call that created it, a program's .tmp name and its own name     *)
(* never share a file, and while no two puts of a program overlap its one  *)
(* writer has written exactly the parts before its position.               *)
(***************************************************************************)
EXTENDS Gateway, TLAPS

CallStates ==
    {"idle", "uploaded", "put", "writing", "renaming", "warming", "cleaning", "registered",
     "loading", "minting", "creating", "accepted", "failed"}

GatewayTypes ==
    /\ durable \in BOOLEAN
    /\ final \in [Vks -> Calls \cup {NoFile}] /\ tmp \in [Vks -> Calls \cup {NoFile}]
    /\ content \in [Calls -> SUBSET Nat] /\ registered \subseteq Vks
    /\ warm \in [Vks -> SUBSET Nat]
    /\ table \in [ProofIds -> ProofRequest \cup {NoRow}]
    /\ at \in [Calls -> CallStates] /\ vk \in [Calls -> Vks]
    /\ id \in [Calls -> ProofIds \cup {NoRow}] /\ file \in [Calls -> Calls \cup {NoFile}]
    /\ pos \in [Calls -> Nat] /\ orphan \subseteq Calls
    /\ seen \in [ProofIds -> SdkStatus] /\ overlap \subseteq Vks

\* the call has got as far as File::create; it is between that and its rename
Early == {"idle", "uploaded", "put"}
Begun(c) == at[c] \notin Early
Writes(c) == at[c] \in {"writing", "renaming"}

\* A name leads to a file of its own program, and to one no other name leads to.
NamesInv ==
    \A v \in Vks :
        /\ tmp[v] # NoFile => Begun(tmp[v]) /\ vk[tmp[v]] = v
        /\ final[v] # NoFile => Begun(final[v]) /\ vk[final[v]] = v /\ tmp[v] # final[v]

\* A call writes to a file of its own program, which is on disk.
OpenInv == \A c \in Calls : Writes(c) => durable /\ file[c] \in Calls /\ Begun(file[c]) /\ vk[file[c]] = vk[c]

\* Where puts do not overlap, the one writer has the .tmp file for itself.
OneWriter(c) ==
    /\ tmp[vk[c]] = file[c] /\ content[file[c]] = 1 .. pos[c]
    /\ at[c] = "writing" => pos[c] < Parts
    /\ at[c] = "renaming" => pos[c] = Parts
    /\ \A d \in Calls : Writes(d) /\ vk[d] = vk[c] => d = c
PutInv == \A c \in Calls : Writes(c) /\ vk[c] \notin overlap => OneWriter(c)

WholeInv == \A v \in Vks \ overlap : final[v] # NoFile => content[final[v]] = Whole

FilesInv == NamesInv /\ OpenInv /\ PutInv /\ WholeInv

\* A call that has put its program finds it registered, and so does, on disk, a
\* call that loads it.
PutIsKnown ==
    \A c \in Calls :
        /\ at[c] \in {"warming", "cleaning"} => Known(vk[c])
        /\ durable /\ at[c] = "loading" => Known(vk[c])

\* An id is minted for one call.
MintedOnce ==
    \A c \in Calls : at[c] \in {"creating", "accepted"} =>
        id[c] \in ProofIds /\ \A d \in Calls \ {c} : id[d] # id[c]

\* What the SDK was told is final is final in the table.
ToldIsTrue ==
    \A p \in ProofIds : seen[p] \in {"Fulfilled", "Unfulfillable"} =>
        /\ table[p] # NoRow /\ table[p].status \in FinalStatus
        /\ FulfillmentFrom(table[p].status) = seen[p]

GatewayInv ==
    /\ GatewayTypes /\ FilesInv
    /\ PutIsKnown /\ WarmIsRegistered
    /\ MintedOnce /\ AcceptedHasRow /\ ToldIsTrue

\* A gateway that starts with an empty store satisfies it.
LEMMA GatewayInit == Init => GatewayInv
<1> SUFFICES ASSUME Init PROVE GatewayInv
    BY Zenon
<1>1. \A c \in Calls : at[c] = "idle"
    BY Zenon DEF Init
<1>2. \A v \in Vks : tmp[v] = NoFile /\ final[v] = NoFile /\ warm[v] = {}
    BY Zenon DEF Init
<1>3. GatewayTypes
  <2>1. final \in [Vks -> Calls \cup {NoFile}] /\ tmp \in [Vks -> Calls \cup {NoFile}]
      BY Zenon DEF Init
  <2>2. content \in [Calls -> SUBSET Nat] /\ warm \in [Vks -> SUBSET Nat] /\ pos \in [Calls -> Nat]
      BY SMT DEF Init, Files
  <2>3. at \in [Calls -> CallStates] /\ seen \in [ProofIds -> SdkStatus]
      BY Zenon DEF Init, SdkStatus, CallStates
  <2>4. table \in [ProofIds -> ProofRequest \cup {NoRow}] /\ id \in [Calls -> ProofIds \cup {NoRow}]
      BY Zenon DEF Init
  <2>5. file \in [Calls -> Calls \cup {NoFile}]
      BY Zenon DEF Init
  <2> QED
      BY <2>1, <2>2, <2>3, <2>4, <2>5, Zenon DEF GatewayTypes, Init
<1>4. \A p \in ProofIds : seen[p] = "Unspecified"
    BY Zenon DEF Init
<1>5. FilesInv
    BY <1>1, <1>2, SMT DEF FilesInv, NamesInv, OpenInv, PutInv, WholeInv, Writes
<1>6. PutIsKnown /\ WarmIsRegistered
    BY <1>1, <1>2, SMT DEF PutIsKnown, WarmIsRegistered
<1>7. MintedOnce /\ AcceptedHasRow
    BY <1>1, SMT DEF MintedOnce, AcceptedHasRow
<1>8. ToldIsTrue
    BY <1>4, SMT DEF ToldIsTrue
<1> QED
    BY <1>3, <1>5, <1>6, <1>7, <1>8, Zenon DEF GatewayInv

-----------------------------------------------------------------------------------
\* A row of the table stays a row, and once final keeps its status.
RowsStay ==
    \A p \in ProofIds : table[p] # NoRow =>
        table'[p] # NoRow /\ (table[p].status \in FinalStatus => table'[p].status = table[p].status)

\* The operations of the cluster API keep the table's type and its rows.
LEMMA TableOps ==
    ASSUME NEW T \in [ProofIds -> ProofRequest \cup {NoRow}], NEW p \in ProofIds, NEW s \in FinalStatus
    PROVE  \A U \in {Created(T, p, TRUE), CancelledIn(T, p), CompletedIn(T, p, s)} :
              /\ U \in [ProofIds -> ProofRequest \cup {NoRow}]
              /\ \A q \in ProofIds : T[q] # NoRow =>
                    U[q] # NoRow /\ (T[q].status \in FinalStatus => U[q].status = T[q].status)
<1>1. ASSUME T[p] = NoRow
      PROVE  /\ Created(T, p, TRUE) \in [ProofIds -> ProofRequest \cup {NoRow}]
             /\ \A q \in ProofIds : T[q] # NoRow => Created(T, p, TRUE)[q] = T[q]
    BY <1>1, SMT DEF Created, ProofRequest, RowStatus
<1>2. ASSUME NEW u \in FinalStatus, T[p] # NoRow, T[p].status = "Pending"
      PROVE  LET U == [T EXCEPT ![p].status = u]
             IN /\ U \in [ProofIds -> ProofRequest \cup {NoRow}]
                /\ \A q \in ProofIds : T[q] # NoRow =>
                      U[q] # NoRow /\ (T[q].status \in FinalStatus => U[q].status = T[q].status)
  <2> DEFINE row == [T[p] EXCEPT !.status = u]
             U == [T EXCEPT ![p] = row]
  <2>1. T[p] \in ProofRequest
      BY <1>2, Zenon
  <2>2. row \in ProofRequest
      BY <2>1, <1>2, SMT DEF ProofRequest, RowStatus
  <2>3. row # NoRow
      BY <2>2, RowAssumption, Zenon
  <2> HIDE DEF row
  <2>4. U \in [ProofIds -> ProofRequest \cup {NoRow}] /\ U[p] = row /\ \A q \in ProofIds \ {p} : U[q] = T[q]
      BY <2>2, Zenon
  <2>5. T[p].status \notin FinalStatus
      BY <1>2, Zenon DEF FinalStatus
  <2>6. U = [T EXCEPT ![p].status = u]
      BY DEF row
  <2> QED
      BY <2>3, <2>4, <2>5, <2>6, Zenon
<1>3. "Cancelled" \in FinalStatus
    BY Zenon DEF FinalStatus
<1> DEFINE Kept(U) == /\ U \in [ProofIds -> ProofRequest \cup {NoRow}]
                      /\ \A q \in ProofIds : T[q] # NoRow =>
                           U[q] # NoRow /\ (T[q].status \in FinalStatus => U[q].status = T[q].status)
<1>4. Kept(T)
    BY Zenon
<1>5. Kept(Created(T, p, TRUE))
    BY <1>1, <1>4, Zenon DEF Created
<1>6. Kept(CancelledIn(T, p))
    BY <1>2, <1>3, <1>4, Zenon DEF CancelledIn
<1>7. Kept(CompletedIn(T, p, s))
    BY <1>2, <1>4, Zenon DEF CompletedIn
<1> QED
    BY <1>5, <1>6, <1>7, Zenon

\* The types are preserved.
LEMMA GatewayTypesStep == GatewayTypes /\ OpenInv /\ MintedOnce /\ [Next]_vars => GatewayTypes'
<1> SUFFICES ASSUME GatewayTypes, OpenInv, MintedOnce, [Next]_vars PROVE GatewayTypes'
    BY Zenon
<1> USE DEF GatewayTypes
<1>1. ASSUME NEW c \in Calls, NEW s \in CallStates, To(c, s) PROVE at' \in [Calls -> CallStates]
    BY <1>1, Zenon DEF To
<1>2. ASSUME NEW c \in Calls, UploadElf(c) PROVE GatewayTypes'
    BY <1>1, <1>2, Zenon DEF UploadElf, storeVars, fileVars, CallStates
<1>3. ASSUME NEW c \in Calls, CreateProgram(c) PROVE GatewayTypes'
    BY <1>1, <1>3, Zenon DEF CreateProgram, FirstCopy, storeVars, fileVars, CallStates
<1>4. ASSUME NEW c \in Calls, OpenTmp(c) PROVE GatewayTypes'
  <2> DEFINE f == IF tmp[vk[c]] = NoFile THEN c ELSE tmp[vk[c]]
  <2>1. f \in Calls
      BY Zenon
  <2>2. tmp' = [tmp EXCEPT ![vk[c]] = f] /\ file' = [file EXCEPT ![c] = f] /\ content' = [content EXCEPT ![f] = {}]
      BY <1>4, Zenon DEF OpenTmp
  <2> HIDE DEF f
  <2>3. tmp' \in [Vks -> Calls \cup {NoFile}] /\ file' \in [Calls -> Calls \cup {NoFile}]
      BY <2>1, <2>2, Zenon
  <2>4. content' \in [Calls -> SUBSET Nat]
      BY <2>1, <2>2, Zenon
  <2>5. pos' \in [Calls -> Nat]
      BY <1>4, SMT DEF OpenTmp
  <2>6. final' = final /\ overlap' \subseteq Vks
      BY <1>4, Zenon DEF OpenTmp, Untouched
  <2> QED
      BY <1>1, <1>4, <2>3, <2>4, <2>5, <2>6, Zenon DEF OpenTmp, CallStates
<1>5. ASSUME NEW c \in Calls, WritePart(c) PROVE GatewayTypes'
  <2>1. file[c] \in Calls
      BY <1>5, Zenon DEF WritePart, OpenInv, Writes
  <2>2. pos[c] + 1 \in Nat
      BY SMT
  <2>3. content' \in [Calls -> SUBSET Nat]
      BY <1>5, <2>1, <2>2, SMT DEF WritePart
  <2>4. pos' \in [Calls -> Nat]
      BY <1>5, <2>2, SMT DEF WritePart
  <2> QED
      BY <1>1, <1>5, <2>3, <2>4, Zenon DEF WritePart, CallStates
<1>6. ASSUME NEW c \in Calls, RenameTmp(c) PROVE GatewayTypes'
    BY <1>1, <1>6, Zenon DEF RenameTmp, CallStates
<1>7. ASSUME NEW c \in Calls, PutInMemory(c) PROVE GatewayTypes'
    BY <1>1, <1>7, Zenon DEF PutInMemory, fileVars, CallStates
<1>8. ASSUME NEW c \in Calls, WarmUpload(c) PROVE GatewayTypes'
  <2>1. Whole \in SUBSET Nat
      BY PartsAssumption, SMT DEF Whole
  <2> QED
      BY <1>1, <1>8, <2>1, Zenon DEF WarmUpload, storeVars, fileVars, CallStates
<1>9. ASSUME NEW c \in Calls, DeleteUpload(c) PROVE GatewayTypes'
    BY <1>1, <1>9, Zenon DEF DeleteUpload, Cleans, storeVars, fileVars, CallStates
<1>10. ASSUME NEW c \in Calls, RequestProof(c) PROVE GatewayTypes'
    BY <1>1, <1>10, Zenon DEF RequestProof, storeVars, fileVars, CallStates
<1>11. ASSUME NEW c \in Calls, LoadProgram(c) PROVE GatewayTypes'
  <2>1. Record(vk[c]) \in SUBSET Nat
      BY PartsAssumption, SMT DEF Record, Whole
  <2> QED
      BY <1>1, <1>11, <2>1, Zenon DEF LoadProgram, storeVars, fileVars, CallStates
<1>12. ASSUME NEW c \in Calls, MintRequestId(c) PROVE GatewayTypes'
    BY <1>1, <1>12, Zenon DEF MintRequestId, Unminted, storeVars, fileVars, CallStates
<1>13. ASSUME NEW c \in Calls, CreateRow(c) PROVE GatewayTypes'
  <2>1. id[c] \in ProofIds
      BY <1>13, Zenon DEF CreateRow, MintedOnce
  <2>2. "Failed" \in FinalStatus
      BY Zenon DEF FinalStatus
  <2>3. Created(table, id[c], TRUE) \in [ProofIds -> ProofRequest \cup {NoRow}]
      BY <2>1, <2>2, TableOps, Zenon
  <2> QED
      BY <1>1, <1>13, <2>3, Zenon DEF CreateRow, storeVars, fileVars, CallStates
<1>14. ASSUME NEW c \in Calls, CallFails(c) PROVE GatewayTypes'
    BY <1>1, <1>14, Zenon DEF CallFails, storeVars, fileVars, CallStates
<1>15. ASSUME NEW p \in ProofIds, Poll(p) PROVE GatewayTypes'
  <2>1. table[p] \in ProofRequest
      BY <1>15, Zenon DEF Poll
  <2>2. FulfillmentFrom(table[p].status) \in SdkStatus
      BY <2>1, SMT DEF ProofRequest, RowStatus, FinalStatus, FulfillmentFrom, SdkStatus
  <2> QED
      BY <1>15, <2>2, Zenon DEF Poll, storeVars, fileVars, callVars
<1>16. ASSUME NEW p \in ProofIds, NEW s \in FinalStatus, ProofEnds(p, s) PROVE GatewayTypes'
    BY <1>16, TableOps, Zenon DEF ProofEnds, storeVars, fileVars, callVars
<1>17. ASSUME NEW v \in Vks, Expire(v) PROVE GatewayTypes'
    BY <1>17, Zenon DEF Expire, storeVars, fileVars, callVars
<1>18. CASE Restart
    BY <1>18, Zenon DEF Restart, fileVars, CallStates
<1>19. CASE UNCHANGED vars
    BY <1>19, Zenon DEF vars, storeVars, fileVars, callVars
<1> QED
    BY <1>2, <1>3, <1>4, <1>5, <1>6, <1>7, <1>8, <1>9, <1>10, <1>11, <1>12, <1>13, <1>14, <1>15,
       <1>16, <1>17, <1>18, <1>19, Zenon DEF Next

\* What a name leads to is a file or nothing.
LEMMA NamedFiles ==
    ASSUME GatewayTypes, NEW v \in Vks
    PROVE  /\ tmp[v] # NoFile => tmp[v] \in Calls
           /\ final[v] # NoFile => final[v] \in Calls
BY Zenon DEF GatewayTypes

\* A step that leaves the files alone and starts no write keeps the files' part.
LEMMA FilesQuiet ==
    ASSUME FilesInv, UNCHANGED <<durable, final, tmp, content, vk, file, pos, overlap>>,
           \A d \in Calls : Writes(d)' => Writes(d) /\ at'[d] = at[d],
           \A d \in Calls : Begun(d) => Begun(d)',
           GatewayTypes
    PROVE  FilesInv'
<1>1. NamesInv'
    BY NamedFiles, Zenon DEF FilesInv, NamesInv, Begun
<1>2. OpenInv'
    BY Zenon DEF FilesInv, OpenInv, Begun
<1>3. PutInv'
  <2> SUFFICES ASSUME NEW c \in Calls, Writes(c)', vk[c] \notin overlap PROVE OneWriter(c)'
      BY Zenon DEF PutInv
  <2>1. OneWriter(c) /\ at'[c] = at[c]
      BY Zenon DEF FilesInv, PutInv
  <2> QED
      BY <2>1, Zenon DEF OneWriter
<1>4. WholeInv'
    BY Zenon DEF FilesInv, WholeInv
<1> QED
    BY <1>1, <1>2, <1>3, <1>4, Zenon DEF FilesInv

\* File::create empties the file of the .tmp name, which is no record's file.
LEMMA OpenTmpFiles ==
    ASSUME GatewayTypes, FilesInv, NEW c \in Calls, OpenTmp(c)
    PROVE  FilesInv'
<1> DEFINE v == vk[c]
           f == IF tmp[v] = NoFile THEN c ELSE tmp[v]
<1>1. v \in Vks /\ vk[c] = v /\ f \in Calls /\ f # NoFile /\ (tmp[v] # NoFile => f = tmp[v]) /\ (tmp[v] = NoFile => f = c)
    BY FileAssumption, Zenon DEF GatewayTypes
<1>2. /\ tmp' = [tmp EXCEPT ![v] = f] /\ file' = [file EXCEPT ![c] = f]
      /\ content' = [content EXCEPT ![f] = {}] /\ final' = final /\ pos' = [pos EXCEPT ![c] = 0]
      /\ at' = [at EXCEPT ![c] = "writing"] /\ vk' = vk /\ durable' = durable /\ durable /\ at[c] = "put"
      /\ overlap \subseteq overlap'
    BY Zenon DEF OpenTmp, Untouched, To
<1> HIDE DEF f, v
<1>3. vk[f] = v /\ (Begun(f) \/ f = c) /\ \A w \in Vks : final[w] # f
  <2>1. CASE tmp[v] = NoFile
    <3>1. f = c /\ ~Begun(c)
        BY <2>1, <1>1, <1>2, Zenon DEF Begun, Early
    <3>2. \A w \in Vks : final[w] # NoFile => Begun(final[w])
        BY Zenon DEF FilesInv, NamesInv
    <3> QED
      <4>1. ASSUME NEW w \in Vks, final[w] = f PROVE FALSE
          BY <4>1, <3>1, <3>2, <1>1, Zenon
      <4>2. vk[f] = v
          BY <3>1, <1>1, Zenon
      <4> QED
          BY <4>1, <4>2, <3>1, Zenon
  <2>2. CASE tmp[v] # NoFile
    <3>1. f = tmp[v] /\ Begun(f) /\ vk[f] = v
        BY <2>2, <1>1, Zenon DEF FilesInv, NamesInv
    <3>2. \A w \in Vks : final[w] # NoFile => vk[final[w]] = w /\ final[w] # tmp[w]
        BY Zenon DEF FilesInv, NamesInv
    <3>3. ASSUME NEW w \in Vks, final[w] = f PROVE FALSE
      <4>1. w = v
          BY <3>1, <3>2, <3>3, <1>1, Zenon
      <4> QED
          BY <4>1, <3>1, <3>2, <3>3, <1>1, Zenon
    <3> QED
        BY <3>1, <3>3, Zenon
  <2> QED
      BY <2>1, <2>2, Zenon
<1>4. ASSUME NEW d \in Calls \ {c}, Writes(d), vk[d] = v PROVE v \in overlap'
    BY <1>4, <1>1, Zenon DEF OpenTmp, Writes
<1>5. /\ at'[c] = "writing" /\ file'[c] = f /\ pos'[c] = 0 /\ tmp'[v] = f /\ content'[f] = {}
      /\ \A d \in Calls \ {c} : at'[d] = at[d] /\ file'[d] = file[d] /\ pos'[d] = pos[d]
      /\ \A w \in Vks \ {v} : tmp'[w] = tmp[w]
      /\ \A g \in Calls \ {f} : content'[g] = content[g]
    BY <1>1, <1>2, Zenon DEF GatewayTypes
<1>6. \A d \in Calls : Begun(d) => at'[d] \notin Early
    BY <1>2, <1>5, Zenon DEF Begun, Early
<1>7. at'[c] \notin Early /\ ~Writes(c) /\ ~Begun(c)
    BY <1>2, <1>5, Zenon DEF Begun, Writes, Early
<1>8. NamesInv'
  <2> SUFFICES ASSUME NEW w \in Vks
               PROVE  /\ tmp'[w] # NoFile => at'[tmp'[w]] \notin Early /\ vk[tmp'[w]] = w
                      /\ final[w] # NoFile => at'[final[w]] \notin Early /\ vk[final[w]] = w /\ tmp'[w] # final[w]
      BY <1>2, Zenon DEF NamesInv, Begun
  <2>1. CASE w = v
      BY <2>1, <1>1, <1>3, <1>5, <1>6, <1>7, NamedFiles, Zenon DEF FilesInv, NamesInv
  <2>2. CASE w # v
      BY <2>2, <1>5, <1>6, NamedFiles, Zenon DEF FilesInv, NamesInv
  <2> QED
      BY <2>1, <2>2, Zenon
<1>9. OpenInv'
  <2> SUFFICES ASSUME NEW d \in Calls, Writes(d)'
               PROVE  durable /\ file'[d] \in Calls /\ at'[file'[d]] \notin Early /\ vk[file'[d]] = vk[d]
      BY <1>2, Zenon DEF OpenInv, Begun
  <2>1. CASE d = c
      BY <2>1, <1>1, <1>2, <1>3, <1>5, <1>6, <1>7, Zenon DEF v
  <2>2. CASE d # c
    <3>1. Writes(d)
        BY <2>2, <1>5, Zenon DEF Writes
    <3> QED
        BY <3>1, <2>2, <1>2, <1>5, <1>6, Zenon DEF FilesInv, OpenInv
  <2> QED
      BY <2>1, <2>2, Zenon
<1>10. PutInv'
  <2> SUFFICES ASSUME NEW d \in Calls, Writes(d)', vk[d] \notin overlap' PROVE OneWriter(d)'
      BY <1>2, Zenon DEF PutInv
  <2>1. \A e \in Calls \ {c} : Writes(e)' => Writes(e)
      BY <1>5, Zenon DEF Writes
  <2>2. CASE d = c
    <3>1. 1 .. 0 = {} /\ 0 < Parts
        BY PartsAssumption, SMT
    <3>2. \A e \in Calls : Writes(e)' /\ vk[e] = v => e = c
        BY <1>4, <2>1, <2>2, Zenon DEF v
    <3>3. vk[c] = v
        BY Zenon DEF v
    <3> QED
      <4>1. tmp'[vk'[c]] = file'[c] /\ content'[file'[c]] = 1 .. pos'[c] /\ pos'[c] < Parts
          BY <3>1, <3>3, <1>2, <1>5, Zenon
      <4>2. at'[c] # "renaming"
          BY <1>5, Zenon
      <4>3. \A e \in Calls : Writes(e)' /\ vk'[e] = vk'[c] => e = c
          BY <3>2, <3>3, <1>2, Zenon
      <4>4. OneWriter(c)'
          BY <4>1, <4>2, <4>3, Zenon DEF OneWriter
      <4> QED
          BY <4>4, <2>2, Zenon
  <2>3. CASE d # c
    <3>1. Writes(d) /\ vk[d] # v /\ vk[d] \notin overlap
        BY <2>1, <2>3, <1>2, <1>4, Zenon
    <3>2. OneWriter(d) /\ file[d] \in Calls /\ vk[file[d]] = vk[d] /\ vk[d] \in Vks
        BY <3>1, Zenon DEF FilesInv, PutInv, OpenInv, GatewayTypes
    <3>3. file[d] # f /\ content'[file[d]] = content[file[d]] /\ tmp'[vk[d]] = tmp[vk[d]]
        BY <3>1, <3>2, <1>3, <1>5, Zenon
    <3>4. \A e \in Calls : Writes(e)' /\ vk[e] = vk[d] => e = d
        BY <2>1, <3>1, <3>2, Zenon DEF OneWriter, v
    <3> QED
        BY <2>3, <3>2, <3>3, <3>4, <1>2, <1>5, Zenon DEF OneWriter
  <2> QED
      BY <2>2, <2>3, Zenon
<1>11. WholeInv'
  <2> SUFFICES ASSUME NEW w \in Vks, w \notin overlap', final[w] # NoFile PROVE content'[final[w]] = Whole
      BY <1>2, Zenon DEF WholeInv
  <2> QED
      BY <1>2, <1>3, <1>5, NamedFiles, Zenon DEF FilesInv, WholeInv
<1> QED
    BY <1>8, <1>9, <1>10, <1>11, Zenon DEF FilesInv

\* write_all extends the writer's own file by the next part.
LEMMA WritePartFiles ==
    ASSUME GatewayTypes, FilesInv, NEW c \in Calls, WritePart(c)
    PROVE  FilesInv'
<1> DEFINE f == file[c]
           s == IF pos[c] + 1 = Parts THEN "renaming" ELSE "writing"
<1>1. at[c] = "writing" /\ Writes(c) /\ durable /\ f \in Calls /\ vk[f] = vk[c] /\ vk[c] \in Vks /\ pos[c] \in Nat
    BY Zenon DEF WritePart, Writes, FilesInv, OpenInv, GatewayTypes
<1>2. /\ pos' = [pos EXCEPT ![c] = pos[c] + 1] /\ content' = [content EXCEPT ![f] = content[f] \cup {pos[c] + 1}]
      /\ at' = [at EXCEPT ![c] = s] /\ s \in {"writing", "renaming"}
      /\ UNCHANGED <<durable, final, tmp, vk, file, overlap>>
    BY Zenon DEF WritePart, To
<1>3. (s = "renaming" => pos[c] + 1 = Parts) /\ (s = "writing" => pos[c] + 1 # Parts)
    BY Zenon
<1> HIDE DEF s, f
<1>4. /\ at'[c] = s /\ pos'[c] = pos[c] + 1 /\ content'[f] = content[f] \cup {pos[c] + 1}
      /\ \A d \in Calls \ {c} : at'[d] = at[d] /\ pos'[d] = pos[d]
      /\ \A g \in Calls \ {f} : content'[g] = content[g]
    BY <1>1, <1>2, Zenon DEF GatewayTypes
<1>5. \A d \in Calls : Begun(d) => at'[d] \notin Early
    BY <1>1, <1>2, <1>4, Zenon DEF Begun, Early
<1>6. \A d \in Calls : Writes(d)' => Writes(d)
    BY <1>1, <1>4, Zenon DEF Writes
<1>7. NamesInv'
    BY <1>2, <1>5, NamedFiles, Zenon DEF FilesInv, NamesInv, Begun
<1>8. OpenInv'
    BY <1>2, <1>5, <1>6, Zenon DEF FilesInv, OpenInv, Begun
<1>9. PutInv'
  <2> SUFFICES ASSUME NEW d \in Calls, Writes(d)', vk[d] \notin overlap PROVE OneWriter(d)'
      BY <1>2, Zenon DEF PutInv
  <2>1. OneWriter(d) /\ file[d] \in Calls /\ vk[file[d]] = vk[d]
      BY <1>6, Zenon DEF FilesInv, PutInv, OpenInv
  <2>2. \A e \in Calls : Writes(e)' /\ vk'[e] = vk'[d] => e = d
      BY <2>1, <1>2, <1>6, Zenon DEF OneWriter
  <2>3. CASE d = c
    <3>1. content[f] = 1 .. pos[c] /\ pos[c] < Parts
        BY <2>1, <2>3, <1>1, Zenon DEF OneWriter, f
    <3>2. 1 .. pos'[c] = (1 .. pos[c]) \cup {pos[c] + 1}
        BY <1>1, <1>4, SMT
    <3>3. content'[file'[c]] = 1 .. pos'[c]
        BY <3>1, <3>2, <1>2, <1>4, Zenon DEF f
    <3>4. (at'[c] = "writing" => pos'[c] < Parts) /\ (at'[c] = "renaming" => pos'[c] = Parts)
        BY <3>1, <1>1, <1>3, <1>4, PartsAssumption, SMT
    <3>5. tmp'[vk'[c]] = file'[c]
        BY <2>1, <2>3, <1>2, Zenon DEF OneWriter
    <3>6. OneWriter(c)'
        BY <3>3, <3>4, <3>5, <2>2, <2>3, Zenon DEF OneWriter
    <3> QED
        BY <3>6, <2>3, Zenon
  <2>4. CASE d # c
    <3>1. vk[d] # vk[c]
        BY <2>1, <2>4, <1>1, Zenon DEF OneWriter
    <3>2. file[d] # f
        BY <3>1, <2>1, <1>1, Zenon
    <3>3. content'[file'[d]] = content[file[d]] /\ at'[d] = at[d] /\ pos'[d] = pos[d] /\ tmp'[vk'[d]] = tmp[vk[d]]
        BY <3>2, <2>1, <2>4, <1>2, <1>4, Zenon
    <3> QED
        BY <3>3, <2>1, <2>2, <1>2, Zenon DEF OneWriter
  <2> QED
      BY <2>3, <2>4, Zenon
<1>10. WholeInv'
  <2> SUFFICES ASSUME NEW w \in Vks, w \notin overlap, final[w] # NoFile PROVE content'[final[w]] = Whole
      BY <1>2, Zenon DEF WholeInv
  <2>1. final[w] \in Calls /\ vk[final[w]] = w /\ tmp[w] # final[w] /\ content[final[w]] = Whole
      BY NamedFiles, Zenon DEF FilesInv, NamesInv, WholeInv
  <2>2. final[w] # f
    <3>1. CASE w = vk[c]
        BY <3>1, <2>1, <1>1, Zenon DEF FilesInv, PutInv, OneWriter, f
    <3>2. CASE w # vk[c]
        BY <3>2, <2>1, <1>1, Zenon
    <3> QED
        BY <3>1, <3>2, Zenon
  <2> QED
      BY <2>1, <2>2, <1>4, Zenon
<1> QED
    BY <1>7, <1>8, <1>9, <1>10, Zenon DEF FilesInv

\* rename makes a file that is whole the program's record.
LEMMA RenameTmpFiles ==
    ASSUME GatewayTypes, FilesInv, NEW c \in Calls, RenameTmp(c)
    PROVE  FilesInv'
<1> DEFINE v == vk[c]
<1>1. at[c] = "renaming" /\ Writes(c) /\ v \in Vks /\ UNCHANGED <<durable, content, vk, file, pos, overlap>>
    BY Zenon DEF RenameTmp, Writes, GatewayTypes
<1>2. ASSUME NEW s \in {"failed", "warming"}, at' = [at EXCEPT ![c] = s]
      PROVE  /\ \A d \in Calls : Begun(d) => at'[d] \notin Early
             /\ ~Writes(c)'
             /\ \A d \in Calls : Writes(d)' => Writes(d) /\ at'[d] = at[d]
  <2>1. at'[c] = s /\ \A d \in Calls \ {c} : at'[d] = at[d]
      BY <1>2, Zenon DEF GatewayTypes
  <2> QED
      BY <2>1, Zenon DEF Begun, Early, Writes
<1>3. CASE tmp[v] = NoFile
  <2>1. at' = [at EXCEPT ![c] = "failed"] /\ UNCHANGED <<final, tmp>>
      BY <1>3, Zenon DEF RenameTmp, To
  <2> QED
      BY <2>1, <1>1, <1>2, FilesQuiet, Zenon DEF Begun
<1>4. CASE tmp[v] # NoFile
  <2>1. at' = [at EXCEPT ![c] = "warming"] /\ final' = [final EXCEPT ![v] = tmp[v]] /\ tmp' = [tmp EXCEPT ![v] = NoFile]
      BY <1>4, Zenon DEF RenameTmp, To
  <2>2. /\ \A d \in Calls : Begun(d) => at'[d] \notin Early
        /\ ~Writes(c)'
        /\ \A d \in Calls : Writes(d)' => Writes(d) /\ at'[d] = at[d]
      BY <2>1, <1>2, Zenon
  <2>3. /\ final'[v] = tmp[v] /\ tmp'[v] = NoFile /\ tmp[v] \in Calls
        /\ \A w \in Vks \ {v} : final'[w] = final[w] /\ tmp'[w] = tmp[w]
      BY <2>1, <1>1, <1>4, NamedFiles, Zenon DEF GatewayTypes
  <2>4. NamesInv'
    <3> SUFFICES ASSUME NEW w \in Vks
                 PROVE  /\ tmp'[w] # NoFile => at'[tmp'[w]] \notin Early /\ vk[tmp'[w]] = w
                        /\ final'[w] # NoFile =>
                             at'[final'[w]] \notin Early /\ vk[final'[w]] = w /\ tmp'[w] # final'[w]
        BY <1>1, Zenon DEF NamesInv, Begun
    <3>1. CASE w = v
        BY <3>1, <2>2, <2>3, <1>1, <1>4, Zenon DEF FilesInv, NamesInv
    <3>2. CASE w # v
        BY <3>2, <2>2, <2>3, NamedFiles, Zenon DEF FilesInv, NamesInv
    <3> QED
        BY <3>1, <3>2, Zenon
  <2>5. OpenInv'
      BY <2>2, <1>1, Zenon DEF FilesInv, OpenInv, Begun
  <2>6. PutInv'
    <3> SUFFICES ASSUME NEW d \in Calls, Writes(d)', vk[d] \notin overlap PROVE OneWriter(d)'
        BY <1>1, Zenon DEF PutInv
    <3>1. Writes(d) /\ OneWriter(d) /\ at'[d] = at[d] /\ d # c /\ vk[d] \in Vks
        BY <2>2, Zenon DEF FilesInv, PutInv, GatewayTypes
    <3>2. vk[d] # v
        BY <3>1, <1>1, Zenon DEF OneWriter
    <3>3. tmp'[vk'[d]] = tmp[vk[d]]
        BY <3>1, <3>2, <2>3, <1>1, Zenon
    <3>4. \A e \in Calls : Writes(e)' /\ vk'[e] = vk'[d] => e = d
        BY <3>1, <2>2, <1>1, Zenon DEF OneWriter
    <3> QED
        BY <3>1, <3>3, <3>4, <1>1, Zenon DEF OneWriter
  <2>7. WholeInv'
    <3> SUFFICES ASSUME NEW w \in Vks, w \notin overlap, final'[w] # NoFile PROVE content[final'[w]] = Whole
        BY <1>1, Zenon DEF WholeInv
    <3>1. CASE w = v
      <4>1. c \in Calls /\ Writes(c) /\ vk[c] \notin overlap
          BY <3>1, <1>1, Zenon
      <4>2. OneWriter(c)
          BY <4>1, Zenon DEF FilesInv, PutInv
      <4>3. tmp[v] = file[c] /\ content[file[c]] = 1 .. Parts
          BY <4>2, <1>1, Zenon DEF OneWriter
      <4> QED
          BY <4>3, <3>1, <2>3, Zenon DEF Whole
    <3>2. CASE w # v
        BY <3>2, <2>3, Zenon DEF FilesInv, WholeInv
    <3> QED
        BY <3>1, <3>2, Zenon
  <2> QED
      BY <2>4, <2>5, <2>6, <2>7, Zenon DEF FilesInv
<1> QED
    BY <1>3, <1>4, Zenon

\* A step of the other handlers starts no write and touches no file.
NoPut ==
    /\ UNCHANGED <<durable, final, tmp, content, vk, file, pos, overlap>>
    /\ \A d \in Calls : Writes(d)' => Writes(d) /\ at'[d] = at[d]
    /\ \A d \in Calls : Begun(d) => Begun(d)'

\* Only the three steps of a put on disk touch the files.
LEMMA OtherSteps ==
    ASSUME GatewayTypes, [Next]_vars,
           \A c \in Calls : ~(OpenTmp(c) \/ WritePart(c) \/ RenameTmp(c))
    PROVE  NoPut
<1>1. ASSUME NEW c \in Calls, NEW s \in CallStates, To(c, s), s \notin {"writing", "renaming"},
             s \notin Early \/ at[c] \in Early
      PROVE  /\ \A d \in Calls : Writes(d)' => Writes(d) /\ at'[d] = at[d]
             /\ \A d \in Calls : Begun(d) => Begun(d)'
  <2>1. at'[c] = s /\ \A d \in Calls \ {c} : at'[d] = at[d]
      BY <1>1, Zenon DEF To, GatewayTypes
  <2> QED
      BY <1>1, <2>1, Zenon DEF Writes, Begun
<1>2. UNCHANGED at => /\ \A d \in Calls : Writes(d)' => Writes(d) /\ at'[d] = at[d]
                      /\ \A d \in Calls : Begun(d) => Begun(d)'
    BY Zenon DEF Writes, Begun
<1> USE DEF storeVars, fileVars, callVars, NoPut, CallStates, Early
<1>3. ASSUME NEW c \in Calls, UploadElf(c) PROVE NoPut
    BY <1>1, <1>3, Zenon DEF UploadElf
<1>4. ASSUME NEW c \in Calls, CreateProgram(c) PROVE NoPut
    BY <1>1, <1>4, Zenon DEF CreateProgram, FirstCopy
<1>5. ASSUME NEW c \in Calls, PutInMemory(c) PROVE NoPut
    BY <1>1, <1>5, Zenon DEF PutInMemory
<1>6. ASSUME NEW c \in Calls, WarmUpload(c) PROVE NoPut
    BY <1>1, <1>6, Zenon DEF WarmUpload
<1>7. ASSUME NEW c \in Calls, DeleteUpload(c) PROVE NoPut
    BY <1>1, <1>7, Zenon DEF DeleteUpload, Cleans
<1>8. ASSUME NEW c \in Calls, RequestProof(c) PROVE NoPut
    BY <1>1, <1>8, Zenon DEF RequestProof
<1>9. ASSUME NEW c \in Calls, LoadProgram(c) PROVE NoPut
    BY <1>1, <1>9, Zenon DEF LoadProgram
<1>10. ASSUME NEW c \in Calls, MintRequestId(c) PROVE NoPut
    BY <1>1, <1>10, Zenon DEF MintRequestId
<1>11. ASSUME NEW c \in Calls, CreateRow(c) PROVE NoPut
    BY <1>1, <1>2, <1>11, Zenon DEF CreateRow
<1>12. ASSUME NEW c \in Calls, CallFails(c) PROVE NoPut
    BY <1>1, <1>12, Zenon DEF CallFails
<1>13. ASSUME NEW p \in ProofIds, Poll(p) PROVE NoPut
    BY <1>2, <1>13, Zenon DEF Poll
<1>14. ASSUME NEW p \in ProofIds, NEW s \in FinalStatus, ProofEnds(p, s) PROVE NoPut
    BY <1>2, <1>14, Zenon DEF ProofEnds
<1>15. ASSUME NEW v \in Vks, Expire(v) PROVE NoPut
    BY <1>2, <1>15, Zenon DEF Expire
<1>16. CASE Restart
  <2>1. \A d \in Calls : at'[d] = IF Running(d) THEN "failed" ELSE at[d]
      BY <1>16, Zenon DEF Restart
  <2> QED
      BY <1>16, <2>1, Zenon DEF Restart, Writes, Begun
<1>17. CASE UNCHANGED vars
    BY <1>2, <1>17, Zenon DEF vars
<1> QED
    BY <1>3, <1>4, <1>5, <1>6, <1>7, <1>8, <1>9, <1>10, <1>11, <1>12, <1>13, <1>14, <1>15, <1>16, <1>17,
       Zenon DEF Next

\* The files' part is preserved.
LEMMA FilesStep == GatewayTypes /\ FilesInv /\ [Next]_vars => FilesInv'
<1>1. ASSUME GatewayTypes, FilesInv, NoPut PROVE FilesInv'
    BY <1>1, FilesQuiet, Zenon DEF NoPut
<1> QED
    BY <1>1, OtherSteps, OpenTmpFiles, WritePartFiles, RenameTmpFiles, Zenon

\* What is registered stays so, but for the memory of a process that stops.
LEMMA KnownStays ==
    ASSUME GatewayTypes, [Next]_vars, durable \/ registered \subseteq registered', NEW v \in Vks, Known(v)
    PROVE  Known(v)' /\ durable' = durable
<1>1. CASE NoPut /\ registered \subseteq registered'
    BY <1>1, Zenon DEF Known, NoPut
<1>2. CASE NoPut /\ durable
    BY <1>2, Zenon DEF Known, NoPut
<1>3. ASSUME NEW c \in Calls, OpenTmp(c) \/ WritePart(c) PROVE Known(v)' /\ durable' = durable
  <2>1. durable' = durable /\ final' = final /\ registered' = registered
      BY <1>3, Zenon DEF OpenTmp, WritePart, Untouched
  <2> QED
      BY <2>1, Zenon DEF Known
<1>4. ASSUME NEW c \in Calls, RenameTmp(c) PROVE Known(v)' /\ durable' = durable
    BY <1>4, ZenonT(30) DEF Known, RenameTmp, GatewayTypes
<1>5. CASE \A c \in Calls : ~(OpenTmp(c) \/ WritePart(c) \/ RenameTmp(c))
  <2>1. NoPut
      BY <1>5, OtherSteps, Zenon
  <2> QED
      BY <2>1, <1>1, <1>2, Zenon
<1> QED
    BY <1>3, <1>4, <1>5, Zenon

\* A call warms, cleans up or loads only what the program store has, and nothing
\* is warm that it lacks.
LEMMA KnownStep ==
    GatewayTypes /\ OpenInv /\ PutIsKnown /\ WarmIsRegistered /\ [Next]_vars => PutIsKnown' /\ WarmIsRegistered'
<1> SUFFICES ASSUME GatewayTypes, OpenInv, PutIsKnown, WarmIsRegistered, [Next]_vars
             PROVE  PutIsKnown' /\ WarmIsRegistered'
    BY Zenon
<1> DEFINE Has(c, s) == s \in {"warming", "cleaning", "loading"} => Known(vk[c])'
<1>1. \A c \in Calls : vk[c] \in Vks
    BY Zenon DEF GatewayTypes
<1>2. durable' = durable /\ vk' = vk
    BY ZenonT(30) DEF Next, UploadElf, CreateProgram, OpenTmp, WritePart, RenameTmp, PutInMemory, WarmUpload,
       DeleteUpload, RequestProof, LoadProgram, MintRequestId, CreateRow, CallFails, Poll, ProofEnds, Expire,
       Restart, vars, storeVars, callVars
<1>3. \A v \in Vks : durable \/ registered \subseteq registered' => (Known(v) => Known(v)')
    BY KnownStays, Zenon
<1>4. ASSUME NEW c \in Calls, NEW s \in CallStates, To(c, s), Has(c, s), registered \subseteq registered'
      PROVE  PutIsKnown'
  <2>1. at'[c] = s /\ \A d \in Calls \ {c} : at'[d] = at[d]
      BY <1>4, Zenon DEF To, GatewayTypes
  <2> SUFFICES ASSUME NEW d \in Calls
               PROVE  /\ at'[d] \in {"warming", "cleaning"} => Known(vk[d])'
                      /\ durable /\ at'[d] = "loading" => Known(vk[d])'
      BY <1>2, Zenon DEF PutIsKnown, Known
  <2>2. CASE d = c
      BY <1>4, <2>1, <2>2, Zenon
  <2>3. CASE d # c
      BY <1>1, <1>2, <1>3, <1>4, <2>1, <2>3, Zenon DEF PutIsKnown
  <2> QED
      BY <2>2, <2>3, Zenon
<1>5. UNCHANGED <<at, registered>> => PutIsKnown'
    BY <1>1, <1>2, <1>3, Zenon DEF PutIsKnown, Known
<1>6. UNCHANGED warm => WarmIsRegistered'
    BY <1>2, <1>3, Zenon DEF WarmIsRegistered
<1>7. ASSUME NEW c \in Calls, Known(vk[c]), NEW S \in SUBSET Nat, warm' = [warm EXCEPT ![vk[c]] = S],
             UNCHANGED registered
      PROVE  WarmIsRegistered'
  <2>1. \A v \in Vks \ {vk[c]} : warm'[v] = warm[v]
      BY <1>7, Zenon DEF GatewayTypes
  <2> QED
      BY <1>1, <1>2, <1>3, <1>7, <2>1, Zenon DEF WarmIsRegistered
<1>8. \A c \in Calls : \A s \in CallStates \ {"warming", "cleaning", "loading"} : Has(c, s)
    BY Zenon
<1>9. \A c \in Calls : Known(vk[c])' => \A s \in CallStates : Has(c, s)
    BY Zenon
<1> HIDE DEF Has
<1> USE DEF storeVars, fileVars, callVars, CallStates
<1>10. ASSUME NEW c \in Calls, UploadElf(c) \/ CreateProgram(c) \/ OpenTmp(c) \/ WritePart(c)
                              \/ MintRequestId(c) \/ CallFails(c)
      PROVE  PutIsKnown' /\ WarmIsRegistered'
  <2>1. UNCHANGED <<registered, warm>> /\ \E s \in CallStates \ {"warming", "cleaning", "loading"} : To(c, s)
      BY <1>10, ZenonT(30) DEF UploadElf, CreateProgram, FirstCopy, OpenTmp, WritePart, MintRequestId, CallFails
  <2> QED
      BY <1>4, <1>8, <1>9, <1>6, <2>1, Zenon
<1>11. ASSUME NEW c \in Calls, RenameTmp(c) PROVE PutIsKnown' /\ WarmIsRegistered'
  <2>1. CASE tmp[vk[c]] = NoFile
    <3>1. To(c, "failed") /\ UNCHANGED <<registered, warm>>
        BY <1>11, <2>1, Zenon DEF RenameTmp
    <3> QED
        BY <1>4, <1>8, <1>9, <1>6, <3>1, Zenon
  <2>2. CASE tmp[vk[c]] # NoFile
    <3>1. To(c, "warming") /\ UNCHANGED <<registered, warm>> /\ final' = [final EXCEPT ![vk[c]] = tmp[vk[c]]]
        BY <1>11, <2>2, Zenon DEF RenameTmp
    <3>2. final'[vk[c]] # NoFile
        BY <1>1, <2>2, <3>1, Zenon DEF GatewayTypes
    <3>3. durable
        BY <1>11, Zenon DEF RenameTmp, OpenInv, Writes
    <3>4. Known(vk[c])'
        BY <1>2, <3>2, <3>3, Zenon DEF Known
    <3> QED
        BY <1>4, <1>8, <1>9, <1>6, <3>1, <3>4, Zenon
  <2> QED
      BY <2>1, <2>2, Zenon
<1>12. ASSUME NEW c \in Calls, PutInMemory(c) PROVE PutIsKnown' /\ WarmIsRegistered'
  <2>1. ~durable /\ registered' = registered \cup {vk[c]} /\ To(c, "warming") /\ UNCHANGED warm
      BY <1>12, Zenon DEF PutInMemory
  <2>2. Known(vk[c])'
      BY <1>2, <2>1, Zenon DEF Known
  <2> QED
      BY <1>2, <1>4, <1>8, <1>9, <1>6, <2>1, <2>2, Zenon
<1>13. ASSUME NEW c \in Calls, WarmUpload(c) PROVE PutIsKnown' /\ WarmIsRegistered'
  <2>1. at[c] = "warming" /\ UNCHANGED registered /\ To(c, "cleaning") /\ warm' = [warm EXCEPT ![vk[c]] = Whole]
      BY <1>13, Zenon DEF WarmUpload
  <2>2. Whole \in SUBSET Nat
      BY PartsAssumption, SMT DEF Whole
  <2>3. Known(vk[c]) /\ Known(vk[c])'
      BY <1>1, <1>2, <1>3, <2>1, Zenon DEF PutIsKnown
  <2> QED
      BY <1>4, <1>8, <1>9, <1>7, <2>1, <2>2, <2>3, Zenon
<1>14. ASSUME NEW c \in Calls, DeleteUpload(c) PROVE PutIsKnown' /\ WarmIsRegistered'
  <2>1. UNCHANGED <<registered, warm>> /\ To(c, "registered")
      BY <1>14, Zenon DEF DeleteUpload, Cleans
  <2>2. Has(c, "registered") /\ "registered" \in CallStates
      BY Zenon DEF Has
  <2> QED
      BY <1>4, <1>6, <2>1, <2>2, Zenon
<1>15. ASSUME NEW c \in Calls, RequestProof(c) PROVE PutIsKnown' /\ WarmIsRegistered'
  <2>1. UNCHANGED <<registered, warm>>
      BY <1>15, Zenon DEF RequestProof
  <2>2. \/ \E s \in {"failed", "minting"} : To(c, s)
        \/ Known(vk[c]) /\ To(c, "loading")
      BY <1>15, Zenon DEF RequestProof
  <2>3. Known(vk[c]) => Known(vk[c])'
      BY <1>1, <1>2, <1>3, <2>1, Zenon
  <2> QED
      BY <1>4, <1>8, <1>9, <1>6, <2>1, <2>2, <2>3, Zenon
<1>16. ASSUME NEW c \in Calls, LoadProgram(c) PROVE PutIsKnown' /\ WarmIsRegistered'
  <2>1. at[c] = "loading" /\ UNCHANGED registered /\ To(c, "minting") /\ warm' = [warm EXCEPT ![vk[c]] = Record(vk[c])]
      BY <1>16, Zenon DEF LoadProgram
  <2>2. Record(vk[c]) \in SUBSET Nat
      BY PartsAssumption, SMT DEF Record, Whole, GatewayTypes
  <2>3. WarmIsRegistered'
    <3>1. CASE durable
      <4>1. Known(vk[c])
          BY <2>1, <3>1, Zenon DEF PutIsKnown
      <4> QED
          BY <1>7, <2>1, <2>2, <4>1, Zenon
    <3>2. CASE ~durable
        BY <1>2, <3>2, Zenon DEF WarmIsRegistered
    <3> QED
        BY <3>1, <3>2, Zenon
  <2>4. Has(c, "minting") /\ "minting" \in CallStates
      BY Zenon DEF Has
  <2> QED
      BY <1>4, <2>1, <2>3, <2>4, Zenon
<1>17. ASSUME NEW c \in Calls, CreateRow(c) PROVE PutIsKnown' /\ WarmIsRegistered'
  <2>1. UNCHANGED <<registered, warm>> /\ (UNCHANGED at \/ To(c, "accepted"))
      BY <1>17, Zenon DEF CreateRow
  <2> QED
      BY <1>4, <1>8, <1>9, <1>5, <1>6, <2>1, Zenon
<1>18. ASSUME NEW p \in ProofIds, Poll(p) \/ \E s \in FinalStatus : ProofEnds(p, s)
       PROVE  PutIsKnown' /\ WarmIsRegistered'
    BY <1>5, <1>6, <1>18, Zenon DEF Poll, ProofEnds
<1>19. ASSUME NEW v \in Vks, Expire(v) PROVE PutIsKnown' /\ WarmIsRegistered'
  <2>1. UNCHANGED <<at, registered>> /\ \A w \in Vks : warm'[w] # {} => warm[w] # {}
      BY <1>19, Zenon DEF Expire, GatewayTypes
  <2> QED
      BY <1>2, <1>3, <1>5, <2>1, Zenon DEF WarmIsRegistered
<1>20. CASE Restart
  <2>1. \A c \in Calls : at'[c] \notin {"warming", "cleaning", "loading"}
      BY <1>20, Zenon DEF Restart, Running
  <2> QED
      BY <1>6, <1>20, <2>1, Zenon DEF Restart, PutIsKnown
<1>21. CASE UNCHANGED vars
    BY <1>5, <1>6, <1>21, Zenon DEF vars
<1> QED
    BY <1>10, <1>11, <1>12, <1>13, <1>14, <1>15, <1>16, <1>17, <1>18, <1>19, <1>20, <1>21, Zenon DEF Next

\* An id is minted for one call, an accepted call has its row, and what the SDK
\* was told is final is final in the table.
LEMMA RequestStep ==
    GatewayTypes /\ MintedOnce /\ AcceptedHasRow /\ ToldIsTrue /\ [Next]_vars
        => MintedOnce' /\ AcceptedHasRow' /\ ToldIsTrue'
<1> SUFFICES ASSUME GatewayTypes, MintedOnce, AcceptedHasRow, ToldIsTrue, [Next]_vars
             PROVE  MintedOnce' /\ AcceptedHasRow' /\ ToldIsTrue'
    BY Zenon
<1>1. ASSUME \A c \in Calls : at'[c] \in {"creating", "accepted"} => at'[c] = at[c], UNCHANGED id, RowsStay
      PROVE  MintedOnce' /\ AcceptedHasRow'
  <2>1. MintedOnce'
      BY <1>1, Zenon DEF MintedOnce
  <2>2. ASSUME NEW c \in Calls, at'[c] = "accepted" PROVE table'[id'[c]] # NoRow /\ \A d \in Calls \ {c} : id'[d] # id'[c]
    <3>1. at[c] = "accepted" /\ id[c] \in ProofIds /\ table[id[c]] # NoRow
        BY <1>1, <2>2, Zenon DEF MintedOnce, AcceptedHasRow
    <3> QED
        BY <1>1, <3>1, Zenon DEF AcceptedHasRow, RowsStay
  <2> QED
      BY <2>1, <2>2, Zenon DEF AcceptedHasRow
<1>2. ASSUME UNCHANGED seen, RowsStay PROVE ToldIsTrue'
    BY <1>2, Zenon DEF ToldIsTrue, RowsStay
<1>3. UNCHANGED table => RowsStay
    BY Zenon DEF RowsStay
<1>4. ASSUME NEW c \in Calls, NEW s \in CallStates \ {"creating", "accepted"}, To(c, s)
      PROVE  \A d \in Calls : at'[d] \in {"creating", "accepted"} => at'[d] = at[d]
  <2>1. at'[c] = s /\ \A d \in Calls \ {c} : at'[d] = at[d]
      BY <1>4, Zenon DEF To, GatewayTypes
  <2> QED
      BY <1>4, <2>1, Zenon
<1>5. ASSUME NEW c \in Calls, UploadElf(c) \/ CreateProgram(c) \/ OpenTmp(c) \/ WritePart(c)
                              \/ RenameTmp(c) \/ PutInMemory(c) \/ WarmUpload(c)
      PROVE  MintedOnce' /\ AcceptedHasRow' /\ ToldIsTrue'
  <2>1. UNCHANGED <<id, seen, table>> /\ \E s \in CallStates \ {"creating", "accepted"} : To(c, s)
      BY <1>5, ZenonT(30) DEF UploadElf, CreateProgram, FirstCopy, OpenTmp, WritePart, RenameTmp, PutInMemory,
         WarmUpload, CallStates
  <2> QED
      BY <1>1, <1>2, <1>3, <1>4, <2>1, Zenon
<1>6. ASSUME NEW c \in Calls, DeleteUpload(c) \/ RequestProof(c) \/ LoadProgram(c) \/ CallFails(c)
      PROVE  MintedOnce' /\ AcceptedHasRow' /\ ToldIsTrue'
  <2>1. UNCHANGED <<id, seen, table>> /\ \E s \in CallStates \ {"creating", "accepted"} : To(c, s)
      BY <1>6, ZenonT(30) DEF DeleteUpload, Cleans, RequestProof, LoadProgram, CallFails, CallStates
  <2> QED
      BY <1>1, <1>2, <1>3, <1>4, <2>1, Zenon
<1>7. ASSUME NEW c \in Calls, MintRequestId(c) PROVE MintedOnce' /\ AcceptedHasRow' /\ ToldIsTrue'
  <2>1. PICK p \in Unminted : id' = [id EXCEPT ![c] = p]
      BY <1>7, Zenon DEF MintRequestId
  <2>2. at' = [at EXCEPT ![c] = "creating"] /\ UNCHANGED <<table, seen>>
      BY <1>7, Zenon DEF MintRequestId, To
  <2>3. /\ at'[c] = "creating" /\ id'[c] = p
        /\ \A d \in Calls \ {c} : at'[d] = at[d] /\ id'[d] = id[d]
      BY <2>1, <2>2, Zenon DEF GatewayTypes
  <2>4. p \in ProofIds /\ \A d \in Calls : id[d] # p
      BY Zenon DEF Unminted
  <2>5. MintedOnce'
    <3> SUFFICES ASSUME NEW d \in Calls, at'[d] \in {"creating", "accepted"}
                 PROVE  id'[d] \in ProofIds /\ \A e \in Calls \ {d} : id'[e] # id'[d]
        BY Zenon DEF MintedOnce
    <3>1. CASE d = c
        BY <3>1, <2>3, <2>4, Zenon
    <3>2. CASE d # c
        BY <3>2, <2>3, <2>4, Zenon DEF MintedOnce
    <3> QED
        BY <3>1, <3>2, Zenon
  <2>6. AcceptedHasRow'
    <3> SUFFICES ASSUME NEW d \in Calls, at'[d] = "accepted"
                 PROVE  table'[id'[d]] # NoRow /\ \A e \in Calls \ {d} : id'[e] # id'[d]
        BY Zenon DEF AcceptedHasRow
    <3>1. d # c
        BY <2>3, Zenon
    <3>2. table'[id'[d]] # NoRow
        BY <3>1, <2>2, <2>3, Zenon DEF AcceptedHasRow
    <3> QED
        BY <3>2, <2>5, Zenon DEF MintedOnce
  <2> QED
      BY <1>2, <1>3, <2>2, <2>5, <2>6, Zenon
<1>8. ASSUME NEW c \in Calls, CreateRow(c) PROVE MintedOnce' /\ AcceptedHasRow' /\ ToldIsTrue'
  <2>1. at[c] = "creating" /\ id[c] \in ProofIds /\ UNCHANGED <<id, seen>> /\ (UNCHANGED at \/ To(c, "accepted"))
      BY <1>8, Zenon DEF CreateRow, MintedOnce
  <2>2. "Failed" \in FinalStatus
      BY Zenon DEF FinalStatus
  <2>3. RowsStay
    <3>1. table' = table \/ table' = Created(table, id[c], TRUE)
        BY <1>8, Zenon DEF CreateRow
    <3>2. \A q \in ProofIds : table[q] # NoRow =>
            /\ Created(table, id[c], TRUE)[q] # NoRow
            /\ table[q].status \in FinalStatus => Created(table, id[c], TRUE)[q].status = table[q].status
      <4>1. table \in [ProofIds -> ProofRequest \cup {NoRow}]
          BY Zenon DEF GatewayTypes
      <4> QED
          BY <4>1, <2>1, <2>2, TableOps, Zenon
    <3> QED
        BY <1>3, <3>1, <3>2, Zenon DEF RowsStay
  <2>4. \A d \in Calls : /\ at'[d] \in {"creating", "accepted"} => at[d] \in {"creating", "accepted"}
                         /\ at'[d] = "accepted" => at[d] = "accepted" \/ (d = c /\ To(c, "accepted"))
      BY <2>1, Zenon DEF To, GatewayTypes
  <2>5. MintedOnce'
      BY <2>1, <2>4, Zenon DEF MintedOnce
  <2>6. ~UNCHANGED at => table'[id[c]] # NoRow
    <3>1. Created(table, id[c], TRUE)[id[c]] # NoRow
      <4>1. [status |-> "Pending", handled |-> FALSE, expired |-> FALSE, whole |-> TRUE] \in ProofRequest
          BY Zenon DEF ProofRequest, RowStatus
      <4> QED
          BY <2>1, <4>1, RowAssumption, Zenon DEF Created, GatewayTypes
    <3> QED
        BY <1>8, <3>1, Zenon DEF CreateRow, OwnCommittedAttempt
  <2>7. AcceptedHasRow'
    <3> SUFFICES ASSUME NEW d \in Calls, at'[d] = "accepted" PROVE table'[id'[d]] # NoRow
        BY <2>5, Zenon DEF AcceptedHasRow, MintedOnce
    <3>1. CASE at[d] = "accepted"
        BY <3>1, <2>1, <2>3, Zenon DEF AcceptedHasRow, MintedOnce, RowsStay
    <3>2. CASE at[d] # "accepted"
        BY <3>2, <2>1, <2>4, <2>6, Zenon
    <3> QED
        BY <3>1, <3>2, Zenon
  <2> QED
      BY <1>2, <2>1, <2>3, <2>5, <2>7, Zenon
<1>9. ASSUME NEW p \in ProofIds, Poll(p) PROVE MintedOnce' /\ AcceptedHasRow' /\ ToldIsTrue'
  <2>1. /\ table[p] # NoRow /\ seen' = [seen EXCEPT ![p] = FulfillmentFrom(table[p].status)]
        /\ UNCHANGED <<at, id, table>>
      BY <1>9, Zenon DEF Poll, callVars
  <2>2. \A q \in ProofIds \ {p} : seen'[q] = seen[q]
      BY <2>1, Zenon DEF GatewayTypes
  <2>3. seen'[p] = FulfillmentFrom(table[p].status)
      BY <2>1, Zenon DEF GatewayTypes
  <2>4. seen'[p] \in {"Fulfilled", "Unfulfillable"} => table[p].status \in FinalStatus
    <3>1. table[p].status \in RowStatus
        BY <2>1, Zenon DEF GatewayTypes, ProofRequest
    <3>2. table[p].status = "Pending" => seen'[p] = "Requested"
        BY <2>3, Zenon DEF FulfillmentFrom
    <3> QED
        BY <3>1, <3>2, Zenon DEF RowStatus, FinalStatus
  <2>5. ToldIsTrue'
    <3> SUFFICES ASSUME NEW q \in ProofIds, seen'[q] \in {"Fulfilled", "Unfulfillable"}
                 PROVE  /\ table[q] # NoRow /\ table[q].status \in FinalStatus
                        /\ FulfillmentFrom(table[q].status) = seen'[q]
        BY <2>1, Zenon DEF ToldIsTrue
    <3>1. CASE q = p
        BY <3>1, <2>1, <2>3, <2>4, Zenon
    <3>2. CASE q # p
        BY <3>2, <2>2, Zenon DEF ToldIsTrue
    <3> QED
        BY <3>1, <3>2, Zenon
  <2> QED
      BY <1>1, <1>3, <2>1, <2>5, Zenon
<1>10. ASSUME NEW p \in ProofIds, NEW s \in FinalStatus, ProofEnds(p, s)
       PROVE  MintedOnce' /\ AcceptedHasRow' /\ ToldIsTrue'
  <2>1. RowsStay
      BY <1>10, TableOps, Zenon DEF ProofEnds, RowsStay, GatewayTypes
  <2> QED
      BY <1>1, <1>2, <1>10, <2>1, Zenon DEF ProofEnds, callVars
<1>11. ASSUME NEW v \in Vks, Expire(v) PROVE MintedOnce' /\ AcceptedHasRow' /\ ToldIsTrue'
    BY <1>1, <1>2, <1>3, <1>11, Zenon DEF Expire, callVars
<1>12. CASE Restart
  <2>1. \A c \in Calls : at'[c] \in {"creating", "accepted"} => at'[c] = at[c]
      BY <1>12, Zenon DEF Restart
  <2> QED
      BY <1>1, <1>2, <1>3, <1>12, <2>1, Zenon DEF Restart
<1>13. CASE UNCHANGED vars
    BY <1>1, <1>2, <1>3, <1>13, Zenon DEF vars, callVars
<1> QED
    BY <1>5, <1>6, <1>7, <1>8, <1>9, <1>10, <1>11, <1>12, <1>13, Zenon DEF Next

-----------------------------------------------------------------------------------
\* The gateway's invariant holds throughout, whatever calls run side by side, fail
\* or are dropped halfway, and whenever the process stops.
THEOREM GatewaySafe == Spec => []GatewayInv
<1>1. GatewayInv /\ [Next]_vars => GatewayInv'
    BY GatewayTypesStep, FilesStep, KnownStep, RequestStep, Zenon DEF GatewayInv, FilesInv
<1> QED
    BY <1>1, GatewayInit, PTL DEF Spec

\* A program's record is read whole or not at all as long as its puts do not
\* overlap, and on disk no program is warm that is not registered
\* (FilesystemProgramStore::put, create_program, request_proof).
THEOREM ProgramsAreRegistered == Spec => []ProgramsRegistered
<1>1. GatewayInv => ProgramsRegistered
    BY Zenon DEF GatewayInv, FilesInv, WholeInv, ProgramsRegistered, RecordIsWhole, Known, Record
<1> QED
    BY <1>1, GatewaySafe, PTL

\* A filter of the SDK, expressed in the cluster's statuses or answered by the
\* gateway, returns the rows whose own status reads so.
LEMMA FiltersMatch == GatewayTypes => FilterMatches
<1> SUFFICES ASSUME GatewayTypes, NEW s \in SdkStatus \ {"Unspecified"}
             PROVE  Filtered(s) = {p \in ProofIds : table[p] # NoRow /\ FulfillmentFrom(table[p].status) = s}
    BY Zenon DEF FilterMatches
<1>1. ASSUME NEW p \in ProofIds, table[p] # NoRow PROVE table[p].status \in {"Completed", "Failed", "Cancelled", "Pending"}
    BY <1>1, Zenon DEF GatewayTypes, ProofRequest, RowStatus, FinalStatus
<1>2. ASSUME NEW t \in {"Completed", "Failed", "Cancelled", "Pending"}
      PROVE  (FulfillmentFrom(t) = s) = (~AnsweredHere(s) /\ t \in ClusterFilter(s))
    BY SMT DEF FulfillmentFrom, AnsweredHere, ClusterFilter, SdkStatus
<1>3. ~AnsweredHere(s) => ClusterFilter(s) # {}
    BY Zenon DEF AnsweredHere
<1> QED
    BY <1>1, <1>2, <1>3, Zenon DEF Filtered, ClusterList

\* An accepted request has a row of its own although the insert is repeated, and a
\* filter returns exactly the requests in that status (request_proof,
\* get_filtered_proof_requests).
THEOREM RequestsAreAccountedFor == Spec => []RequestsAccountedFor
<1>1. GatewayInv => RequestsAccountedFor
    BY FiltersMatch, Zenon DEF GatewayInv, RequestsAccountedFor
<1> QED
    BY <1>1, GatewaySafe, PTL

\* What the SDK was told is final it is told again by every later answer, and an
\* upload is given up only when its program is registered
\* (get_proof_request_status, create_program).
THEOREM NothingIsTakenBack == Spec => NothingTakenBack
<1> DEFINE Told == \A p \in ProofIds : seen[p] \in {"Fulfilled", "Unfulfillable"} => seen'[p] = seen[p]
           Kept == \A c \in orphan : c \notin orphan' => Known(vk[c]) /\ at'[c] = "registered"
<1>1. GatewayInv /\ [Next]_vars => [Told]_vars
  <2> SUFFICES ASSUME GatewayInv, Next, NEW p \in ProofIds, seen[p] \in {"Fulfilled", "Unfulfillable"}
               PROVE  seen'[p] = seen[p]
      BY Zenon
  <2>1. CASE UNCHANGED seen
      BY <2>1, Zenon
  <2>2. ASSUME NEW q \in ProofIds, Poll(q) PROVE seen'[p] = seen[p]
    <3>1. CASE q = p
        BY <2>2, <3>1, Zenon DEF Poll, GatewayInv, GatewayTypes, ToldIsTrue
    <3>2. CASE q # p
        BY <2>2, <3>2, Zenon DEF Poll, GatewayInv, GatewayTypes
    <3> QED
        BY <3>1, <3>2, Zenon
  <2> QED
      BY <2>1, <2>2, ZenonT(30) DEF Next, UploadElf, CreateProgram, OpenTmp, WritePart, RenameTmp, PutInMemory,
         WarmUpload, DeleteUpload, RequestProof, LoadProgram, MintRequestId, CreateRow, CallFails, ProofEnds,
         Expire, Restart
<1>2. GatewayInv /\ [Next]_vars => [Kept]_vars
  <2> SUFFICES ASSUME GatewayInv, Next, NEW c \in orphan, c \notin orphan'
               PROVE  Known(vk[c]) /\ at'[c] = "registered"
      BY Zenon
  <2>1. c \in Calls
      BY Zenon DEF GatewayInv, GatewayTypes
  <2>2. DeleteUpload(c)
      BY ZenonT(30) DEF Next, UploadElf, CreateProgram, OpenTmp, WritePart, RenameTmp, PutInMemory,
         WarmUpload, DeleteUpload, RequestProof, LoadProgram, MintRequestId, CreateRow, CallFails, Poll, ProofEnds,
         Expire, Restart, callVars
  <2>3. at[c] = "cleaning" /\ at' = [at EXCEPT ![c] = "registered"]
      BY <2>2, Zenon DEF DeleteUpload, Cleans, To
  <2>4. at'[c] = "registered"
      BY <2>1, <2>3, Zenon DEF GatewayInv, GatewayTypes
  <2> QED
      BY <2>1, <2>3, <2>4, Zenon DEF GatewayInv, PutIsKnown
<1>3. Spec => [][Told]_vars
    BY <1>1, GatewaySafe, PTL DEF Spec
<1>4. Spec => [][Kept]_vars
    BY <1>2, GatewaySafe, PTL DEF Spec
<1> QED
    BY <1>3, <1>4, Zenon DEF NothingTakenBack, ToldFinalStays, UploadKeptUntilRegistered
===================================================================================
