--------------------------- MODULE ArtifactsProofs ---------------------------
(***************************************************************************)
(* Proofs about the artifact store in Redis, for every choice of its       *)
(* constants: the reference counts, the admission of uploads, and the      *)
(* artifact itself.                                                        *)
(***************************************************************************)
EXTENDS Artifacts, FiniteSetTheorems, TLAPS

-----------------------------------------------------------------------------
(* Reference counts.                                                       *)

RefSteps == {"new", "holding", "remove", "count", "drop", "delete", "done"}

RefTypes ==
    /\ refs \in SUBSET Holders /\ step \in [Holders -> RefSteps] /\ stored \in BOOLEAN
    /\ failures \in Nat /\ lost \in SUBSET Holders

\* The set holds every holder; one that has counted is in it only if it gave
\* up, one that is starting over may be in it or not.
MembersInv ==
    \A h \in Holders : /\ step[h] = "holding" => h \in refs
                       /\ h \in refs => step[h] \in {"holding", "remove"} \/ h \in lost

Letting == {h \in Holders : step[h] \notin {"new", "holding"}}

\* Nobody lets go before everybody refers, and nobody refers any more when a
\* holder drops the set or the artifact is gone.
OrderInv ==
    /\ Letting # {} => Refs!AllRefer
    /\ (~stored \/ \E h \in Holders : step[h] \in {"drop", "delete"}) => Letting = Holders

\* Somebody is still to delete the artifact, or has given up.
OweInv == stored => lost # {} \/ \E h \in Holders : step[h] # "done"

RefInv == RefTypes /\ MembersInv /\ OrderInv /\ OweInv

\* The invariant holds before anybody refers to the artifact.
LEMMA RefInit == Refs!Init => RefInv
BY RefsAssumption
   DEF Refs!Init, RefInv, RefTypes, RefSteps, MembersInv, OrderInv, OweInv, Letting, Refs!AllRefer

\* Every command, and every failure of one, preserves it.
LEMMA RefStep == RefInv /\ [Refs!Next]_refVars => RefInv'
<1> SUFFICES ASSUME RefInv, [Refs!Next]_refVars PROVE RefInv'
    BY Zenon
<1> USE DEF RefInv, RefTypes, RefSteps, MembersInv, OrderInv, OweInv, Letting, Refs!AllRefer
<1>1. CASE UNCHANGED refVars
    BY <1>1, Zenon DEF refVars
<1>2. CASE Refs!Next
  <2>1. PICK h \in Holders :
          \/ Refs!AddRef(h) \/ Refs!Release(h) \/ Refs!Remove(h) \/ Refs!Count(h)
          \/ Refs!DropSet(h) \/ Refs!Delete(h)
          \/ \E again \in BOOLEAN : Refs!CommandFails(h, again)
      BY <1>2, Zenon DEF Refs!Next
  <2>2. CASE Refs!AddRef(h)
      BY <2>2, Zenon DEF Refs!AddRef, Refs!Move
  <2>3. CASE Refs!Release(h)
      BY <2>3, Zenon DEF Refs!Release, Refs!Move
  <2>4. CASE Refs!Remove(h)
      BY <2>4, Zenon DEF Refs!Remove, Refs!Move
  <2>5. CASE Refs!Count(h)
      BY <2>5, Zenon DEF Refs!Count, Refs!Move, Refs!NoneLeft
  <2>6. CASE Refs!DropSet(h)
      BY <2>6, Zenon DEF Refs!DropSet, Refs!Move
  <2>7. CASE Refs!Delete(h)
      BY <2>7, Zenon DEF Refs!Delete, Refs!Move, Refs!DeletedBy
  <2>8. CASE \E again \in BOOLEAN : Refs!CommandFails(h, again)
    <3>1. CASE Refs!CommandFails(h, TRUE)
        BY <3>1, RefsAssumption DEF Refs!CommandFails, Refs!Move
    <3>2. CASE Refs!CommandFails(h, FALSE)
      <4>1. /\ step[h] \in {"remove", "count", "drop", "delete"}
            /\ step' = [step EXCEPT ![h] = "done"] /\ lost' = lost \cup {h}
            /\ failures' = failures + 1 /\ UNCHANGED <<refs, stored>>
          BY <3>2, Zenon DEF Refs!CommandFails, Refs!Move
      <4>2. RefTypes' /\ OweInv'
          BY <4>1
      <4>3. MembersInv'
          BY <4>1, Zenon
      <4>4. OrderInv'
          BY <4>1, Zenon
      <4> QED
          BY <4>2, <4>3, <4>4, Zenon
    <3> QED
        BY <2>8, <3>1, <3>2, Zenon
  <2> QED
      BY <2>1, <2>2, <2>3, <2>4, <2>5, <2>6, <2>7, <2>8, Zenon
<1> QED
    BY <1>1, <1>2, Zenon

\* remove_ref: the artifact is not deleted under a holder, and the last one to
\* let go deletes it, for any holders whose commands interleave and fail.
THEOREM ReferencesDecide == Refs!Spec => []RefsDecide
<1>1. RefInv => RefsDecide
    BY RefsAssumption, Zenon DEF RefInv, RefTypes, OrderInv, OweInv, Letting, RefsDecide,
       Refs!KeptWhileReferred, Refs!LastReleaseDeletes
<1> QED
    BY RefInit, RefStep, <1>1, PTL DEF Refs!Spec, Refs!vars, refVars

-----------------------------------------------------------------------------
(* Admission.                                                              *)

ByteSlots(S) == UNION {{u} \X (1 .. Bytes[u]) : u \in S}

\* The bytes of a set of uploads are finitely many.
LEMMA TotalNat ==
    ASSUME NEW S, S \subseteq Writers
    PROVE  /\ IsFiniteSet(ByteSlots(S)) /\ Admission!Total(S) = Cardinality(ByteSlots(S))
           /\ Admission!Total(S) \in Nat
<1> DEFINE f == [u \in S |-> {u} \X (1 .. Bytes[u])]
           R == {{u} \X (1 .. Bytes[u]) : u \in S}
<1>1. IsFiniteSet(S)
    BY FS_Subset, AdmissionAssumption, Zenon
<1>2. f \in Surjection(S, R)
    BY Zenon DEF Surjection
<1>3. IsFiniteSet(R)
    BY <1>1, <1>2, FS_Surjection, Zenon DEF ExistsSurjection
<1>4. ASSUME NEW u \in S PROVE IsFiniteSet({u} \X (1 .. Bytes[u]))
  <2>1. Bytes[u] \in Nat
      BY AdmissionAssumption, Zenon
  <2>2. IsFiniteSet(1 .. Bytes[u])
      BY <2>1, FS_Interval
  <2>3. IsFiniteSet({u})
      BY FS_Singleton, Zenon
  <2> QED
      BY <2>2, <2>3, FS_Product, Zenon
<1>5. IsFiniteSet(UNION R)
    BY <1>3, <1>4, FS_UNION, Zenon
<1>6. Admission!Cardinality(ByteSlots(S)) = Cardinality(ByteSlots(S))
    BY Zenon DEF Admission!Cardinality, Cardinality
<1>7. Admission!Total(S) = Cardinality(ByteSlots(S))
    BY <1>6, Zenon DEF Admission!Total, ByteSlots
<1> QED
    BY <1>5, <1>7, FS_CardinalityType, Zenon DEF ByteSlots

\* The bytes of two disjoint sets are the sum of theirs.
LEMMA TotalUnion ==
    ASSUME NEW S, S \subseteq Writers, NEW R, R \subseteq Writers, S \cap R = {}
    PROVE  Admission!Total(S \cup R) = Admission!Total(S) + Admission!Total(R)
<1>1. ByteSlots(S \cup R) = ByteSlots(S) \cup ByteSlots(R)
    BY Zenon DEF ByteSlots
<1>2. ByteSlots(S) \cap ByteSlots(R) = {}
    BY DEF ByteSlots
<1>3. Cardinality(ByteSlots(S) \cap ByteSlots(R)) = 0
    BY <1>2, FS_EmptySet, Zenon
<1>4. /\ IsFiniteSet(ByteSlots(S)) /\ IsFiniteSet(ByteSlots(R))
      /\ Admission!Total(S) = Cardinality(ByteSlots(S)) /\ Admission!Total(S) \in Nat
      /\ Admission!Total(R) = Cardinality(ByteSlots(R)) /\ Admission!Total(R) \in Nat
      /\ Admission!Total(S \cup R) = Cardinality(ByteSlots(S \cup R))
    BY TotalNat, Zenon
<1>5. Cardinality(ByteSlots(S) \cup ByteSlots(R)) =
        Cardinality(ByteSlots(S)) + Cardinality(ByteSlots(R)) - Cardinality(ByteSlots(S) \cap ByteSlots(R))
    BY <1>4, FS_Union, Zenon
<1>6. Admission!Total(S \cup R) = Admission!Total(S) + Admission!Total(R) - 0
    BY <1>1, <1>3, <1>4, <1>5, Zenon
<1> QED
    BY <1>4, <1>6

\* The bytes of one upload are its size.
LEMMA TotalOne ==
    ASSUME NEW u \in Writers
    PROVE  Admission!Total({u}) = Bytes[u] /\ Bytes[u] \in Nat
<1> DEFINE n == Bytes[u]
           f == [i \in 1 .. n |-> <<u, i>>]
<1>1. n \in Nat
    BY AdmissionAssumption, Zenon
<1>2. ByteSlots({u}) = {<<u, i>> : i \in 1 .. n}
    BY <1>1 DEF ByteSlots
<1>3. f \in Bijection(1 .. n, ByteSlots({u}))
    BY <1>1, <1>2, Zenon DEF Bijection, Injection, Surjection, IsInjective
<1>4. ExistsBijection(1 .. n, ByteSlots({u}))
    BY <1>3, Zenon DEF ExistsBijection
<1>5. Cardinality(ByteSlots({u})) = n
    BY <1>1, <1>4, FS_CountingElements, Zenon
<1> QED
    BY <1>1, <1>5, TotalNat, Zenon

\* What an upload adds to a set, and that a set has no more bytes than a larger
\* one.
LEMMA TotalGrows ==
    ASSUME NEW S, S \subseteq Writers
    PROVE  /\ Admission!Total(S) \in Nat
           /\ \A u \in Writers \ S : Admission!Total(S \cup {u}) = Admission!Total(S) + Bytes[u]
           /\ \A u \in S : Admission!Total(S) = Admission!Total(S \ {u}) + Bytes[u]
           /\ \A R \in SUBSET S : Admission!Total(R) \in Nat /\ Admission!Total(R) <= Admission!Total(S)
<1>1. Admission!Total(S) \in Nat
    BY TotalNat, Zenon
<1>2. ASSUME NEW u \in Writers \ S PROVE Admission!Total(S \cup {u}) = Admission!Total(S) + Bytes[u]
  <2>1. S \cap {u} = {} /\ {u} \subseteq Writers
      BY Zenon
  <2>2. Admission!Total(S \cup {u}) = Admission!Total(S) + Admission!Total({u})
      BY <2>1, TotalUnion, Zenon
  <2> QED
      BY <2>2, TotalOne, Zenon
<1>3. ASSUME NEW u \in S PROVE Admission!Total(S) = Admission!Total(S \ {u}) + Bytes[u]
  <2>1. S = (S \ {u}) \cup {u} /\ (S \ {u}) \cap {u} = {} /\ S \ {u} \subseteq Writers /\ {u} \subseteq Writers
      BY Zenon
  <2>2. Admission!Total((S \ {u}) \cup {u}) = Admission!Total(S \ {u}) + Admission!Total({u})
      BY <2>1, TotalUnion, Zenon
  <2> QED
      BY <2>1, <2>2, TotalOne, Zenon
<1>4. ASSUME NEW R \in SUBSET S PROVE Admission!Total(R) \in Nat /\ Admission!Total(R) <= Admission!Total(S)
  <2>1. S = R \cup (S \ R) /\ R \cap (S \ R) = {} /\ R \subseteq Writers /\ S \ R \subseteq Writers
      BY Zenon
  <2>2. Admission!Total(R \cup (S \ R)) = Admission!Total(R) + Admission!Total(S \ R)
      BY <2>1, TotalUnion, Zenon
  <2>3. Admission!Total(R) \in Nat /\ Admission!Total(S \ R) \in Nat
      BY <2>1, TotalNat, Zenon
  <2>4. Admission!Total(S) = Admission!Total(R) + Admission!Total(S \ R)
      BY <2>1, <2>2, Zenon
  <2> QED
      BY <2>3, <2>4
<1> QED
    BY <1>1, <1>2, <1>3, <1>4, Zenon

AdmissionSteps == {"idle", "queued", "locked", "read", "writing", "landed"}

AdmissionTypes ==
    /\ used \in Nat /\ in_flight \in Nat
    /\ decide \in SUBSET Writers /\ unguarded \in SUBSET Writers
    /\ upload_at \in [Writers -> AdmissionSteps]
    /\ seen \in [Writers -> Nat] /\ reserved \in [Writers -> Nat]

Landed == {u \in Writers : upload_at[u] = "landed"}
Writing == {u \in Writers : upload_at[u] = "writing"}
Admitted == (Writing \cup Landed) \ unguarded
Promised == {u \in Writers : reserved[u] > 0}

\* A guard holds all of an upload's bytes, from its admission until after it
\* has landed.
GuardInv ==
    \A u \in Writers :
        /\ reserved[u] \in {0, Bytes[u]}
        /\ upload_at[u] \in {"queued", "locked", "read"} => Bytes[u] > Bypass
        /\ u \in Writing \ unguarded => reserved[u] = Bytes[u] /\ Bytes[u] > Bypass
        /\ reserved[u] > 0 => u \in Admitted
        /\ u \in unguarded => u \in Writing \cup Landed

\* The counter is what the guards hold, and within the budget; the memory in
\* use is what has landed.
LedgerInv ==
    /\ in_flight = Admission!Total(Promised) /\ in_flight <= Budget
    /\ used = Admission!Total(Landed)

\* One upload decides at a time.
MutexInv ==
    \A u \in Writers : upload_at[u] \in {"locked", "read"} => decide = {u}

\* What is admitted exceeds what the deciding upload has read by what was
\* promised then at most; nothing is admitted meanwhile.
ReadInv ==
    \A u \in Writers : upload_at[u] = "read" => Admission!Total(Admitted) <= seen[u] + Budget

AdmissionInv ==
    /\ AdmissionTypes /\ GuardInv /\ LedgerInv /\ MutexInv /\ ReadInv
    /\ Admission!Total(Admitted) <= 2 * Budget

\* The invariant holds of an empty shard.
LEMMA AdmissionInit == Admission!Init => AdmissionInv
<1> SUFFICES ASSUME Admission!Init PROVE AdmissionInv
    BY Zenon
<1>1. Landed = {} /\ Writing = {} /\ Promised = {} /\ Admitted = {}
    BY DEF Admission!Init, Landed, Writing, Promised, Admitted
<1>2. Admission!Total({}) = 0
  <2>1. ByteSlots({}) = {}
      BY Zenon DEF ByteSlots
  <2>2. Admission!Total({}) = Cardinality(ByteSlots({}))
      BY TotalNat, Zenon
  <2> QED
      BY <2>1, <2>2, FS_EmptySet, Zenon
<1>3. AdmissionTypes /\ GuardInv /\ MutexInv /\ ReadInv
    BY <1>1 DEF Admission!Init, AdmissionTypes, AdmissionSteps, GuardInv, MutexInv, ReadInv
<1>4. LedgerInv /\ Admission!Total(Admitted) <= 2 * Budget
    BY <1>1, <1>2, AdmissionAssumption DEF Admission!Init, LedgerInv
<1> QED
    BY <1>3, <1>4, Zenon DEF AdmissionInv

\* Every admitted upload is promised or in use.
LEMMA AdmittedCounted ==
    AdmissionInv => Admission!Total(Admitted) \in Nat /\ Admission!Total(Admitted) <= used + in_flight
<1> SUFFICES ASSUME AdmissionInv
             PROVE  Admission!Total(Admitted) \in Nat /\ Admission!Total(Admitted) <= used + in_flight
    BY Zenon
<1> DEFINE W == Writing \ unguarded
           L == Landed \ unguarded
<1>1. W \subseteq Promised /\ Promised \subseteq Writers /\ L \subseteq Landed /\ Landed \subseteq Writers
    BY AdmissionAssumption DEF AdmissionInv, AdmissionTypes, GuardInv, Writing, Landed, Promised
<1>2. W \cap L = {} /\ Admitted = W \cup L
    BY Zenon DEF Writing, Landed, Admitted
<1>3. Admission!Total(W \cup L) = Admission!Total(W) + Admission!Total(L)
    BY <1>1, <1>2, TotalUnion, Zenon
<1>4. /\ Admission!Total(W) \in Nat /\ Admission!Total(W) <= in_flight
      /\ Admission!Total(L) \in Nat /\ Admission!Total(L) <= used
  <2>1. Admission!Total(W) \in Nat /\ Admission!Total(W) <= Admission!Total(Promised)
      BY <1>1, TotalGrows, Zenon
  <2>2. Admission!Total(L) \in Nat /\ Admission!Total(L) <= Admission!Total(Landed)
      BY <1>1, TotalGrows, Zenon
  <2> QED
      BY <2>1, <2>2, Zenon DEF AdmissionInv, LedgerInv
<1>5. Admission!Total(Admitted) = Admission!Total(W) + Admission!Total(L)
    BY <1>2, <1>3, Zenon
<1>6. used \in Nat /\ in_flight \in Nat
    BY Zenon DEF AdmissionInv, AdmissionTypes
<1> HIDE DEF W, L
<1> QED
    BY <1>4, <1>5, <1>6

\* A step that admits nothing keeps the bounds: only what is asked and what
\* has been read are left to show.
LEMMA AdmissionShrinks ==
    ASSUME AdmissionInv, Admitted' \subseteq Admitted,
           \A u \in Writers : upload_at'[u] = "read" => upload_at[u] = "read" /\ seen'[u] = seen[u]
    PROVE  ReadInv' /\ Admission!Total(Admitted') <= 2 * Budget
<1>1. Admitted \subseteq Writers
    BY Zenon DEF Admitted, Writing, Landed
<1>2. /\ Admission!Total(Admitted) \in Nat /\ Admission!Total(Admitted') \in Nat
      /\ Admission!Total(Admitted') <= Admission!Total(Admitted)
    BY <1>1, TotalGrows, Zenon
<1>3. Admission!Total(Admitted') <= 2 * Budget
    BY <1>2, AdmissionAssumption DEF AdmissionInv
<1>4. ASSUME NEW u \in Writers, upload_at'[u] = "read"
      PROVE  Admission!Total(Admitted') <= seen'[u] + Budget
  <2>1. Admission!Total(Admitted) <= seen[u] + Budget /\ seen[u] \in Nat /\ seen'[u] = seen[u]
      BY <1>4, Zenon DEF AdmissionInv, ReadInv, AdmissionTypes
  <2> QED
      BY <1>2, <2>1, AdmissionAssumption
<1> QED
    BY <1>3, <1>4, Zenon DEF ReadInv

\* Every step of an upload preserves the invariant.
LEMMA AdmissionStep == AdmissionInv /\ [Admission!Next]_admissionVars => AdmissionInv'
<1> SUFFICES ASSUME AdmissionInv, [Admission!Next]_admissionVars PROVE AdmissionInv'
    BY Zenon
<1>1. CASE UNCHANGED admissionVars
    BY <1>1, Zenon DEF admissionVars, AdmissionInv, AdmissionTypes, GuardInv, LedgerInv, MutexInv, ReadInv,
       Landed, Writing, Admitted, Promised
<1>2. CASE Admission!Next
  <2>1. PICK u \in Writers :
          \/ Admission!Begin(u) \/ Admission!Lock(u) \/ Admission!QueryMemory(u)
          \/ Admission!FailOpen(u) \/ Admission!Admit(u)
          \/ \E waits \in BOOLEAN : Admission!Refuse(u, waits)
          \/ Admission!Land(u) \/ Admission!UploadFails(u) \/ Admission!DropGuard(u) \/ Admission!Free(u)
      BY <1>2, Zenon DEF Admission!Next
  <2> USE DEF Admission!Move
  <2>2. /\ AdmissionTypes /\ GuardInv /\ LedgerInv /\ MutexInv /\ ReadInv
        /\ Bytes[u] \in Nat /\ Budget \in Nat /\ Bypass \in Nat /\ Bytes \in [Writers -> Nat]
      BY AdmissionAssumption, Zenon DEF AdmissionInv
  <2>3. /\ Landed \subseteq Writers /\ Promised \subseteq Writers /\ Admitted \subseteq Writers
        /\ Admission!Total(Landed) \in Nat /\ Admission!Total(Promised) \in Nat
        /\ Admission!Total(Admitted) \in Nat
    <3>1. Landed \subseteq Writers /\ Promised \subseteq Writers /\ Admitted \subseteq Writers
        BY Zenon DEF Landed, Promised, Admitted, Writing
    <3> QED
        BY <3>1, TotalNat, Zenon
  <2>4. CASE Admission!Begin(u)
    <3>1. Landed' = Landed /\ Promised' = Promised /\ Admitted' = Admitted
        BY <2>2, <2>4, Zenon DEF Admission!Begin, AdmissionTypes, Landed, Promised, Admitted, Writing
    <3>2. AdmissionTypes' /\ GuardInv' /\ MutexInv'
        BY <2>2, <2>4, <3>1 DEF Admission!Begin, AdmissionTypes, AdmissionSteps, GuardInv, MutexInv,
           Landed, Writing
    <3>3. LedgerInv'
        BY <2>2, <2>4, <3>1, Zenon DEF Admission!Begin, LedgerInv
    <3>4. \A v \in Writers : upload_at'[v] = "read" => upload_at[v] = "read" /\ seen'[v] = seen[v]
        BY <2>2, <2>4, Zenon DEF Admission!Begin, AdmissionTypes
    <3> QED
        BY <3>1, <3>2, <3>3, <3>4, AdmissionShrinks, Zenon DEF AdmissionInv
  <2>5. CASE Admission!Lock(u)
    <3>1. Landed' = Landed /\ Promised' = Promised /\ Admitted' = Admitted
        BY <2>2, <2>5, Zenon DEF Admission!Lock, AdmissionTypes, Landed, Promised, Admitted, Writing
    <3>2. AdmissionTypes' /\ GuardInv' /\ MutexInv'
        BY <2>2, <2>5, <3>1, Zenon DEF Admission!Lock, Admission!MutexFree, AdmissionTypes, AdmissionSteps,
           GuardInv, MutexInv, Landed, Writing
    <3>3. LedgerInv'
        BY <2>2, <2>5, <3>1, Zenon DEF Admission!Lock, LedgerInv
    <3>4. \A v \in Writers : upload_at'[v] = "read" => upload_at[v] = "read" /\ seen'[v] = seen[v]
        BY <2>2, <2>5, Zenon DEF Admission!Lock, AdmissionTypes
    <3> QED
        BY <3>1, <3>2, <3>3, <3>4, AdmissionShrinks, Zenon DEF AdmissionInv
  <2>6. CASE Admission!QueryMemory(u)
    <3>1. Landed' = Landed /\ Promised' = Promised /\ Admitted' = Admitted
        BY <2>2, <2>6, Zenon DEF Admission!QueryMemory, AdmissionTypes, Landed, Promised, Admitted, Writing
    <3>2. AdmissionTypes' /\ GuardInv' /\ MutexInv'
        BY <2>2, <2>6, <3>1, Zenon DEF Admission!QueryMemory, AdmissionTypes, AdmissionSteps, GuardInv,
           MutexInv, Landed, Writing
    <3>3. LedgerInv'
        BY <2>2, <2>6, <3>1, Zenon DEF Admission!QueryMemory, LedgerInv
    <3>4. ASSUME NEW v \in Writers, upload_at'[v] = "read" PROVE v = u
        BY <2>2, <2>6, <3>4, Zenon DEF Admission!QueryMemory, AdmissionTypes, MutexInv
    <3>5. Admission!Total(Admitted) <= used + Budget
        BY <2>2, <2>3, AdmittedCounted DEF LedgerInv, AdmissionTypes
    <3>6. ReadInv'
        BY <2>2, <2>6, <3>1, <3>4, <3>5, Zenon DEF Admission!QueryMemory, AdmissionTypes, ReadInv
    <3> QED
        BY <3>1, <3>2, <3>3, <3>6, Zenon DEF AdmissionInv
  <2>7. CASE Admission!FailOpen(u)
    <3>1. Landed' = Landed /\ Promised' = Promised /\ Admitted' = Admitted
        BY <2>2, <2>7, Zenon DEF Admission!FailOpen, AdmissionTypes, Landed, Promised, Admitted, Writing
    <3>2. AdmissionTypes' /\ GuardInv' /\ MutexInv'
        BY <2>2, <2>7, <3>1, Zenon DEF Admission!FailOpen, AdmissionTypes, AdmissionSteps, GuardInv, MutexInv,
           Landed, Writing
    <3>3. LedgerInv'
        BY <2>2, <2>7, <3>1, Zenon DEF Admission!FailOpen, LedgerInv
    <3>4. \A v \in Writers : upload_at'[v] = "read" => upload_at[v] = "read" /\ seen'[v] = seen[v]
        BY <2>2, <2>7, Zenon DEF Admission!FailOpen, AdmissionTypes
    <3> QED
        BY <3>1, <3>2, <3>3, <3>4, AdmissionShrinks, Zenon DEF AdmissionInv

  <2>8. CASE Admission!Admit(u)
    <3>1. upload_at[u] = "read" /\ u \notin Admitted /\ u \notin Promised /\ Bytes[u] > 0 /\ u \notin unguarded
        BY <2>2, <2>8 DEF Admission!Admit, AdmissionTypes, GuardInv, Admitted, Promised, Writing, Landed
    <3>2. Landed' = Landed /\ Promised' = Promised \cup {u} /\ Admitted' = Admitted \cup {u}
        BY <2>2, <2>8, <3>1, Zenon DEF Admission!Admit, AdmissionTypes, Landed, Promised, Admitted, Writing
    <3>3. AdmissionTypes' /\ MutexInv'
        BY <2>2, <2>8 DEF Admission!Admit, AdmissionTypes, AdmissionSteps, MutexInv
    <3>4. GuardInv'
        BY <2>2, <2>8, <3>1, <3>2, Zenon DEF Admission!Admit, AdmissionTypes, GuardInv, Landed, Writing
    <3>5. /\ Admission!Total(Promised') = Admission!Total(Promised) + Bytes[u]
          /\ Admission!Total(Admitted') = Admission!Total(Admitted) + Bytes[u]
        BY <2>3, <3>1, <3>2, TotalGrows, Zenon
    <3>6. seen[u] + in_flight + Bytes[u] <= Budget /\ seen[u] \in Nat /\ in_flight \in Nat
        BY <2>2, <2>8, Zenon DEF Admission!Admit, Admission!Fits, AdmissionTypes
    <3>7. in_flight' = in_flight + Bytes[u] /\ used' = used
        BY <2>8, Zenon DEF Admission!Admit
    <3>8. LedgerInv'
        BY <2>2, <3>2, <3>5, <3>6, <3>7 DEF LedgerInv
    <3>9. Admission!Total(Admitted) <= seen[u] + Budget
        BY <2>2, <3>1, Zenon DEF ReadInv
    <3>10. Admission!Total(Admitted') <= 2 * Budget
        BY <2>2, <2>3, <3>5, <3>6, <3>9
    <3>11. \A v \in Writers : upload_at'[v] # "read"
        BY <2>2, <2>8, <3>1, Zenon DEF Admission!Admit, AdmissionTypes, MutexInv
    <3> QED
        BY <3>3, <3>4, <3>8, <3>10, <3>11, Zenon DEF AdmissionInv, ReadInv
  <2>9. CASE \E waits \in BOOLEAN : Admission!Refuse(u, waits)
    <3>1. /\ upload_at[u] = "read" /\ UNCHANGED <<used, in_flight, reserved, unguarded>>
          /\ seen' = [seen EXCEPT ![u] = 0] /\ decide' = decide \ {u}
          /\ \E to \in {"queued", "idle"} : upload_at' = [upload_at EXCEPT ![u] = to]
        BY <2>9, Zenon DEF Admission!Refuse
    <3>2. Landed' = Landed /\ Promised' = Promised /\ Admitted' = Admitted
        BY <2>2, <3>1, Zenon DEF AdmissionTypes, Landed, Promised, Admitted, Writing
    <3>3. AdmissionTypes' /\ GuardInv' /\ MutexInv'
        BY <2>2, <3>1, <3>2 DEF AdmissionTypes, AdmissionSteps, GuardInv, MutexInv, Landed, Writing
    <3>4. LedgerInv'
        BY <2>2, <3>1, <3>2, Zenon DEF LedgerInv
    <3>5. \A v \in Writers : upload_at'[v] = "read" => upload_at[v] = "read" /\ seen'[v] = seen[v]
        BY <2>2, <3>1, Zenon DEF AdmissionTypes
    <3> QED
        BY <3>2, <3>3, <3>4, <3>5, AdmissionShrinks, Zenon DEF AdmissionInv
  <2>10. CASE Admission!Land(u)
    <3>1. u \notin Landed /\ Landed' = Landed \cup {u} /\ Promised' = Promised /\ Admitted' = Admitted
        BY <2>2, <2>10, Zenon DEF Admission!Land, AdmissionTypes, Landed, Promised, Admitted, Writing
    <3>2. AdmissionTypes' /\ GuardInv' /\ MutexInv'
        BY <2>2, <2>10, <3>1 DEF Admission!Land, AdmissionTypes, AdmissionSteps, GuardInv, MutexInv,
           Landed, Writing
    <3>3. Admission!Total(Landed') = Admission!Total(Landed) + Bytes[u]
        BY <2>3, <3>1, TotalGrows, Zenon
    <3>4. LedgerInv'
        BY <2>2, <2>10, <3>1, <3>3, Zenon DEF Admission!Land, LedgerInv
    <3>5. \A v \in Writers : upload_at'[v] = "read" => upload_at[v] = "read" /\ seen'[v] = seen[v]
        BY <2>2, <2>10, Zenon DEF Admission!Land, AdmissionTypes
    <3> QED
        BY <3>1, <3>2, <3>4, <3>5, AdmissionShrinks, Zenon DEF AdmissionInv
  <2>11. CASE Admission!UploadFails(u) \/ Admission!DropGuard(u)
    <3>1. /\ in_flight' = in_flight - reserved[u] /\ reserved' = [reserved EXCEPT ![u] = 0]
          /\ UNCHANGED <<used, decide, seen>>
          /\ \/ upload_at[u] = "writing" /\ upload_at' = [upload_at EXCEPT ![u] = "idle"]
                /\ unguarded' = unguarded \ {u}
             \/ upload_at[u] = "landed" /\ UNCHANGED <<upload_at, unguarded>>
        BY <2>11, Zenon DEF Admission!UploadFails, Admission!DropGuard, Admission!ReleaseAtEnd
    <3>2. Landed' = Landed /\ Promised' = Promised \ {u} /\ Admitted' \subseteq Admitted
        BY <2>2, <3>1 DEF AdmissionTypes, Landed, Promised, Admitted, Writing
    <3>3. /\ reserved[u] = 0 => Promised' = Promised
          /\ reserved[u] > 0 => reserved[u] = Bytes[u] /\ u \in Promised
        BY <2>2, <3>2 DEF Promised, GuardInv
    <3>4. Admission!Total(Promised') \in Nat /\ Admission!Total(Promised) = Admission!Total(Promised') + reserved[u]
      <4>1. CASE reserved[u] = 0
          BY <2>3, <3>3, <4>1
      <4>2. CASE reserved[u] > 0
        <5>1. Admission!Total(Promised) = Admission!Total(Promised \ {u}) + Bytes[u]
            BY <2>3, <3>3, <4>2, TotalGrows, Zenon
        <5>2. Admission!Total(Promised \ {u}) \in Nat
            BY <2>3, TotalGrows, Zenon
        <5> QED
            BY <3>2, <3>3, <4>2, <5>1, <5>2, Zenon
      <4> QED
          BY <2>2, <4>1, <4>2 DEF AdmissionTypes
    <3>5. in_flight' = Admission!Total(Promised') /\ in_flight' <= in_flight
        BY <2>2, <3>1, <3>4 DEF LedgerInv, AdmissionTypes
    <3>6. LedgerInv'
        BY <2>2, <3>1, <3>2, <3>4, <3>5 DEF LedgerInv, AdmissionTypes
    <3>7. AdmissionTypes' /\ MutexInv'
        BY <2>2, <3>1, <3>4, <3>5, ZenonT(30) DEF AdmissionTypes, AdmissionSteps, MutexInv
    <3>8. GuardInv'
        BY <2>2, <3>1 DEF AdmissionTypes, GuardInv, Landed, Writing, Admitted
    <3>9. \A v \in Writers : upload_at'[v] = "read" => upload_at[v] = "read" /\ seen'[v] = seen[v]
        BY <2>2, <3>1, Zenon DEF AdmissionTypes
    <3> QED
        BY <3>2, <3>6, <3>7, <3>8, <3>9, AdmissionShrinks, Zenon DEF AdmissionInv
  <2>12. CASE Admission!Free(u)
    <3>1. u \in Landed /\ Landed' = Landed \ {u} /\ Promised' = Promised /\ Admitted' \subseteq Admitted
        BY <2>2, <2>12, Zenon DEF Admission!Free, AdmissionTypes, Landed, Promised, Admitted, Writing
    <3>2. Admission!Total(Landed) = Admission!Total(Landed') + Bytes[u] /\ Admission!Total(Landed') \in Nat
        BY <2>3, <3>1, TotalGrows, Zenon
    <3>3. used' = Admission!Total(Landed') /\ used' \in Nat
        BY <2>2, <2>12, <3>2 DEF Admission!Free, LedgerInv
    <3>4. LedgerInv'
        BY <2>2, <2>12, <3>1, <3>3, Zenon DEF Admission!Free, LedgerInv
    <3>5. AdmissionTypes' /\ GuardInv' /\ MutexInv'
        BY <2>2, <2>12, <3>3 DEF Admission!Free, AdmissionTypes, AdmissionSteps, GuardInv, MutexInv,
           Landed, Writing, Admitted
    <3>6. \A v \in Writers : upload_at'[v] = "read" => upload_at[v] = "read" /\ seen'[v] = seen[v]
        BY <2>2, <2>12, Zenon DEF Admission!Free, AdmissionTypes
    <3> QED
        BY <3>1, <3>4, <3>5, <3>6, AdmissionShrinks, Zenon DEF AdmissionInv
  <2> QED
      BY <2>1, <2>4, <2>5, <2>6, <2>7, <2>8, <2>9, <2>10, <2>11, <2>12, Zenon
<1> QED
    BY <1>1, <1>2, Zenon

\* check_admission and AdmissionGuard: for any sizes, budget and bypass, the
\* shard overshoots by one budget at most, and an admitted upload is counted
\* until its artifact is gone.
THEOREM AdmissionHolds == Admission!Spec => []AdmissionBounded
<1>1. AdmissionInv => AdmissionBounded
  <2> SUFFICES ASSUME AdmissionInv PROVE AdmissionBounded
      BY Zenon
  <2> DEFINE W == {u \in Writers : upload_at[u] = "writing"} \ unguarded
             L == Landed \ unguarded
             U == Landed \cap unguarded
  <2>1. /\ W \subseteq Writers /\ L \subseteq Writers /\ U \subseteq unguarded /\ unguarded \subseteq Writers
        /\ W \cap L = {} /\ U \cap L = {} /\ Admitted = W \cup L /\ Landed = U \cup L
      BY Zenon DEF AdmissionInv, AdmissionTypes, Admitted, Writing, Landed
  <2>2. /\ Admission!Total(W \cup L) = Admission!Total(W) + Admission!Total(L)
        /\ Admission!Total(U \cup L) = Admission!Total(U) + Admission!Total(L)
      BY <2>1, TotalUnion, Zenon
  <2>3. /\ Admission!Total(W) \in Nat /\ Admission!Total(L) \in Nat /\ Admission!Total(U) \in Nat
        /\ Admission!Total(unguarded) \in Nat /\ Admission!Total(U) <= Admission!Total(unguarded)
      BY <2>1, TotalNat, TotalGrows, Zenon
  <2>4. /\ used = Admission!Total(U) + Admission!Total(L)
        /\ Admission!Total(W) + Admission!Total(L) <= 2 * Budget
      BY <2>1, <2>2, Zenon DEF AdmissionInv, LedgerInv
  <2>5. used + Admission!Total(W) <= 2 * Budget + Admission!Total(unguarded)
    <3> HIDE DEF W, L, U
    <3> QED
        BY <2>3, <2>4, AdmissionAssumption
  <2>6. {u \in Writers : upload_at[u] \in {"writing", "landed"}} \ unguarded = Admitted
      BY Zenon DEF Admitted, Writing, Landed
  <2>7. used + in_flight >= Admission!Total(Admitted)
      BY AdmittedCounted, Zenon DEF AdmissionInv, AdmissionTypes
  <2>8. Admission!OvershootBounded
      BY <2>5, Zenon DEF Admission!OvershootBounded
  <2>9. Admission!AdmittedIsCounted
      BY <2>6, <2>7, Zenon DEF Admission!AdmittedIsCounted
  <2> QED
      BY <2>8, <2>9, Zenon DEF AdmissionBounded
<1> QED
    BY AdmissionInit, AdmissionStep, <1>1, PTL DEF Admission!Spec, Admission!vars, admissionVars

-----------------------------------------------------------------------------
(* The artifact.                                                           *)

\* The string and the hash: a hash that declares a count is a whole upload,
\* kept as long as its kind says, and alone.
HashOK(i, h) ==
    /\ i \in Uploads \cup {None}
    /\ \/ h \in {Redis!EmptyHash, Redis!Unfinished}
       \/ /\ i = None
          /\ \E u \in Uploads : /\ Chunks[u] > 1
                                /\ h = [n |-> Chunks[u], chunk |-> Redis!Whole(u), ttl |-> Redis!Retention]

StoreTypes ==
    /\ kind \in {"Program", "other"} /\ HashOK(inline, hash)
    /\ phase \in [Uploads -> {"idle", "staging", "sent", "ok"}]
    /\ attempt \in [Uploads -> Nat] /\ wire \in SUBSET (Uploads \X Nat)

Looking == {"length", "inline", "recheck"}
Running == Looking \cup {"chunks", "asking"}

ReaderSet ==
    [at : Running \cup {"done", "not found", "failed", "yes", "no"}, n : Nat,
     got : UNION {[D -> Uploads \cup {Redis!Debris}] : D \in SUBSET Nat}, short : BOOLEAN,
     left : SUBSET {"inline", "hash"}, seen : BOOLEAN, absent : BOOLEAN, present : BOOLEAN,
     replaced : BOOLEAN, flips : 0 .. 2]

\* A reader's history tells what the store has been while it ran.
HistoryOK(q, i, h) ==
    q.at \in Running => IF Redis!Present(i, h) THEN q.present ELSE q.absent

\* A reader that has found no count so far, of an artifact that was never
\* absent: the changes of form it has noted tell what there is now.
LookingOK(q, i, h) ==
    q.at \in Looking =>
        /\ q.got = << >> /\ ~q.short
        /\ q.absent \/ /\ q.flips = 0 => h.n = 0
                       /\ q.flips = 1 => h.n > 0
                       /\ q.at = "recheck" => q.flips > 0

\* The chunks read so far are those of the hash that is there.
ChunksOK(q, h) ==
    q.at = "chunks" /\ ~q.short /\ ~q.replaced =>
        /\ h.n > 0 /\ q.n = h.n
        /\ \A j \in DOMAIN q.got : j \in DOMAIN h.chunk /\ q.got[j] = h.chunk[j]

\* A question that was answered with no would be now, unless the artifact was
\* absent or changed its form.
AskingOK(q, i, h) ==
    q.at = "asking" =>
        /\ q.seen => q.present
        /\ q.seen \/ q.absent \/ q.flips > 0 \/ /\ "inline" \notin q.left => i = None
                                                /\ "hash" \notin q.left => h.n = 0

\* What a reader has returned is true.
EndOK(q) ==
    /\ q.at = "done" /\ ~q.short /\ ~q.replaced =>
          \E u \in Uploads : q.n = Chunks[u] /\ q.got = Redis!Whole(u)
    /\ q.at = "not found" => q.absent \/ q.flips = 2
    /\ q.at = "no" => q.absent \/ q.flips > 0
    /\ q.at = "yes" => q.present

ReaderOK(q, i, h) ==
    \/ q = Redis!Idle
    \/ /\ q \in ReaderSet /\ HistoryOK(q, i, h) /\ LookingOK(q, i, h)
       /\ ChunksOK(q, h) /\ AskingOK(q, i, h) /\ EndOK(q)

StoreInv ==
    /\ StoreTypes
    /\ DOMAIN readers = Readers /\ \A r \in Readers : ReaderOK(readers[r], inline, hash)

\* What the store can be, in the terms of its readers.
LEMMA HashParts ==
    ASSUME NEW i, NEW h, HashOK(i, h)
    PROVE  /\ h.n \in Nat
           /\ h.n > 0 => /\ i = None
                         /\ \E u \in Uploads : h = [n |-> Chunks[u], chunk |-> Redis!Whole(u), ttl |-> Redis!Retention]
           /\ h.n = 0 => h \in {Redis!EmptyHash, Redis!Unfinished}
           /\ DOMAIN h.chunk \subseteq Nat
           /\ \A j \in DOMAIN h.chunk : h.chunk[j] \in Uploads \cup {Redis!Debris}
<1>1. CASE h = Redis!EmptyHash
    BY <1>1 DEF Redis!EmptyHash
<1>2. CASE h = Redis!Unfinished
    BY <1>2 DEF Redis!Unfinished
<1>3. ASSUME NEW u \in Uploads, Chunks[u] > 1, i = None,
             h = [n |-> Chunks[u], chunk |-> Redis!Whole(u), ttl |-> Redis!Retention]
      PROVE  /\ h.n \in Nat /\ h.n > 0 /\ DOMAIN h.chunk \subseteq Nat
             /\ \A j \in DOMAIN h.chunk : h.chunk[j] \in Uploads \cup {Redis!Debris}
    BY <1>3, StoreAssumption, SMTT(30) DEF Redis!Whole, Redis!Indices
<1> QED
    BY <1>1, <1>2, <1>3 DEF HashOK

\* A change of the store, noted by every running reader, leaves every reader
\* consistent with it.
LEMMA StoreReaders ==
    ASSUME StoreInv, NEW i, NEW h, HashOK(i, h), Redis!Store(i, h)
    PROVE  DOMAIN readers' = Readers /\ \A r \in Readers : ReaderOK(readers'[r], inline', hash')
<1>1. inline' = i /\ hash' = h /\ DOMAIN readers' = Readers
    BY Zenon DEF Redis!Store
<1>2. /\ hash.n \in Nat /\ h.n \in Nat
      /\ hash.n > 0 => inline = None
      /\ h.n > 0 => i = None
    BY HashParts, Zenon DEF StoreInv, StoreTypes
<1>3. SUFFICES ASSUME NEW r \in Readers PROVE ReaderOK(readers'[r], i, h)
    BY <1>1, Zenon
<1> DEFINE q == readers[r]
<1>4. ReaderOK(q, inline, hash)
    BY Zenon DEF StoreInv
<1>5. CASE q = Redis!Idle
  <2>1. q.at = "idle"
      BY <1>5, SMTT(30) DEF Redis!Idle
  <2>2. readers'[r] = q
      BY <2>1, ZenonT(30) DEF Redis!Store
  <2> QED
      BY <1>5, <2>2, Zenon DEF ReaderOK
<1>6. CASE q \in ReaderSet /\ q.at \notin Running
  <2>1. q.at \in {"done", "not found", "failed", "yes", "no"}
      BY <1>6, ZenonT(30) DEF ReaderSet
  <2>2. readers'[r] = q
      BY <2>1, Zenon DEF Redis!Store
  <2>3. q # Redis!Idle
    <3>1. Redis!Idle.at = "idle"
        BY Zenon DEF Redis!Idle
    <3> QED
        BY <2>1, <3>1, Zenon
  <2>4. EndOK(q)
      BY <1>4, <2>3, Zenon DEF ReaderOK
  <2> QED
      BY <1>6, <2>1, <2>2, <2>4, ZenonT(30) DEF ReaderOK, HistoryOK, LookingOK, ChunksOK, AskingOK, Running, Looking
<1>7. CASE q \in ReaderSet /\ q.at \in Running
  <2> DEFINE flipped == Redis!Present(inline, hash) /\ Redis!Present(i, h) /\ (hash.n > 0) # (h.n > 0)
             new == [q EXCEPT !.absent = @ \/ ~Redis!Present(i, h),
                              !.present = @ \/ Redis!Present(i, h),
                              !.replaced = @ \/ (hash.n > 0 /\ h # hash),
                              !.flips = IF flipped /\ @ < 2 THEN @ + 1 ELSE @]
  <2>1. q.at \notin {"idle", "done", "not found", "failed", "yes", "no"}
      BY <1>7, ZenonT(30) DEF Running, Looking
  <2>2. readers'[r] = new
      BY <2>1, ZenonT(30) DEF Redis!Store
  <2>3. /\ HistoryOK(q, inline, hash) /\ LookingOK(q, inline, hash)
        /\ ChunksOK(q, hash) /\ AskingOK(q, inline, hash) /\ q.at # "idle"
      BY <1>4, <1>7 DEF ReaderOK, Redis!Idle, Running, Looking
  <2>4. /\ new.at = q.at /\ new.n = q.n /\ new.got = q.got /\ new.short = q.short
        /\ new.left = q.left /\ new.seen = q.seen
        /\ new.absent = (q.absent \/ ~Redis!Present(i, h))
        /\ new.present = (q.present \/ Redis!Present(i, h))
        /\ new.replaced = (q.replaced \/ (hash.n > 0 /\ h # hash))
        /\ new.flips = IF flipped /\ q.flips < 2 THEN q.flips + 1 ELSE q.flips
      BY <1>7, Zenon DEF ReaderSet
  <2>5. new \in ReaderSet
    <3>1. PICK ab \in BOOLEAN, pr \in BOOLEAN, rp \in BOOLEAN, fl \in 0 .. 2 :
            new = [q EXCEPT !.absent = ab, !.present = pr, !.replaced = rp, !.flips = fl]
      <4>1. /\ (q.absent \/ ~Redis!Present(i, h)) \in BOOLEAN
            /\ (q.present \/ Redis!Present(i, h)) \in BOOLEAN
            /\ (q.replaced \/ (hash.n > 0 /\ h # hash)) \in BOOLEAN
          BY Zenon
      <4>2. (IF flipped /\ q.flips < 2 THEN q.flips + 1 ELSE q.flips) \in 0 .. 2
        <5>1. q.flips \in 0 .. 2
            BY <1>7, ZenonT(30) DEF ReaderSet
        <5> HIDE DEF q, flipped
        <5> QED
            BY <5>1
      <4> QED
          BY <4>1, <4>2, ZenonT(30)
    <3> HIDE DEF new
    <3> QED
        BY <1>7, <3>1, ZenonT(30) DEF ReaderSet
  <2> HIDE DEF new, q
  <2>6. HistoryOK(new, i, h)
      BY <2>4, Zenon DEF HistoryOK
  <2>7. LookingOK(new, i, h)
    <3> SUFFICES ASSUME q.at \in Looking, ~q.absent, Redis!Present(i, h)
                 PROVE  /\ new.flips = 0 => h.n = 0
                        /\ new.flips = 1 => h.n > 0
                        /\ q.at = "recheck" => new.flips > 0
        BY <2>3, <2>4, Zenon DEF LookingOK
    <3>1. /\ q.flips = 0 => hash.n = 0
          /\ q.flips = 1 => hash.n > 0
          /\ q.at = "recheck" => q.flips > 0
          /\ Redis!Present(inline, hash) /\ q.flips \in 0 .. 2
        BY <1>7, <2>3, Zenon DEF LookingOK, HistoryOK, Running, ReaderSet
    <3> QED
        BY <1>2, <2>4, <3>1
  <2>8. ChunksOK(new, h)
      BY <1>2, <1>7, <2>3, <2>4, ZenonT(30) DEF ChunksOK
  <2>9. AskingOK(new, i, h)
    <3> SUFFICES ASSUME q.at = "asking"
                 PROVE  /\ q.seen => new.present
                        /\ ~q.seen /\ ~new.absent /\ ~(new.flips > 0)
                             => ("inline" \notin q.left => i = None) /\ ("hash" \notin q.left => h.n = 0)
        BY <2>4, Zenon DEF AskingOK
    <3>1. q.seen => new.present
        BY <2>3, <2>4, Zenon DEF AskingOK
    <3>2. ASSUME ~q.seen, ~new.absent, new.flips = 0
          PROVE  ("inline" \notin q.left => i = None) /\ ("hash" \notin q.left => h.n = 0)
      <4>1. ~q.absent /\ Redis!Present(i, h)
          BY <2>4, <3>2, ZenonT(30)
      <4>2. Redis!Present(inline, hash) /\ q.flips \in 0 .. 2
          BY <1>7, <2>3, <4>1, ZenonT(30) DEF HistoryOK, ReaderSet
      <4>3. q.flips = 0 /\ ((hash.n > 0) <=> (h.n > 0))
          BY <2>4, <3>2, <4>1, <4>2
      <4>4. ("inline" \notin q.left => inline = None) /\ ("hash" \notin q.left => hash.n = 0)
          BY <2>3, <3>2, <4>1, <4>3 DEF AskingOK
      <4> QED
          BY <1>2, <4>2, <4>3, <4>4 DEF Redis!Present
    <3>3. new.flips \in 0 .. 2
        BY <2>5, ZenonT(30) DEF ReaderSet
    <3> QED
        BY <3>1, <3>2, <3>3
  <2>10. EndOK(new)
      BY <1>7, <2>4, Zenon DEF EndOK, Running, Looking
  <2> QED
      BY <2>2, <2>5, <2>6, <2>7, <2>8, <2>9, <2>10, ZenonT(30) DEF ReaderOK
<1> QED
    BY <1>4, <1>5, <1>6, <1>7, Zenon DEF ReaderOK

\* A reader that starts is consistent with the store.
LEMMA FreshReader ==
    ASSUME HashOK(inline, hash), NEW a \in {"chunks", "length", "asking"}, NEW m \in Nat,
           a = "chunks" => hash.n > 0 /\ m = hash.n, a = "length" => hash.n = 0,
           NEW new, new = Redis!Reader(a, m, << >>)
    PROVE  /\ a # "asking" => ReaderOK(new, inline, hash)
           /\ a = "asking" => ReaderOK([new EXCEPT !.left = {"inline", "hash"}], inline, hash)
<1> DEFINE P == Redis!Present(inline, hash)
<1>1. PICK no \in BOOLEAN, x \in BOOLEAN, y \in BOOLEAN : no = FALSE /\ x = ~P /\ y = P
  <2>1. FALSE \in BOOLEAN /\ (~P) \in BOOLEAN /\ P \in BOOLEAN
      BY Zenon DEF Redis!Present
  <2> QED
      BY <2>1, Zenon
<1> HIDE DEF P
<1>2. ASSUME NEW q \in ReaderSet, q.at = a, q.n = m, q.got = << >>, q.short = no, q.seen = no,
             q.absent = x, q.present = y, q.replaced = no, q.flips = 0,
             a = "asking" => q.left = {"inline", "hash"}
      PROVE  ReaderOK(q, inline, hash)
  <2>1. HistoryOK(q, inline, hash)
      BY <1>1, <1>2, Zenon DEF HistoryOK, P
  <2>2. LookingOK(q, inline, hash)
      BY <1>1, <1>2 DEF LookingOK, Looking
  <2>3. ChunksOK(q, hash)
      BY <1>2 DEF ChunksOK
  <2>4. AskingOK(q, inline, hash) /\ EndOK(q)
      BY <1>1, <1>2, Zenon DEF AskingOK, EndOK
  <2> QED
      BY <2>1, <2>2, <2>3, <2>4, ZenonT(30) DEF ReaderOK
<1>3. new = [at |-> a, n |-> m, got |-> << >>, short |-> no, left |-> {}, seen |-> no,
             absent |-> x, present |-> y, replaced |-> no, flips |-> 0]
    BY <1>1, Zenon DEF Redis!Reader, P
<1>4. new \in ReaderSet
  <2>1. << >> \in [{} -> Uploads \cup {Redis!Debris}]
      OBVIOUS
  <2>2. << >> \in UNION {[D -> Uploads \cup {Redis!Debris}] : D \in SUBSET Nat}
      BY <2>1, Zenon
  <2>3. a \in Running \cup {"done", "not found", "failed", "yes", "no"}
      BY Zenon DEF Running, Looking
  <2>4. 0 \in 0 .. 2
      OBVIOUS
  <2>5. [at |-> a, n |-> m, got |-> << >>, short |-> no, left |-> {}, seen |-> no,
         absent |-> x, present |-> y, replaced |-> no, flips |-> 0] \in ReaderSet
      BY <2>2, <2>3, <2>4, ZenonT(30) DEF ReaderSet
  <2> QED
      BY <1>3, <2>5, Zenon
<1>5. /\ new.at = a /\ new.n = m /\ new.got = << >> /\ new.short = no /\ new.seen = no
      /\ new.absent = x /\ new.present = y /\ new.replaced = no /\ new.flips = 0
    BY <1>3
<1>6. a # "asking" => ReaderOK(new, inline, hash)
    BY <1>2, <1>4, <1>5, ZenonT(30)
<1>7. a = "asking" => ReaderOK([new EXCEPT !.left = {"inline", "hash"}], inline, hash)
  <2> DEFINE q == [new EXCEPT !.left = {"inline", "hash"}]
  <2>1. q \in ReaderSet
      BY <1>4, Zenon DEF ReaderSet
  <2>2. /\ q.at = a /\ q.n = m /\ q.got = << >> /\ q.short = no /\ q.seen = no /\ q.absent = x
        /\ q.present = y /\ q.replaced = no /\ q.flips = 0 /\ q.left = {"inline", "hash"}
      BY <1>4, <1>5, ZenonT(30) DEF ReaderSet
  <2> HIDE DEF q
  <2>3. ReaderOK(q, inline, hash)
      BY <1>2, <2>1, <2>2, ZenonT(30)
  <2> QED
      BY <2>3, Zenon DEF q
<1> QED
    BY <1>6, <1>7, Zenon

\* Every command of a reader leaves it consistent with the store, and the store
\* as it is.
LEMMA ReadStep ==
    ASSUME StoreInv, NEW r \in Readers, Redis!Read(r)
    PROVE  /\ \E new : ReaderOK(new, inline, hash) /\ readers' = [readers EXCEPT ![r] = new]
           /\ UNCHANGED <<kind, inline, hash, phase, attempt, wire>>
<1> DEFINE q == readers[r]
           Good(new) == Redis!Becomes(r, new) /\ ReaderOK(new, inline, hash)
<1>1. SUFFICES \E new : Good(new)
    BY Zenon DEF Redis!Becomes
<1>2. /\ HashOK(inline, hash) /\ ReaderOK(q, inline, hash) /\ hash.n \in Nat
      /\ hash.n > 0 => inline = None
      /\ inline \in Uploads \cup {None} /\ DOMAIN hash.chunk \subseteq Nat
      /\ \A j \in DOMAIN hash.chunk : hash.chunk[j] \in Uploads \cup {Redis!Debris}
    BY HashParts, Zenon DEF StoreInv, StoreTypes, HashOK
<1>3. ASSUME q.at \in Running
      PROVE  /\ q \in ReaderSet /\ HistoryOK(q, inline, hash) /\ LookingOK(q, inline, hash)
             /\ ChunksOK(q, hash) /\ AskingOK(q, inline, hash) /\ EndOK(q)
  <2>1. Redis!Idle.at = "idle"
      BY Zenon DEF Redis!Idle
  <2> QED
      BY <1>2, <1>3, <2>1, ZenonT(30) DEF ReaderOK, Running, Looking
<1>4. CASE Redis!ReadCount(r)
  <2>1. PICK a \in {"chunks", "length", "asking"} :
          a # "asking" /\ (a = "chunks" => hash.n > 0) /\ (a = "length" => hash.n = 0)
          /\ Redis!Becomes(r, Redis!Reader(a, hash.n, << >>))
    <3>1. Redis!Becomes(r, Redis!Reader(IF hash.n > 0 THEN "chunks" ELSE "length", hash.n, << >>))
        BY <1>4, Zenon DEF Redis!ReadCount
    <3>2. hash.n > 0 \/ hash.n = 0
        BY <1>2
    <3> QED
        BY <3>1, <3>2, ZenonT(30)
  <2> QED
      BY <1>2, <2>1, FreshReader, ZenonT(30)
<1>5. CASE Redis!Ask(r)
  <2>1. Redis!Becomes(r, [Redis!Reader("asking", 0, << >>) EXCEPT !.left = {"inline", "hash"}])
      BY <1>5, Zenon DEF Redis!Ask
  <2> QED
      BY <1>2, <2>1, FreshReader, ZenonT(30)
<1>6. CASE Redis!ReadLength(r)
  <2>1. PICK k \in Nat, a \in {"inline", "chunks"}, sh \in BOOLEAN :
          /\ Redis!Becomes(r, [q EXCEPT !.at = a, !.n = k, !.short = sh])
          /\ (a = "inline" => sh = FALSE) /\ (a = "chunks" => sh = TRUE)
    <3> DEFINE fields == DOMAIN hash.chunk \cup (IF hash.n > 0 THEN {"count"} ELSE {})
               k == IF hash.n > 0 THEN hash.n + 1 ELSE IF fields = {} THEN 0 ELSE 1
    <3>1. k \in Nat
        BY <1>2
    <3>2. Redis!Becomes(r, [q EXCEPT !.at = IF k = 0 THEN "inline" ELSE "chunks", !.n = k, !.short = k > 0])
        BY <1>6, Zenon DEF Redis!ReadLength
    <3> HIDE DEF k
    <3>3. CASE k = 0
      <4>1. (k > 0) = FALSE /\ (IF k = 0 THEN "inline" ELSE "chunks") = "inline"
          BY <3>3
      <4> QED
          BY <3>1, <3>2, <4>1, Zenon
    <3>4. CASE k # 0
      <4>1. (k > 0) = TRUE /\ (IF k = 0 THEN "inline" ELSE "chunks") = "chunks"
          BY <3>1, <3>4
      <4> QED
          BY <3>1, <3>2, <4>1, Zenon
    <3> QED
        BY <3>3, <3>4, ZenonT(30)
  <2> DEFINE new == [q EXCEPT !.at = a, !.n = k, !.short = sh]
  <2>2. q.at = "length"
      BY <1>6, Zenon DEF Redis!ReadLength
  <2>3. q \in ReaderSet /\ HistoryOK(q, inline, hash) /\ LookingOK(q, inline, hash)
      BY <1>3, <2>2, ZenonT(30) DEF Running, Looking
  <2> HIDE DEF q
  <2>5. new \in ReaderSet
      BY <2>3, Zenon DEF ReaderSet, Running, Looking
  <2>6. /\ new.at = a /\ new.got = q.got /\ new.absent = q.absent /\ new.present = q.present
        /\ new.flips = q.flips /\ new.short = sh
      BY <2>3, Zenon DEF ReaderSet
  <2> HIDE DEF new
  <2>7. HistoryOK(new, inline, hash)
      BY <2>1, <2>2, <2>3, <2>6, ZenonT(30) DEF HistoryOK, Running, Looking
  <2>8. LookingOK(new, inline, hash)
      BY <2>1, <2>2, <2>3, <2>6, ZenonT(30) DEF LookingOK, Looking
  <2>9. ChunksOK(new, hash) /\ AskingOK(new, inline, hash) /\ EndOK(new)
      BY <2>1, <2>6, ZenonT(30) DEF ChunksOK, AskingOK, EndOK
  <2> QED
      BY <2>1, <2>5, <2>7, <2>8, <2>9, ZenonT(30) DEF ReaderOK, new
<1>7. CASE Redis!ReadInline(r) /\ inline = None
  <2> DEFINE new == [q EXCEPT !.at = "recheck"]
  <2>1. q.at = "inline" /\ Redis!Becomes(r, new)
      BY <1>7, Zenon DEF Redis!ReadInline
  <2>2. q \in ReaderSet /\ HistoryOK(q, inline, hash) /\ LookingOK(q, inline, hash)
      BY <1>3, <2>1, Zenon DEF Running, Looking
  <2>3. /\ new \in ReaderSet /\ new.at = "recheck" /\ new.got = q.got /\ new.absent = q.absent
        /\ new.present = q.present /\ new.flips = q.flips /\ new.short = q.short /\ q.flips \in 0 .. 2
      BY <2>2, Zenon DEF ReaderSet, Running, Looking
  <2> HIDE DEF new, q
  <2>4. HistoryOK(new, inline, hash)
      BY <2>1, <2>2, <2>3, ZenonT(30) DEF HistoryOK, Running, Looking
  <2>5. q.absent \/ hash.n > 0
      BY <1>2, <1>7, <2>1, <2>2, ZenonT(30) DEF HistoryOK, Running, Looking, Redis!Present
  <2>6. LookingOK(new, inline, hash)
      BY <1>2, <2>1, <2>2, <2>3, <2>5 DEF LookingOK, Looking
  <2>7. ChunksOK(new, hash) /\ AskingOK(new, inline, hash) /\ EndOK(new)
      BY <2>3, Zenon DEF ChunksOK, AskingOK, EndOK
  <2> QED
      BY <2>1, <2>3, <2>4, <2>6, <2>7, ZenonT(30) DEF ReaderOK
<1>8. CASE Redis!ReadInline(r) /\ inline # None
  <2> DEFINE new == [q EXCEPT !.at = "done", !.n = Chunks[inline], !.got = Redis!Whole(inline)]
  <2>1. q.at = "inline" /\ Redis!Becomes(r, new)
      BY <1>8, Zenon DEF Redis!ReadInline
  <2>2. q \in ReaderSet /\ inline \in Uploads
      BY <1>2, <1>3, <1>8, <2>1, ZenonT(30) DEF Running, Looking
  <2>3. Chunks[inline] \in Nat /\ Redis!Whole(inline) \in UNION {[D -> Uploads \cup {Redis!Debris}] : D \in SUBSET Nat}
    <3>1. Redis!Whole(inline) \in [Redis!Indices(inline) -> Uploads \cup {Redis!Debris}]
        BY <2>2, Zenon DEF Redis!Whole
    <3>2. Redis!Indices(inline) \subseteq Nat /\ Chunks[inline] \in Nat
        BY <2>2, StoreAssumption DEF Redis!Indices
    <3> QED
        BY <3>1, <3>2, Zenon
  <2>4. new \in ReaderSet /\ new.at = "done" /\ new.n = Chunks[inline] /\ new.got = Redis!Whole(inline)
      BY <2>2, <2>3, ZenonT(30) DEF ReaderSet
  <2> HIDE DEF new, q
  <2> QED
      BY <2>1, <2>2, <2>4, Zenon DEF ReaderOK, HistoryOK, LookingOK, ChunksOK, AskingOK, EndOK, Running, Looking
<1>9. CASE Redis!Recheck(r)
  <2> DEFINE a == IF hash.n = 0 THEN "not found" ELSE "chunks"
             new == [q EXCEPT !.at = a, !.n = hash.n]
  <2>1. q.at = "recheck" /\ Redis!Becomes(r, new)
      BY <1>9, Zenon DEF Redis!Recheck, Redis!CountNow
  <2>2. q \in ReaderSet /\ HistoryOK(q, inline, hash) /\ LookingOK(q, inline, hash)
      BY <1>3, <2>1, Zenon DEF Running, Looking
  <2>3. a \in {"not found", "chunks"} /\ (a = "not found" => hash.n = 0) /\ (a = "chunks" => hash.n > 0)
      BY <1>2
  <2> HIDE DEF a, q
  <2>4. /\ new.at = a /\ new.n = hash.n /\ new.got = q.got /\ new.absent = q.absent
        /\ new.present = q.present /\ new.flips = q.flips /\ q.flips \in 0 .. 2
      BY <2>2, Zenon DEF ReaderSet
  <2>5. new \in ReaderSet
      BY <1>2, <2>2, <2>3, ZenonT(30) DEF ReaderSet, Running, Looking
  <2> HIDE DEF new
  <2>6. HistoryOK(new, inline, hash)
      BY <2>1, <2>2, <2>4, Zenon DEF HistoryOK, Running, Looking
  <2>7. LookingOK(new, inline, hash) /\ AskingOK(new, inline, hash)
      BY <2>3, <2>4, ZenonT(30) DEF LookingOK, AskingOK, Looking
  <2>8. ChunksOK(new, hash)
      BY <2>1, <2>2, <2>3, <2>4 DEF ChunksOK, LookingOK, Looking
  <2>9. hash.n = 0 => q.absent \/ q.flips = 2
    <3>1. PICK f \in 0 .. 2 : f = q.flips
        BY <2>2, ZenonT(30) DEF ReaderSet
    <3>2. q.absent \/ ((f = 1 => hash.n > 0) /\ f > 0)
        BY <2>1, <2>2, <3>1, Zenon DEF LookingOK, Looking
    <3>3. hash.n = 0 => q.absent \/ f = 2
        BY <3>2
    <3> QED
        BY <3>1, <3>3, Zenon
  <2>10. EndOK(new)
      BY <2>3, <2>4, <2>9, ZenonT(30) DEF EndOK
  <2> QED
      BY <2>1, <2>5, <2>6, <2>7, <2>8, <2>10, Zenon DEF ReaderOK
<1>10. ASSUME NEW i \in Nat, Redis!ReadChunk(r, i) PROVE \E new : Good(new)
  <2>1. q.at = "chunks" /\ i < q.n /\ i \notin DOMAIN q.got
      BY <1>10, Zenon DEF Redis!ReadChunk
  <2>2. q \in ReaderSet /\ HistoryOK(q, inline, hash) /\ ChunksOK(q, hash)
      BY <1>3, <2>1, Zenon DEF Running, Looking
  <2>3. CASE i \notin DOMAIN hash.chunk
    <3> DEFINE new == [q EXCEPT !.at = "failed"]
    <3>1. Redis!Becomes(r, new)
        BY <1>10, <2>3, Zenon DEF Redis!ReadChunk
    <3>2. new \in ReaderSet /\ new.at = "failed"
        BY <2>2, ZenonT(30) DEF ReaderSet
    <3> HIDE DEF new, q
    <3> QED
        BY <3>1, <3>2, Zenon DEF ReaderOK, HistoryOK, LookingOK, ChunksOK, AskingOK, EndOK, Running, Looking
  <2>4. CASE i \in DOMAIN hash.chunk
    <3> DEFINE g == [j \in DOMAIN q.got \cup {i} |-> IF j = i THEN hash.chunk[i] ELSE q.got[j]]
               a == IF Redis!AllRead(r, g) THEN "done" ELSE q.at
               new == [q EXCEPT !.got = g, !.at = a]
    <3>1. Redis!Becomes(r, new)
        BY <1>10, <2>4, Zenon DEF Redis!ReadChunk
    <3>2. g \in UNION {[D -> Uploads \cup {Redis!Debris}] : D \in SUBSET Nat}
      <4>1. PICK D \in SUBSET Nat : q.got \in [D -> Uploads \cup {Redis!Debris}]
          BY <2>2, Zenon DEF ReaderSet
      <4>2. DOMAIN q.got \cup {i} \in SUBSET Nat
          BY <4>1, Zenon
      <4>3. g \in [DOMAIN q.got \cup {i} -> Uploads \cup {Redis!Debris}]
          BY <1>2, <2>4, <4>1, ZenonT(30)
      <4> HIDE DEF g
      <4> QED
          BY <4>2, <4>3, Zenon
    <3>3. a \in {"done", "chunks"} /\ (a = "done" => DOMAIN g = 0 .. q.n - 1)
        BY <2>1, Zenon DEF Redis!AllRead
    <3>4. DOMAIN g = DOMAIN q.got \cup {i} /\ \A j \in DOMAIN g : g[j] = IF j = i THEN hash.chunk[i] ELSE q.got[j]
        BY Zenon
    <3> HIDE DEF g, a, q
    <3>5. new \in ReaderSet
        BY <2>2, <3>2, <3>3, Zenon DEF ReaderSet, Running, Looking
    <3>6. /\ new.at = a /\ new.n = q.n /\ new.got = g /\ new.absent = q.absent /\ new.short = q.short
          /\ new.present = q.present /\ new.flips = q.flips /\ new.replaced = q.replaced
        BY <2>2, ZenonT(30) DEF ReaderSet
    <3> HIDE DEF new
    <3>7. HistoryOK(new, inline, hash)
        BY <2>1, <2>2, <3>6, Zenon DEF HistoryOK, Running, Looking
    <3>8. LookingOK(new, inline, hash) /\ AskingOK(new, inline, hash)
        BY <3>3, <3>6, Zenon DEF LookingOK, AskingOK, Looking
    <3>9. ASSUME ~q.short, ~q.replaced
          PROVE  hash.n > 0 /\ q.n = hash.n /\ \A j \in DOMAIN g : j \in DOMAIN hash.chunk /\ g[j] = hash.chunk[j]
        BY <2>1, <2>2, <2>4, <3>4, <3>9, ZenonT(30) DEF ChunksOK
    <3>10. ChunksOK(new, hash)
        BY <3>6, <3>9, Zenon DEF ChunksOK
    <3>11. ASSUME a = "done", ~q.short, ~q.replaced
           PROVE  \E u \in Uploads : q.n = Chunks[u] /\ g = Redis!Whole(u)
      <4>1. PICK u \in Uploads : hash = [n |-> Chunks[u], chunk |-> Redis!Whole(u), ttl |-> Redis!Retention]
          BY <1>2, <3>9, <3>11, HashParts, ZenonT(30)
      <4>2. hash.n = Chunks[u] /\ hash.chunk = Redis!Whole(u) /\ DOMAIN Redis!Whole(u) = 0 .. Chunks[u] - 1
          BY <4>1, Zenon DEF Redis!Whole, Redis!Indices
      <4>3. DOMAIN g = DOMAIN Redis!Whole(u) /\ \A j \in DOMAIN g : g[j] = Redis!Whole(u)[j]
          BY <3>3, <3>9, <3>11, <4>2, ZenonT(30)
      <4>4. g = [j \in DOMAIN g |-> g[j]] /\ Redis!Whole(u) = [j \in DOMAIN Redis!Whole(u) |-> Redis!Whole(u)[j]]
          BY Zenon DEF g, Redis!Whole
      <4>5. g = Redis!Whole(u)
          BY <4>3, <4>4, Zenon
      <4> QED
          BY <3>9, <3>11, <4>2, <4>5, ZenonT(30)
    <3>12. EndOK(new)
        BY <3>3, <3>6, <3>11, Zenon DEF EndOK
    <3> QED
        BY <3>1, <3>5, <3>7, <3>8, <3>10, <3>12, ZenonT(30) DEF ReaderOK
  <2> QED
      BY <2>3, <2>4, Zenon
<1>11. ASSUME NEW key \in {"inline", "hash"}, Redis!Answer(r, key) PROVE \E new : Good(new)
  <2> DEFINE there == IF key = "inline" THEN inline # None ELSE hash.n > 0
  <2>1. /\ q.at = "asking" /\ key \in q.left
        /\ Redis!Becomes(r, [q EXCEPT !.left = q.left \ {key}, !.seen = q.seen \/ there,
                               !.at = IF q.left \ {key} # {} THEN q.at ELSE IF q.seen \/ there THEN "yes" ELSE "no"])
      BY <1>11, Zenon DEF Redis!Answer, Redis!MarkerExists
  <2>2. q \in ReaderSet /\ HistoryOK(q, inline, hash) /\ AskingOK(q, inline, hash)
      BY <1>3, <2>1, Zenon DEF Running, Looking
  <2>3. PICK lf \in SUBSET {"inline", "hash"}, sn \in BOOLEAN, a \in {"asking", "yes", "no"} :
          /\ Redis!Becomes(r, [q EXCEPT !.left = lf, !.seen = sn, !.at = a])
          /\ lf = q.left \ {key} /\ (sn <=> q.seen \/ there)
          /\ (a # "asking" => lf = {}) /\ (a = "yes" => sn) /\ (a = "no" => ~sn)
    <3>1. q.left \ {key} \in SUBSET {"inline", "hash"}
        BY <2>2, Zenon DEF ReaderSet
    <3>2. (q.seen \/ there) \in BOOLEAN
        BY Zenon
    <3>3. CASE q.left \ {key} # {}
        BY <2>1, <3>1, <3>2, <3>3, ZenonT(30)
    <3>4. CASE q.left \ {key} = {} /\ (q.seen \/ there)
        BY <2>1, <3>1, <3>2, <3>4, ZenonT(30)
    <3>5. CASE q.left \ {key} = {} /\ ~(q.seen \/ there)
        BY <2>1, <3>1, <3>2, <3>5, ZenonT(30)
    <3> QED
        BY <3>3, <3>4, <3>5, ZenonT(30)
  <2> DEFINE new == [q EXCEPT !.left = lf, !.seen = sn, !.at = a]
  <2> HIDE DEF q
  <2>4. new \in ReaderSet
      BY <2>2, Zenon DEF ReaderSet, Running, Looking
  <2>5. /\ new.at = a /\ new.left = lf /\ new.seen = sn /\ new.absent = q.absent
        /\ new.present = q.present /\ new.flips = q.flips /\ q.flips \in 0 .. 2
      BY <2>2, Zenon DEF ReaderSet
  <2> HIDE DEF new
  <2>6. HistoryOK(new, inline, hash)
      BY <2>1, <2>2, <2>5, ZenonT(30) DEF HistoryOK, Running, Looking
  <2>7. there => q.present
      BY <1>2, <2>1, <2>2, ZenonT(30) DEF HistoryOK, Running, Redis!Present
  <2>8. sn => q.present
      BY <2>1, <2>2, <2>3, <2>7, ZenonT(30) DEF AskingOK
  <2>9. ASSUME ~sn, ~q.absent, ~(q.flips > 0)
        PROVE  ("inline" \notin lf => inline = None) /\ ("hash" \notin lf => hash.n = 0)
      BY <1>2, <2>1, <2>2, <2>3, <2>9 DEF AskingOK
  <2>10. AskingOK(new, inline, hash)
      BY <2>5, <2>8, <2>9, Zenon DEF AskingOK
  <2>11. a = "no" => q.absent \/ q.flips > 0
      BY <1>2, <2>1, <2>2, <2>3, <2>9 DEF HistoryOK, Running, Redis!Present
  <2>12. EndOK(new)
      BY <2>3, <2>5, <2>8, <2>11, ZenonT(30) DEF EndOK
  <2>13. LookingOK(new, inline, hash) /\ ChunksOK(new, hash)
      BY <2>5, Zenon DEF LookingOK, ChunksOK, Looking
  <2> QED
      BY <2>3, <2>4, <2>6, <2>10, <2>12, <2>13, ZenonT(30) DEF ReaderOK, new
<1>12. \A u \in Uploads : \A i \in 0 .. Chunks[u] : i \in Nat
    BY StoreAssumption
<1> QED
    BY <1>4, <1>5, <1>6, <1>7, <1>8, <1>9, <1>10, <1>11, <1>12, ZenonT(30) DEF Redis!Read

\* A command that is lost, late or repeated included, every step preserves the
\* invariant of the artifact.
LEMMA StoreStep == StoreInv /\ [Redis!Next]_redisVars => StoreInv'
<1> SUFFICES ASSUME StoreInv, [Redis!Next]_redisVars PROVE StoreInv'
    BY Zenon
<1>1. /\ HashOK(inline, hash) /\ kind \in {"Program", "other"}
      /\ phase \in [Uploads -> {"idle", "staging", "sent", "ok"}]
      /\ attempt \in [Uploads -> Nat] /\ wire \in SUBSET (Uploads \X Nat)
    BY Zenon DEF StoreInv, StoreTypes
<1>2. ASSUME NEW i, NEW h, HashOK(i, h), Redis!Store(i, h), UNCHANGED kind,
             phase' \in [Uploads -> {"idle", "staging", "sent", "ok"}],
             UNCHANGED attempt, wire' \subseteq wire
      PROVE  StoreInv'
  <2>1. DOMAIN readers' = Readers /\ \A r \in Readers : ReaderOK(readers'[r], inline', hash')
      BY <1>2, StoreReaders, ZenonT(30)
  <2>2. HashOK(inline, hash)'
      BY <1>2, ZenonT(30) DEF Redis!Store, HashOK, Redis!Retention
  <2>3. StoreTypes'
      BY <1>1, <1>2, <2>2, ZenonT(30) DEF StoreTypes
  <2> QED
      BY <2>1, <2>3, ZenonT(30) DEF StoreInv
<1>3. ASSUME UNCHANGED <<kind, inline, hash, readers>>,
             phase' \in [Uploads -> {"idle", "staging", "sent", "ok"}],
             attempt' \in [Uploads -> Nat], wire' \in SUBSET (Uploads \X Nat)
      PROVE  StoreInv'
    BY <1>1, <1>3, Zenon DEF StoreInv, StoreTypes, HashOK, Redis!Retention
<1>4. CASE UNCHANGED redisVars
    BY <1>1, <1>3, <1>4, ZenonT(30) DEF redisVars
<1>5. ASSUME NEW u \in Uploads, Redis!Upload(u) PROVE StoreInv'
  <2>1. attempt[u] \in Nat /\ Redis!Current(u) \in Uploads \X Nat
      BY <1>1, Zenon DEF Redis!Current
  <2>2. /\ UNCHANGED <<kind, inline, hash, readers>>
        /\ phase' \in [Uploads -> {"idle", "staging", "sent", "ok"}]
        /\ attempt' \in [Uploads -> Nat] /\ wire' \in SUBSET (Uploads \X Nat)
    <3>1. CASE Redis!StartAttempt(u)
        BY <1>1, <2>1, <3>1 DEF Redis!StartAttempt
    <3>2. CASE Redis!StagingFails(u) \/ Redis!SendPublish(u)
        BY <1>1, <2>1, <3>2, Zenon DEF Redis!StagingFails, Redis!SendPublish
    <3>3. CASE \E i \in Redis!Indices(u) : Chunks[u] > 1 /\ Redis!StageChunk(u, i)
        BY <1>1, <3>3, Zenon DEF Redis!StageChunk
    <3>4. CASE \E lose \in BOOLEAN : Redis!AttemptFails(u, lose)
        BY <1>1, <3>4, Zenon DEF Redis!AttemptFails
    <3> QED
        BY <1>5, <3>1, <3>2, <3>3, <3>4, ZenonT(30) DEF Redis!Upload
  <2> QED
      BY <1>3, <2>2, Zenon
<1>6. ASSUME NEW a \in wire, NEW res \in {"ok", "idle"}, Redis!Answered(a, res)
      PROVE  phase' \in [Uploads -> {"idle", "staging", "sent", "ok"}]
    BY <1>1, <1>6, Zenon DEF Redis!Answered
<1>7. /\ HashOK(None, Redis!EmptyHash) /\ HashOK(inline, Redis!EmptyHash) /\ HashOK(None, hash)
      /\ \A u \in Uploads : HashOK(u, Redis!EmptyHash)
    BY <1>1, Zenon DEF HashOK
<1>8. ASSUME NEW a \in wire, Redis!SetInline(a) PROVE StoreInv'
  <2>1. a[1] \in Uploads
      BY <1>1, Zenon
  <2>2. phase' \in [Uploads -> {"idle", "staging", "sent", "ok"}]
      BY <1>6, <1>8, ZenonT(30) DEF Redis!SetInline
  <2> QED
      BY <1>2, <1>7, <1>8, <2>1, <2>2, ZenonT(30) DEF Redis!SetInline
<1>9. ASSUME NEW a \in wire, Redis!PublishStaged(a) PROVE StoreInv'
  <2>1. a[1] \in Uploads /\ Chunks[a[1]] > 1 /\ UNCHANGED <<kind, attempt>> /\ wire' \subseteq wire
      BY <1>1, <1>9, ZenonT(30) DEF Redis!PublishStaged
  <2>2. phase' \in [Uploads -> {"idle", "staging", "sent", "ok"}]
      BY <1>6, <1>9, ZenonT(30) DEF Redis!PublishStaged
  <2>3. CASE Redis!Store(None, hash) \/ Redis!Store(inline, hash)
      BY <1>1, <1>2, <1>7, <2>1, <2>2, <2>3, ZenonT(30)
  <2>4. CASE Redis!StagingComplete(a) /\ Redis!Store(None, [n |-> Chunks[a[1]],
               chunk |-> Redis!Restrict(Redis!Whole(a[1]), staged[a]), ttl |-> Redis!Retention])
    <3>1. Redis!Restrict(Redis!Whole(a[1]), staged[a]) = Redis!Whole(a[1])
        BY <2>4, Zenon DEF Redis!StagingComplete, Redis!Restrict, Redis!Whole
    <3> DEFINE h == [n |-> Chunks[a[1]], chunk |-> Redis!Whole(a[1]), ttl |-> Redis!Retention]
    <3>2. HashOK(None, h)
        BY <2>1, ZenonT(30) DEF HashOK
    <3>3. Redis!Store(None, h)
        BY <2>4, <3>1, Zenon
    <3> QED
        BY <1>2, <2>1, <2>2, <3>2, <3>3, ZenonT(30)
  <2> QED
      BY <1>9, <2>3, <2>4, ZenonT(30) DEF Redis!PublishStaged, Redis!WhenRefused
<1>10. ASSUME NEW a \in wire, Redis!StagingExpires(a) PROVE StoreInv'
    BY <1>1, <1>3, <1>10, ZenonT(30) DEF Redis!StagingExpires
<1>11. CASE Redis!Deletion
  <2>1. CASE Redis!StartDelete
      BY <1>1, <1>3, <2>1, Zenon DEF Redis!StartDelete
  <2>2. ASSUME NEW key \in unlinks, Redis!Unlink(key) PROVE StoreInv'
    <3>1. PICK i \in {None, inline}, h \in {Redis!EmptyHash, hash} : Redis!Store(i, h)
        BY <2>2, Zenon DEF Redis!Unlink
    <3> QED
        BY <1>1, <1>2, <1>7, <2>2, <3>1, ZenonT(30) DEF Redis!Unlink
  <2>3. CASE Redis!DeleteBatch
      BY <1>1, <1>2, <1>7, <2>3, ZenonT(30) DEF Redis!DeleteBatch
  <2> QED
      BY <1>11, <2>1, <2>2, <2>3, ZenonT(30) DEF Redis!Deletion
<1>12. CASE Redis!InlineExpires \/ Redis!HashExpires
    BY <1>1, <1>2, <1>7, <1>12, ZenonT(30) DEF Redis!InlineExpires, Redis!HashExpires
<1>13. ASSUME NEW r \in Readers, Redis!Read(r) PROVE StoreInv'
  <2>1. UNCHANGED <<kind, inline, hash, phase, attempt, wire>>
      BY <1>13, ReadStep, Zenon
  <2>2. PICK new : ReaderOK(new, inline, hash) /\ readers' = [readers EXCEPT ![r] = new]
      BY <1>13, ReadStep, Zenon
  <2>3. DOMAIN readers' = Readers /\ \A s \in Readers : ReaderOK(readers'[s], inline', hash')
      BY <2>1, <2>2, Zenon DEF StoreInv
  <2>4. StoreTypes'
      BY <1>1, <2>1, Zenon DEF StoreTypes, HashOK, Redis!Retention
  <2> QED
      BY <2>3, <2>4, Zenon DEF StoreInv
<1> QED
    BY <1>4, <1>5, <1>8, <1>9, <1>10, <1>11, <1>12, <1>13, Zenon DEF Redis!Next

\* The invariant holds of an artifact that is not there, or was left unfinished.
LEMMA StoreInit == Redis!Init => StoreInv
<1> SUFFICES ASSUME Redis!Init PROVE StoreInv
    BY Zenon
<1>1. StoreTypes
    BY Zenon DEF Redis!Init, StoreTypes, HashOK
<1>2. DOMAIN readers = Readers /\ \A r \in Readers : readers[r] = Redis!Idle
    BY Zenon DEF Redis!Init
<1> QED
    BY <1>1, <1>2, Zenon DEF StoreInv, ReaderOK

\* The invariant of the artifact, for any uploads, sizes and readers, and any
\* number of attempts and deletions.
THEOREM StoreSafe == Redis!Spec => []StoreInv
    BY StoreInit, StoreStep, PTL DEF Redis!Spec, Redis!vars, redisVars

\* publish_staged, upload_inline, par_download_file, exists: what is declared is
\* whole, what is read is one upload, what is missing was missing.
THEOREM ReadsTrue == Redis!Spec => []ReadsAreTrue
<1>1. StoreInv => ReadsAreTrue
  <2> SUFFICES ASSUME StoreInv PROVE ReadsAreTrue
      BY Zenon
  <2>1. HashOK(inline, hash)
      BY Zenon DEF StoreInv, StoreTypes
  <2>2. Redis!PublishedIsWhole
      BY <2>1, HashParts, SMTT(30) DEF Redis!PublishedIsWhole
  <2>3. ASSUME NEW r \in Readers, readers[r].at \in {"done", "not found", "yes", "no"}
        PROVE  EndOK(readers[r])
    <3>1. Redis!Idle.at = "idle"
        BY Zenon DEF Redis!Idle
    <3> QED
        BY <2>3, <3>1, Zenon DEF StoreInv, ReaderOK
  <2>4. Redis!NoTornRead
      BY <2>3, ZenonT(30) DEF Redis!NoTornRead, EndOK
  <2>5. Redis!NotFoundMeansAbsent
      BY <2>3, Zenon DEF Redis!NotFoundMeansAbsent, EndOK
  <2> QED
      BY <2>2, <2>4, <2>5, Zenon DEF ReadsAreTrue
<1> QED
    BY StoreSafe, <1>1, PTL

\* What PublishedStays asks of one step.
StepStays ==
    /\ hash.n > 0 => hash' \in {hash, Redis!EmptyHash}
    /\ \A u \in DOMAIN phase : phase[u] # "ok" /\ phase'[u] = "ok" => Redis!Present(inline', hash')
    /\ Redis!Present(inline, hash) /\ ~Redis!Present(inline', hash')
         => Redis!Deletion \/ (Redis!Retention = "retention" /\ (hash.n > 0 => hash.ttl = "retention"))

\* Each command keeps to it.
LEMMA NextStays == StoreInv /\ Redis!Next => StepStays
<1> SUFFICES ASSUME StoreInv, Redis!Next PROVE StepStays
    BY Zenon
<1>1. /\ HashOK(inline, hash) /\ hash.n \in Nat /\ phase \in [Uploads -> {"idle", "staging", "sent", "ok"}]
      /\ wire \in SUBSET (Uploads \X Nat) /\ attempt \in [Uploads -> Nat]
      /\ hash.n > 0 => inline = None /\ hash.ttl = Redis!Retention
  <2>1. HashOK(inline, hash)
      BY Zenon DEF StoreInv, StoreTypes
  <2> QED
      BY <2>1, HashParts DEF StoreInv, StoreTypes
<1>2. CASE UNCHANGED <<inline, hash>> /\ \A u \in Uploads : phase'[u] = "ok" => phase[u] = "ok"
    BY <1>1, <1>2, Zenon DEF StepStays
<1>3. ASSUME NEW u \in Uploads, Redis!Upload(u) PROVE StepStays
  <2>1. UNCHANGED <<inline, hash>> /\ \A v \in Uploads : phase'[v] = "ok" => phase[v] = "ok"
      BY <1>1, <1>3, Zenon DEF Redis!Upload, Redis!StartAttempt, Redis!StagingFails, Redis!SendPublish,
         Redis!StageChunk, Redis!AttemptFails
  <2> QED
      BY <1>2, <2>1, Zenon
<1>4. ASSUME NEW a \in wire, Redis!SetInline(a) PROVE StepStays
  <2>1. inline' = a[1] /\ hash' = Redis!EmptyHash /\ a[1] \in Uploads
      BY <1>1, <1>4, Zenon DEF Redis!SetInline, Redis!Store
  <2>2. Redis!Present(inline', hash')
      BY <2>1, StoreAssumption, Zenon DEF Redis!Present
  <2> QED
      BY <2>1, <2>2, Zenon DEF StepStays
<1>5. ASSUME NEW a \in wire, Redis!PublishStaged(a) PROVE StepStays
  <2>1. CASE hash.n > 0
    <3>1. hash' = hash
        BY <1>5, <2>1, Zenon DEF Redis!PublishStaged, Redis!Published, Redis!Store
    <3>2. Redis!Present(inline', hash')
        BY <2>1, <3>1, Zenon DEF Redis!Present
    <3> QED
        BY <3>1, <3>2, Zenon DEF StepStays
  <2>2. CASE ~(hash.n > 0) /\ ~Redis!StagingComplete(a)
    <3>1. UNCHANGED <<inline, hash>> /\ Redis!Answered(a, "idle")
        BY <1>5, <2>2, ZenonT(30) DEF Redis!PublishStaged, Redis!Published, Redis!WhenRefused, Redis!Store
    <3>2. \A u \in Uploads : phase'[u] = "ok" => phase[u] = "ok"
        BY <1>1, <3>1, Zenon DEF Redis!Answered
    <3> QED
        BY <1>2, <3>1, <3>2, Zenon
  <2>3. CASE ~(hash.n > 0) /\ Redis!StagingComplete(a)
    <3>1. /\ Chunks[a[1]] > 1
          /\ hash' = [n |-> Chunks[a[1]], chunk |-> Redis!Restrict(Redis!Whole(a[1]), staged[a]),
                      ttl |-> Redis!Retention]
        BY <1>5, <2>3, Zenon DEF Redis!PublishStaged, Redis!Published, Redis!Store
    <3>2. Chunks[a[1]] \in Nat
        BY <1>1, StoreAssumption, Zenon
    <3>3. Redis!Present(inline', hash')
        BY <3>1, <3>2 DEF Redis!Present
    <3> QED
        BY <2>3, <3>3, Zenon DEF StepStays
  <2> QED
      BY <2>1, <2>2, <2>3, Zenon
<1>6. ASSUME NEW a \in wire, Redis!StagingExpires(a) PROVE StepStays
    BY <1>1, <1>2, <1>6, Zenon DEF Redis!StagingExpires
<1>7. CASE Redis!Deletion
  <2>1. phase' = phase /\ hash' \in {hash, Redis!EmptyHash}
      BY <1>7, ZenonT(30) DEF Redis!Deletion, Redis!StartDelete, Redis!Unlink, Redis!DeleteBatch, Redis!Store
  <2> QED
      BY <1>7, <2>1, Zenon DEF StepStays
<1>8. CASE Redis!InlineExpires
  <2>1. /\ phase' = phase /\ hash' = hash /\ inline # None /\ Redis!Retention = "retention"
      BY <1>8, ZenonT(30) DEF Redis!InlineExpires, Redis!Store
  <2> QED
      BY <1>1, <2>1, Zenon DEF StepStays
<1>9. CASE Redis!HashExpires
  <2>1. phase' = phase /\ hash' = Redis!EmptyHash /\ inline' = inline /\ hash.ttl # "none"
      BY <1>9, Zenon DEF Redis!HashExpires, Redis!Store
  <2>2. hash.n > 0 => Redis!Retention = "retention" /\ hash.ttl = "retention"
      BY <1>1, <2>1, Zenon DEF Redis!Retention
  <2>3. ASSUME Redis!Present(inline, hash), ~Redis!Present(inline', hash')
        PROVE  hash.n > 0
      BY <2>1, <2>3, Zenon DEF Redis!Present
  <2> QED
      BY <2>1, <2>2, <2>3, Zenon DEF StepStays
<1>10. ASSUME NEW r \in Readers, Redis!Read(r) PROVE StepStays
  <2>1. UNCHANGED <<kind, inline, hash, phase, attempt, wire>>
      BY <1>10, ReadStep, Zenon
  <2> QED
      BY <1>2, <2>1, Zenon
<1> QED
    BY <1>3, <1>4, <1>5, <1>6, <1>7, <1>8, <1>9, <1>10, ZenonT(30) DEF Redis!Next

\* PUBLISH_SCRIPT, upload_to_transport, upload_inline, delete: a published hash
\* does not change, an acknowledged upload leaves an artifact, and an artifact
\* goes by deletion or expiry only.
THEOREM PublishedArtifactsStay == Redis!Spec => PublishedStays
<1>1. StoreInv /\ [Redis!Next]_Redis!vars => [StepStays]_Redis!vars
    BY NextStays, Zenon
<1>2. [StepStays]_Redis!vars =>
        /\ [hash.n > 0 => hash' \in {hash, Redis!EmptyHash}]_Redis!vars
        /\ [\A u \in DOMAIN phase : phase[u] # "ok" /\ phase'[u] = "ok" => Redis!Present(inline', hash')]_Redis!vars
        /\ [Redis!Present(inline, hash) /\ ~Redis!Present(inline', hash')
              => Redis!Deletion \/ (Redis!Retention = "retention"
                                    /\ (hash.n > 0 => hash.ttl = "retention"))]_Redis!vars
    BY Zenon DEF StepStays
<1> QED
    BY StoreSafe, <1>1, <1>2, PTL DEF Redis!Spec, PublishedStays, Redis!PublishedNeverMutates,
       Redis!AckMeansStored, Redis!OnlyDeletedOrExpired
==============================================================================
