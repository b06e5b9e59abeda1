------------------------- MODULE SnapshotStoreProofs ------------------------
(***************************************************************************)
(* Proofs about SnapshotStore, for every set of snapshots and chunks and   *)
(* every fault but the two that lose counts: dying between a new manifest  *)
(* and its counts, and dying while the counts are saved.  With either of   *)
(* them the theorems are false.                                            *)
(***************************************************************************)
EXTENDS SnapshotStore, FiniteSetTheorems, TLAPS

CountsAreKept == Faults \cap {"crash_unsaved", "save_torn"} = {}

Manifests == [Ids -> Contents \cup {Nothing, Torn}]

\* The references to chunk c in the manifests m.
RefsOf(m, c) ==
  UNION {{i} \X Places(m[i], c) : i \in {j \in Ids : m[j] \in Contents}}

\* A saved count covers the references, except while it waits to be saved.
FileCovers ==
  phase # "saveStored" =>
    \A c \in Chunks : countFile[c] >= Cardinality(References(c))

\* Every chunk that a manifest names has a file, and so has every chunk the
\* store under way is past; the name it stores under is free, and the manifest
\* that is being removed is still as it was read.
NothingMissing ==
  /\ \A i \in Stored : \A k \in DOMAIN manifest[i] :
       chunkFile[manifest[i][k]] # "absent"
  /\ phase = "chunks" => /\ manifest[id] = Nothing
                         /\ \A k \in 1..done : chunkFile[data[k]] # "absent"
  /\ phase = "deleting" => manifest[id] = data

OrphansUncounted == phase = "collecting" => \A c \in orphans : counts[c] = 0

IInv == /\ TypeOK /\ CountsCoverReferences
        /\ FileCovers /\ NothingMissing /\ OrphansUncounted

\* Between operations the file says what the memory says.
FileExact ==
  ~tainted /\ phase \in {"idle", "collecting", "deleting"} => countFile = counts
-----------------------------------------------------------------------------
(* Counting references.                                                    *)

LEMMA ContentsAreSequences ==
  \A d \in Contents : d \in Seq(Chunks) /\ Len(d) \in Nat /\ DOMAIN d = 1..Len(d)
BY StoreAssumption

LEMMA PlacesFinite ==
  ASSUME NEW d \in Contents, NEW c
  PROVE  /\ IsFiniteSet(Places(d, c))
         /\ Occurrences(d, c) \in Nat
<1>1. Places(d, c) \in SUBSET (1..Len(d))
  BY ContentsAreSequences DEF Places
<1>2. IsFiniteSet(1..Len(d))
  BY ContentsAreSequences, FS_Interval
<1>3. IsFiniteSet(Places(d, c))
  BY <1>1, <1>2, FS_Subset
<1>4. QED BY <1>3, FS_CardinalityType DEF Occurrences

LEMMA RefsFinite ==
  ASSUME NEW m \in Manifests, NEW c
  PROVE  /\ IsFiniteSet(RefsOf(m, c))
         /\ Cardinality(RefsOf(m, c)) \in Nat
<1> DEFINE S == {j \in Ids : m[j] \in Contents}
           f == [i \in S |-> {i} \X Places(m[i], c)]
           T == {{i} \X Places(m[i], c) : i \in S}
<1>1. IsFiniteSet(S)
  <2>1. S \in SUBSET Ids
    OBVIOUS
  <2>2. QED BY <2>1, StoreAssumption, FS_Subset
<1>2. f \in Surjection(S, T)
  BY DEF Surjection
<1>3. IsFiniteSet(T)
  <2> HIDE DEF S, T, f
  <2>1. QED BY <1>1, <1>2, FS_Surjection
<1>4. \A s \in T : IsFiniteSet(s)
  <2> SUFFICES ASSUME NEW i \in S PROVE IsFiniteSet({i} \X Places(m[i], c))
    OBVIOUS
  <2>1. IsFiniteSet({i}) /\ IsFiniteSet(Places(m[i], c))
    BY FS_Singleton, PlacesFinite
  <2>2. QED BY <2>1, FS_Product
<1>5. IsFiniteSet(UNION T)
  BY <1>3, <1>4, FS_UNION
<1>6. QED BY <1>5, FS_CardinalityType DEF RefsOf

\* A chunk is referenced just when some stored snapshot has it somewhere.
LEMMA NoReferences ==
  ASSUME NEW m \in Manifests, NEW c, Cardinality(RefsOf(m, c)) = 0,
         NEW i \in Ids, m[i] \in Contents, NEW k \in DOMAIN m[i]
  PROVE  m[i][k] # c
<1>1. RefsOf(m, c) = {}
  BY RefsFinite, FS_EmptySet
<1>2. ASSUME m[i][k] = c PROVE FALSE
  <2>1. <<i, k>> \in {i} \X Places(m[i], c)
    BY <1>2 DEF Places
  <2>2. <<i, k>> \in RefsOf(m, c)
    BY <2>1 DEF RefsOf
  <2>3. QED BY <1>1, <2>2
<1>3. QED BY <1>2

\* A new snapshot adds a reference for every place of the chunk in it.
LEMMA AddSnapshot ==
  ASSUME NEW m \in Manifests, NEW i \in Ids, m[i] \notin Contents,
         NEW d \in Contents, NEW c
  PROVE  Cardinality(RefsOf([m EXCEPT ![i] = d], c))
           = Cardinality(RefsOf(m, c)) + Occurrences(d, c)
<1> DEFINE n == [m EXCEPT ![i] = d]
           New == {i} \X Places(d, c)
<1>0. n \in Manifests /\ n[i] = d /\ \A j \in Ids \ {i} : n[j] = m[j]
  BY DEF Manifests
<1>1. RefsOf(n, c) = RefsOf(m, c) \cup New
  <2>1. \A j \in Ids : /\ n[j] \in Contents <=> j = i \/ m[j] \in Contents
                       /\ m[j] \in Contents => n[j] = m[j]
    BY <1>0
  <2> HIDE DEF n
  <2>2. ASSUME NEW r \in RefsOf(n, c) PROVE r \in RefsOf(m, c) \cup New
    <3>1. PICK j \in Ids : n[j] \in Contents /\ r \in {j} \X Places(n[j], c)
      BY DEF RefsOf
    <3>2. CASE j = i
      BY <1>0, <3>1, <3>2
    <3>3. CASE j # i
      BY <1>0, <2>1, <3>1, <3>3 DEF RefsOf
    <3>4. QED BY <3>2, <3>3
  <2>3. ASSUME NEW r \in RefsOf(m, c) PROVE r \in RefsOf(n, c)
    <3>1. PICK j \in Ids : m[j] \in Contents /\ r \in {j} \X Places(m[j], c)
      BY DEF RefsOf
    <3>2. n[j] \in Contents /\ r \in {j} \X Places(n[j], c)
      BY <2>1, <3>1
    <3>3. QED BY <3>2 DEF RefsOf
  <2>4. New \subseteq RefsOf(n, c)
    BY <1>0, <2>1 DEF RefsOf
  <2>5. QED BY <2>2, <2>3, <2>4
<1>2. RefsOf(m, c) \cap New = {}
  BY DEF RefsOf
<1>3. /\ IsFiniteSet(New)
      /\ Cardinality(New) = Occurrences(d, c)
  <2>1. IsFiniteSet({i}) /\ Cardinality({i}) = 1
    BY FS_Singleton
  <2>2. /\ IsFiniteSet(New)
        /\ Cardinality(New) = 1 * Cardinality(Places(d, c))
    BY <2>1, PlacesFinite, FS_Product
  <2>3. QED BY <2>2, PlacesFinite DEF Occurrences
<1>4. /\ IsFiniteSet(RefsOf(m, c))
      /\ Cardinality(RefsOf(m, c)) \in Nat
  BY RefsFinite
<1>5. Cardinality(RefsOf(m, c) \cup New)
        = Cardinality(RefsOf(m, c)) + Cardinality(New) - Cardinality({})
  <2> HIDE DEF New
  <2>1. QED BY <1>2, <1>3, <1>4, FS_Union
<1>6. Cardinality({}) = 0 /\ Occurrences(d, c) \in Nat
  BY FS_EmptySet, PlacesFinite
<1>7. Cardinality(RefsOf(m, c) \cup New)
        = Cardinality(RefsOf(m, c)) + Occurrences(d, c)
  BY <1>3, <1>4, <1>5, <1>6
<1>8. QED BY <1>1, <1>7

\* A snapshot that goes takes as many with it.
LEMMA DropSnapshot ==
  ASSUME NEW m \in Manifests, NEW i \in Ids, m[i] \in Contents, NEW c
  PROVE  Cardinality(RefsOf(m, c))
           = Cardinality(RefsOf([m EXCEPT ![i] = Nothing], c)) + Occurrences(m[i], c)
<1> DEFINE n == [m EXCEPT ![i] = Nothing]
<1>1. n \in Manifests /\ n[i] \notin Contents
  BY StoreAssumption DEF Manifests
<1>2. m = [n EXCEPT ![i] = m[i]]
  BY DEF Manifests
<1> HIDE DEF n
<1>3. Cardinality(RefsOf([n EXCEPT ![i] = m[i]], c))
        = Cardinality(RefsOf(n, c)) + Occurrences(m[i], c)
  BY <1>1, AddSnapshot
<1>4. QED BY <1>2, <1>3 DEF n

\* A manifest that cannot be parsed refers to nothing.
LEMMA TornSnapshot ==
  ASSUME NEW m \in Manifests, NEW i \in Ids, m[i] \notin Contents, NEW c
  PROVE  RefsOf([m EXCEPT ![i] = Torn], c) = RefsOf(m, c)
<1> DEFINE n == [m EXCEPT ![i] = Torn]
<1>1. \A j \in Ids : /\ n[j] \in Contents <=> m[j] \in Contents
                     /\ m[j] \in Contents => n[j] = m[j]
  BY StoreAssumption DEF Manifests
<1> HIDE DEF n
<1>2. RefsOf(n, c) = RefsOf(m, c)
  <2>1. {j \in Ids : n[j] \in Contents} = {j \in Ids : m[j] \in Contents}
    BY <1>1
  <2>2. QED BY <1>1, <2>1 DEF RefsOf
<1>3. QED BY <1>2 DEF n
-----------------------------------------------------------------------------
(* Types.                                                                  *)

\* What a rollback or a deletion leaves of a count.
LEMMA ReleasedIs ==
  ASSUME counts \in [Chunks -> Nat], NEW d \in Contents
  PROVE  /\ Released(d) \in [Chunks -> Nat]
         /\ \A c \in Chunks : \A n \in Nat :
              /\ counts[c] >= n + Occurrences(d, c) => Released(d)[c] >= n
              /\ counts[c] = n + Occurrences(d, c) => Released(d)[c] = n
<1>1. \A c \in Chunks : Occurrences(d, c) \in Nat
  BY PlacesFinite
<1>2. QED BY <1>1 DEF Released

LEMMA InitTypeOK == Init => TypeOK
<1> SUFFICES ASSUME Init PROVE TypeOK
  OBVIOUS
<1>1. done \in 0..Len(data)
  BY ContentsAreSequences DEF Init
<1>2. NoCounts \in [Chunks -> Nat]
  BY DEF NoCounts
<1>3. QED BY <1>1, <1>2 DEF Init, TypeOK, Phases

LEMMA NextTypeOK == TypeOK /\ [Next]_vars => TypeOK'
<1> SUFFICES ASSUME TypeOK, [Next]_vars PROVE TypeOK'
  OBVIOUS
<1> USE DEF TypeOK
<1>d. Len(data) \in Nat /\ (done < Len(data) => Pending \in Chunks)
  BY ContentsAreSequences DEF Pending
<1>1. ASSUME NEW i \in Ids, NEW d \in Contents, BeginStore(i, d) PROVE TypeOK'
  BY <1>1, ContentsAreSequences DEF BeginStore, disk, Phases
<1>2. CASE StoreChunk
  BY <1>2, <1>d DEF StoreChunk, Phases
<1>3. CASE StoreChunkFails
  BY <1>3, <1>d DEF StoreChunkFails, job, Phases
<1>4. CASE WriteManifest
  BY <1>4 DEF WriteManifest, job, Phases
<1>5. CASE ManifestFails
  BY <1>5, ReleasedIs DEF ManifestFails, job, Phases
<1>6. CASE SaveCounts
  BY <1>6 DEF SaveCounts, job, Phases, NoCounts
<1>7. CASE DeleteSnapshot
  <2>1. ASSUME NEW i \in Ids, BeginDelete(i) PROVE TypeOK'
    BY <2>1, ContentsAreSequences DEF BeginDelete, disk, Phases
  <2>2. CASE RemoveManifest
    BY <2>2, ReleasedIs DEF RemoveManifest, job, Phases
  <2>3. CASE RemoveFails
    BY <2>3 DEF RemoveFails, disk, job, Phases
  <2>4. QED BY <1>7, <2>1, <2>2, <2>3 DEF DeleteSnapshot
<1>8. CASE BeginCollect
  BY <1>8 DEF BeginCollect, Unreferenced, disk, job, Phases
<1>9. CASE CollectChunk
  BY <1>9 DEF CollectChunk, job
<1>10. CASE EndCollect
  BY <1>10 DEF EndCollect, disk, job, Phases
<1>11. CASE Crash
  <2>1. /\ chunkFile' \in [Chunks -> {"absent", "torn", "whole"}]
        /\ manifest' \in [Ids -> Contents \cup {Nothing, Torn}]
        /\ countFile' \in [Chunks -> Nat]
    <3>1. CASE CrashInChunk
      BY <3>1, <1>d DEF CrashInChunk
    <3>2. CASE CrashInManifest
      BY <3>2 DEF CrashInManifest
    <3>3. CASE CrashInSave
      BY <3>3 DEF CrashInSave, NoCounts
    <3>4. CASE CrashBetweenWrites
      BY <3>4 DEF CrashBetweenWrites, disk
    <3>5. QED BY <1>11, <3>1, <3>2, <3>3, <3>4 DEF Crash
  <2>2. Restart
    BY <1>11 DEF Crash
  <2>3. QED BY <2>1, <2>2 DEF Restart, job, Phases
<1>12. CASE UNCHANGED vars
  BY <1>12 DEF vars, disk, job
<1>13. QED
  BY <1>1, <1>2, <1>3, <1>4, <1>5, <1>6, <1>7, <1>8, <1>9, <1>10, <1>11, <1>12
    DEF Next, StoreSnapshot, CollectGarbage

(* Every variable keeps its type, whatever goes wrong: no count goes       *)
(* negative, no store passes the last chunk (FileSnapshotStorage).         *)
THEOREM TypeCorrect == Spec => []TypeOK
<1>1. QED BY InitTypeOK, NextTypeOK, PTL DEF Spec
-----------------------------------------------------------------------------
(* The invariant.                                                          *)

LEMMA ClaimsTyped ==
  ASSUME TypeOK, NEW c
  PROVE  /\ References(c) = RefsOf(manifest, c)
         /\ Cardinality(References(c)) \in Nat
         /\ IsFiniteSet(Underway(c))
         /\ Cardinality(Underway(c)) \in Nat
         /\ phase # "chunks" \/ done = 0 => Cardinality(Underway(c)) = 0
<1>1. References(c) = RefsOf(manifest, c)
  BY DEF References, RefsOf, Stored
<1>2. Cardinality(RefsOf(manifest, c)) \in Nat
  BY RefsFinite DEF TypeOK, Manifests
<1>3. IsFiniteSet(Underway(c))
  <2>1. Underway(c) \in SUBSET (1..done) /\ done \in Int
    BY ContentsAreSequences DEF TypeOK, Underway
  <2>2. IsFiniteSet(1..done)
    BY <2>1, FS_Interval
  <2>3. QED BY <2>1, <2>2, FS_Subset
<1>4. phase # "chunks" \/ done = 0 => Underway(c) = {}
  BY DEF Underway
<1>5. QED BY <1>1, <1>2, <1>3, <1>4, FS_CardinalityType, FS_EmptySet

\* When no store is under way the claims are the references.
LEMMA CoversAtRest ==
  ASSUME TypeOK, phase # "chunks",
         \A c \in Chunks : counts[c] >= Cardinality(References(c))
  PROVE  CountsCoverReferences
BY ClaimsTyped DEF CountsCoverReferences, Claims, TypeOK

\* What a store has claimed once all its chunks are there.
LEMMA FullyUnderway ==
  ASSUME phase = "chunks", data \in Contents, done = Len(data), NEW c
  PROVE  Cardinality(Underway(c)) = Occurrences(data, c)
BY ContentsAreSequences DEF Underway, Occurrences, Places

\* Storing a chunk adds one to the claims on that chunk and on no other.
LEMMA StoreChunkClaims ==
  ASSUME TypeOK, StoreChunk, NEW c \in Chunks
  PROVE  Cardinality(Underway(c)')
           = Cardinality(Underway(c)) + (IF c = Pending THEN 1 ELSE 0)
<1>1. done \in Nat /\ done' = done + 1 /\ phase' = "chunks" /\ phase = "chunks"
      /\ data' = data
  BY ContentsAreSequences DEF TypeOK, StoreChunk
<1>2. CASE c = Pending
  <2>1. Underway(c)' = Underway(c) \cup {done + 1} /\ done + 1 \notin Underway(c)
    BY <1>1, <1>2 DEF Underway, Pending
  <2>2. IsFiniteSet(Underway(c)) /\ Cardinality(Underway(c)) \in Nat
    BY ClaimsTyped
  <2>3. Cardinality(Underway(c) \cup {done + 1}) = Cardinality(Underway(c)) + 1
    BY <2>1, <2>2, FS_AddElement
  <2>4. Cardinality(Underway(c)') = Cardinality(Underway(c)) + 1
    BY <2>1, <2>3
  <2>5. QED BY <1>2, <2>4
<1>3. CASE c # Pending
  <2>1. Underway(c)' = Underway(c)
    BY <1>1, <1>3 DEF Underway, Pending
  <2>2. QED BY <1>3, <2>1, ClaimsTyped
<1>4. QED BY <1>2, <1>3

\* What the manifests are after a write to one of them.
LEMMA ManifestSteps ==
  ASSUME TypeOK, NEW i \in Ids, NEW c
  PROVE  /\ \A d \in Contents : manifest[i] \notin Contents
              => Cardinality(RefsOf([manifest EXCEPT ![i] = d], c))
                   = Cardinality(References(c)) + Occurrences(d, c)
         /\ manifest[i] \in Contents
              => Cardinality(References(c))
                   = Cardinality(RefsOf([manifest EXCEPT ![i] = Nothing], c))
                       + Occurrences(manifest[i], c)
         /\ manifest[i] \notin Contents
              => RefsOf([manifest EXCEPT ![i] = Torn], c) = References(c)
<1>1. manifest \in Manifests
  BY DEF TypeOK, Manifests
<1>2. References(c) = RefsOf(manifest, c)
  BY ClaimsTyped
<1>3. ASSUME NEW d \in Contents, manifest[i] \notin Contents
      PROVE  Cardinality(RefsOf([manifest EXCEPT ![i] = d], c))
               = Cardinality(RefsOf(manifest, c)) + Occurrences(d, c)
  BY <1>1, <1>3, AddSnapshot
<1>4. ASSUME manifest[i] \in Contents
      PROVE  Cardinality(RefsOf(manifest, c))
               = Cardinality(RefsOf([manifest EXCEPT ![i] = Nothing], c))
                   + Occurrences(manifest[i], c)
  BY <1>1, <1>4, DropSnapshot
<1>5. ASSUME manifest[i] \notin Contents
      PROVE  RefsOf([manifest EXCEPT ![i] = Torn], c) = RefsOf(manifest, c)
  BY <1>1, <1>5, TornSnapshot
<1>6. QED BY <1>2, <1>3, <1>4, <1>5

\* An uncounted chunk is in no stored snapshot.
LEMMA UncountedUnused ==
  ASSUME TypeOK, CountsCoverReferences, NEW c \in Chunks, counts[c] = 0
  PROVE  \A i \in Stored : \A k \in DOMAIN manifest[i] : manifest[i][k] # c
<1>1. Cardinality(RefsOf(manifest, c)) = 0
  BY ClaimsTyped DEF CountsCoverReferences, Claims, TypeOK
<1>2. manifest \in Manifests
  BY DEF TypeOK, Manifests
<1>3. ASSUME NEW i \in Stored, NEW k \in DOMAIN manifest[i] PROVE manifest[i][k] # c
  <2>1. i \in Ids /\ manifest[i] \in Contents
    BY DEF Stored
  <2>2. QED BY <1>1, <1>2, <2>1, NoReferences
<1>4. QED BY <1>3

LEMMA InitIInv == Init => IInv
<1> SUFFICES ASSUME Init PROVE IInv
  OBVIOUS
<1>1. TypeOK
  BY InitTypeOK
<1>2. Stored = {}
  BY StoreAssumption DEF Init, Stored
<1>3. \A c \in Chunks : Cardinality(References(c)) = 0
  BY <1>2, FS_EmptySet DEF References
<1>4. CountsCoverReferences
  BY <1>1, <1>3, CoversAtRest DEF Init, NoCounts
<1>5. FileCovers
  BY <1>3 DEF FileCovers, Init, NoCounts
<1>6. QED BY <1>1, <1>2, <1>4, <1>5 DEF Init, IInv, NothingMissing, OrphansUncounted

\* Every step preserves the invariant, as long as no fault loses counts.
LEMMA NextIInv ==
  ASSUME CountsAreKept, IInv, [Next]_vars
  PROVE  IInv'
<1> USE DEF IInv
<1>t. TypeOK'
  BY NextTypeOK
<1>r. \A c : /\ References(c)' = RefsOf(manifest', c)
             /\ Cardinality(References(c)') \in Nat
             /\ phase' # "chunks" \/ done' = 0 => Cardinality(Underway(c)') = 0
  <2> SUFFICES ASSUME NEW c
               PROVE  /\ References(c)' = RefsOf(manifest', c)
                      /\ Cardinality(References(c)') \in Nat
                      /\ phase' # "chunks" \/ done' = 0
                           => Cardinality(Underway(c)') = 0
    OBVIOUS
  <2>1. References(c)' = RefsOf(manifest', c)
    BY DEF References, RefsOf, Stored
  <2>2. manifest' \in Manifests
    BY <1>t DEF TypeOK, Manifests
  <2>3. phase' # "chunks" \/ done' = 0 => Underway(c)' = {}
    BY DEF Underway
  <2>4. QED BY <2>1, <2>2, <2>3, RefsFinite, FS_EmptySet
<1>s. manifest' = manifest
        => \A c : References(c)' = References(c)
  BY DEF References, Stored
\* For a step that leaves no store under way, what is to be shown of counts.
<1>a. ASSUME phase' # "chunks",
             \A c \in Chunks : counts'[c] >= Cardinality(References(c)')
      PROVE  CountsCoverReferences'
  BY <1>a, <1>r, <1>t DEF CountsCoverReferences, Claims, TypeOK
<1>o. \A c \in Chunks : /\ counts[c] \in Nat /\ countFile[c] \in Nat
                        /\ Cardinality(References(c)) \in Nat
                        /\ Cardinality(Underway(c)) \in Nat
                        /\ counts[c] >= Cardinality(References(c)) + Cardinality(Underway(c))
  BY ClaimsTyped DEF CountsCoverReferences, Claims, TypeOK
<1>1. ASSUME NEW i \in Ids, NEW d \in Contents, BeginStore(i, d) PROVE IInv'
  <2> USE DEF BeginStore, disk
  <2>1. CountsCoverReferences'
    BY <1>1, <1>r, <1>s, <1>o DEF CountsCoverReferences, Claims
  <2>2. FileCovers'
    BY <1>1, <1>s DEF FileCovers
  <2>3. NothingMissing'
    BY <1>1 DEF NothingMissing, Stored
  <2>4. QED BY <1>1, <1>t, <2>1, <2>2, <2>3 DEF OrphansUncounted
<1>2. CASE StoreChunk
  <2>1. done < Len(data) /\ done \in Nat /\ Pending \in Chunks
    BY <1>2, ContentsAreSequences DEF TypeOK, StoreChunk, Pending
  <2>2. CountsCoverReferences'
    <3> SUFFICES ASSUME NEW c \in Chunks PROVE counts'[c] >= Claims(c)'
      BY DEF CountsCoverReferences
    <3>1. Cardinality(Underway(c)')
            = Cardinality(Underway(c)) + (IF c = Pending THEN 1 ELSE 0)
      BY <1>2, StoreChunkClaims
    <3>2. References(c)' = References(c)
      BY <1>2, <1>s DEF StoreChunk
    <3>3. counts'[c] = counts[c] + (IF c = Pending THEN 1 ELSE 0)
      BY <1>2, <2>1 DEF StoreChunk, TypeOK
    <3>4. QED BY <3>1, <3>2, <3>3, <1>o DEF Claims
  <2>3. FileCovers'
    BY <1>2, <1>s DEF StoreChunk, FileCovers
  <2>4. \A c \in Chunks : chunkFile[c] # "absent" \/ c = Pending
                            => chunkFile'[c] # "absent"
    BY <1>2, <2>1 DEF StoreChunk, TypeOK
  <2>5. NothingMissing'
    <3>1. \A i \in Stored : \A k \in DOMAIN manifest[i] : manifest[i][k] \in Chunks
      BY ContentsAreSequences DEF Stored
    <3>2. \A k \in 1..done + 1 : data[k] \in Chunks /\ (k \in 1..done \/ data[k] = Pending)
      BY <2>1, ContentsAreSequences DEF TypeOK, Pending
    <3>3. QED BY <1>2, <2>4, <3>1, <3>2 DEF StoreChunk, NothingMissing, Stored
  <2>6. QED BY <1>2, <1>t, <2>2, <2>3, <2>5 DEF StoreChunk, OrphansUncounted
<1>3. CASE StoreChunkFails
  <2>1. /\ phase' = "idle" /\ manifest' = manifest /\ counts' = counts
        /\ countFile' = countFile /\ done' = done /\ id' = id /\ data' = data
        /\ phase = "chunks"
    BY <1>3 DEF StoreChunkFails, job
  <2>2. CountsCoverReferences'
    BY <2>1, <1>a, <1>s, <1>o
  <2>3. FileCovers'
    BY <2>1, <1>s DEF FileCovers
  <2>4. \A c \in Chunks : chunkFile[c] # "absent" => chunkFile'[c] # "absent"
    BY <1>3 DEF StoreChunkFails, TypeOK
  <2>5. NothingMissing'
    <3>1. \A i \in Stored : \A k \in DOMAIN manifest[i] : manifest[i][k] \in Chunks
      BY ContentsAreSequences DEF Stored
    <3>2. QED BY <2>1, <2>4, <3>1 DEF NothingMissing, Stored
  <2>6. QED BY <1>t, <2>1, <2>2, <2>3, <2>5 DEF OrphansUncounted
<1>4. CASE WriteManifest
  <2>1. /\ phase = "chunks" /\ phase' = "saveStored" /\ done = Len(data)
        /\ manifest' = [manifest EXCEPT ![id] = data]
        /\ chunkFile' = chunkFile /\ counts' = counts
    BY <1>4 DEF WriteManifest
  <2>2. manifest[id] \notin Contents
    BY <2>1, StoreAssumption DEF NothingMissing
  <2>3. ASSUME NEW c \in Chunks PROVE counts'[c] >= Cardinality(References(c)')
    <3>1. Cardinality(RefsOf(manifest', c))
            = Cardinality(References(c)) + Occurrences(data, c)
      BY <2>1, <2>2, ManifestSteps DEF TypeOK
    <3>2. Cardinality(Underway(c)) = Occurrences(data, c)
      BY <2>1, FullyUnderway DEF TypeOK
    <3>3. References(c)' = RefsOf(manifest', c)
      BY <1>r
    <3>4. QED BY <2>1, <3>1, <3>2, <3>3, <1>o
  <2>4. CountsCoverReferences'
    BY <2>1, <2>3, <1>a
  <2>5. NothingMissing'
    <3>1. \A i \in Stored' : \/ i \in Stored /\ manifest'[i] = manifest[i]
                             \/ manifest'[i] = data
      BY <2>1 DEF Stored, TypeOK
    <3>2. \A k \in DOMAIN data : chunkFile[data[k]] # "absent"
      BY <2>1, ContentsAreSequences DEF NothingMissing, TypeOK
    <3>3. QED BY <2>1, <3>1, <3>2 DEF NothingMissing
  <2>6. QED BY <1>t, <2>1, <2>4, <2>5 DEF FileCovers, OrphansUncounted
<1>5. CASE ManifestFails
  <2>1. /\ phase = "chunks" /\ phase' = "save" /\ done = Len(data)
        /\ manifest' \in {manifest, [manifest EXCEPT ![id] = Torn]}
        /\ chunkFile' = chunkFile /\ counts' = Released(data)
        /\ countFile' = countFile
    BY <1>5 DEF ManifestFails
  <2>2. manifest[id] \notin Contents
    BY <2>1, StoreAssumption DEF NothingMissing
  <2>3. \A c \in Chunks : References(c)' = References(c)
    BY <2>1, <2>2, <1>r, <1>s, ManifestSteps DEF TypeOK
  <2>4. ASSUME NEW c \in Chunks PROVE counts'[c] >= Cardinality(References(c)')
    <3>1. Cardinality(Underway(c)) = Occurrences(data, c)
      BY <2>1, FullyUnderway DEF TypeOK
    <3>2. counts[c] >= Cardinality(References(c)) + Occurrences(data, c)
      BY <3>1, <1>o
    <3>3. Released(data)[c] >= Cardinality(References(c))
      BY <3>2, <1>o, ReleasedIs DEF TypeOK
    <3>4. QED BY <2>1, <2>3, <3>3
  <2>5. CountsCoverReferences'
    BY <2>1, <2>4, <1>a
  <2>6. FileCovers'
    BY <2>1, <2>3 DEF FileCovers
  <2>7. NothingMissing'
    <3>1. \A i \in Stored' : i \in Stored /\ manifest'[i] = manifest[i]
      BY <2>1, StoreAssumption DEF Stored, TypeOK
    <3>2. QED BY <2>1, <3>1 DEF NothingMissing
  <2>8. QED BY <1>t, <2>1, <2>5, <2>6, <2>7 DEF OrphansUncounted
<1>6. CASE SaveCounts
  <2>1. /\ phase' = "idle" /\ phase \in {"save", "saveStored", "saveDeleted"}
        /\ manifest' = manifest /\ chunkFile' = chunkFile /\ counts' = counts
        /\ countFile' = counts
    BY <1>6 DEF SaveCounts, Saving, CountsAreKept
  <2>2. CountsCoverReferences'
    BY <2>1, <1>a, <1>s, <1>o
  <2>3. FileCovers'
    BY <2>1, <1>s, <1>o DEF FileCovers
  <2>4. QED BY <1>t, <2>1, <2>2, <2>3 DEF NothingMissing, Stored, OrphansUncounted
<1>7. CASE RemoveManifest
  <2>1. /\ phase' = "saveDeleted" /\ phase = "deleting"
        /\ id \in Ids /\ data \in Contents /\ manifest[id] = data
        /\ manifest' = [manifest EXCEPT ![id] = Nothing]
        /\ chunkFile' = chunkFile /\ counts' = Released(data)
        /\ countFile' = countFile
    BY <1>7 DEF RemoveManifest, NothingMissing, TypeOK
  <2>2. ASSUME NEW c \in Chunks
        PROVE  /\ counts'[c] >= Cardinality(References(c)')
               /\ countFile'[c] >= Cardinality(References(c)')
    <3>1. References(c)' = RefsOf(manifest', c) /\ Cardinality(References(c)') \in Nat
      BY <1>r
    <3>2. Cardinality(References(c))
            = Cardinality(References(c)') + Occurrences(data, c)
      BY <2>1, <3>1, ManifestSteps
    <3>3. Occurrences(data, c) \in Nat
      BY <2>1, PlacesFinite
    <3>4. Released(data)[c] >= Cardinality(References(c)')
      <4>1. counts[c] >= Cardinality(References(c)') + Occurrences(data, c)
        BY <3>1, <3>2, <3>3, <1>o
      <4>2. QED BY <2>1, <3>1, <4>1, ReleasedIs DEF TypeOK
    <3>5. countFile[c] >= Cardinality(References(c)')
      BY <2>1, <3>1, <3>2, <3>3, <1>o DEF FileCovers
    <3>6. QED BY <2>1, <3>4, <3>5
  <2>3. CountsCoverReferences'
    BY <2>1, <2>2, <1>a
  <2>4. NothingMissing'
    <3>1. \A j \in Stored' : j \in Stored /\ manifest'[j] = manifest[j]
      BY <2>1, StoreAssumption DEF Stored, TypeOK
    <3>2. QED BY <2>1, <3>1 DEF NothingMissing
  <2>5. QED BY <1>t, <2>1, <2>2, <2>3, <2>4 DEF FileCovers, OrphansUncounted
<1>0. CASE RemoveFails \/ \E i \in Ids : BeginDelete(i)
  <2>1. /\ phase \in {"idle", "deleting"} /\ phase' \in {"idle", "deleting"}
        /\ phase' = "deleting" => manifest[id'] = data'
        /\ UNCHANGED <<chunkFile, manifest, countFile, counts>>
    BY <1>0 DEF RemoveFails, BeginDelete, disk
  <2>2. CountsCoverReferences'
    BY <2>1, <1>a, <1>s, <1>o
  <2>3. FileCovers'
    BY <2>1, <1>s DEF FileCovers
  <2>4. QED BY <1>t, <2>1, <2>2, <2>3 DEF NothingMissing, Stored, OrphansUncounted
<1>8. CASE BeginCollect
  <2> USE DEF BeginCollect, disk
  <2>1. CountsCoverReferences'
    BY <1>8, <1>a, <1>s, <1>o
  <2>2. FileCovers'
    BY <1>8, <1>s DEF FileCovers
  <2>3. QED BY <1>8, <1>t, <2>1, <2>2
              DEF NothingMissing, Stored, OrphansUncounted, Unreferenced
<1>9. CASE CollectChunk
  <2>1. /\ phase = "collecting" /\ phase' = "collecting"
        /\ manifest' = manifest /\ counts' = counts /\ countFile' = countFile
        /\ orphans' \subseteq orphans
    BY <1>9 DEF CollectChunk
  <2>2. PICK c \in orphans : \/ chunkFile' = [chunkFile EXCEPT ![c] = "absent"]
                             \/ chunkFile' = chunkFile
    BY <1>9 DEF CollectChunk
  <2>3. c \in Chunks /\ counts[c] = 0
    BY <2>1 DEF TypeOK, OrphansUncounted
  <2>4. CountsCoverReferences'
    BY <2>1, <1>a, <1>s, <1>o
  <2>5. FileCovers'
    BY <2>1, <1>s DEF FileCovers
  <2>6. NothingMissing'
    <3>1. \A i \in Stored : \A k \in DOMAIN manifest[i] :
            manifest[i][k] \in Chunks /\ manifest[i][k] # c
      BY <2>3, UncountedUnused, ContentsAreSequences DEF Stored
    <3>2. \A b \in Chunks \ {c} : chunkFile'[b] = chunkFile[b]
      BY <2>2, <2>3 DEF TypeOK
    <3>3. QED BY <2>1, <3>1, <3>2 DEF NothingMissing, Stored
  <2>7. QED BY <1>t, <2>1, <2>4, <2>5, <2>6 DEF OrphansUncounted
<1>10. CASE EndCollect
  <2>1. /\ phase = "collecting" /\ phase' \in {"idle", "save"}
        /\ manifest' = manifest /\ chunkFile' = chunkFile /\ countFile' = countFile
    BY <1>10 DEF EndCollect, disk
  <2>2. ASSUME NEW c \in Chunks PROVE counts'[c] >= Cardinality(References(c)')
    <3>1. counts'[c] = IF chunkFile[c] = "absent" THEN 0 ELSE counts[c]
      BY <1>10 DEF EndCollect
    <3>2. CASE chunkFile[c] # "absent"
      BY <2>1, <3>1, <3>2, <1>s, <1>o
    <3>3. CASE chunkFile[c] = "absent"
      <4>1. References(c) = {}
        BY <3>3 DEF References, Places, NothingMissing
      <4>2. QED BY <2>1, <3>1, <3>3, <4>1, <1>s, FS_EmptySet
    <3>4. QED BY <3>2, <3>3
  <2>3. CountsCoverReferences'
    BY <2>1, <2>2, <1>a
  <2>4. FileCovers'
    BY <2>1, <1>s DEF FileCovers
  <2>5. QED BY <1>t, <2>1, <2>3, <2>4 DEF NothingMissing, Stored, OrphansUncounted
<1>11. CASE Crash
  <2>1. /\ phase' = "idle" /\ phase # "saveStored" /\ counts' = countFile
        /\ countFile' = countFile
        /\ \/ manifest' = manifest
           \/ phase = "chunks" /\ manifest' = [manifest EXCEPT ![id] = Torn]
    BY <1>11 DEF Crash, CrashInChunk, CrashInManifest, CrashInSave,
         CrashBetweenWrites, Restart, CountsAreKept, disk
  <2>2. phase = "chunks" => manifest[id] \notin Contents
    BY StoreAssumption DEF NothingMissing
  <2>3. \A c \in Chunks : References(c)' = References(c)
    BY <2>1, <2>2, <1>r, <1>s, ManifestSteps DEF TypeOK
  <2>4. FileCovers'
    BY <2>1, <2>3 DEF FileCovers
  <2>5. CountsCoverReferences'
    BY <2>1, <2>3, <1>a DEF FileCovers
  <2>6. \A c \in Chunks : chunkFile[c] # "absent" => chunkFile'[c] # "absent"
    BY <1>11 DEF Crash, CrashInChunk, CrashInManifest, CrashInSave,
         CrashBetweenWrites, disk, TypeOK
  <2>7. NothingMissing'
    <3>1. \A i \in Stored' : i \in Stored /\ manifest'[i] = manifest[i]
      BY <2>1, <2>2, StoreAssumption DEF Stored, TypeOK
    <3>2. \A i \in Stored : \A k \in DOMAIN manifest[i] : manifest[i][k] \in Chunks
      BY ContentsAreSequences DEF Stored
    <3>3. QED BY <2>1, <2>6, <3>1, <3>2 DEF NothingMissing
  <2>8. QED BY <1>t, <2>1, <2>4, <2>5, <2>7 DEF OrphansUncounted
<1>12. CASE UNCHANGED vars
  <2> USE <1>12 DEF vars, disk, job
  <2>1. CountsCoverReferences'
    <3>1. \A c : Claims(c)' = Claims(c)
      BY DEF Claims, References, Stored, Underway
    <3>2. QED BY <3>1 DEF CountsCoverReferences
  <2>2. FileCovers'
    BY <1>s DEF FileCovers
  <2>3. QED BY <1>t, <2>1, <2>2 DEF NothingMissing, Stored, OrphansUncounted
<1>13. QED
  BY <1>0, <1>1, <1>2, <1>3, <1>4, <1>5, <1>6, <1>7, <1>8, <1>9, <1>10, <1>11, <1>12
    DEF Next, StoreSnapshot, DeleteSnapshot, CollectGarbage

(* A chunk is never counted for less than the manifests on disk and the    *)
(* store under way refer to it: through failing chunk and manifest writes, *)
(* rollbacks, deletions, collections, crashes and restarts, as long as no  *)
(* process dies between a new manifest and its counts or in saving them    *)
(* (_ref_counts, increment_chunk_reference, decrement_chunk_reference).    *)
THEOREM CountsCover ==
  ASSUME CountsAreKept
  PROVE  Spec => []CountsCoverReferences
<1>1. Init => IInv
  BY InitIInv
<1>2. IInv /\ [Next]_vars => IInv'
  BY NextIInv
<1>3. IInv => CountsCoverReferences
  BY DEF IInv
<1>4. QED BY <1>1, <1>2, <1>3, PTL DEF Spec
-----------------------------------------------------------------------------
(* The promise.                                                            *)

\* A step that keeps the manifest of a snapshot and the files of its chunks
\* keeps what reading it gives.
LEMMA ReadingKept ==
  ASSUME NEW i \in Ids, manifest'[i] = manifest[i],
         i \in Stored => \A k \in DOMAIN manifest[i] :
                           chunkFile'[manifest[i][k]] = chunkFile[manifest[i][k]]
  PROVE  Reading(i)' = Reading(i)
BY DEF Reading, Stored

Readable == [i \in Ids |-> Reading(i)]

\* A step that keeps what every snapshot reads is a step of the promise if it
\* goes on with the same request, takes up one, or is done with one.
LEMMA PromiseKept ==
  ASSUME \A i \in Ids : Reading(i)' = Reading(i),
         \/ Asked' \in {Asked, Promise!Idle}
         \/ Asked = Promise!Idle /\ Asked' \in Promise!Requests
  PROVE  [Promise!Next]_(Promise!vars)
<1>1. Readable' = Readable
  BY DEF Readable
<1>2. QED
  BY <1>1 DEF Readable, Promise!Next, Promise!Ask, Promise!Done, Promise!vars

\* The request, by phase.
LEMMA AskedIs ==
  /\ phase \in {"chunks", "saveStored"} =>
       Asked = [op |-> "store", id |-> id, data |-> data]
  /\ phase \in {"deleting", "saveDeleted"} => Asked = [op |-> "delete", id |-> id]
  /\ phase \in {"idle", "save", "collecting"} => Asked = Promise!Idle
BY DEF Asked, Promise!Idle

\* The same after a step.
LEMMA AskedWillBe ==
  /\ phase' \in {"chunks", "saveStored"} =>
       Asked' = [op |-> "store", id |-> id', data |-> data']
  /\ phase' \in {"deleting", "saveDeleted"} => Asked' = [op |-> "delete", id |-> id']
  /\ phase' \in {"idle", "save", "collecting"} => Asked' = Promise!Idle
BY DEF Asked, Promise!Idle

LEMMA InitPromise == Init => Promise!Init
<1> SUFFICES ASSUME Init PROVE Promise!Init
  OBVIOUS
<1>1. \A i \in Ids : Reading(i) = Nothing
  BY StoreAssumption DEF Init, Reading, Stored
<1>2. Asked = Promise!Idle
  BY AskedIs DEF Init
<1>3. QED BY <1>1, <1>2 DEF Promise!Init

\* Every step of the store is a step of the promise or does not touch it.
LEMMA NextPromise ==
  ASSUME CountsAreKept, IInv, [Next]_vars
  PROVE  [Promise!Next]_(Promise!vars)
<1> USE DEF IInv
<1>1. ASSUME NEW i \in Ids, NEW d \in Contents, BeginStore(i, d)
      PROVE  [Promise!Next]_(Promise!vars)
  <2>1. /\ manifest' = manifest /\ chunkFile' = chunkFile
        /\ phase = "idle" /\ phase' = "chunks" /\ id' = i /\ data' = d
    BY <1>1 DEF BeginStore, disk
  <2>2. \A j \in Ids : Reading(j)' = Reading(j)
    BY <2>1 DEF Reading, Stored
  <2>3. Asked = Promise!Idle /\ Asked' \in Promise!Requests
    BY <2>1, AskedIs, AskedWillBe DEF Promise!Requests
  <2>4. QED BY <2>2, <2>3, PromiseKept
<1>2. ASSUME NEW i \in Ids, BeginDelete(i)
      PROVE  [Promise!Next]_(Promise!vars)
  <2>1. /\ manifest' = manifest /\ chunkFile' = chunkFile
        /\ phase = "idle" /\ phase' = "deleting" /\ id' = i
    BY <1>2 DEF BeginDelete, disk
  <2>2. \A j \in Ids : Reading(j)' = Reading(j)
    BY <2>1 DEF Reading, Stored
  <2>3. Asked = Promise!Idle /\ Asked' \in Promise!Requests
    BY <2>1, AskedIs, AskedWillBe DEF Promise!Requests
  <2>4. QED BY <2>2, <2>3, PromiseKept
<1>3. CASE \/ SaveCounts \/ BeginCollect \/ EndCollect \/ RemoveFails
           \/ UNCHANGED vars
  <2>1. manifest' = manifest /\ chunkFile' = chunkFile
    BY <1>3 DEF SaveCounts, BeginCollect, EndCollect, RemoveFails, vars, disk
  <2>2. \A i \in Ids : Reading(i)' = Reading(i)
    BY <2>1 DEF Reading, Stored
  <2>3. Asked' \in {Asked, Promise!Idle}
    <3>1. CASE UNCHANGED vars
      BY <3>1 DEF vars, job, Asked
    <3>2. CASE ~UNCHANGED vars
      <4>1. phase' \in {"idle", "save", "collecting"}
        BY <1>3, <3>2 DEF SaveCounts, BeginCollect, EndCollect, RemoveFails
      <4>2. QED BY <4>1, AskedWillBe
    <3>3. QED BY <3>1, <3>2
  <2>4. QED BY <2>2, <2>3, PromiseKept
\* A file that is there stays as it is, but for the orphan that is collected.
<1>4. CASE StoreChunk \/ StoreChunkFails \/ Crash \/ ManifestFails
  <2>1. \A c \in Chunks : chunkFile[c] # "absent" => chunkFile'[c] = chunkFile[c]
    BY <1>4 DEF StoreChunk, StoreChunkFails, ManifestFails, Crash, CrashInChunk,
         CrashInManifest, CrashInSave, CrashBetweenWrites, disk, TypeOK
  <2>2. \/ manifest' = manifest
        \/ phase = "chunks" /\ manifest' = [manifest EXCEPT ![id] = Torn]
    BY <1>4 DEF StoreChunk, StoreChunkFails, ManifestFails, Crash, CrashInChunk,
         CrashInManifest, CrashInSave, CrashBetweenWrites, disk
  <2>3. ASSUME NEW i \in Ids PROVE Reading(i)' = Reading(i)
    <3>1. i \in Stored => \A k \in DOMAIN manifest[i] :
                            chunkFile'[manifest[i][k]] = chunkFile[manifest[i][k]]
      BY <2>1, ContentsAreSequences DEF Stored, NothingMissing
    <3>2. CASE manifest'[i] = manifest[i]
      BY <3>1, <3>2, ReadingKept
    <3>3. CASE manifest'[i] # manifest[i]
      <4>1. manifest[i] = Nothing /\ manifest'[i] = Torn
        BY <2>2, <3>3 DEF NothingMissing, TypeOK
      <4>2. QED BY <4>1, StoreAssumption DEF Reading, Stored
    <3>4. QED BY <3>2, <3>3
  <2>4. Asked' \in {Asked, Promise!Idle}
    <3>1. CASE StoreChunk
      BY <3>1, AskedIs, AskedWillBe DEF StoreChunk
    <3>2. CASE ~StoreChunk
      <4>1. phase' \in {"idle", "save"}
        BY <1>4, <3>2 DEF StoreChunkFails, ManifestFails, Crash, Restart
      <4>2. QED BY <4>1, AskedWillBe
    <3>3. QED BY <3>1, <3>2
  <2>5. QED BY <2>3, <2>4, PromiseKept
<1>5. CASE WriteManifest
  <2>1. /\ manifest' = [manifest EXCEPT ![id] = data]
        /\ manifest[id] = Nothing /\ id \in Ids /\ data \in Contents
        /\ chunkFile' = chunkFile
        /\ phase = "chunks" /\ phase' = "saveStored" /\ id' = id /\ data' = data
    BY <1>5 DEF WriteManifest, NothingMissing, TypeOK, job
  <2>2. \A j \in Ids \ {id} : Reading(j)' = Reading(j)
    BY <2>1 DEF Reading, Stored, TypeOK
  <2>3. Reading(id) = Nothing
    BY <2>1, StoreAssumption DEF Reading, Stored
  <2>4. manifest'[id] = data
    BY <2>1 DEF TypeOK
  <2>5. /\ Asked = [op |-> "store", id |-> id, data |-> data]
        /\ Asked' = Asked
    BY <2>1, AskedIs, AskedWillBe
  <2>6. CASE \A j \in Ids : Reading(j)' = Reading(j)
    BY <2>5, <2>6, PromiseKept
  <2>7. CASE \E j \in Ids : Reading(j)' # Reading(j)
    <3>1. Readable' = [Readable EXCEPT ![id] = data]
      <4>1. \A j \in Ids : Readable'[j] = IF j = id THEN data ELSE Readable[j]
        BY <2>1, <2>2, <2>3, <2>4, <2>7 DEF Readable, Reading
      <4>2. /\ Readable' = [j \in Ids |-> Readable'[j]]
            /\ Readable = [j \in Ids |-> Readable[j]]
        BY DEF Readable
      <4>3. QED BY <4>1, <4>2
    <3>2. Promise!Store
      BY <2>1, <2>3, <2>5, <3>1 DEF Promise!Store, Readable
    <3>3. QED BY <3>2 DEF Promise!Next
  <2>8. QED BY <2>6, <2>7
<1>6. CASE RemoveManifest
  <2>1. /\ chunkFile' = chunkFile /\ manifest' = [manifest EXCEPT ![id] = Nothing]
        /\ phase = "deleting" /\ phase' = "saveDeleted" /\ id' = id /\ id \in Ids
    BY <1>6 DEF RemoveManifest, job, TypeOK
  <2>2. \A j \in Ids \ {id} : Reading(j)' = Reading(j)
    BY <2>1 DEF Reading, Stored, TypeOK
  <2>3. manifest'[id] = Nothing
    BY <2>1 DEF TypeOK
  <2>4. Readable' = [Readable EXCEPT ![id] = Nothing]
    <3>1. \A j \in Ids : Readable'[j] = IF j = id THEN Nothing ELSE Readable[j]
      BY <2>1, <2>2, <2>3, StoreAssumption DEF Readable, Reading, Stored
    <3>2. /\ Readable' = [j \in Ids |-> Readable'[j]]
          /\ Readable = [j \in Ids |-> Readable[j]]
      BY DEF Readable
    <3>3. QED BY <3>1, <3>2
  <2>5. Asked = [op |-> "delete", id |-> id] /\ Asked' = Asked
    BY <2>1, AskedIs, AskedWillBe
  <2>6. Promise!Delete
    BY <2>4, <2>5 DEF Promise!Delete, Readable
  <2>7. QED BY <2>6 DEF Promise!Next
<1>7. CASE CollectChunk
  <2>1. manifest' = manifest
    BY <1>7 DEF CollectChunk
  <2>2. PICK c \in orphans : \/ chunkFile' = [chunkFile EXCEPT ![c] = "absent"]
                             \/ chunkFile' = chunkFile
    BY <1>7 DEF CollectChunk
  <2>3. c \in Chunks /\ counts[c] = 0
    BY <1>7 DEF CollectChunk, TypeOK, OrphansUncounted
  <2>4. \A b \in Chunks \ {c} : chunkFile'[b] = chunkFile[b]
    BY <2>2, <2>3 DEF TypeOK
  <2>5. ASSUME NEW i \in Ids PROVE Reading(i)' = Reading(i)
    <3>1. i \in Stored => \A k \in DOMAIN manifest[i] :
                            manifest[i][k] \in Chunks /\ manifest[i][k] # c
      BY <2>3, UncountedUnused, ContentsAreSequences DEF Stored
    <3>2. QED BY <2>1, <2>4, <3>1, ReadingKept
  <2>6. Asked' = Promise!Idle
    BY <1>7, AskedWillBe DEF CollectChunk
  <2>7. QED BY <2>5, <2>6, PromiseKept
<1>8. QED
  BY <1>1, <1>2, <1>3, <1>4, <1>5, <1>6, <1>7
    DEF Next, StoreSnapshot, DeleteSnapshot, CollectGarbage

(* The store implements its promise: what could be read stays readable and *)
(* unchanged until its own deletion is asked for, whatever other snapshots *)
(* share its chunks, whatever is collected and whatever write fails, and   *)
(* nothing becomes readable but what is being stored                       *)
(* (garbage_collect_orphaned_chunks, get_snapshot_data).                   *)
THEOREM RefinesPromise ==
  ASSUME CountsAreKept
  PROVE  Spec => KeepsSnapshots
<1>1. Init => IInv /\ Promise!Init
  BY InitIInv, InitPromise
<1>2. IInv /\ [Next]_vars => IInv'
  BY NextIInv
<1>3. IInv /\ [Next]_vars => [Promise!Next]_(Promise!vars)
  BY NextPromise
<1>4. QED BY <1>1, <1>2, <1>3, PTL DEF Spec, KeepsSnapshots, Promise!Spec
-----------------------------------------------------------------------------
(* The ledger.                                                             *)

\* Every step keeps the counts exact, unless it cuts a store short.
LEMMA NextLedger ==
  ASSUME CountsAreKept, IInv, IInv', LedgerExact, FileExact, [Next]_vars, ~tainted'
  PROVE  LedgerExact' /\ FileExact'
<1> USE DEF IInv
<1>n. ~tainted
  BY DEF Next, StoreSnapshot, CollectGarbage, BeginStore, StoreChunk,
    StoreChunkFails, WriteManifest, ManifestFails, SaveCounts, DeleteSnapshot,
    BeginDelete, RemoveManifest, RemoveFails, BeginCollect, CollectChunk, EndCollect, Crash, Restart, vars
<1>o. \A c \in Chunks :
        /\ counts[c] = Cardinality(References(c)) + Cardinality(Underway(c))
        /\ counts[c] \in Nat
        /\ Cardinality(References(c)) \in Nat
        /\ Cardinality(Underway(c)) \in Nat
        /\ phase # "chunks" => counts[c] = Cardinality(References(c))
  BY <1>n, ClaimsTyped DEF LedgerExact, Claims, TypeOK
<1>r. \A c : /\ References(c)' = RefsOf(manifest', c)
             /\ Cardinality(References(c)') \in Nat
             /\ phase' # "chunks" \/ done' = 0 => Cardinality(Underway(c)') = 0
  <2>1. \A c : References(c)' = RefsOf(manifest', c)
    BY DEF References, RefsOf, Stored
  <2>2. manifest' \in Manifests
    BY DEF TypeOK, Manifests
  <2>3. \A c : phase' # "chunks" \/ done' = 0 => Underway(c)' = {}
    BY DEF Underway
  <2>4. QED BY <2>1, <2>2, <2>3, RefsFinite, FS_EmptySet
<1>s. manifest' = manifest => \A c : References(c)' = References(c)
  BY DEF References, Stored
<1>a. ASSUME phase' # "chunks" \/ done' = 0,
             \A c \in Chunks : counts'[c] = Cardinality(References(c)')
      PROVE  LedgerExact'
  BY <1>a, <1>r DEF LedgerExact, Claims
<1>1. CASE \/ \E i \in Ids, d \in Contents : BeginStore(i, d)
           \/ \E i \in Ids : BeginDelete(i)
           \/ RemoveFails \/ BeginCollect \/ CollectChunk \/ SaveCounts
  <2>1. /\ phase # "chunks" /\ (phase' # "chunks" \/ done' = 0)
        /\ manifest' = manifest /\ counts' = counts
    BY <1>1 DEF BeginStore, BeginDelete, RemoveFails, BeginCollect, CollectChunk,
         SaveCounts, Saving, disk
  <2>2. LedgerExact'
    BY <2>1, <1>a, <1>s, <1>o
  <2>3. FileExact'
    BY <1>1, <1>n DEF BeginStore, BeginDelete, RemoveFails, BeginCollect, CollectChunk,
         SaveCounts, disk, CountsAreKept, FileExact
  <2>4. QED BY <2>2, <2>3
<1>2. CASE StoreChunk
  <2>1. ASSUME NEW c \in Chunks PROVE counts'[c] = Claims(c)'
    <3>1. Cardinality(Underway(c)')
            = Cardinality(Underway(c)) + (IF c = Pending THEN 1 ELSE 0)
      BY <1>2, StoreChunkClaims
    <3>2. References(c)' = References(c)
      BY <1>2, <1>s DEF StoreChunk
    <3>3. counts'[c] = counts[c] + (IF c = Pending THEN 1 ELSE 0)
      BY <1>2 DEF StoreChunk, TypeOK
    <3>4. counts[c] = Cardinality(References(c)) + Cardinality(Underway(c))
          /\ Cardinality(References(c)) \in Nat /\ Cardinality(Underway(c)) \in Nat
      BY <1>o
    <3>5. Claims(c)' = Cardinality(References(c)) + Cardinality(Underway(c)')
      BY <3>2 DEF Claims
    <3>6. QED BY <3>1, <3>3, <3>4, <3>5
  <2>2. QED BY <1>2, <2>1 DEF StoreChunk, LedgerExact, FileExact
<1>3. CASE WriteManifest
  <2>1. /\ phase = "chunks" /\ phase' = "saveStored" /\ done = Len(data)
        /\ manifest' = [manifest EXCEPT ![id] = data] /\ counts' = counts
    BY <1>3 DEF WriteManifest
  <2>f. manifest[id] \notin Contents /\ id \in Ids /\ data \in Contents
    BY <2>1, StoreAssumption DEF NothingMissing, TypeOK
  <2>2. ASSUME NEW c \in Chunks PROVE counts'[c] = Cardinality(References(c)')
    <3>1. Cardinality(RefsOf(manifest', c))
            = Cardinality(References(c)) + Occurrences(data, c)
      BY <2>f, <2>1, ManifestSteps
    <3>2. Cardinality(Underway(c)) = Occurrences(data, c)
      BY <2>1, FullyUnderway DEF TypeOK
    <3>3. QED BY <2>1, <3>1, <3>2, <1>r, <1>o
  <2>3. QED BY <2>1, <2>2, <1>a DEF FileExact
<1>4. CASE ManifestFails
  <2>1. /\ phase = "chunks" /\ phase' = "save" /\ done = Len(data)
        /\ manifest' \in {manifest, [manifest EXCEPT ![id] = Torn]}
        /\ counts' = Released(data)
    BY <1>4 DEF ManifestFails
  <2>2. \A c \in Chunks : References(c)' = References(c)
    BY <2>1, <1>r, <1>s, ManifestSteps, StoreAssumption DEF TypeOK, NothingMissing
  <2>3. ASSUME NEW c \in Chunks PROVE counts'[c] = Cardinality(References(c)')
    <3>1. Cardinality(Underway(c)) = Occurrences(data, c)
      BY <2>1, FullyUnderway DEF TypeOK
    <3>2. counts[c] = Cardinality(References(c)) + Occurrences(data, c)
      BY <3>1, <1>o
    <3>3. Released(data)[c] = Cardinality(References(c))
      BY <3>2, <1>o, ReleasedIs DEF TypeOK
    <3>4. QED BY <2>1, <2>2, <3>3
  <2>4. QED BY <2>1, <2>3, <1>a DEF FileExact
<1>5. CASE RemoveManifest
  <2>1. /\ phase' = "saveDeleted" /\ phase = "deleting"
        /\ id \in Ids /\ data \in Contents /\ manifest[id] = data
        /\ manifest' = [manifest EXCEPT ![id] = Nothing]
        /\ counts' = Released(data)
    BY <1>5 DEF RemoveManifest, NothingMissing, TypeOK
  <2>2. ASSUME NEW c \in Chunks PROVE counts'[c] = Cardinality(References(c)')
    <3>1. References(c)' = RefsOf(manifest', c) /\ Cardinality(References(c)') \in Nat
      BY <1>r
    <3>2. Cardinality(References(c))
            = Cardinality(References(c)') + Occurrences(data, c)
      BY <2>1, <3>1, ManifestSteps
    <3>3. counts[c] = Cardinality(References(c)') + Occurrences(data, c)
      BY <2>1, <3>2, <1>o
    <3>4. QED BY <2>1, <3>1, <3>3, ReleasedIs DEF TypeOK
  <2>3. QED BY <2>1, <2>2, <1>a DEF FileExact
<1>6. CASE EndCollect
  <2>1. /\ phase = "collecting" /\ phase' # "chunks" /\ manifest' = manifest
    BY <1>6 DEF EndCollect, disk
  <2>2. ASSUME NEW c \in Chunks PROVE counts'[c] = Cardinality(References(c)')
    <3>1. counts'[c] = IF chunkFile[c] = "absent" THEN 0 ELSE counts[c]
      BY <1>6 DEF EndCollect
    <3>2. CASE chunkFile[c] # "absent"
      BY <2>1, <3>1, <3>2, <1>s, <1>o
    <3>3. CASE chunkFile[c] = "absent"
      <4>1. References(c) = {}
        BY <3>3 DEF References, Places, NothingMissing
      <4>2. QED BY <2>1, <3>1, <3>3, <4>1, <1>s, FS_EmptySet
    <3>4. QED BY <3>2, <3>3
  <2>3. FileExact'
    BY <1>6, <1>n DEF EndCollect, disk, FileExact
  <2>4. QED BY <2>1, <2>2, <2>3, <1>a
<1>7. CASE Crash
  <2>1. phase = "idle"
    BY <1>7 DEF Crash, Restart
  <2>2. /\ manifest' = manifest /\ counts' = countFile /\ countFile' = countFile
        /\ phase' = "idle"
    BY <1>7, <2>1 DEF Crash, CrashInChunk, CrashInManifest, CrashInSave,
         CrashBetweenWrites, Restart, Saving, disk
  <2>3. countFile = counts
    BY <2>1, <1>n DEF FileExact
  <2>4. LedgerExact'
    BY <2>1, <2>2, <2>3, <1>a, <1>s, <1>o
  <2>5. QED BY <2>2, <2>4 DEF FileExact
<1>8. CASE UNCHANGED vars
  <2> USE <1>8 DEF vars, disk, job
  <2>1. \A c : Claims(c)' = Claims(c)
    BY DEF Claims, References, Stored, Underway
  <2>2. QED BY <2>1 DEF LedgerExact, FileExact
<1>9. CASE StoreChunkFails
  BY <1>9 DEF StoreChunkFails
<1>10. QED
  BY <1>1, <1>2, <1>3, <1>4, <1>5, <1>6, <1>7, <1>8, <1>9
    DEF Next, StoreSnapshot, DeleteSnapshot, CollectGarbage

(* As long as no store is cut short, a chunk is counted for exactly as     *)
(* many references as there are, over deletions, rollbacks, collections    *)
(* and clean restarts, so that nothing is kept for ever                    *)
(* (store_snapshot_manifest, delete_snapshot_manifest, _load_ref_counts).  *)
THEOREM LedgerIsExact ==
  ASSUME CountsAreKept
  PROVE  Spec => []LedgerExact
<1> DEFINE LInv == IInv /\ LedgerExact /\ FileExact
<1>1. Init => LInv
  <2> SUFFICES ASSUME Init PROVE LInv
    OBVIOUS
  <2>1. IInv
    BY InitIInv
  <2>2. \A c \in Chunks : Claims(c) = 0
    <3>1. \A c : References(c) = {} /\ Underway(c) = {}
      BY StoreAssumption DEF Init, References, Stored, Underway
    <3>2. QED BY <3>1, FS_EmptySet DEF Claims
  <2>3. QED BY <2>1, <2>2 DEF Init, LedgerExact, FileExact, NoCounts
<1>2. LInv /\ [Next]_vars => LInv'
  <2> SUFFICES ASSUME LInv, [Next]_vars PROVE LInv'
    OBVIOUS
  <2>1. IInv'
    BY NextIInv
  <2>2. CASE tainted'
    BY <2>1, <2>2 DEF LedgerExact, FileExact
  <2>3. CASE ~tainted'
    BY <2>1, <2>3, NextLedger
  <2>4. QED BY <2>2, <2>3
<1>3. LInv => LedgerExact
  OBVIOUS
<1> HIDE DEF LInv
<1>4. QED BY <1>1, <1>2, <1>3, PTL DEF Spec
=============================================================================
