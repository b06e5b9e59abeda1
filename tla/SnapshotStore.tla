---------------------------- MODULE SnapshotStore ---------------------------
(***************************************************************************)
(* FileSnapshotStorage of src/core/reversibility: snapshots are manifests  *)
(* over content-addressed chunk files, chunks are shared, and a reference  *)
(* count per chunk, kept in memory and saved to a file, tells the garbage  *)
(* collector which chunk files it may delete.                              *)
(*                                                                         *)
(* No operation suspends, so the steps of two operations never mix.  What  *)
(* comes in between is a failing write or the death of the process, so a   *)
(* step here is one write to the disk.  A restart loads the counts from    *)
(* their file and nothing else.                                            *)
(*                                                                         *)
(* A chunk without an entry in _ref_counts and one with the count 0 are    *)
(* treated alike everywhere, and so are an unreadable count file and an    *)
(* empty one: the model writes 0 for all of them.                          *)
(***************************************************************************)
EXTENDS Integers, Sequences, FiniteSets

CONSTANTS
  Ids,             \* the names of snapshots
  Chunks,          \* the hashes of chunks
  Contents,        \* the snapshots taken, each the sequence of its chunks
  Nothing,         \* a name without a manifest file
  Torn,            \* a manifest file that cannot be parsed
  MaxCount,        \* bound: no snapshot is begun that raises a count past this
  Faults           \* what may go wrong

(* chunk_fails: a chunk cannot be written; chunk_torn: its file is left    *)
(* half written; manifest_fails: the manifest cannot be written; crash:    *)
(* the process dies between two writes, but not between a new manifest and *)
(* the counts; crash_unsaved: it dies there; save_torn: it dies in the     *)
(* middle of saving the counts, or that write fails.                       *)
AllFaults == {"chunk_fails", "chunk_torn", "manifest_fails", "crash",
              "crash_unsaved", "save_torn"}

ASSUME StoreAssumption ==
  /\ IsFiniteSet(Ids)
  /\ Contents \subseteq Seq(Chunks) \ {<<>>}
  /\ Nothing \notin Contents /\ Torn \notin Contents /\ Nothing # Torn
  /\ MaxCount \in Nat
  /\ Faults \subseteq AllFaults

VARIABLES
  chunkFile,   \* the chunk files on disk
  manifest,    \* the manifest files on disk
  countFile,   \* the count file on disk
  counts,      \* _ref_counts
  phase,       \* what the storage is doing
  id,          \* the snapshot it is storing or deleting
  data,        \* the chunks of that snapshot
  done,        \* how many of them have been stored
  orphans,     \* the chunks a garbage collection has yet to delete
  tainted      \* history: was a store cut short?

disk == <<chunkFile, manifest, countFile>>
job  == <<id, data, done>>
vars == <<disk, counts, phase, job, orphans, tainted>>

(* chunks: writing chunk files, then the manifest; deleting: removing a    *)
(* manifest; saveStored, saveDeleted, save: the counts are to be saved,    *)
(* after a new manifest, after one that was removed, after anything else;  *)
(* collecting: deleting the orphans.                                       *)
Phases == {"idle", "chunks", "saveStored", "deleting", "saveDeleted", "save",
           "collecting"}

Saving == {"saveStored", "saveDeleted", "save"}

NoCounts == [c \in Chunks |-> 0]

Init == /\ chunkFile = [c \in Chunks |-> "absent"]
        /\ manifest = [i \in Ids |-> Nothing]
        /\ countFile = NoCounts
        /\ counts = NoCounts
        /\ phase = "idle"
        /\ id \in Ids /\ data \in Contents /\ done = 0
        /\ orphans = {}
        /\ tainted = FALSE
-----------------------------------------------------------------------------
Places(d, c) == {k \in DOMAIN d : d[k] = c}
Occurrences(d, c) == Cardinality(Places(d, c))

\* decrement_chunk_reference for every chunk of a snapshot.
Released(d) ==
  [c \in Chunks |-> IF counts[c] > Occurrences(d, c)
                      THEN counts[c] - Occurrences(d, c) ELSE 0]

(* store_snapshot_manifest                                                 *)

BeginStore(i, d) ==
  /\ phase = "idle"
  /\ manifest[i] = Nothing
  /\ \A c \in Chunks : counts[c] + Occurrences(d, c) <= MaxCount
  /\ phase' = "chunks"
  /\ id' = i /\ data' = d /\ done' = 0
  /\ UNCHANGED <<disk, counts, orphans, tainted>>

Pending == data[done + 1]

\* Defect: only a chunk that is written is counted.
StoreChunkCountingNew ==
  /\ phase = "chunks" /\ done < Len(data)
  /\ chunkFile' = [chunkFile EXCEPT ![Pending] =
                     IF @ = "absent" THEN "whole" ELSE @]
  /\ counts' = [counts EXCEPT ![Pending] =
                  IF chunkFile[Pending] = "absent" THEN @ + 1 ELSE @]
  /\ done' = done + 1
  /\ UNCHANGED <<manifest, countFile, phase, id, data, orphans, tainted>>

\* A chunk whose file is there is not written again, whatever is in the file.
StoreChunk ==
  /\ phase = "chunks" /\ done < Len(data)
  /\ chunkFile' = [chunkFile EXCEPT ![Pending] =
                     IF @ = "absent" THEN "whole" ELSE @]
  /\ counts' = [counts EXCEPT ![Pending] = @ + 1]
  /\ done' = done + 1
  /\ UNCHANGED <<manifest, countFile, phase, id, data, orphans, tainted>>

\* The chunk loop is outside any try: the error leaves with the counts of
\* the chunks before it raised.
StoreChunkFails ==
  /\ "chunk_fails" \in Faults
  /\ phase = "chunks" /\ done < Len(data) /\ chunkFile[Pending] = "absent"
  /\ \/ UNCHANGED chunkFile
     \/ /\ "chunk_torn" \in Faults
        /\ chunkFile' = [chunkFile EXCEPT ![Pending] = "torn"]
  /\ phase' = "idle"
  /\ tainted' = TRUE
  /\ UNCHANGED <<manifest, countFile, counts, job, orphans>>

WriteManifest ==
  /\ phase = "chunks" /\ done = Len(data)
  /\ manifest' = [manifest EXCEPT ![id] = data]
  /\ phase' = "saveStored"
  /\ UNCHANGED <<chunkFile, countFile, counts, job, orphans, tainted>>

\* Defect: the counts are not rolled back.
ManifestFailsKeepingCounts ==
  /\ "manifest_fails" \in Faults
  /\ phase = "chunks" /\ done = Len(data)
  /\ manifest' \in {manifest, [manifest EXCEPT ![id] = Torn]}
  /\ phase' = "save"
  /\ UNCHANGED <<chunkFile, countFile, counts, job, orphans, tainted>>

\* The counts are rolled back; the file that was opened may stay behind.
ManifestFails ==
  /\ "manifest_fails" \in Faults
  /\ phase = "chunks" /\ done = Len(data)
  /\ manifest' \in {manifest, [manifest EXCEPT ![id] = Torn]}
  /\ counts' = Released(data)
  /\ phase' = "save"
  /\ UNCHANGED <<chunkFile, countFile, job, orphans, tainted>>

\* _save_ref_counts opens the file for writing, which empties it, and fills
\* it; an error is printed and forgotten.
SaveCounts ==
  /\ phase \in Saving
  /\ \/ countFile' = counts
     \/ "save_torn" \in Faults /\ countFile' = NoCounts
  /\ phase' = "idle"
  /\ UNCHANGED <<chunkFile, manifest, counts, job, orphans, tainted>>
-----------------------------------------------------------------------------
(* delete_snapshot_manifest: the manifest goes first, then the counts.  A  *)
(* manifest that cannot be parsed cannot be deleted.                       *)

\* The manifest is read for the chunks it names.
BeginDelete(i) ==
  /\ phase = "idle"
  /\ manifest[i] \in Contents
  /\ phase' = "deleting"
  /\ id' = i /\ data' = manifest[i] /\ done' = 0
  /\ UNCHANGED <<disk, counts, orphans, tainted>>

RemoveManifest ==
  /\ phase = "deleting"
  /\ manifest' = [manifest EXCEPT ![id] = Nothing]
  /\ counts' = Released(data)
  /\ phase' = "saveDeleted"
  /\ UNCHANGED <<chunkFile, countFile, job, orphans, tainted>>

\* The file cannot be removed: the error leaves before anything is counted.
RemoveFails ==
  /\ phase = "deleting"
  /\ phase' = "idle"
  /\ UNCHANGED <<disk, counts, job, orphans, tainted>>

(* garbage_collect_orphaned_chunks(dry_run=False)                          *)

\* Defect: a chunk with one reference is taken for an orphan.
UnreferencedUpToOne == {c \in Chunks : chunkFile[c] # "absent" /\ counts[c] <= 1}

Unreferenced == {c \in Chunks : chunkFile[c] # "absent" /\ counts[c] = 0}

BeginCollect ==
  /\ phase = "idle"
  /\ orphans' = Unreferenced
  /\ phase' = "collecting"
  /\ UNCHANGED <<disk, counts, job, tainted>>

\* A chunk file that cannot be removed is passed over.
CollectChunk ==
  /\ phase = "collecting"
  /\ \E c \in orphans :
       /\ orphans' = orphans \ {c}
       /\ \/ chunkFile' = [chunkFile EXCEPT ![c] = "absent"]
          \/ UNCHANGED chunkFile
  /\ UNCHANGED <<manifest, countFile, counts, phase, job, tainted>>

\* Counts of chunks without a file are pruned, and saved if there were any.
EndCollect ==
  /\ phase = "collecting" /\ orphans = {}
  /\ counts' = [c \in Chunks |-> IF chunkFile[c] = "absent" THEN 0 ELSE counts[c]]
  /\ phase' = IF counts' = counts THEN "idle" ELSE "save"
  /\ UNCHANGED <<disk, job, orphans, tainted>>
-----------------------------------------------------------------------------
(* The process dies; a new one loads the counts (__init__).                *)

Restart == /\ counts' = countFile'
           /\ phase' = "idle"
           /\ orphans' = {}
           /\ tainted' = (tainted \/ phase # "idle")
           /\ UNCHANGED job

CrashInChunk == /\ "chunk_torn" \in Faults
                /\ phase = "chunks" /\ done < Len(data)
                /\ chunkFile[Pending] = "absent"
                /\ chunkFile' = [chunkFile EXCEPT ![Pending] = "torn"]
                /\ UNCHANGED <<manifest, countFile>>

CrashInManifest == /\ "crash" \in Faults
                   /\ phase = "chunks" /\ done = Len(data)
                   /\ manifest' = [manifest EXCEPT ![id] = Torn]
                   /\ UNCHANGED <<chunkFile, countFile>>

CrashInSave == /\ "save_torn" \in Faults
               /\ phase \in Saving
               /\ countFile' = NoCounts
               /\ UNCHANGED <<chunkFile, manifest>>

CrashBetweenWrites ==
  /\ IF phase = "saveStored" THEN "crash_unsaved" \in Faults ELSE "crash" \in Faults
  /\ UNCHANGED disk

Crash == /\ CrashInChunk \/ CrashInManifest \/ CrashInSave \/ CrashBetweenWrites
         /\ Restart

StoreSnapshot == \/ \E i \in Ids, d \in Contents : BeginStore(i, d)
                 \/ StoreChunk    \/ StoreChunkFails
                 \/ WriteManifest \/ ManifestFails   \/ SaveCounts

DeleteSnapshot == (\E i \in Ids : BeginDelete(i)) \/ RemoveManifest \/ RemoveFails

CollectGarbage == BeginCollect \/ CollectChunk \/ EndCollect

Next == \/ StoreSnapshot
        \/ DeleteSnapshot
        \/ CollectGarbage
        \/ Crash

Spec == Init /\ [][Next]_vars
-----------------------------------------------------------------------------
(* Properties.                                                             *)

TypeOK == /\ chunkFile \in [Chunks -> {"absent", "torn", "whole"}]
          /\ manifest \in [Ids -> Contents \cup {Nothing, Torn}]
          /\ countFile \in [Chunks -> Nat]
          /\ counts \in [Chunks -> Nat]
          /\ phase \in Phases
          /\ id \in Ids /\ data \in Contents /\ done \in 0..Len(data)
          /\ orphans \subseteq Chunks
          /\ tainted \in BOOLEAN

Stored == {i \in Ids : manifest[i] \in Contents}

\* The references to a chunk: one for every place in a manifest.
References(c) == UNION {{i} \X Places(manifest[i], c) : i \in Stored}

\* The references of the snapshot being stored, as far as it has got.
Underway(c) == IF phase = "chunks" THEN {k \in 1..done : data[k] = c} ELSE {}

Claims(c) == Cardinality(References(c)) + Cardinality(Underway(c))

\* A chunk is never counted for less than its references, through failing
\* writes, rollbacks, restarts and collections: the collector's test for an
\* orphan errs on the safe side (_ref_counts and the manifests on disk).
CountsCoverReferences == \A c \in Chunks : counts[c] >= Claims(c)

\* As long as no store was cut short the counts are exact, also over clean
\* restarts, deletions and rollbacks, so that every chunk whose last snapshot
\* is deleted is collected.
LedgerExact == ~tainted => \A c \in Chunks : counts[c] = Claims(c)

\* get_snapshot_data: the data if the manifest parses and every chunk is there
\* and decompresses.
Reading(i) == IF i \in Stored /\ \A k \in DOMAIN manifest[i] :
                                    chunkFile[manifest[i][k]] = "whole"
                THEN manifest[i] ELSE Nothing

\* The request that the storage is serving.
Asked == CASE phase \in {"chunks", "saveStored"} ->
                 [op |-> "store", id |-> id, data |-> data]
           [] phase \in {"deleting", "saveDeleted"} -> [op |-> "delete", id |-> id]
           [] OTHER -> [op |-> "none"]

\* The store keeps what it promises: what could be read stays readable and
\* unchanged until a deletion of that very snapshot is asked for, whatever is
\* collected, fails or crashes; and nothing becomes readable but the data that
\* is being stored, under the name it is stored under.
Promise == INSTANCE SnapshotPromise
             WITH readable <- [i \in Ids |-> Reading(i)], asked <- Asked
KeepsSnapshots == Promise!Spec
-----------------------------------------------------------------------------
(* What the repository says and the code does not do.                      *)

\* "deletes any that are no longer referenced by any snapshot manifest"
\* (garbage_collect_orphaned_chunks): a collection deletes no other chunk.
CollectsOnlyUnreferenced ==
  [][\A c \in Chunks : chunkFile[c] # "absent" /\ chunkFile'[c] = "absent"
                         => References(c) = {}]_vars
=============================================================================
