--------------------------- MODULE MCSnapshotStore --------------------------
(* Instances of SnapshotStore for TLC: snapshots that share a chunk, one   *)
(* that has the same chunk twice, and one of two chunks.                   *)
EXTENDS SnapshotStore

CONSTANTS a, b

MCContents == {<<a>>, <<a, b>>, <<b, b>>}
=============================================================================
