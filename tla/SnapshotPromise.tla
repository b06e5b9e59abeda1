--------------------------- MODULE SnapshotPromise --------------------------
(***************************************************************************)
(* What a snapshot store promises its users, whatever files it keeps: a    *)
(* snapshot that can be read holds what was stored under its name, it      *)
(* stays readable until somebody asks for its deletion, and no name is     *)
(* written over.  One request is served at a time, and nothing becomes     *)
(* readable or unreadable but at the request that is being served.  A      *)
(* request may fail.  (SnapshotStorageInterface in src/core/reversibility.)*)
(***************************************************************************)
CONSTANTS Ids,        \* the names of snapshots
          Contents,   \* what a snapshot may hold
          Nothing     \* the content of a name that cannot be read

VARIABLES readable,   \* what reading each name gives
          asked       \* the request that is being served

vars == <<readable, asked>>

Idle == [op |-> "none"]

Requests ==      [op : {"store"}, id : Ids, data : Contents]
            \cup [op : {"delete"}, id : Ids]

Init == /\ readable = [id \in Ids |-> Nothing]
        /\ asked = Idle

Ask == asked = Idle /\ asked' \in Requests /\ UNCHANGED readable

Store == /\ asked.op = "store" /\ readable[asked.id] = Nothing
         /\ readable' = [readable EXCEPT ![asked.id] = asked.data]
         /\ UNCHANGED asked

Delete == /\ asked.op = "delete"
          /\ readable' = [readable EXCEPT ![asked.id] = Nothing]
          /\ UNCHANGED asked

\* The request is done with, or has failed.
Done == asked # Idle /\ asked' = Idle /\ UNCHANGED readable

Next == Ask \/ Store \/ Delete \/ Done

Spec == Init /\ [][Next]_vars
=============================================================================
