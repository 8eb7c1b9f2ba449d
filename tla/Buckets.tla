------------------------------ MODULE Buckets ------------------------------
(***************************************************************************)
(* The connection registry of pkg/net/internal/buckets.go, as pure         *)
(* operators over its two maps.                                            *)
(*                                                                         *)
(*   reg    : the set of worker ids held by the shards (Bucket.workers).   *)
(*            A shard maps a WID to the one worker object created for it;  *)
(*            WIDs are never reused, so the map is a set of WIDs and the   *)
(*            identity compare of Bucket.del is a membership test.         *)
(*   uidWid : the process-wide uidWidMap, UID -> WID, NoWID when absent.   *)
(*                                                                         *)
(* Each shard operation runs under its shard lock and touches uidWidMap    *)
(* once, so every operation is one atomic step of the callers' model.      *)
(***************************************************************************)
LOCAL INSTANCE Naturals

\* Worker ids are produced by idGen.Inc() starting from 0, so 0 is never a
\* worker id and stands for "absent".
NoWID == 0

\* NewBuckets: BucketSize shards, each an empty map.
NewBuckets == {}

\* uidWidMap, the process-wide sync.Map, starts empty.
EmptyUidWid(uids) == [u \in uids |-> NoWID]

\* Bucket.put: remember the worker already stored under the same WID, store
\* the new one, and point uidWidMap at it.
Put(reg, uidWid, w, u) ==
    [reg    |-> reg \cup {w},
     uidWid |-> [uidWid EXCEPT ![u] = w],
     old    |-> IF w \in reg THEN w ELSE NoWID]

\* Mutant of Del: the shard entry goes but the uidWidMap entry stays.
DelKeepUid(reg, uidWid, w, u) ==
    IF w \in reg
    THEN [reg |-> reg \ {w}, uidWid |-> uidWid]
    ELSE [reg |-> reg, uidWid |-> uidWid]

\* Bucket.del: only when the shard still holds this very worker, remove it
\* and delete the uidWidMap entry of its UID, whichever WID that entry holds.
Del(reg, uidWid, w, u) ==
    IF w \in reg
    THEN [reg |-> reg \ {w}, uidWid |-> [uidWid EXCEPT ![u] = NoWID]]
    ELSE [reg |-> reg, uidWid |-> uidWid]

\* Buckets.Bucket: the shard of a key among n shards.
Bucket(key, n) == key % n

\* Buckets.Worker and Bucket.get: the worker the shard holds under the key,
\* nil (NoWID) when there is none.
Worker(reg, key) == IF key \in reg THEN key ELSE NoWID

\* Buckets.GetByUID: load the WID of the UID, then the worker of that WID.
GetByUID(reg, uidWid, u) ==
    IF uidWid[u] # NoWID THEN Worker(reg, uidWid[u]) ELSE NoWID

\* Bucket.snapshot: a copy, under the read lock, of the workers of shard b;
\* Bucket.walk then calls its function on the copy with no lock held.
Snapshot(reg, b, n) == {w \in reg : Bucket(w, n) = b}

=============================================================================
