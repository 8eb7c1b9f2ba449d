----------------------------- MODULE MCSlabPool -----------------------------
(* The slab pool and reader at 1/256 of the gateway's sizes: the pool of   *)
(* bufreader's init (1024, 65536, 4) becomes (4, 256, 4), with the same    *)
(* sixteen classes in the same proportions; PackLenSize 4 becomes 1 and    *)
(* MaxBodySize 16384 becomes 64.                                           *)
EXTENDS SlabPool

\* Workers as model values.
CONSTANTS w1, w2
MCWorkers == {w1, w2}
MCOneWorker == {w1}

\* A tcp.Client as a model value.
CONSTANTS c1
MCClients == {c1}

\* Lengths a peer sends: a negative int32 prefix (only Client.read lets it
\* reach ReadFull), zero, bodies that fit or grow the buffer, one too long.
MCBodyLens == {-1, 0, 8, 60, 64, 65}

\* For the checks with a client: the same kinds of length, with one body
\* (60) that grows both the 32-byte and the 16-byte buffer to 64.
MCChecksBodyLens == {-1, 0, 60, 65}

\* The pool of bufreader's init, NewSyncPool(1024, 65536, 4): its class
\* sizes, and the lookups at the boundaries the reader's requests hit.
ShippedPool == PoolArgs(1024, 65536, 4)

ASSUME NumClassesOf(ShippedPool) = 16
ASSUME [k \in 1 .. 16 |-> ClassSizeOf(ShippedPool, k - 1)] =
           <<2048, 3072, 4096, 5120, 8192, 11264, 14336, 17408, 22528,
             27648, 32768, 37888, 45056, 52224, 59392, 65536>>
ASSUME /\ LookupEntry(ShippedPool, 2048) = 1
       /\ LookupEntry(ShippedPool, 8192) = 5
       /\ LookupEntry(ShippedPool, 14336) = 7
       /\ LookupEntry(ShippedPool, 16384) = 7
       /\ NextPowerOfTwo(16384 + 4 + 128) = 32768

\* The lookup table against the reference SmallestClass, at the scale of
\* the runs: every size up to maxSize is served from a class that holds
\* it, but the size of each class below the last is served from the class
\* above it, not from the smallest that holds it as spec 4.A says.
ASSUME \A n \in 1 .. MaxSize : ClassSize(SizeLookup(n)) >= n
ASSUME \A k \in Classes \ {NumClasses - 1} :
           SizeLookup(ClassSize(k)) = SmallestClass(ClassSize(k)) + 1
=============================================================================
