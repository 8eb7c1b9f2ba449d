------------------------------ MODULE SlabPool ------------------------------
(***************************************************************************)
(* The slab pool of pkg/net/internal/bufreader/pool.go and the framed     *)
(* reader of reader.go that the workers read packets through.             *)
(*                                                                         *)
(* NewSyncPool's two loops (count the classes, then size them and fill    *)
(* the size -> class lookup table) are pure operators over the CONSTANTS. *)
(* The pool's state is one bag of free buffers per class; a buffer is     *)
(* abstracted to its capacity, which is all Alloc, Free and the reader    *)
(* look at.  Each worker owns one Reader: NewReader in NewWorker, the     *)
(* ReadFull calls of Worker.read (length prefix, then body) and Close in  *)
(* Worker.Stop.  Bytes are counted, not stored.                           *)
(*                                                                         *)
(* The pool is global to a process, so the readers of tcp.Client share it *)
(* too.  A client reads the same framed packets in readPackLoop, but its   *)
(* stop(), run by the waiter when TriggerStop is called, closes the reader *)
(* while readPackLoop may still be inside ReadFull.                        *)
(***************************************************************************)
EXTENDS Integers, FiniteSets, FiniteSetsExt, Bags, BagsExt

CONSTANTS
    MinSize,        \* NewSyncPool's minSize
    MaxSize,        \* maxSize
    Factor,         \* factor
    ReaderBufSize,  \* conf.ReaderBufSize, NewReader's initialSize
    GrowSlack,      \* the 128 extra bytes ReadFull asks for when it grows
    PackLenSize,    \* vnet.PackLenSize
    MaxBodySize,    \* vnet.MaxBodySize
    BodyLens,       \* the packet lengths clients send (valid or not)
    Workers,        \* the connections, each with its own Reader
    Clients,        \* the tcp.Clients of the process, each with its Reader
    ClientBufSize,  \* NewReader's initialSize in Client.Start (4096)
    MaxPackets,     \* packets a worker's peer sends before it closes
    ClientPackets   \* packets a client's peer sends before it closes

\* NewSyncPool returns ErrInvalidSize unless these hold.
ValidSizes == MinSize > 0 /\ MaxSize >= MinSize /\ Factor > 0

ASSUME ValidSizes

ASSUME Workers \cap Clients = {}

\* Everything that owns a Reader.
Readers == Workers \cup Clients

(***************************************************************************)
(* NewSyncPool                                                             *)
(***************************************************************************)

\* NewSyncPool(minSize, maxSize, factor) is a function of its arguments;
\* the operators below take them as a record p, so that the pool of the
\* runs and the shipped pool are computed by the same definitions.
PoolArgs(min, max, f) == [minSize |-> min, maxSize |-> max, factor |-> f]

\* The counting loop: for chunkSize := minSize; chunkSize <= maxSize;
\* chunkSize += minSize*(n/factor*2+1) { curSize = chunkSize; n++ }.
\* Returns <<n, curSize>> after the loop.
RECURSIVE CountLoop(_, _, _, _)
CountLoop(p, chunk, n, cur) ==
    IF chunk > p.maxSize THEN <<n, cur>>
    ELSE CountLoop(p, chunk + p.minSize * (((n + 1) \div p.factor) * 2 + 1),
                   n + 1, chunk)

\* n, plus one class for maxSize when the last chunk fell short of it.
NumClassesOf(p) ==
    LET r == CountLoop(p, p.minSize, 0, p.minSize)
    IN  IF r[2] < p.maxSize THEN r[1] + 1 ELSE r[1]

\* The sizing loop adds minSize*(k/factor*2+1) to chunkSize BEFORE it sizes
\* class k, so class 0 is already 2*minSize.
RECURSIVE Chunk(_, _)
Chunk(p, k) ==
    IF k < 0 THEN p.minSize
    ELSE Chunk(p, k - 1) + p.minSize * ((k \div p.factor) * 2 + 1)

ClassSizeOf(p, k) == IF Chunk(p, k) < p.maxSize THEN Chunk(p, k) ELSE p.maxSize

\* Class k fills sizeLookup[start..size] with uint8(k), start being the
\* previous class's size; a later class overwrites the shared boundary.
FillStart(p, k) == IF k > 0 THEN ClassSizeOf(p, k - 1) ELSE 0

\* Entry i of the table: the last class whose fill range covers i.
LookupEntry(p, i) ==
    LET ks == {k \in 0 .. NumClassesOf(p) - 1 :
                  FillStart(p, k) <= i /\ i <= ClassSizeOf(p, k)}
    IN  IF ks = {} THEN 0 ELSE Max(ks) % 256

\* The pool the readers share: NewSyncPool(MinSize, MaxSize, Factor), its
\* classesSize and its sizeLookup table.
Pool == PoolArgs(MinSize, MaxSize, Factor)

NumClasses == NumClassesOf(Pool)

Classes == 0 .. NumClasses - 1

classesSize == [k \in Classes |-> ClassSizeOf(Pool, k)]

ClassSize(k) == classesSize[k]

sizeLookup == [i \in 0 .. MaxSize |-> LookupEntry(Pool, i)]

SizeLookup(i) == sizeLookup[i]

\* Reference (spec 4.A): Alloc(n) serves n from the smallest class that
\* holds n bytes.
SmallestClass(n) == Min({k \in Classes : ClassSize(k) >= n})

\* nextPowerOfTwo of reader.go: its bit smearing of n-1 yields the least
\* power of two >= n (1 for n <= 1).
RECURSIVE PowerAtLeast(_, _)
PowerAtLeast(n, p) == IF p >= n THEN p ELSE PowerAtLeast(n, 2 * p)

NextPowerOfTwo(n) == PowerAtLeast(n, 1)

(***************************************************************************)
(* State                                                                   *)
(***************************************************************************)

VARIABLES
    pools,   \* pools[k]: bag of the capacities of class k's free buffers
    rd,      \* rd[w]: worker w's Reader: buf length, buf capacity, r, w
    wpc,     \* where worker w's read path is
    io,      \* the ReadFull in progress waits on its socket read
    plen,    \* the body length read from the length prefix
    npk,     \* packets read so far
    recv,    \* bytes the reader took from the connection
    got,     \* bytes ReadFull handed to the worker
    faulted, \* readers whose Alloc returned a buffer shorter than asked
    cleaned, \* readers Close has run on (Reader.cleanedUp)
    ctrig,   \* clients TriggerStop was called on
    cwaiter, \* client c's receive waiter goroutine: none, running, exited
    cctx,    \* clients whose Start context has ended
    cdl      \* client c's SetDeadlineWithContext goroutine: none, armed, set

clientVars == <<ctrig, cwaiter, cctx, cdl>>
vars == <<pools, rd, wpc, io, plen, npk, recv, got, faulted, cleaned,
          clientVars>>

NilBuf == [len |-> 0, cap |-> 0, r |-> 0, w |-> 0]

\* Mutant of Alloc: New makes a buffer of the requested size, not of the
\* class size.
AllocExact(size) ==
    LET k == SizeLookup(size)
    IN  IF size <= 0 THEN {<<0, pools>>}
        ELSE IF size > MaxSize \/ DOMAIN pools[k] = {} THEN {<<size, pools>>}
        ELSE {<<c, [pools EXCEPT ![k] = BagRemove(@, c)]>> :
                 c \in DOMAIN pools[k]}

\* Alloc(size): size <= 0 gets make([]byte, 0); a size up to maxSize gets
\* classes[sizeLookup[size]].Get(), a free buffer of that class if there
\* is one, else New's buffer of the class size; a larger size is made.
\* Each outcome is <<capacity, pools after the Get>>.
Alloc(size) ==
    LET k == SizeLookup(size)
    IN  IF size <= 0 THEN {<<0, pools>>}
        ELSE IF size > MaxSize THEN {<<size, pools>>}
        ELSE IF DOMAIN pools[k] = {} THEN {<<ClassSize(k), pools>>}
        ELSE {<<c, [pools EXCEPT ![k] = BagRemove(@, c)]>> :
                 c \in DOMAIN pools[k]}

\* Free(mem) puts mem back into classes[sizeLookup[cap(mem)]] unless its
\* capacity exceeds maxSize.
Free(p, cap) ==
    IF cap <= MaxSize
    THEN [p EXCEPT ![SizeLookup(cap)] = BagAdd(@, cap)]
    ELSE p

\* (*mem)[:size] on a buffer of capacity c: Go panics when c < size.
Fits(size, c) == size <= 0 \/ size <= c

Init ==
    /\ pools = [k \in Classes |-> EmptyBag]
    /\ rd = [w \in Readers |-> NilBuf]
    /\ wpc = [w \in Readers |-> "new"]
    /\ io = [w \in Readers |-> FALSE]
    /\ plen = [w \in Readers |-> 0]
    /\ npk = [w \in Readers |-> 0]
    /\ recv = [w \in Readers |-> 0]
    /\ got = [w \in Readers |-> 0]
    /\ faulted = {}
    /\ cleaned = {}
    /\ ctrig = {}
    /\ cwaiter = [c \in Clients |-> "none"]
    /\ cctx = {}
    /\ cdl = [c \in Clients |-> "none"]

\* The packets reader w's peer sends before it closes the connection.
PeerPackets(w) == IF w \in Clients THEN ClientPackets ELSE MaxPackets

(***************************************************************************)
(* Actions                                                                 *)
(***************************************************************************)

\* bufreader.NewReader(conn, size): NewWorker passes conf.ReaderBufSize,
\* Client.Start 4096.  A panic of the slice expression is recovered by the
\* serve goroutine's GoSafe (a worker) or reaches Start's caller (a
\* client); either way the connection is left without a reader.
NewReader(w, size) ==
    /\ wpc[w] = "new"
    /\ \E o \in Alloc(size) :
          /\ pools' = o[2]
          /\ IF Fits(size, o[1])
             THEN /\ rd' = [rd EXCEPT ![w] = [NilBuf EXCEPT !.len =
                              IF size > 0 THEN size ELSE 0,
                                                        !.cap = o[1]]]
                  /\ wpc' = [wpc EXCEPT ![w] = "hdr"]
                  /\ UNCHANGED faulted
             ELSE /\ faulted' = faulted \cup {w}
                  /\ wpc' = [wpc EXCEPT ![w] = "closed"]
                  /\ UNCHANGED rd
    /\ UNCHANGED <<io, plen, npk, recv, got, cleaned>>

\* The n of the ReadFull a worker at pc is about to make: Worker.read reads
\* the PackLenSize prefix, then the body.
ReadSize(w) == IF wpc[w] = "hdr" THEN PackLenSize ELSE plen[w]

\* What Worker.read does with a complete ReadFull: after the prefix it
\* rejects packLen <= 0 and packLen > MaxBodySize (readPackLoop returns,
\* the worker stops), else reads the body; after the body the packet is
\* handled and the loop reads the next prefix.
Delivered(w) ==
    IF wpc[w] = "hdr"
    THEN \E l \in BodyLens :
            IF l <= 0 \/ l > MaxBodySize
            THEN wpc' = [wpc EXCEPT ![w] = "close"] /\ UNCHANGED <<plen, npk>>
            ELSE /\ wpc' = [wpc EXCEPT ![w] = "body"]
                 /\ plen' = [plen EXCEPT ![w] = l]
                 /\ UNCHANGED npk
    ELSE /\ wpc' = [wpc EXCEPT ![w] = "hdr"]
         /\ npk' = [npk EXCEPT ![w] = @ + 1]
         /\ UNCHANGED plen

\* What Client.read does with a complete ReadFull: the prefix is decoded
\* with no range check and ReadFull(int(packLen)) follows (a negative
\* length is ErrBufReaderSize and readPackLoop returns; 0 reads nothing);
\* the body is the packet readPackLoop then sends on receivePackChan.
ClientRead(c) ==
    /\ IF wpc[c] = "hdr"
       THEN \E l \in BodyLens :
               IF l < 0
               THEN wpc' = [wpc EXCEPT ![c] = "close"] /\ UNCHANGED plen
               ELSE /\ wpc' = [wpc EXCEPT ![c] = "body"]
                    /\ plen' = [plen EXCEPT ![c] = l]
       ELSE /\ wpc' = [wpc EXCEPT ![c] = "send"]
            /\ UNCHANGED plen
    /\ UNCHANGED npk

\* SetDeadlineWithContext has set reader w's conn deadline to now.
DeadlinePassed(w) == w \in Clients /\ cdl[w] = "set"

\* The caller of a complete ReadFull.
Received(w) == IF w \in Clients THEN ClientRead(w) ELSE Delivered(w)

\* Mutant of ReadFullBegin: compaction moves the unread bytes to the front
\* but leaves r where it was.
ReadFullBeginNoRewind(w) ==
    /\ wpc[w] \in {"hdr", "body"}
    /\ ~io[w]
    /\ npk[w] < PeerPackets(w)
    /\ LET n == ReadSize(w)
           b == rd[w]
           unread == b.w - b.r
       IN
       \/ /\ unread >= n
          /\ rd' = [rd EXCEPT ![w].r = @ + n]
          /\ got' = [got EXCEPT ![w] = @ + n]
          /\ Received(w)
          /\ UNCHANGED <<pools, io, faulted>>
       \/ /\ unread < n
          /\ rd' = [rd EXCEPT ![w].w = unread]
          /\ io' = [io EXCEPT ![w] = TRUE]
          /\ UNCHANGED <<pools, wpc, got, plen, npk, faulted>>
    /\ UNCHANGED <<recv, cleaned, clientVars>>

\* Reader.ReadFull(n) up to its socket read.  Enough unread bytes: return
\* them at once.  Otherwise, when n plus the unread bytes exceed len(buf),
\* Alloc nextPowerOfTwo(needed+128), copy the unread bytes to its front and
\* Free the old buffer, unless Close has run (cleanedUp): then
\* ErrBufReaderAlreadyClosed ends the read loop; else compact the unread
\* bytes to offset 0.  A closed reader has an empty buffer, so it can only
\* serve a ReadFull(0).  A worker's reader is closed only after its read
\* loop has returned; a client's stop() may close it at any point.
ReadFullBegin(w) ==
    /\ wpc[w] \in {"hdr", "body"}
    /\ ~io[w]
    /\ npk[w] < PeerPackets(w)
    /\ LET n == ReadSize(w)
           b == rd[w]
           unread == b.w - b.r
           newSize == NextPowerOfTwo(n + unread + GrowSlack)
       IN
       \/ /\ unread >= n
          /\ rd' = [rd EXCEPT ![w].r = @ + n]
          /\ got' = [got EXCEPT ![w] = @ + n]
          /\ Received(w)
          /\ UNCHANGED <<pools, io, faulted>>
       \/ /\ unread < n
          /\ n + unread > b.len
          /\ w \in cleaned
          /\ wpc' = [wpc EXCEPT ![w] = "close"]
          /\ UNCHANGED <<pools, rd, io, got, plen, npk, faulted>>
       \/ /\ unread < n
          /\ n + unread > b.len
          /\ w \notin cleaned
          /\ \E o \in Alloc(newSize) :
                IF Fits(newSize, o[1])
                THEN /\ rd' = [rd EXCEPT ![w] = [len |-> newSize, cap |-> o[1],
                                                 r |-> 0, w |-> unread]]
                     /\ pools' = Free(o[2], b.cap)
                     /\ io' = [io EXCEPT ![w] = TRUE]
                     /\ UNCHANGED <<wpc, faulted>>
                ELSE \* RunSafe recovers the panic; readPackLoop fails
                     /\ pools' = o[2]
                     /\ faulted' = faulted \cup {w}
                     /\ wpc' = [wpc EXCEPT ![w] = "close"]
                     /\ UNCHANGED <<rd, io>>
          /\ UNCHANGED <<got, plen, npk>>
       \/ /\ unread < n
          /\ n + unread <= b.len
          /\ rd' = [rd EXCEPT ![w].r = 0, ![w].w = unread]
          /\ io' = [io EXCEPT ![w] = TRUE]
          /\ UNCHANGED <<pools, wpc, got, plen, npk, faulted>>
    /\ UNCHANGED <<recv, cleaned, clientVars>>

\* The rest of ReadFull: readAtLeast(n - unread) is io.ReadAtLeast into
\* buf[w:], which reads at least that many bytes and at most what fits, or
\* fails (peer closed, idle deadline) and fails the read loop.  The
\* connection delivers either exactly what is missing or a full buffer.
\* When Close ran during the read, the bytes went into the freed buffer
\* and r.buf[r.r:r.r+n] of the nil buffer panics: the loop ends as on an
\* error.  A client's conn whose deadline SetDeadlineWithContext has set
\* to now fails every read.
ReadFullIO(w) ==
    /\ io[w]
    /\ io' = [io EXCEPT ![w] = FALSE]
    /\ LET n == ReadSize(w)
           b == rd[w]
       IN
       \/ /\ w \notin cleaned
          /\ ~DeadlinePassed(w)
          /\ \E m \in {n - (b.w - b.r), b.len - b.w} :
                /\ rd' = [rd EXCEPT ![w].w = @ + m, ![w].r = @ + n]
                /\ recv' = [recv EXCEPT ![w] = @ + m]
          /\ got' = [got EXCEPT ![w] = @ + n]
          /\ Received(w)
       \/ /\ wpc' = [wpc EXCEPT ![w] = "close"]
          /\ UNCHANGED <<rd, recv, got, plen, npk>>
    /\ UNCHANGED <<pools, faulted, cleaned, clientVars>>

\* The peer closes once its packets are sent: the next read fails.
PeerDone(w) ==
    /\ wpc[w] \in {"hdr", "body"}
    /\ ~io[w]
    /\ npk[w] = PeerPackets(w)
    /\ wpc' = [wpc EXCEPT ![w] = "close"]
    /\ UNCHANGED <<pools, rd, io, plen, npk, recv, got, faulted, cleaned,
                   clientVars>>

\* Worker.Stop: reader.Close() frees the buffer (a reader's buffer is
\* never nil before Close) and drops it.
Close(w) ==
    /\ wpc[w] = "close"
    /\ pools' = Free(pools, rd[w].cap)
    /\ rd' = [rd EXCEPT ![w] = NilBuf]
    /\ wpc' = [wpc EXCEPT ![w] = "closed"]
    /\ cleaned' = cleaned \cup {w}
    /\ UNCHANGED <<io, plen, npk, recv, got, faulted, clientVars>>

-----------------------------------------------------------------------------
(* tcp.Client: Start, and the receive goroutine's errgroup of the waiter  *)
(* and readPackLoop.  Client.read is ClientRead above.                     *)

\* Client.stop: DoStop runs its function once.  Reader.Close frees the
\* buffer and empties the reader, then receivePackChan is closed (the
\* channel of a client in cleaned is closed).  conn is not closed.
ClientStop(c) ==
    IF c \in cleaned
    THEN UNCHANGED <<pools, rd, cleaned>>
    ELSE /\ pools' = Free(pools, rd[c].cap)
         /\ rd' = [rd EXCEPT ![c] = NilBuf]
         /\ cleaned' = cleaned \cup {c}

\* Mutant of ClientStart: Start does not call SetDeadlineWithContext.
ClientStartNoDeadline(c) ==
    \/ /\ wpc[c] = "new"
       /\ wpc' = [wpc EXCEPT ![c] = "closed"]
       /\ UNCHANGED <<pools, rd, io, plen, npk, recv, got, faulted, cleaned,
                      clientVars>>
    \/ /\ NewReader(c, ClientBufSize)
       /\ cwaiter' = [cwaiter EXCEPT ![c] =
                        IF wpc'[c] = "hdr" THEN "running" ELSE "none"]
       /\ UNCHANGED <<ctrig, cctx, cdl>>

\* Client.Start: resolving or dialling may fail and Start returns the
\* error; otherwise SetDeadlineWithContext(ctx, conn) starts its
\* goroutine, then NewReader(conn, 4096) and GoSafe(receive), whose
\* errgroup starts the waiter and readPackLoop.  The dial takes no
\* context, so a Start whose ctx has already ended still connects.
ClientStart(c) ==
    \/ /\ wpc[c] = "new"
       /\ wpc' = [wpc EXCEPT ![c] = "closed"]
       /\ UNCHANGED <<pools, rd, io, plen, npk, recv, got, faulted, cleaned,
                      clientVars>>
    \/ /\ wpc[c] = "new"
       /\ cdl' = [cdl EXCEPT ![c] = "armed"]
       /\ NewReader(c, ClientBufSize)
       /\ cwaiter' = [cwaiter EXCEPT ![c] =
                        IF wpc'[c] = "hdr" THEN "running" ELSE "none"]
       /\ UNCHANGED <<ctrig, cctx>>

\* The context passed to Start ends (its owner cancels it), at any time.
ClientCancel(c) ==
    /\ c \notin cctx
    /\ cctx' = cctx \cup {c}
    /\ UNCHANGED <<pools, rd, wpc, io, plen, npk, recv, got, faulted,
                   cleaned, ctrig, cwaiter, cdl>>

\* SetDeadlineWithContext's goroutine: once ctx is done it sets the conn's
\* deadline to now, which fails the blocked read and every later one.
ClientDeadline(c) ==
    /\ cdl[c] = "armed"
    /\ c \in cctx
    /\ cdl' = [cdl EXCEPT ![c] = "set"]
    /\ UNCHANGED <<pools, rd, wpc, io, plen, npk, recv, got, faulted,
                   cleaned, ctrig, cwaiter, cctx>>

\* readPackLoop: c.receivePackChan <- pack (its 1024 slots exceed the
\* packets of a run).  On the channel stop() closed Go panics, and RunSafe
\* makes it readPackLoop's error.
ClientSend(c) ==
    /\ wpc[c] = "send"
    /\ IF c \in cleaned
       THEN wpc' = [wpc EXCEPT ![c] = "close"] /\ UNCHANGED npk
       ELSE /\ wpc' = [wpc EXCEPT ![c] = "hdr"]
            /\ npk' = [npk EXCEPT ![c] = @ + 1]
    /\ UNCHANGED <<pools, rd, io, plen, recv, got, faulted, cleaned,
                   clientVars>>

\* The client's owner calls TriggerStop, at any time.
ClientTrigger(c) ==
    /\ c \notin ctrig
    /\ ctrig' = ctrig \cup {c}
    /\ UNCHANGED <<pools, rd, wpc, io, plen, npk, recv, got, faulted,
                   cleaned, cwaiter, cctx, cdl>>

\* receive's waiter: on StopTriggered it calls c.stop(); on the errgroup
\* context's Done, which readPackLoop's error or the end of Start's ctx
\* cancels, it just returns.
\* Its return cancels that context, which readPackLoop never looks at.
ClientWaiter(c) ==
    /\ cwaiter[c] = "running"
    /\ \/ /\ c \in ctrig
          /\ ClientStop(c)
       \/ /\ wpc[c] = "close" \/ c \in cctx
          /\ UNCHANGED <<pools, rd, cleaned>>
    /\ cwaiter' = [cwaiter EXCEPT ![c] = "exited"]
    /\ UNCHANGED <<wpc, io, plen, npk, recv, got, faulted, ctrig, cctx, cdl>>

\* Mutant of ClientReceiveEnd: receive does not defer c.stop().
ClientReceiveEndNoStop(c) ==
    /\ wpc[c] = "close"
    /\ cwaiter[c] = "exited"
    /\ wpc' = [wpc EXCEPT ![c] = "closed"]
    /\ UNCHANGED <<pools, rd, cleaned, io, plen, npk, recv, got, faulted,
                   clientVars>>

\* eg.Wait returns once the waiter and readPackLoop have; receive's
\* deferred c.stop() runs and receive returns.
ClientReceiveEnd(c) ==
    /\ wpc[c] = "close"
    /\ cwaiter[c] = "exited"
    /\ ClientStop(c)
    /\ wpc' = [wpc EXCEPT ![c] = "closed"]
    /\ UNCHANGED <<io, plen, npk, recv, got, faulted, clientVars>>

-----------------------------------------------------------------------------

\* The garbage collector may drop any free buffer of a sync.Pool.
PoolDrop ==
    /\ \E k \in Classes : \E c \in DOMAIN pools[k] :
          pools' = [pools EXCEPT ![k] = BagRemove(@, c)]
    /\ UNCHANGED <<rd, wpc, io, plen, npk, recv, got, faulted, cleaned,
                   clientVars>>

Next ==
    \/ \E w \in Workers :
          \/ NewReader(w, ReaderBufSize) /\ UNCHANGED clientVars
          \/ Close(w)
    \/ \E w \in Readers :
          \/ ReadFullBegin(w)
          \/ ReadFullIO(w)
          \/ PeerDone(w)
    \/ \E c \in Clients :
          \/ ClientStart(c)
          \/ ClientSend(c)
          \/ ClientTrigger(c)
          \/ ClientCancel(c)
          \/ ClientDeadline(c)
          \/ ClientWaiter(c)
          \/ ClientReceiveEnd(c)
    \/ PoolDrop

\* Once a client's read loop has ended, its waiter and the rest of receive
\* (eg.Wait, the deferred stop) are goroutines that are never blocked for
\* good, so they run.  Nothing is assumed of the socket reads, the
\* workers, the peers or the caller of TriggerStop.
\* readPackLoop's own steps never block for good: ReadFull's bookkeeping
\* and the send on receivePackChan, whose 1024 slots outnumber the
\* ClientPackets a peer sends.  Its conn read may block as long as the peer
\* is silent, but not once SetDeadlineWithContext has set the deadline to
\* now: then the read, and the EOF after the peer's last packet, fail.
Fairness ==
    \A c \in Clients :
        /\ WF_vars(ClientWaiter(c)) /\ WF_vars(ClientReceiveEnd(c))
        /\ WF_vars(ClientDeadline(c))
        /\ WF_vars(ReadFullBegin(c)) /\ WF_vars(ClientSend(c))
        /\ WF_vars(DeadlinePassed(c) /\ ReadFullIO(c))
        /\ WF_vars(DeadlinePassed(c) /\ PeerDone(c))

Spec == Init /\ [][Next]_vars /\ Fairness

(***************************************************************************)
(* Properties                                                              *)
(***************************************************************************)

\* Every buffer is nil, empty, of a class size, or bigger than maxSize.
BufCap(c) == c = 0 \/ c > MaxSize \/ \E k \in Classes : c = ClassSize(k)

TypeOK ==
    /\ \A k \in Classes : IsABag(pools[k]) /\ \A c \in DOMAIN pools[k] : BufCap(c)
    /\ rd \in [Readers -> [len : Nat, cap : Nat, r : Nat, w : Nat]]
    /\ \A w \in Readers : BufCap(rd[w].cap)
    /\ wpc \in [Readers -> {"new", "hdr", "body", "send", "close", "closed"}]
    /\ io \in [Readers -> BOOLEAN]
    /\ plen \in [Readers -> Nat]
    /\ \A w \in Readers : npk[w] \in 0 .. PeerPackets(w)
    /\ recv \in [Readers -> Nat] /\ got \in [Readers -> Nat]
    /\ faulted \subseteq Readers /\ cleaned \subseteq Readers
    /\ ctrig \subseteq Clients
    /\ cwaiter \in [Clients -> {"none", "running", "exited"}]
    /\ cctx \subseteq Clients
    /\ cdl \in [Clients -> {"none", "armed", "set"}]

\* Spec 8.3: Alloc(n) returns a slice of length n whose capacity is at
\* least n.  Free files a buffer under sizeLookup[cap], the class ABOVE the
\* one that made it when cap is a class boundary, so a later Alloc of that
\* class may get it back; the slice expression then panics and the
\* worker's read loop dies on a valid packet.
NoUndersizedBuffer == faulted = {}

\* The reader's window is sound: r <= w <= len(buf) <= cap(buf), and the
\* bytes between r and w are exactly those taken from the connection and
\* not yet handed out by ReadFull, across compaction and growth, until the
\* reader is closed: for a client's reader too, which stop() may close
\* while readPackLoop is inside ReadFull.
ReaderWindowSound ==
    \A w \in {v \in Readers \ cleaned :
                wpc[v] \in {"hdr", "body", "send", "close"}} :
        /\ rd[w].r <= rd[w].w /\ rd[w].w <= rd[w].len
        /\ rd[w].len <= rd[w].cap
        /\ recv[w] - got[w] = rd[w].w - rd[w].r


\* A client whose readPackLoop has returned (its peer closed, a read
\* failed, or the send on the closed channel panicked) is eventually
\* stopped without anyone calling TriggerStop: the waiter sees the
\* errgroup's context end, eg.Wait returns, and receive's deferred stop()
\* frees the reader's buffer and closes receivePackChan.
ClientReleased ==
    \A c \in Clients : wpc[c] = "close" ~> (wpc[c] = "closed" /\ c \in cleaned)

\* Client.stop is never called from Start's caller, and stop does not close
\* the conn; ending Start's ctx still ends a started client: the waiter
\* returns on the errgroup's Done, SetDeadlineWithContext's goroutine fails
\* readPackLoop's blocked read, and receive's deferred stop() runs.
ClientEndsOnCancel ==
    \A c \in Clients : (c \in cctx /\ wpc[c] # "new") ~> wpc[c] = "closed"

=============================================================================
