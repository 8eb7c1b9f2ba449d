\* The shipped configuration: conf's ReaderBufSize 8192 (32 at this scale),
\* a connection and a tcp.Client (Start's 4096 is 16 at this scale) sharing
\* the pool, bodies that fit or grow a buffer to 64, negative and
\* out-of-range lengths.
CONSTANTS
    MinSize = 4
    MaxSize = 256
    Factor = 4
    ReaderBufSize = 32
    GrowSlack = 1
    PackLenSize = 1
    MaxBodySize = 64
    BodyLens <- MCChecksBodyLens
    w1 = w1
    w2 = w2
    Workers <- MCOneWorker
    c1 = c1
    Clients <- MCClients
    ClientBufSize = 16
    MaxPackets = 2
    ClientPackets = 1

SPECIFICATION Spec

INVARIANTS
    TypeOK
    ReaderWindowSound

PROPERTIES
    ClientReleased
    ClientEndsOnCancel

\* Every connection ends, closed by its peer; every client is stopped.
CHECK_DEADLOCK FALSE
