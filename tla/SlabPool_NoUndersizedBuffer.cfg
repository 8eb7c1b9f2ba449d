\* ReaderBufSize 12288 (48 at this scale): the reader's first buffer comes
\* from the class of size 14336 (56), and Free files it one class higher,
\* where a 16384-byte (64) grow asks for it.
CONSTANTS
    MinSize = 4
    MaxSize = 256
    Factor = 4
    ReaderBufSize = 48
    GrowSlack = 1
    PackLenSize = 1
    MaxBodySize = 64
    BodyLens = {0, 8, 60, 64, 65}
    w1 = w1
    w2 = w2
    c1 = c1
    Workers <- MCWorkers
    Clients = {}
    ClientBufSize = 16
    MaxPackets = 2
    ClientPackets = 0

SPECIFICATION Spec

INVARIANT
    NoUndersizedBuffer

\* Every connection ends, closed by its peer.
CHECK_DEADLOCK FALSE
