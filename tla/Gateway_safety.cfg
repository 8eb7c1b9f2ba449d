\* Two connections, possibly of the same user, one caller making every API
\* call but Server.Stop.
CONSTANTS
    MaxConn = 2
    UIDs = {1}
    ReplyChanSize = 1
    p1 = p1
    p2 = p2
    Pushers <- OnePusher
    MaxPush = 2
    Ops <- ApiOps
    BucketSize = 1
    AcceptLoops = 1

SPECIFICATION Spec

INVARIANTS
    TypeOK
    UidMapSound


\* The gateway may legitimately sit idle: every connection closed and the
\* accept loop waiting.
CHECK_DEADLOCK FALSE
