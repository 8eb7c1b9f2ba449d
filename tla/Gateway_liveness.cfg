\* Two accept loops, one connection, one caller making every kind of API
\* call (Push, Tunnel.Push, PushGroup, Broadcast, Disconnect, Server.Stop),
\* two bucket shards.
CONSTANTS
    MaxConn = 1
    UIDs = {1}
    ReplyChanSize = 1
    p1 = p1
    p2 = p2
    Pushers <- OnePusher
    MaxPush = 2
    Ops <- AllOps
    BucketSize = 2
    AcceptLoops = 2

SPECIFICATION Spec

PROPERTIES
    LifecycleRefined
    PushReturns

\* Once the connection is done the gateway sits idle.
CHECK_DEADLOCK FALSE
