CONSTANTS
    MaxConn = 2
    UIDs = {1}
    ReplyChanSize = 1
    p1 = p1
    p2 = p2
    Pushers <- TwoPushers
    MaxPush = 2
    Ops <- PushOps
    BucketSize = 1
    AcceptLoops = 1

SPECIFICATION Spec

INVARIANT LatestConnectionReachable

CHECK_DEADLOCK FALSE
