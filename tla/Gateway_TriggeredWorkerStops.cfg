\* One connection and one Push caller: enough for a stop that never ends.
CONSTANTS
    MaxConn = 1
    UIDs = {1}
    ReplyChanSize = 1
    p1 = p1
    p2 = p2
    Pushers <- OnePusher
    MaxPush = 1
    Ops <- PushOps
    BucketSize = 1
    AcceptLoops = 1

SPECIFICATION Spec

PROPERTY TriggeredWorkerStops

CHECK_DEADLOCK FALSE
