\* The code as written: the main player tunnel and a player tunnel for object 2.
CONSTANTS
    UID = 1
    Mods <- MCMods
    Objs <- MCObjs
    MaxTunnels = 2
    MaxCS = 2
    MaxSC = 0
    CsChanSize = 1
    ReplyChanSize = 2
    Crypto = FALSE
    IndexBits = 16
    SessionRecursion = TRUE

SPECIFICATION Spec

INVARIANT
    ExpiryOnlyOnMainDeath

\* The read loop may end and the backends may go quiet.
CHECK_DEADLOCK FALSE
