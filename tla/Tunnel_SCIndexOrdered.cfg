\* Session() fixed to return the embedded session: two tunnels push.
CONSTANTS
    UID = 1
    Mods <- MCMods
    Objs <- MainOnlyObjs
    MaxTunnels = 2
    MaxCS = 2
    MaxSC = 2
    CsChanSize = 1
    ReplyChanSize = 2
    Crypto = FALSE
    IndexBits = 16
    SessionRecursion = FALSE

SPECIFICATION Spec

INVARIANT
    SCIndexOrdered

\* The read loop may end and the backends may go quiet.
CHECK_DEADLOCK FALSE
