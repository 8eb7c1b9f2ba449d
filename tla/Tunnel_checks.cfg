\* The main player tunnel and a room tunnel (the extra player tunnels of
\* other Objs are the extra_player_tunnel run) on a crypto session, with
\* Session() returning the session embedded in
\* base.Tunnel (spec 10, open question b), so that pushes reach the client.
CONSTANTS
    UID = 1
    Mods <- MCMods
    Objs <- MainOnlyObjs
    MaxTunnels = 2
    MaxCS = 2
    MaxSC = 2
    CsChanSize = 1
    ReplyChanSize = 1
    Crypto = TRUE
    IndexBits = 16
    SessionRecursion = FALSE

SPECIFICATION Spec

INVARIANTS
    TypeOK
    SCIndexUnique

PROPERTIES
    MainDeathArmsCountdown

\* The read loop may end and the backends may go quiet.
CHECK_DEADLOCK FALSE
