----------------------------- MODULE MCGateway -----------------------------
(***************************************************************************)
(* Model-checking instance of Gateway: the Push callers are model values. *)
(***************************************************************************)
EXTENDS Gateway

CONSTANTS p1, p2

OnePusher  == {p1}
TwoPushers == {p1, p2}

\* The API calls made: Server.Push and Tunnel.Push only; every call but
\* Server.Stop; every call of the Server API.
PushOps     == {"push", "tunnel"}
ApiOps      == {"push", "tunnel", "group", "broadcast", "disconnect"}
AllOps      == {"push", "tunnel", "group", "broadcast", "disconnect", "stop"}

=============================================================================
