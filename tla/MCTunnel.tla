----------------------------- MODULE MCTunnel -----------------------------
(* Instantiation of Tunnel for TLC: user 1, packets to the player module   *)
(* (any module but Room) or to the room module, for the user (Obj 0) or   *)
(* for object 2.  That gives two player tunnel keys, the main one (1) and  *)
(* an extra one (2), and two room keys.                                    *)
EXTENDS Tunnel

MCMods == {"Player", "Room"}
MCObjs == {0, 2}
MainOnlyObjs == {0}
====
