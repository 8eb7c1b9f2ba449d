-------------------------- MODULE WorkerLifecycle --------------------------
(***************************************************************************)
(* What the TCP server promises about one connection's worker and the     *)
(* registry (spec 4.E and 4.F), with nothing about how it is done.        *)
(*                                                                         *)
(* A worker is created for an accepted connection and runs its handshake; *)
(* it is put in the registry at most once and taken out at most once;     *)
(* Worker.Stop, which is one-shot, begins only for a worker the registry  *)
(* does not hold, so a lookup through the registry (Push, PushGroup,      *)
(* Broadcast, Disconnect, Server.stop's walks) never reaches a worker     *)
(* whose stop has begun; once stopped a worker never comes back.          *)
(***************************************************************************)
CONSTANT WIDs

VARIABLE phase

Phases == {"new", "handshake", "listed", "unlisted", "closing", "closed"}

TypeOK == phase \in [WIDs -> Phases]

Init == phase = [w \in WIDs |-> "new"]

\* Move worker w from one phase to the next.
Step(w, from, to) ==
    /\ phase[w] \in from
    /\ phase' = [phase EXCEPT ![w] = to]

\* A connection is accepted and its worker starts the handshake.
Open(w) == Step(w, {"new"}, "handshake")

\* The worker enters the registry.
List(w) == Step(w, {"handshake"}, "listed")

\* The worker leaves the registry.
Unlist(w) == Step(w, {"listed"}, "unlisted")

\* Stop begins, for a worker that failed its handshake or has left the
\* registry.
Close(w) == Step(w, {"handshake", "unlisted"}, "closing")

\* Stop completes.
Finish(w) == Step(w, {"closing"}, "closed")

Next ==
    \E w \in WIDs :
        Open(w) \/ List(w) \/ Unlist(w) \/ Close(w) \/ Finish(w)

Spec == Init /\ [][Next]_phase

=============================================================================
