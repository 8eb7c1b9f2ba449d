------------------------------ MODULE Tunnel ------------------------------
(***************************************************************************)
(* The backend side of one worker: the dispatch of client packets by the  *)
(* worker's read loop (intra/net/service/service.go handle), the worker's *)
(* tunnel holder (pkg/net/internal/tunnel.go), the tunnel runtime with its *)
(* three goroutines (intra/net/tunnels/tunnel.go), the player and room    *)
(* tunnels on top of it, and the session's CS/SC index counters           *)
(* (pkg/net/session.go).                                                   *)
(*                                                                         *)
(* Tunnels are numbered by creation, 1..MaxTunnels.  The worker around    *)
(* them (its Run context, Stop and Push) is the environment here; Gateway *)
(* models it in detail.  Packets are reduced to the fields that steer     *)
(* control: the module, the object id and the index.                     *)
(***************************************************************************)
EXTENDS Integers, Sequences, FiniteSets

CONSTANTS
    UID,              \* the session's user id (an object id > 0)
    Mods,             \* module ids a client packet may carry
    Objs,             \* object ids a client packet may carry (0 = the user)
    MaxTunnels,       \* tunnels created in a behaviour
    MaxCS,            \* client packets read in a behaviour
    MaxSC,            \* backend messages received in a behaviour
    CsChanSize,       \* capacity of Tunnel.csChan (1024 in NewTunnel)
    ReplyChanSize,    \* capacity of Worker.replyChan (conf ReplyChanSize)
    Crypto,           \* session.IsCrypto(): the CS index is checked
    IndexBits,        \* width of Packet.Index (32 in the code; TLC needs < 31)
    SessionRecursion  \* player/room Tunnel.Session() calls itself

ASSUME UID \in Nat \ {0} /\ 0 \in Objs
ASSUME MaxTunnels \in Nat \ {0} /\ CsChanSize \in Nat \ {0}
ASSUME ReplyChanSize \in Nat \ {0}
ASSUME Crypto \in BOOLEAN /\ SessionRecursion \in BOOLEAN
ASSUME IndexBits \in Nat \ {0}

TIDs == 1..MaxTunnels
NoTID == 0

\* int32(x) at IndexBits bits: two's complement truncation.
IntN(x) == LET m == 2^IndexBits
               h == 2^(IndexBits - 1)
           IN  ((x + h) % m) - h

\* Service.TunnelType: the room module goes to the room tunnel, every other
\* module to the player tunnel.
TunnelType(mod) == IF mod = "Room" THEN "room" ELSE "player"

\* Service.handle: Obj 0 stands for the user.
ObjOf(obj) == IF obj = 0 THEN UID ELSE obj

Key(mod, obj) == [tp |-> TunnelType(mod), oid |-> ObjOf(obj)]
Keys == {Key(m, o) : m \in Mods, o \in Objs}

\* The player tunnel of the user: the main tunnel.
MainKey == [tp |-> "player", oid |-> UID]

\* NewSession: the CS index counter starts at 0, the SC index counter at 1.
SessionIndexStart == [cs |-> 0, sc |-> 1]

\* indexInfo.Increase: an atomic add of 1 that returns the new value.
Increase(i) == i + 1

VARIABLES
    holder,      \* tunnelHolder.tunnelGroups: key -> tunnel, NoTID if absent
    tkey,        \* key each created tunnel was made for
    nTunnels,    \* tunnels created so far
    triggered,   \* tunnel stopper: TriggerStop called
    stopping,    \* tunnel stopper: DoStop ran (csChan closed, OnStop done)
    gctx,        \* the tunnel's errgroup context is cancelled
    waiter,      \* run's stop-waiting goroutine
    csLoop,      \* Tunnel.csLoop
    scLoop,      \* Tunnel.scLoop: "recv", "stamp", "push" or "exited"
    scHeld,      \* index stamped by scLoop and not yet pushed
    runPc,       \* Tunnel.run after eg.Wait: "wait", "group", "done"
    csChan,      \* messages buffered in csChan
    stream,      \* the backend stream: "ok" or "broken"
    rpc,         \* the worker's read loop inside Service.handle
    rkey,        \* key of the packet being handled
    rt,          \* tunnel the packet is being forwarded to
    death,       \* why the read loop returned an error, "none" if it did not
    csIndex,     \* session CS counter
    nCS,         \* client packets read
    scIndex,     \* session SC counter
    nSC,         \* backend messages received
    out,         \* indices of the packets Worker.Push queued, in order
    expiry,      \* worker CountdownStopper expiry is set
    wctx,        \* the worker's Run context is cancelled
    wstopping,   \* Worker.Stop has begun (holder.stop has run)
    written,     \* packets of out that writePackLoop has written
    wloop,       \* Worker.writePackLoop: "running" or "exited"
    fatal        \* the process died of a stack overflow

tunnelVars == <<holder, tkey, nTunnels, triggered, stopping, gctx, waiter,
                csLoop, scLoop, scHeld, runPc, csChan, stream>>
readVars   == <<rpc, rkey, rt, death, csIndex, nCS>>
scVars     == <<scIndex, nSC, out>>
workerVars == <<expiry, wctx, wstopping, written, wloop>>
vars == <<tunnelVars, readVars, scVars, workerVars, fatal>>

\* A tunnel whose Stoppable has not begun DoStop (t.IsStopping() is false).
Live(t) == t # NoTID /\ ~stopping[t]

-----------------------------------------------------------------------------
(* The worker's read loop: one client packet through Service.handle.      *)

\* readPackLoop checks ctx, reads a packet and calls handle: the CS index
\* check (crypto sessions only), Obj 0 -> UID, then Worker.Tunnel's
\* read-locked tunnelHolder.tunnel lookup, which skips stopping tunnels.
\* A client sends the index it expects (int32 of its own counter) or
\* another one.
Handle ==
    /\ rpc = "idle"
    /\ ~wctx
    /\ nCS < MaxCS
    /\ nCS' = nCS + 1
    /\ \E mod \in Mods, obj \in Objs, good \in BOOLEAN :
          LET k == Key(mod, obj)
              idx == IF good THEN IntN(csIndex) ELSE IntN(csIndex) + 1
          IN
          \/ /\ Crypto
             /\ idx # csIndex
             /\ rpc' = "dead"
             /\ death' = IF good THEN "honest-index" ELSE "bad-index"
             /\ UNCHANGED <<rkey, rt, csIndex>>
          \/ /\ Crypto => idx = csIndex
             /\ csIndex' = IF Crypto THEN Increase(csIndex) ELSE csIndex
             /\ rkey' = k
             /\ IF Live(holder[k])
                THEN rpc' = "fcheck" /\ rt' = holder[k]
                ELSE rpc' = "create" /\ rt' = NoTID
             /\ UNCHANGED death
    /\ UNCHANGED <<tunnelVars, scVars, workerVars, fatal>>

\* tunnelHolder.createTunnel under the write lock, past its double check
\* (a live tunnel of the key wins; only this read loop creates tunnels, so
\* after its own lookup found none the check always fails): Service.
\* CreateTunnel opens the backend stream (which may fail: handle returns
\* the error), player.NewTunnel calls worker.Reset(), tunnels.NewTunnel
\* starts the tunnel's goroutines, and the holder maps the key to it.
\* Service.createAppTunnel: player.NewTunnel, for the player type, calls
\* worker.Reset(), which clears the worker's countdown; room.NewTunnel
\* does not.  The worker's countdown expiry after creating a tunnel for k.
CreateAppTunnel(k) == IF k.tp = "player" THEN FALSE ELSE expiry

\* tunnels.NewTunnel for key k: a new stopper and csChan, then start runs
\* Tunnel.run, whose errgroup starts the waiter, csLoop and scLoop.
NewTunnel(t, k) ==
    /\ tkey' = [tkey EXCEPT ![t] = k]
    /\ waiter' = [waiter EXCEPT ![t] = "running"]
    /\ csLoop' = [csLoop EXCEPT ![t] = "running"]
    /\ scLoop' = [scLoop EXCEPT ![t] = "recv"]
    /\ runPc' = [runPc EXCEPT ![t] = "wait"]

CreateTunnel ==
    LET t == nTunnels + 1 IN
    /\ rpc = "create"
    /\ \/ /\ rpc' = "dead"
          /\ death' = "create"
          /\ UNCHANGED <<tunnelVars, rt, expiry>>
       \/ /\ nTunnels < MaxTunnels
          /\ nTunnels' = t
          /\ holder' = [holder EXCEPT ![rkey] = t]
          /\ NewTunnel(t, rkey)
          /\ expiry' = CreateAppTunnel(rkey)
          /\ rpc' = "fcheck"
          /\ rt' = t
          /\ UNCHANGED <<triggered, stopping, gctx, scHeld, csChan, stream,
                         death>>
    /\ UNCHANGED <<rkey, csIndex, nCS, scVars, wctx, wstopping, written,
                   wloop, fatal>>

\* Tunnel.Forward, first part: ErrTunnelStopped when IsStopping(), which
\* handle returns and the read loop returns with.
ForwardCheck ==
    /\ rpc = "fcheck"
    /\ \/ /\ stopping[rt]
          /\ rpc' = "dead"
          /\ death' = "tunnel-stopped"
       \/ /\ ~stopping[rt]
          /\ rpc' = "fsend"
          /\ UNCHANGED death
    /\ UNCHANGED <<tunnelVars, rkey, rt, csIndex, nCS, scVars,
                   workerVars, fatal>>

\* Mutant of ForwardSend: the send does not wait for room in csChan.
ForwardSendNoCap ==
    /\ rpc = "fsend"
    /\ \/ /\ stopping[rt]
          /\ rpc' = "dead"
          /\ death' = "send-on-closed"
          /\ UNCHANGED csChan
       \/ /\ ~stopping[rt]
          /\ csChan' = [csChan EXCEPT ![rt] = @ + 1]
          /\ rpc' = "idle"
          /\ UNCHANGED death
    /\ UNCHANGED <<holder, tkey, nTunnels, triggered, stopping, gctx, waiter,
                   csLoop, scLoop, scHeld, runPc, stream, rkey, rt, csIndex,
                   nCS, scVars, workerVars, fatal>>

\* `t.csChan <- msg`: blocks while full; on the closed channel Go panics
\* and readPackLoop's RunSafe turns the panic into its error.
ForwardSend ==
    /\ rpc = "fsend"
    /\ \/ /\ stopping[rt]
          /\ rpc' = "dead"
          /\ death' = "send-on-closed"
          /\ UNCHANGED csChan
       \/ /\ ~stopping[rt]
          /\ csChan[rt] < CsChanSize
          /\ csChan' = [csChan EXCEPT ![rt] = @ + 1]
          /\ rpc' = "idle"
          /\ UNCHANGED death
    /\ UNCHANGED <<holder, tkey, nTunnels, triggered, stopping, gctx, waiter,
                   csLoop, scLoop, scHeld, runPc, stream, rkey, rt, csIndex,
                   nCS, scVars, workerVars, fatal>>

-----------------------------------------------------------------------------
(* The goroutines of Tunnel.run.  The tunnel's context derives from the   *)
(* worker's Run context, and so does the backend stream's: cancelling the *)
(* worker also fails the stream's Send and Recv.                          *)

\* app.CSHandle's stream.Send and app.SCHandle's stream.Recv (player and
\* room tunnels alike) fail once the backend has broken the stream or the
\* stream's context, derived from the worker's Run context, has ended.
StreamDown(t) == stream[t] = "broken" \/ wctx

\* run's first goroutine: ctx.Done() or StopTriggered(), both errors.
Waiter(t) ==
    /\ waiter[t] = "running"
    /\ gctx[t] \/ wctx \/ triggered[t]
    /\ waiter' = [waiter EXCEPT ![t] = "exited"]
    /\ gctx' = [gctx EXCEPT ![t] = TRUE]
    /\ UNCHANGED <<holder, tkey, nTunnels, triggered, stopping, csLoop,
                   scLoop, scHeld, runPc, csChan, stream, readVars, scVars,
                   workerVars, fatal>>

\* Tunnel.csLoop, one select: ctx.Done() or StopTriggered() return an
\* error; a message from csChan goes to app.CSHandle (stream.Send), whose
\* error ends the loop.
CsLoop(t) ==
    /\ csLoop[t] = "running"
    /\ \/ /\ gctx[t] \/ wctx \/ triggered[t]
          /\ csLoop' = [csLoop EXCEPT ![t] = "exited"]
          /\ gctx' = [gctx EXCEPT ![t] = TRUE]
          /\ UNCHANGED csChan
       \/ /\ csChan[t] > 0
          /\ csChan' = [csChan EXCEPT ![t] = @ - 1]
          /\ IF StreamDown(t)
             THEN /\ csLoop' = [csLoop EXCEPT ![t] = "exited"]
                  /\ gctx' = [gctx EXCEPT ![t] = TRUE]
             ELSE UNCHANGED <<csLoop, gctx>>
    /\ UNCHANGED <<holder, tkey, nTunnels, triggered, stopping, waiter,
                   scLoop, scHeld, runPc, stream, readVars, scVars,
                   workerVars, fatal>>

\* Tunnel.scLoop: app.SCHandle (stream.Recv) returns a message or an error;
\* the error ends the loop.  scLoop never looks at the tunnel's context.
ScRecv(t) ==
    /\ scLoop[t] = "recv"
    /\ \/ /\ StreamDown(t)
          /\ scLoop' = [scLoop EXCEPT ![t] = "exited"]
          /\ gctx' = [gctx EXCEPT ![t] = TRUE]
          /\ UNCHANGED nSC
       \/ /\ ~StreamDown(t)
          /\ nSC < MaxSC
          /\ nSC' = nSC + 1
          /\ scLoop' = [scLoop EXCEPT ![t] = "stamp"]
          /\ UNCHANGED gctx
    /\ UNCHANGED <<holder, tkey, nTunnels, triggered, stopping, waiter,
                   csLoop, scHeld, runPc, csChan, stream, readVars, scIndex,
                   out, workerVars, fatal>>

\* player.Tunnel.Session and room.Tunnel.Session are `return t.Session()`,
\* a call of themselves: unless fixed, app.Session() never returns and the
\* goroutine's stack overflows, which Go cannot recover.
SessionOverflows == SessionRecursion

\* Mutant of ScStamp: the index is read with SCIndex() instead of taken
\* with IncreaseSCIndex().
ScStampLoad(t) ==
    /\ scLoop[t] = "stamp"
    /\ IF SessionOverflows
       THEN /\ fatal' = TRUE
            /\ UNCHANGED <<scLoop, scHeld, scIndex>>
       ELSE /\ scHeld' = [scHeld EXCEPT ![t] = IntN(scIndex)]
            /\ scLoop' = [scLoop EXCEPT ![t] = "push"]
            /\ UNCHANGED <<fatal, scIndex>>
    /\ UNCHANGED <<holder, tkey, nTunnels, triggered, stopping, gctx, waiter,
                   csLoop, runPc, csChan, stream, readVars, nSC, out,
                   workerVars>>

\* Tunnel.push up to the stamp: p.Index = int32(app.Session().
\* IncreaseSCIndex()).  The player and room tunnels' Session() calls
\* itself; the stack overflow is fatal to the process (RunSafe cannot
\* recover it).
ScStamp(t) ==
    /\ scLoop[t] = "stamp"
    /\ IF SessionOverflows
       THEN /\ fatal' = TRUE
            /\ UNCHANGED <<scLoop, scHeld, scIndex>>
       ELSE /\ scIndex' = Increase(scIndex)
            /\ scHeld' = [scHeld EXCEPT ![t] = IntN(Increase(scIndex))]
            /\ scLoop' = [scLoop EXCEPT ![t] = "push"]
            /\ UNCHANGED fatal
    /\ UNCHANGED <<holder, tkey, nTunnels, triggered, stopping, gctx, waiter,
                   csLoop, runPc, csChan, stream, readVars, nSC, out,
                   workerVars>>

\* Tunnel.Push -> Worker.Push, its IsStopping check: a stopping worker's
\* error is logged and the loop goes on; otherwise the send.
ScPush(t) ==
    /\ scLoop[t] = "push"
    /\ scLoop' = [scLoop EXCEPT ![t] = IF wstopping THEN "recv" ELSE "send"]
    /\ UNCHANGED <<holder, tkey, nTunnels, triggered, stopping, gctx, waiter,
                   csLoop, scHeld, runPc, csChan, stream, readVars, scVars,
                   workerVars, fatal>>

\* Packets queued in replyChan and not yet taken by writePackLoop.
ReplyQueued == Len(out) - written

\* Worker.Push's `w.replyChan <- out`: blocks while replyChan is full;
\* once Worker.Stop has closed it the send panics, and scLoop's RunSafe
\* turns the panic into the loop's error.
ScSend(t) ==
    /\ scLoop[t] = "send"
    /\ \/ /\ wstopping
          /\ scLoop' = [scLoop EXCEPT ![t] = "exited"]
          /\ gctx' = [gctx EXCEPT ![t] = TRUE]
          /\ UNCHANGED out
       \/ /\ ~wstopping
          /\ ReplyQueued < ReplyChanSize
          /\ out' = Append(out, scHeld[t])
          /\ scLoop' = [scLoop EXCEPT ![t] = "recv"]
          /\ UNCHANGED gctx
    /\ UNCHANGED <<holder, tkey, nTunnels, triggered, stopping, waiter,
                   csLoop, scHeld, runPc, csChan, stream, readVars, scIndex,
                   nSC, workerVars, fatal>>

\* Mutant of RunWait: every tunnel's OnGroupStop only logs.
RunWaitNoExpiry(t) ==
    /\ runPc[t] = "wait"
    /\ waiter[t] = "exited" /\ csLoop[t] = "exited" /\ scLoop[t] = "exited"
    /\ runPc' = [runPc EXCEPT ![t] = "group"]
    /\ UNCHANGED <<holder, tkey, nTunnels, triggered, stopping, gctx, waiter,
                   csLoop, scLoop, scHeld, csChan, stream, readVars, scVars,
                   workerVars, fatal>>

\* app.OnGroupStop: player.Tunnel sets the worker's countdown expiry to
\* now (SetExpiryTime); room.Tunnel only logs.  The expiry afterwards.
OnGroupStop(t) == IF tkey[t].tp = "player" THEN TRUE ELSE expiry

\* eg.Wait() returned an error (every goroutine of run returns one): the
\* tunnel's app.OnGroupStop.
RunWait(t) ==
    /\ runPc[t] = "wait"
    /\ waiter[t] = "exited" /\ csLoop[t] = "exited" /\ scLoop[t] = "exited"
    /\ expiry' = OnGroupStop(t)
    /\ runPc' = [runPc EXCEPT ![t] = "group"]
    /\ UNCHANGED <<holder, tkey, nTunnels, triggered, stopping, gctx, waiter,
                   csLoop, scLoop, scHeld, csChan, stream, readVars, scVars,
                   wctx, wstopping, written, wloop, fatal>>

\* run's deferred Tunnel.stop: DoStop closes csChan and calls app.OnStop
\* (player: route table DelDelay and CloseSend; room: CloseSend).
TunnelStop(t) ==
    /\ runPc[t] = "group"
    /\ stopping' = [stopping EXCEPT ![t] = TRUE]
    /\ runPc' = [runPc EXCEPT ![t] = "done"]
    /\ UNCHANGED <<holder, tkey, nTunnels, triggered, gctx, waiter, csLoop,
                   scLoop, scHeld, csChan, stream, readVars, scVars,
                   workerVars, fatal>>

-----------------------------------------------------------------------------
(* The environment: the backends and the worker around the tunnels.      *)

\* The backend ends or breaks a tunnel's stream.
StreamBreak(t) ==
    /\ runPc[t] # "none"
    /\ stream[t] = "ok"
    /\ stream' = [stream EXCEPT ![t] = "broken"]
    /\ UNCHANGED <<holder, tkey, nTunnels, triggered, stopping, gctx, waiter,
                   csLoop, scLoop, scHeld, runPc, csChan, readVars, scVars,
                   workerVars, fatal>>

\* The worker's Run context is cancelled (a loop of Worker.Run returned).
WorkerCancel ==
    /\ ~wctx
    /\ wctx' = TRUE
    /\ UNCHANGED <<tunnelVars, readVars, scVars, expiry, wstopping, written,
                   wloop, fatal>>

\* Worker.writePackLoop takes the next packet from replyChan and writes it:
\* conn.Write returns once the client has taken the bytes.
WriteOK ==
    /\ wloop = "running"
    /\ ReplyQueued > 0
    /\ written' = written + 1
    /\ UNCHANGED <<tunnelVars, readVars, scVars, expiry, wctx, wstopping,
                   wloop, fatal>>

\* The write fails (the deadline readPack set has passed, or the peer
\* went away): writePackLoop returns the error and Run's errgroup cancels
\* the context.  Nothing reads replyChan any more.
WriteFail ==
    /\ wloop = "running"
    /\ ReplyQueued > 0
    /\ wloop' = "exited"
    /\ wctx' = TRUE
    /\ UNCHANGED <<tunnelVars, readVars, scVars, expiry, wstopping, written,
                   fatal>>

\* Worker.Stop, once Run has returned: its read loop is out of handle and
\* its writePackLoop has returned, which only a failed write does while
\* replyChan is open.  DoStop marks the worker stopping, closes replyChan,
\* and tunnelHolder.stop, under the write lock, calls TriggerStop on every
\* tunnel the holder maps.
WorkerStop ==
    /\ wctx
    /\ ~wstopping
    /\ rpc \in {"idle", "dead"}
    /\ wloop = "exited"
    /\ wstopping' = TRUE
    /\ triggered' = [t \in TIDs |->
                        triggered[t] \/ \E k \in Keys : holder[k] = t]
    /\ UNCHANGED <<holder, tkey, nTunnels, stopping, gctx, waiter, csLoop,
                   scLoop, scHeld, runPc, csChan, stream, readVars, scVars,
                   expiry, wctx, written, wloop, fatal>>

-----------------------------------------------------------------------------

NoKey == [tp |-> "none", oid |-> 0]

Init ==
    /\ holder = [k \in Keys |-> NoTID]
    /\ tkey = [t \in TIDs |-> NoKey]
    /\ nTunnels = 0
    /\ triggered = [t \in TIDs |-> FALSE]
    /\ stopping = [t \in TIDs |-> FALSE]
    /\ gctx = [t \in TIDs |-> FALSE]
    /\ waiter = [t \in TIDs |-> "none"]
    /\ csLoop = [t \in TIDs |-> "none"]
    /\ scLoop = [t \in TIDs |-> "none"]
    /\ scHeld = [t \in TIDs |-> 0]
    /\ runPc = [t \in TIDs |-> "none"]
    /\ csChan = [t \in TIDs |-> 0]
    /\ stream = [t \in TIDs |-> "ok"]
    /\ rpc = "idle"
    /\ rkey = NoKey
    /\ rt = NoTID
    /\ death = "none"
    \* Service.Auth has taken IncreaseCSIndex() = 1 as the client's start
    \* index and IncreaseSCIndex() = 2 for the handshake reply.
    /\ csIndex = Increase(SessionIndexStart.cs)
    /\ nCS = 0
    /\ scIndex = Increase(SessionIndexStart.sc)
    /\ nSC = 0
    /\ out = <<>>
    /\ expiry = FALSE
    /\ wctx = FALSE
    /\ wstopping = FALSE
    /\ written = 0
    /\ wloop = "running"
    /\ fatal = FALSE

TunnelStep(t) ==
    \/ Waiter(t) \/ CsLoop(t) \/ ScRecv(t) \/ ScStamp(t) \/ ScPush(t)
    \/ ScSend(t)
    \/ RunWait(t) \/ TunnelStop(t)

\* A stack overflow ends the process: nothing happens after it.
Next ==
    /\ ~fatal
    /\ \/ Handle \/ CreateTunnel \/ ForwardCheck \/ ForwardSend
       \/ WorkerCancel \/ WriteOK \/ WriteFail \/ WorkerStop
       \/ \E t \in TIDs : TunnelStep(t) \/ StreamBreak(t)

(***************************************************************************)
(* Fairness: the read loop's steps inside handle, the tunnels'           *)
(* goroutines (a send on replyChan once it has room or is closed) and     *)
(* Worker.Stop, which Server.work's deferred call runs once Run has       *)
(* returned, keep running while they can.  Clients (Handle, and whether   *)
(* they read: WriteOK, WriteFail), backends (StreamBreak; the messages    *)
(* ScRecv receives are bounded by MaxSC) and the worker's other loops     *)
(* (WorkerCancel) owe nothing.                                            *)
(***************************************************************************)
Fairness ==
    /\ WF_vars(~fatal /\ CreateTunnel)
    /\ WF_vars(~fatal /\ ForwardCheck)
    /\ WF_vars(~fatal /\ ForwardSend)
    /\ WF_vars(~fatal /\ WorkerStop)
    /\ \A t \in TIDs :
          /\ WF_vars(~fatal /\ Waiter(t))
          /\ WF_vars(~fatal /\ CsLoop(t))
          /\ WF_vars(~fatal /\ StreamDown(t) /\ ScRecv(t))
          /\ WF_vars(~fatal /\ ScStamp(t))
          /\ WF_vars(~fatal /\ ScPush(t))
          /\ WF_vars(~fatal /\ ScSend(t))
          /\ WF_vars(~fatal /\ RunWait(t))
          /\ WF_vars(~fatal /\ TunnelStop(t))

Spec == Init /\ [][Next]_vars /\ Fairness

-----------------------------------------------------------------------------
(* Properties.                                                             *)

TypeOK ==
    /\ holder \in [Keys -> TIDs \cup {NoTID}]
    /\ tkey \in [TIDs -> Keys \cup {NoKey}]
    /\ nTunnels \in 0..MaxTunnels
    /\ triggered \in [TIDs -> BOOLEAN]
    /\ stopping \in [TIDs -> BOOLEAN]
    /\ gctx \in [TIDs -> BOOLEAN]
    /\ waiter \in [TIDs -> {"none", "running", "exited"}]
    /\ csLoop \in [TIDs -> {"none", "running", "exited"}]
    /\ scLoop \in [TIDs -> {"none", "recv", "stamp", "push", "send",
                             "exited"}]
    /\ runPc \in [TIDs -> {"none", "wait", "group", "done"}]
    /\ csChan \in [TIDs -> 0..CsChanSize]
    /\ stream \in [TIDs -> {"ok", "broken"}]
    /\ rpc \in {"idle", "create", "fcheck", "fsend", "dead"}
    /\ rt \in TIDs \cup {NoTID}
    /\ death \in {"none", "bad-index", "honest-index", "create",
                  "tunnel-stopped", "send-on-closed"}
    /\ nCS \in 0..MaxCS /\ nSC \in 0..MaxSC
    /\ out \in Seq(Int)
    /\ expiry \in BOOLEAN /\ wctx \in BOOLEAN /\ wstopping \in BOOLEAN
    /\ written \in 0..Len(out) /\ ReplyQueued <= ReplyChanSize
    /\ wloop \in {"running", "exited"}
    /\ fatal \in BOOLEAN

\* Indices stamped on server-to-client packets come from the session's
\* atomic IncreaseSCIndex, so no two packets of the session, queued or
\* still held by a tunnel's scLoop, carry the same index (spec 4.A), however
\* the scLoops of several tunnels interleave.
SCIndexUnique ==
    LET held == {t \in TIDs : scLoop[t] \in {"push", "send"}} IN
    /\ \A i, j \in 1..Len(out) : i # j => out[i] # out[j]
    /\ \A t \in held, i \in 1..Len(out) : scHeld[t] # out[i]
    /\ \A t, u \in held : t # u => scHeld[t] # scHeld[u]

\* The client receives server-to-client indices in increasing order (spec
\* 8.1: stamped at enqueue time, strictly increasing).
SCIndexOrdered ==
    \A i \in 1..Len(out) - 1 : out[i] < out[i + 1]

ExpiryOnlyOnMainDeath ==
    expiry => ~\E t \in TIDs : tkey[t] = MainKey /\ runPc[t] = "wait"

\* The client keeps reading: writePackLoop never fails, and each of its
\* conn.Writes returns.  Nothing in the gateway ensures this (a client
\* that sends but does not read keeps readPack's deadline moving while
\* writePackLoop waits in conn.Write), so the property below assumes it.
\* Without it, a scLoop blocked on the full replyChan and a read loop
\* blocked in Forward on the full csChan wait on each other for good:
\* replyChan is closed only by Worker.Stop, after Run, after the read loop.
ClientKeepsUp == [](wloop = "running") /\ WF_vars(WriteOK)

\* While the client keeps reading, the main tunnel's broken backend stream
\* arms the worker's countdown (spec 8.7): all three goroutines of the
\* tunnel end, a scLoop blocked on replyChan included, and OnGroupStop
\* runs.
MainDeathArmsCountdown ==
    ClientKeepsUp =>
        \A t \in TIDs :
            (tkey[t] = MainKey /\ stream[t] = "broken" /\ runPc[t] = "wait")
                ~> (expiry \/ fatal)

====
