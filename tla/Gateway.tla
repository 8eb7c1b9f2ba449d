------------------------------ MODULE Gateway ------------------------------
(***************************************************************************)
(* The TCP front door of pkg/net: the accept loop and per-connection       *)
(* goroutine of tcp/server/server.go, the connection state machine of      *)
(* internal/worker.go, the registry of internal/buckets.go and the route   *)
(* table calls of app/gate/internal/router/routetable.go.                  *)
(*                                                                         *)
(* One worker per accepted connection, indexed by its WID.  pc[w] is the   *)
(* position of the goroutine running Server.work; a running worker has     *)
(* four more goroutines (the loops of Worker.Run) with their own state.    *)
(* Packets are counted, not named: the properties are about where packets  *)
(* go and when goroutines end, not about their contents.                   *)
(*                                                                         *)
(* The one-shot stopper (vulcan-pkg-tool sync.Stopper) is modelled as      *)
(* three flags: TriggerStop sets triggered (StopTriggered() fires), DoStop *)
(* sets stopping (IsStopping(), Stopping() fire) before running its        *)
(* function and stopped after it (WaitStopped() returns).                  *)
(***************************************************************************)
EXTENDS Naturals, FiniteSets, Buckets

CONSTANTS
    MaxConn,        \* connections accepted in a behaviour (WIDs 1..MaxConn)
    UIDs,           \* user ids a handshake can authenticate as (naturals > 0)
    ReplyChanSize,  \* capacity of Worker.replyChan (conf.Worker.ReplyChanSize)
    Pushers,        \* goroutines that call the Server API concurrently
    MaxPush,        \* bound on the number of API calls in a behaviour
    Ops,            \* the API calls made: by those goroutines, and Server.Stop
    BucketSize,     \* number of bucket shards (conf.Bucket.BucketSize)
    AcceptLoops     \* accept goroutines Server.Start runs (conf.Server.WorkerSize)

ASSUME MaxConn \in Nat \ {0}
ASSUME UIDs \subseteq Nat \ {0}
ASSUME ReplyChanSize \in Nat \ {0}
ASSUME MaxPush \in Nat
ASSUME Ops \subseteq {"push", "tunnel", "group", "broadcast", "disconnect", "stop"}
ASSUME BucketSize \in Nat \ {0}
ASSUME AcceptLoops \in Nat \ {0}

WIDs == 1..MaxConn
Loops == 1..AcceptLoops

\* Session.UID() of vnet.DefaultSession(), before a handshake installs one.
NoUID == 0

VARIABLES
    idGen,            \* Server.Start's atomic WID generator
    pc,               \* where the Server.work goroutine of each worker is
    session,          \* UID of the worker's session
    started,          \* Worker.started
    triggered,        \* stopper: TriggerStop was called
    stopping,         \* stopper: DoStop has begun
    stopped,          \* stopper: DoStop's function has finished
    expiry,           \* CountdownStopper expiry time is set and has passed
    gctx,             \* the errgroup context of Worker.Run is cancelled
    readLoop,         \* Worker.readPackLoop goroutine
    writeLoop,        \* Worker.writePackLoop goroutine
    waitLoop,         \* Run's stop-waiting goroutine
    tickLoop,         \* Worker.tickStopSign goroutine
    replyChan,        \* packets buffered in Worker.replyChan
    replyChanClosed,  \* close(w.replyChan) has run
    replyChanStarted, \* Worker.replyChanStarted
    client,           \* the peer's side of the TCP connection
    reg,              \* WIDs held by the bucket shards
    uidWid,           \* uidWidMap
    route,            \* route table: (color, uid) -> this gateway's endpoint
    pusher,           \* state of each goroutine calling Push
    pushes,           \* number of Push calls made so far
    sendOnClosed,     \* a Push sent on the closed replyChan (Go panics)
    nilPush,          \* PushGroup called Push on a nil worker (Go panics)
    acc,              \* the acceptLoop goroutines
    srv,              \* Server.Start, then Server.stop: where its two walks are
    lastPut           \* history: the last WID Buckets.Put stored for each UID

vars == <<idGen, pc, session, started, triggered, stopping, stopped, expiry,
          gctx, readLoop, writeLoop, waitLoop, tickLoop, replyChan,
          replyChanClosed, replyChanStarted, client, reg, uidWid, route,
          pusher, pushes, sendOnClosed, nilPush, acc, srv, lastPut>>

stopperVars == <<triggered, stopping, stopped, expiry>>
loopVars    == <<gctx, readLoop, writeLoop, waitLoop, tickLoop>>
chanVars    == <<replyChan, replyChanClosed, replyChanStarted>>
regVars     == <<reg, uidWid, route, lastPut>>
pushVars    == <<pusher, pushes, sendOnClosed, nilPush>>
srvVars     == <<acc, srv>>

PCs == {"idle", "start", "put", "connect", "run", "del", "stop", "stopwait",
        "disconnect", "done"}

-----------------------------------------------------------------------------
(* Server side: accepting and registering a connection.                    *)

\* NewServer: a fresh stopper, and Start has not run yet; the options and
\* the configuration it reads are the CONSTANTS.
NewServer == [pc |-> "init", b |-> 0, todo |-> {}]

\* Server.stop has begun: DoStop has closed the server's Stopping() channel.
ServerStopping == srv.pc \notin {"init", "failed", "serving"}

\* Server.Start: ResolveTCPAddr and ListenTCP may fail, and Start returns
\* the error with nothing running; otherwise it starts WorkerSize
\* acceptLoop goroutines sharing one WID generator.  (Its
\* SetDeadlineWithContext acts only when Start's context ends, which no
\* run models: the runs shut down through Server.Stop.)
ServerStart ==
    /\ srv.pc = "init"
    /\ \/ /\ srv' = [srv EXCEPT !.pc = "failed"]
          /\ UNCHANGED acc
       \/ /\ srv' = [srv EXCEPT !.pc = "serving"]
          /\ acc' = [l \in Loops |-> "accepting"]
    /\ UNCHANGED <<idGen, pc, session, started, stopperVars, loopVars,
                   chanVars, client, regVars, pushVars>>

\* Server.acceptLoop and Server.accept: the loop blocks in AcceptTCP, which
\* returns a connection (it gets the next WID and its own goroutine running
\* serve and work) or fails; then the loop checks Stopping() and, once the
\* server stop has begun, waits for it and returns (nothing waits for the
\* loop, so that wait is left out).  The listener is closed only when the
\* context passed to Start ends, not by Server.stop, so a blocked AcceptTCP
\* still takes a connection after the stop began.  serve's socket options
\* are taken to succeed: when one fails the goroutine ends before a worker
\* exists, as if the connection had not been accepted.
Accept(l) ==
    /\ acc[l] = "accepting"
    /\ acc' = [acc EXCEPT ![l] = IF ServerStopping THEN "exited" ELSE "accepting"]
    /\ \/ /\ idGen < MaxConn
          /\ idGen' = idGen + 1
          /\ pc' = [pc EXCEPT ![idGen + 1] = "start"]
       \/ UNCHANGED <<idGen, pc>>
    /\ UNCHANGED <<session, started, stopperVars, loopVars, chanVars, client,
                   regVars, pushVars, srv>>

\* Worker.read: a length-prefixed frame from the peer.  A closed peer, a
\* passed deadline, a length outside 1..MaxBodySize, a short body or a
\* failed decrypt is an error; only an open peer can deliver a frame.
ReadOutcomes(w) == IF client[w] = "open" THEN {"ok", "err"} ELSE {"err"}

\* Worker.writePack and Worker.write: the write filters, encrypt, the
\* length prefix and conn.Write; only an open peer can take the frame.
WriteOutcomes(w) == IF client[w] = "open" THEN {"ok", "err"} ELSE {"err"}

\* Service.Auth and Service.auth: an empty or non-handshake frame, an
\* empty, undecryptable or expired token are errors; a valid token yields
\* a session of the token's AccountId, any user here.
AuthAccounts == UIDs

\* Worker.handshake: read, Service.Auth, write the reply, install the
\* session.  The UIDs a handshake of w can install; it can always fail.
Handshake(w) ==
    IF "ok" \in ReadOutcomes(w) /\ "ok" \in WriteOutcomes(w)
    THEN AuthAccounts ELSE {}

\* Worker.Start: the handshake deadline, the handshake, OnConnected (which
\* returns nil), the idle deadline, started := true.  A failure before the
\* session is installed leaves the default session; a failure of the last
\* SetDeadline leaves the new session with started still false.  Any
\* failure makes Server.work run its deferred Stop.
Start(w) ==
    /\ pc[w] = "start"
    /\ \/ /\ pc' = [pc EXCEPT ![w] = "stop"]
          /\ UNCHANGED <<session, started>>
       \/ \E u \in Handshake(w) :
             /\ session' = [session EXCEPT ![w] = u]
             /\ \/ /\ started' = [started EXCEPT ![w] = TRUE]
                   /\ pc' = [pc EXCEPT ![w] = "put"]
                \/ /\ pc' = [pc EXCEPT ![w] = "stop"]
                   /\ UNCHANGED started
    /\ UNCHANGED <<idGen, stopperVars, loopVars, chanVars, client, regVars,
                   pushVars, srvVars>>

\* Server.putBucket: Buckets.Put, and TriggerStop on the worker it replaced.
PutBucket(w) ==
    LET r == Put(reg, uidWid, w, session[w]) IN
    /\ pc[w] = "put"
    /\ reg' = r.reg
    /\ uidWid' = r.uidWid
    /\ lastPut' = [lastPut EXCEPT ![session[w]] = w]
    /\ triggered' = IF r.old # NoWID
                    THEN [triggered EXCEPT ![r.old] = TRUE]
                    ELSE triggered
    /\ pc' = [pc EXCEPT ![w] = "connect"]
    /\ UNCHANGED <<idGen, session, started, stopping, stopped, expiry,
                   loopVars, chanVars, client, route, pushVars,
                   srvVars>>

\* router.AddRouteTable, the afterConnectFunc of server/tcp.go: a GetSet of
\* (color, uid) to this gateway's endpoint under a 2 s timeout.  The route
\* tables it can leave, with whether it returns an error: a GetSet that
\* timed out on the client may still have been applied by Redis.
AddRouteTable(u) ==
    {[rt |-> [route EXCEPT ![u] = TRUE], err |-> FALSE],
     [rt |-> [route EXCEPT ![u] = TRUE], err |-> TRUE],
     [rt |-> route, err |-> TRUE]}

\* router.DelRouteTable, the afterDisconnectFunc: a DelIfSame of (color,
\* uid) against this gateway's endpoint; its error is logged and dropped,
\* and the route then stays.
DelRouteTable(u) == {[route EXCEPT ![u] = FALSE], route}

\* server/tcp.go installs both hooks when the route table is wired: the
\* afterConnectFunc returns AddRouteTable's error to Server.work, the
\* afterDisconnectFunc discards DelRouteTable's result and returns nil.
afterConnectFunc(u) == AddRouteTable(u)
afterDisconnectFunc(u) == DelRouteTable(u)

\* afterConnectFunc, then Worker.Run, which spawns its four goroutines.  A
\* failed AddRouteTable returns the error and work's deferred Buckets.Del
\* runs.
AfterConnect(w) ==
    /\ pc[w] = "connect"
    /\ \E r \in afterConnectFunc(session[w]) :
          /\ route' = r.rt
          /\ \/ /\ ~r.err
                /\ pc' = [pc EXCEPT ![w] = "run"]
                /\ readLoop' = [readLoop EXCEPT ![w] = "check"]
                /\ writeLoop' = [writeLoop EXCEPT ![w] = "spawned"]
                /\ waitLoop' = [waitLoop EXCEPT ![w] = "running"]
                /\ tickLoop' = [tickLoop EXCEPT ![w] = "running"]
             \/ /\ r.err
                /\ pc' = [pc EXCEPT ![w] = "del"]
                /\ UNCHANGED <<readLoop, writeLoop, waitLoop, tickLoop>>
    /\ UNCHANGED <<idGen, session, started, stopperVars, gctx, chanVars,
                   client, reg, uidWid, lastPut, pushVars, srvVars>>

-----------------------------------------------------------------------------
(* The four goroutines of Worker.Run.  errgroup.WithContext cancels gctx   *)
(* when one of them returns a non-nil error; Run returns when all four     *)
(* have returned.                                                          *)

\* Run's first goroutine: StopTriggered() gives GroupStopping, ctx.Done()
\* gives ctx.Err(); both are errors.
WaitLoop(w) ==
    /\ waitLoop[w] = "running"
    /\ triggered[w] \/ gctx[w]
    /\ waitLoop' = [waitLoop EXCEPT ![w] = "exited"]
    /\ gctx' = [gctx EXCEPT ![w] = TRUE]
    /\ UNCHANGED <<idGen, pc, session, started, stopperVars, readLoop,
                   writeLoop, tickLoop, chanVars, client, regVars, pushVars,
                   srvVars>>

\* Worker.tickStopSign: on ctx.Done() return its error; on a tick after the
\* countdown expiry, TriggerStop and return ErrCountdownTimerExpired.
TickLoop(w) ==
    /\ tickLoop[w] = "running"
    /\ \/ /\ gctx[w]
          /\ UNCHANGED triggered
       \/ /\ ~gctx[w]
          /\ expiry[w]
          /\ triggered' = [triggered EXCEPT ![w] = TRUE]
    /\ tickLoop' = [tickLoop EXCEPT ![w] = "exited"]
    /\ gctx' = [gctx EXCEPT ![w] = TRUE]
    /\ UNCHANGED <<idGen, pc, session, started, stopping, stopped, expiry,
                   readLoop, writeLoop, waitLoop, chanVars, client, regVars,
                   pushVars, srvVars>>

\* Worker.readPackLoop, top of the loop: ctx.Done() returns ctx.Err(),
\* Stopping() returns nil (which does not cancel the group), otherwise it
\* blocks in readPack.
ReadCheck(w) ==
    /\ readLoop[w] = "check"
    /\ \/ /\ gctx[w] \/ stopping[w]
          /\ readLoop' = [readLoop EXCEPT ![w] = "exited"]
       \/ /\ ~gctx[w]
          /\ ~stopping[w]
          /\ readLoop' = [readLoop EXCEPT ![w] = "reading"]
    /\ UNCHANGED <<idGen, pc, session, started, stopperVars, gctx, writeLoop,
                   waitLoop, tickLoop, chanVars, client, regVars, pushVars,
                   srvVars>>

\* Worker.readPack ends: either a frame arrived from the open peer, passed
\* the read filters and service.Handle, and the deadline was pushed back;
\* or Worker.read / Handle failed (peer closed, idle deadline passed, bad
\* length, decrypt or CS index error), which returns the error.
ReadPack(w) ==
    /\ readLoop[w] = "reading"
    /\ \/ /\ "ok" \in ReadOutcomes(w)
          /\ readLoop' = [readLoop EXCEPT ![w] = "check"]
          /\ UNCHANGED gctx
       \/ /\ readLoop' = [readLoop EXCEPT ![w] = "exited"]
          /\ gctx' = [gctx EXCEPT ![w] = TRUE]
    /\ UNCHANGED <<idGen, pc, session, started, stopperVars, writeLoop,
                   waitLoop, tickLoop, chanVars, client, regVars, pushVars,
                   srvVars>>

\* Worker.writePackLoop starts: replyChanStarted := true.
WriteStart(w) ==
    /\ writeLoop[w] = "spawned"
    /\ writeLoop' = [writeLoop EXCEPT ![w] = "running"]
    /\ replyChanStarted' = [replyChanStarted EXCEPT ![w] = TRUE]
    /\ UNCHANGED <<idGen, pc, session, started, stopperVars, gctx, readLoop,
                   waitLoop, tickLoop, replyChan, replyChanClosed, client,
                   regVars, pushVars, srvVars>>

\* One iteration of `for pack := range w.replyChan`: writePack succeeds, or
\* fails (peer gone, deadline passed) and the loop returns the error.  The
\* third way out of the range, the channel closed and drained, is left out:
\* only Worker.Stop closes replyChan, and Server.work calls Stop after Run
\* has returned, which needs this loop to have returned first.
WritePack(w) ==
    /\ writeLoop[w] = "running"
    /\ replyChan[w] > 0
    /\ replyChan' = [replyChan EXCEPT ![w] = @ - 1]
    /\ \/ /\ "ok" \in WriteOutcomes(w)
          /\ UNCHANGED <<writeLoop, gctx>>
       \/ /\ writeLoop' = [writeLoop EXCEPT ![w] = "failed"]
          /\ gctx' = [gctx EXCEPT ![w] = TRUE]
    /\ UNCHANGED <<idGen, pc, session, started, stopperVars, readLoop,
                   waitLoop, tickLoop, replyChanClosed, replyChanStarted,
                   client, regVars, pushVars, srvVars>>

LoopDone(l) == l \in {"exited", "failed"}

\* eg.Wait() returns once every goroutine of the group has returned.
RunReturn(w) ==
    /\ pc[w] = "run"
    /\ LoopDone(readLoop[w]) /\ LoopDone(writeLoop[w])
    /\ LoopDone(waitLoop[w]) /\ LoopDone(tickLoop[w])
    /\ pc' = [pc EXCEPT ![w] = "del"]
    /\ UNCHANGED <<idGen, session, started, stopperVars, loopVars, chanVars,
                   client, regVars, pushVars, srvVars>>

-----------------------------------------------------------------------------
(* Tear-down, in the order of Server.work's deferred calls.                *)

\* Mutant of DelBucket: the deferred Buckets.Del is missing.
DelBucketMissing(w) ==
    /\ pc[w] = "del"
    /\ pc' = [pc EXCEPT ![w] = "stop"]
    /\ UNCHANGED <<idGen, session, started, stopperVars, loopVars, chanVars,
                   client, regVars, pushVars, srvVars>>

\* defer s.buckets.Del(w)
DelBucket(w) ==
    LET r == Del(reg, uidWid, w, session[w]) IN
    /\ pc[w] = "del"
    /\ reg' = r.reg
    /\ uidWid' = r.uidWid
    /\ pc' = [pc EXCEPT ![w] = "stop"]
    /\ UNCHANGED <<idGen, session, started, stopperVars, loopVars, chanVars,
                   client, route, lastPut, pushVars, srvVars>>

\* Mutant of StopBegin: replyChan is left open.
StopBeginNoClose(w) ==
    /\ pc[w] = "stop"
    /\ stopping' = [stopping EXCEPT ![w] = TRUE]
    /\ pc' = [pc EXCEPT ![w] = "stopwait"]
    /\ UNCHANGED <<idGen, session, started, triggered, stopped, expiry,
                   loopVars, chanVars, client, regVars, pushVars,
                   srvVars>>

\* Worker.Stop, first half: DoStop marks the worker stopping, calls
\* OnDisconnect when started (no state here), and closes replyChan.
StopBegin(w) ==
    /\ pc[w] = "stop"
    /\ stopping' = [stopping EXCEPT ![w] = TRUE]
    /\ replyChanClosed' = [replyChanClosed EXCEPT ![w] = TRUE]
    /\ pc' = [pc EXCEPT ![w] = "stopwait"]
    /\ UNCHANGED <<idGen, session, started, triggered, stopped, expiry,
                   loopVars, replyChan, replyChanStarted, client, regVars,
                   pushVars, srvVars>>

\* Worker.Stop, second half: wait for replyChanCompleted when the write
\* loop was started, close the reader, stop the tunnel holder, close the
\* connection; DoStop then marks the worker stopped.
StopFinish(w) ==
    /\ pc[w] = "stopwait"
    /\ replyChanStarted[w] => LoopDone(writeLoop[w])
    /\ stopped' = [stopped EXCEPT ![w] = TRUE]
    /\ client' = [client EXCEPT ![w] = "closed"]
    /\ pc' = [pc EXCEPT ![w] = "disconnect"]
    /\ UNCHANGED <<idGen, session, started, triggered, stopping, expiry,
                   loopVars, chanVars, regVars, pushVars, srvVars>>

\* afterDisconnectFunc, deferred in Server.work after Worker.Stop, for
\* whatever UID the session holds (the default session's 0 has no route).
AfterDisconnect(w) ==
    /\ pc[w] = "disconnect"
    /\ route' \in IF session[w] \in UIDs
                   THEN afterDisconnectFunc(session[w]) ELSE {route}
    /\ pc' = [pc EXCEPT ![w] = "done"]
    /\ UNCHANGED <<idGen, session, started, stopperVars, loopVars, chanVars,
                   client, reg, uidWid, lastPut, pushVars, srvVars>>

-----------------------------------------------------------------------------
(* The environment: peers, the main tunnel, Server.Stop and the callers of *)
(* Push.                                                                   *)

\* The peer closes its side of the connection.
ClientClose(w) ==
    /\ pc[w] \notin {"idle", "done"}
    /\ client[w] = "open"
    /\ client' = [client EXCEPT ![w] = "closed"]
    /\ UNCHANGED <<idGen, pc, session, started, stopperVars, loopVars,
                   chanVars, regVars, pushVars, srvVars>>

\* The player tunnel's group ends (backend stream error) and its
\* OnGroupStop calls worker.SetExpiryTime(time.Now()).
MainTunnelLost(w) ==
    /\ pc[w] = "run"
    /\ ~gctx[w]
    /\ ~expiry[w]
    /\ expiry' = [expiry EXCEPT ![w] = TRUE]
    /\ UNCHANGED <<idGen, pc, session, started, triggered, stopping, stopped,
                   loopVars, chanVars, client, regVars, pushVars,
                   srvVars>>

\* Server.Stop's caller runs Server.stop: DoStop closes Stopping() and runs
\* two Buckets.Walks, bucket by bucket over snapshots; the first calls
\* TriggerStop on every worker, the second WaitStopped on every worker.
\* Each step of the first walk takes a bucket's snapshot and triggers its
\* workers; DoStop's start is merged with the first bucket's.
TriggerWalk(b) ==
    /\ triggered' = [w \in WIDs |->
                        triggered[w] \/ w \in Snapshot(reg, b, BucketSize)]
    /\ srv' = IF b < BucketSize - 1
              THEN [pc |-> "trigger", b |-> b + 1, todo |-> {}]
              ELSE [pc |-> "snapshot", b |-> 0, todo |-> {}]
    /\ UNCHANGED <<idGen, pc, session, started, stopping, stopped, expiry,
                   loopVars, chanVars, client, regVars, pushVars, acc>>

ServerStop ==
    /\ "stop" \in Ops
    /\ srv.pc = "serving"
    /\ TriggerWalk(0)

ServerTrigger ==
    /\ srv.pc = "trigger"
    /\ TriggerWalk(srv.b)

\* The second walk takes the snapshot of a bucket ...
ServerSnapshot ==
    /\ srv.pc = "snapshot"
    /\ srv' = [srv EXCEPT !.pc = "wait", !.todo = Snapshot(reg, srv.b, BucketSize)]
    /\ UNCHANGED <<idGen, pc, session, started, stopperVars, loopVars,
                   chanVars, client, regVars, pushVars, acc>>

\* ... and WaitStopped returns for one worker of it after another; then
\* the next bucket, and DoStop returns after the last.
ServerWait ==
    /\ srv.pc = "wait"
    /\ \/ \E w \in srv.todo :
             /\ stopped[w]
             /\ srv' = [srv EXCEPT !.todo = @ \ {w}]
       \/ /\ srv.todo = {}
          /\ srv' = IF srv.b < BucketSize - 1
                    THEN [srv EXCEPT !.pc = "snapshot", !.b = @ + 1]
                    ELSE [srv EXCEPT !.pc = "done"]
    /\ UNCHANGED <<idGen, pc, session, started, stopperVars, loopVars,
                   chanVars, client, regVars, pushVars, acc>>

IdlePusher == [at |-> "idle", w |-> NoWID, b |-> 0, todo |-> {}, uids |-> {}]

\* A call about to run Worker.Push on w, with nothing to do after it.
SinglePush(w) == [at |-> "check", w |-> w, b |-> BucketSize - 1, todo |-> {},
                  uids |-> {}]

\* Server.Push(uid): Buckets.GetByUID; "worker not found" when absent,
\* otherwise go on to Worker.Push with the worker found.
ServerPush(p, u) ==
    LET w == GetByUID(reg, uidWid, u) IN
    /\ "push" \in Ops
    /\ pusher[p].at = "idle"
    /\ pushes < MaxPush
    /\ pushes' = pushes + 1
    /\ pusher' = IF w = NoWID THEN pusher ELSE [pusher EXCEPT ![p] = SinglePush(w)]
    /\ UNCHANGED <<idGen, pc, session, started, stopperVars, loopVars,
                   chanVars, client, regVars, sendOnClosed, nilPush, srvVars>>

\* Server.PushGroup(uids): Buckets.GetByUIDs, then Worker.Push on each
\* worker it returned, going on after an error.
PushGroup(p, us) ==
    /\ "group" \in Ops
    /\ pusher[p].at = "idle"
    /\ pushes < MaxPush
    /\ pushes' = pushes + 1
    /\ pusher' = [pusher EXCEPT ![p] = [IdlePusher EXCEPT !.at = "load",
                                         !.b = BucketSize - 1, !.uids = us]]
    /\ UNCHANGED <<idGen, pc, session, started, stopperVars, loopVars,
                   chanVars, client, regVars, sendOnClosed, nilPush, srvVars>>

\* GetByUIDs, one UID: uidWidMap.Load; an absent UID is skipped.  After
\* the last UID the push loop starts.
GroupLoad(p) ==
    /\ pusher[p].at = "load"
    /\ \/ /\ pusher[p].uids = {}
          /\ pusher' = [pusher EXCEPT ![p].at = "walk"]
       \/ \E u \in pusher[p].uids :
             pusher' = [pusher EXCEPT ![p].uids = @ \ {u},
                                      ![p].at = IF uidWid[u] = NoWID
                                                THEN "load" ELSE "get",
                                      ![p].w = uidWid[u]]
    /\ UNCHANGED <<idGen, pc, session, started, stopperVars, loopVars,
                   chanVars, client, regVars, pushes, sendOnClosed, nilPush,
                   srvVars>>

\* GetByUIDs appends bs.Worker(wid) with no nil check: a worker deleted
\* since the Load is appended as nil (NoWID).
GroupGet(p) ==
    /\ pusher[p].at = "get"
    /\ pusher' = [pusher EXCEPT ![p].todo = @ \cup {Worker(reg, pusher[p].w)},
                                 ![p].at = "load", ![p].w = NoWID]
    /\ UNCHANGED <<idGen, pc, session, started, stopperVars, loopVars,
                   chanVars, client, regVars, pushes, sendOnClosed, nilPush,
                   srvVars>>

\* Server.Broadcast: Buckets.Walk, calling Worker.Push on every worker of
\* each bucket's snapshot and going on after an error.
Broadcast(p) ==
    /\ "broadcast" \in Ops
    /\ pusher[p].at = "idle"
    /\ pushes < MaxPush
    /\ pushes' = pushes + 1
    /\ pusher' = [pusher EXCEPT ![p] = [IdlePusher EXCEPT !.at = "walk",
                                         !.todo = Snapshot(reg, 0, BucketSize)]]
    /\ UNCHANGED <<idGen, pc, session, started, stopperVars, loopVars,
                   chanVars, client, regVars, sendOnClosed, nilPush, srvVars>>

\* The push loop of PushGroup and Broadcast: Worker.Push on the next
\* worker; a nil one makes w.Push dereference nil, a panic that ends the
\* call (the gRPC recovery middleware turns it into an error); the next
\* bucket's snapshot for Broadcast; the call returns after the last.
PushWalk(p) ==
    LET c == pusher[p] IN
    /\ c.at = "walk"
    /\ \/ \E w \in c.todo \ {NoWID} :
             /\ pusher' = [pusher EXCEPT ![p] = [c EXCEPT !.at = "check", !.w = w,
                                                          !.todo = @ \ {w}]]
             /\ UNCHANGED nilPush
       \/ /\ NoWID \in c.todo
          /\ pusher' = [pusher EXCEPT ![p] = IdlePusher]
          /\ nilPush' = TRUE
       \/ /\ c.todo = {}
          /\ pusher' = [pusher EXCEPT ![p] =
                           IF c.b < BucketSize - 1
                           THEN [c EXCEPT !.b = @ + 1,
                                          !.todo = Snapshot(reg, c.b + 1, BucketSize)]
                           ELSE IdlePusher]
          /\ UNCHANGED nilPush
    /\ UNCHANGED <<idGen, pc, session, started, stopperVars, loopVars,
                   chanVars, client, regVars, pushes, sendOnClosed, srvVars>>

\* A tunnel's sc loop of worker w receives a backend message and calls
\* Tunnel.Push, i.e. Worker.Push.  The backend stream lives in the worker's
\* Run context, so a message arrives only before that context is cancelled.
TunnelPush(p, w) ==
    /\ "tunnel" \in Ops
    /\ pusher[p].at = "idle"
    /\ pushes < MaxPush
    /\ pc[w] = "run"
    /\ ~gctx[w]
    /\ pushes' = pushes + 1
    /\ pusher' = [pusher EXCEPT ![p] = SinglePush(w)]
    /\ UNCHANGED <<idGen, pc, session, started, stopperVars, loopVars,
                   chanVars, client, regVars, sendOnClosed, nilPush, srvVars>>

\* Server.Disconnect(key): Buckets.Worker; "worker not found" when absent,
\* otherwise TriggerStop, then wait in WaitStopped.
Disconnect(p, k) ==
    LET w == Worker(reg, k) IN
    /\ "disconnect" \in Ops
    /\ pusher[p].at = "idle"
    /\ pushes < MaxPush
    /\ pushes' = pushes + 1
    /\ triggered' = IF w = NoWID THEN triggered
                    ELSE [triggered EXCEPT ![w] = TRUE]
    /\ pusher' = IF w = NoWID THEN pusher
                 ELSE [pusher EXCEPT ![p] = [IdlePusher EXCEPT !.at = "disc",
                                                              !.w = w]]
    /\ UNCHANGED <<idGen, pc, session, started, stopping, stopped, expiry,
                   loopVars, chanVars, client, regVars, sendOnClosed, nilPush,
                   srvVars>>

\* Disconnect's WaitStopped returns once the worker's DoStop has finished.
DisconnectWait(p) ==
    /\ pusher[p].at = "disc"
    /\ stopped[pusher[p].w]
    /\ pusher' = [pusher EXCEPT ![p] = IdlePusher]
    /\ UNCHANGED <<idGen, pc, session, started, stopperVars, loopVars,
                   chanVars, client, regVars, pushes, sendOnClosed, nilPush,
                   srvVars>>

\* Worker.Push has returned (sent or refused): PushGroup and Broadcast go
\* on with their walk, Push and Tunnel.Push return.
PushDone(c) ==
    IF c.todo = {} /\ c.b = BucketSize - 1
    THEN IdlePusher ELSE [c EXCEPT !.at = "walk", !.w = NoWID]

\* Worker.Push up to the channel send: "worker is stopping" when
\* IsStopping(), otherwise on to `w.replyChan <- out`.
PushCheck(p) ==
    LET w == pusher[p].w IN
    /\ pusher[p].at = "check"
    /\ \/ /\ stopping[w]
          /\ pusher' = [pusher EXCEPT ![p] = PushDone(pusher[p])]
       \/ /\ ~stopping[w]
          /\ pusher' = [pusher EXCEPT ![p].at = "send"]
    /\ UNCHANGED <<idGen, pc, session, started, stopperVars, loopVars,
                   chanVars, client, regVars, pushes, sendOnClosed, nilPush,
                   srvVars>>

\* Mutant of PushSend: the send does not wait for room in the channel.
PushSendNoCap(p) ==
    LET w == pusher[p].w IN
    /\ pusher[p].at = "send"
    /\ \/ /\ replyChanClosed[w]
          /\ sendOnClosed' = TRUE
          /\ pusher' = [pusher EXCEPT ![p] = IdlePusher]
          /\ UNCHANGED replyChan
       \/ /\ ~replyChanClosed[w]
          /\ replyChan' = [replyChan EXCEPT ![w] = @ + 1]
          /\ pusher' = [pusher EXCEPT ![p] = PushDone(pusher[p])]
          /\ UNCHANGED sendOnClosed
    /\ UNCHANGED <<idGen, pc, session, started, stopperVars, loopVars,
                   replyChanClosed, replyChanStarted, client, regVars,
                   pushes, nilPush, srvVars>>

\* `w.replyChan <- out`: blocks while the channel is full; on a closed
\* channel Go panics, which ends the whole call (the recovery of the
\* caller, RunSafe or the gRPC middleware, turns it into an error).
PushSend(p) ==
    LET w == pusher[p].w IN
    /\ pusher[p].at = "send"
    /\ \/ /\ replyChanClosed[w]
          /\ sendOnClosed' = TRUE
          /\ pusher' = [pusher EXCEPT ![p] = IdlePusher]
          /\ UNCHANGED replyChan
       \/ /\ ~replyChanClosed[w]
          /\ replyChan[w] < ReplyChanSize
          /\ replyChan' = [replyChan EXCEPT ![w] = @ + 1]
          /\ pusher' = [pusher EXCEPT ![p] = PushDone(pusher[p])]
          /\ UNCHANGED sendOnClosed
    /\ UNCHANGED <<idGen, pc, session, started, stopperVars, loopVars,
                   replyChanClosed, replyChanStarted, client, regVars,
                   pushes, nilPush, srvVars>>

-----------------------------------------------------------------------------

Init ==
    /\ idGen = 0
    /\ pc = [w \in WIDs |-> "idle"]
    /\ session = [w \in WIDs |-> NoUID]
    /\ started = [w \in WIDs |-> FALSE]
    /\ triggered = [w \in WIDs |-> FALSE]
    /\ stopping = [w \in WIDs |-> FALSE]
    /\ stopped = [w \in WIDs |-> FALSE]
    /\ expiry = [w \in WIDs |-> FALSE]
    /\ gctx = [w \in WIDs |-> FALSE]
    /\ readLoop = [w \in WIDs |-> "none"]
    /\ writeLoop = [w \in WIDs |-> "none"]
    /\ waitLoop = [w \in WIDs |-> "none"]
    /\ tickLoop = [w \in WIDs |-> "none"]
    /\ replyChan = [w \in WIDs |-> 0]
    /\ replyChanClosed = [w \in WIDs |-> FALSE]
    /\ replyChanStarted = [w \in WIDs |-> FALSE]
    /\ client = [w \in WIDs |-> "open"]
    /\ reg = NewBuckets
    /\ uidWid = EmptyUidWid(UIDs)
    /\ route = [u \in UIDs |-> FALSE]
    /\ pusher = [p \in Pushers |-> IdlePusher]
    /\ pushes = 0
    /\ sendOnClosed = FALSE
    /\ nilPush = FALSE
    /\ acc = [l \in Loops |-> "none"]
    /\ srv = NewServer
    /\ lastPut = [u \in UIDs |-> NoWID]

\* The steps of the gateway's own goroutines.
WorkerStep(w) ==
    \/ Start(w) \/ PutBucket(w) \/ AfterConnect(w)
    \/ WaitLoop(w) \/ TickLoop(w) \/ ReadCheck(w) \/ ReadPack(w)
    \/ WriteStart(w) \/ WritePack(w) \/ RunReturn(w)
    \/ DelBucket(w) \/ StopBegin(w) \/ StopFinish(w) \/ AfterDisconnect(w)

\* The steps of Server.stop, once its caller has begun it.
ServerStep == ServerTrigger \/ ServerSnapshot \/ ServerWait

\* The steps of an API call, once it has begun.
CallStep(p) ==
    \/ GroupLoad(p) \/ GroupGet(p) \/ PushWalk(p)
    \/ PushCheck(p) \/ PushSend(p) \/ DisconnectWait(p)

Next ==
    \/ ServerStart
    \/ \E l \in Loops : Accept(l)
    \/ ServerStop
    \/ ServerStep
    \/ \E w \in WIDs : WorkerStep(w) \/ ClientClose(w) \/ MainTunnelLost(w)
    \/ \E p \in Pushers :
          \/ CallStep(p)
          \/ \E u \in UIDs : ServerPush(p, u)
          \/ \E us \in SUBSET UIDs \ {{}} : PushGroup(p, us)
          \/ Broadcast(p)
          \/ \E w \in WIDs : TunnelPush(p, w) \/ Disconnect(p, w)

(***************************************************************************)
(* Fairness: every goroutine of the gateway keeps running while it can.   *)
(* A blocked socket read always ends, with data or with the idle deadline *)
(* that Worker.Start and readPack set, so ReadPack is weakly fair too.    *)
(* Server.stop once begun and an API call once made run on goroutines of  *)
(* the gateway too.  Peers (connecting or not), backends and the callers  *)
(* of Server.Stop and of the API owe nothing: their actions are not fair. *)
(***************************************************************************)
Fairness ==
    /\ \A w \in WIDs :
          /\ WF_vars(Start(w)) /\ WF_vars(PutBucket(w))
          /\ WF_vars(AfterConnect(w)) /\ WF_vars(WaitLoop(w))
          /\ WF_vars(TickLoop(w)) /\ WF_vars(ReadCheck(w))
          /\ WF_vars(ReadPack(w)) /\ WF_vars(WriteStart(w))
          /\ WF_vars(WritePack(w)) /\ WF_vars(RunReturn(w))
          /\ WF_vars(DelBucket(w)) /\ WF_vars(StopBegin(w))
          /\ WF_vars(StopFinish(w)) /\ WF_vars(AfterDisconnect(w))
    /\ WF_vars(ServerStart)
    /\ WF_vars(ServerTrigger) /\ WF_vars(ServerSnapshot) /\ WF_vars(ServerWait)
    /\ \A p \in Pushers :
          /\ WF_vars(GroupLoad(p)) /\ WF_vars(GroupGet(p))
          /\ WF_vars(PushWalk(p)) /\ WF_vars(PushCheck(p))
          /\ WF_vars(PushSend(p)) /\ WF_vars(DisconnectWait(p))

Spec == Init /\ [][Next]_vars /\ Fairness

-----------------------------------------------------------------------------
(* Properties.                                                             *)

TypeOK ==
    /\ idGen \in 0..MaxConn
    /\ pc \in [WIDs -> PCs]
    /\ session \in [WIDs -> UIDs \cup {NoUID}]
    /\ started \in [WIDs -> BOOLEAN]
    /\ triggered \in [WIDs -> BOOLEAN]
    /\ stopping \in [WIDs -> BOOLEAN]
    /\ stopped \in [WIDs -> BOOLEAN]
    /\ expiry \in [WIDs -> BOOLEAN]
    /\ gctx \in [WIDs -> BOOLEAN]
    /\ readLoop \in [WIDs -> {"none", "check", "reading", "exited"}]
    /\ writeLoop \in [WIDs -> {"none", "spawned", "running", "exited", "failed"}]
    /\ waitLoop \in [WIDs -> {"none", "running", "exited"}]
    /\ tickLoop \in [WIDs -> {"none", "running", "exited"}]
    /\ replyChan \in [WIDs -> 0..ReplyChanSize]
    /\ replyChanClosed \in [WIDs -> BOOLEAN]
    /\ replyChanStarted \in [WIDs -> BOOLEAN]
    /\ client \in [WIDs -> {"open", "closed"}]
    /\ reg \subseteq WIDs
    /\ uidWid \in [UIDs -> WIDs \cup {NoWID}]
    /\ route \in [UIDs -> BOOLEAN]
    /\ pusher \in [Pushers ->
                     [at : {"idle", "load", "get", "walk", "check", "send", "disc"},
                      w : WIDs \cup {NoWID}, b : 0..BucketSize - 1,
                      todo : SUBSET (WIDs \cup {NoWID}), uids : SUBSET UIDs]]
    /\ pushes \in 0..MaxPush
    /\ sendOnClosed \in BOOLEAN
    /\ nilPush \in BOOLEAN
    /\ acc \in [Loops -> {"none", "accepting", "exited"}]
    /\ srv \in [pc : {"init", "failed", "serving", "trigger", "snapshot", "wait", "done"},
               b : 0..BucketSize - 1, todo : SUBSET WIDs]
    /\ lastPut \in [UIDs -> WIDs \cup {NoWID}]

\* The registry's UID index never names a worker the shards no longer hold,
\* nor one whose session has another UID (spec section 3), whatever order
\* Buckets.Put and Buckets.Del of several connections of one user run in.
UidMapSound ==
    \A u \in UIDs :
        uidWid[u] # NoWID => uidWid[u] \in reg /\ session[uidWid[u]] = u

\* Worker.Push checks IsStopping() before sending, so it never sends on the
\* replyChan that Worker.Stop closed (which would panic).
NoSendOnClosedChannel ==
    ~sendOnClosed

\* Connection replacement (spec 4.F, scenario 4): when a second connection
\* of the same user is registered, the older one is told to stop.
ReplacedConnectionStopped ==
    \A v, w \in reg :
        v < w /\ session[v] = session[w] => triggered[v]

\* The connection of a user that registered last, while it runs, is the one
\* Server.Push finds for that user and the one the route table points
\* backends to, whatever older connections of the user do when they close.
LatestConnectionReachable ==
    \A u \in UIDs :
        LET w == lastPut[u] IN
        (w # NoWID /\ pc[w] = "run" /\ ~gctx[w])
            => GetByUID(reg, uidWid, u) = w /\ route[u]

\* A worker told to stop (replaced, countdown expired, server stopping)
\* eventually finishes Worker.Stop.
TriggeredWorkerStops ==
    \A w \in WIDs : triggered[w] ~> stopped[w]

(***************************************************************************)
(* Refinement: each worker of the gateway goes through the phases of      *)
(* WorkerLifecycle.  A worker not yet accepted is new; stopped and        *)
(* stopping follow its stopper; otherwise it is listed while the shards  *)
(* hold it, in its handshake until it is put (a worker that failed Start *)
(* never set started, and one that was put always had), and unlisted     *)
(* after Buckets.Del.                                                     *)
(***************************************************************************)
lifePhase ==
    [w \in WIDs |->
        CASE pc[w] = "idle"                    -> "new"
          [] stopped[w]                        -> "closed"
          [] stopping[w]                       -> "closing"
          [] w \in reg                         -> "listed"
          [] pc[w] \in {"start", "put"} \/ ~started[w] -> "handshake"
          [] OTHER                             -> "unlisted"]

Life == INSTANCE WorkerLifecycle WITH phase <- lifePhase

\* The gateway implements the worker lifecycle: a worker is registered at
\* most once, Server.work removes it from the buckets before Worker.Stop
\* begins, and Stop is one-shot, in every interleaving of workers, the
\* accept loop and the API callers.
LifecycleRefined == Life!Spec

\* Every call of Server.Push, PushGroup, Broadcast or of Tunnel.Push
\* returns: a Worker.Push blocked on a full replyChan is released by the
\* write loop or, once that loop has failed, by Worker.Stop closing the
\* channel (the send then panics into an error), and the walks of
\* PushGroup and Broadcast over their snapshots end.
PushReturns ==
    \A p \in Pushers :
        pusher[p].at \in {"load", "get", "walk", "check", "send"}
            ~> pusher[p].at = "idle"

=============================================================================
