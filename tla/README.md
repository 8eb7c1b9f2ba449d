# TLA+ models of vulcan-gate

vulcan-gate is a game gateway. Clients hold long-lived TCP connections to it.
It authenticates each connection and forwards client packets to backend
services (player and room) over gRPC streams called tunnels. It also pushes
backend packets, and packets from the push API, back to the clients. This
directory holds TLA+ models of the concurrent core of the gateway and the TLC
configurations that check them.

## The system

| Part | Source | State | Operations |
|---|---|---|---|
| TCP server | `pkg/net/tcp/server/server.go` | WID generator, stopper, buckets | `Start`, `acceptLoop`/`accept`/`serve`/`work`, `putBucket`, `stop`, `Disconnect`, `Push`, `PushGroup`, `Broadcast` |
| Worker (one per connection) | `pkg/net/internal/worker.go` | session, started, stopper, countdown expiry, `replyChan`, `replyChanStarted`/`Completed`, tunnel holder | `Start` (handshake), `Run` (four goroutines), `Stop`, `Push`, `Tunnel` |
| Buckets | `pkg/net/internal/buckets.go` | shards `WID -> *Worker`, global `uidWidMap UID -> WID` | `Put`, `Del`, `GetByUID(s)`, `Walk` |
| Route table hooks | `app/gate/internal/router/routetable.go`, `app/gate/internal/server/tcp.go` | `(color, uid) -> gateway endpoint` in Redis | `GetSet` on connect, `DelIfSame` on disconnect |
| Tunnel holder | `pkg/net/internal/tunnel.go` | map `(type, oid) -> Tunnel` under a lock | `tunnel`, `createTunnel`, `stop` |
| Tunnel runtime | `app/gate/internal/intra/net/tunnels/tunnel.go` | `csChan`, stopper | `Forward`, `csLoop`, `scLoop`, `push`, `stop` |
| Player / room tunnels | `.../tunnels/player`, `.../tunnels/room` | backend stream | `NewTunnel` (resets the worker countdown), `OnGroupStop` (sets it), `OnStop` (route `DelDelay`) |
| Intra service | `app/gate/internal/intra/net/service` | session CS/SC indices | `Auth`, `handle` (CS index check, tunnel lookup, `Forward`) |
| Slab pool / reader | `pkg/net/internal/bufreader` | size classes, lookup table, `sync.Pool`s | `Alloc`, `Free`, `ReadFull` |

How the parts interact. Each accepted connection runs `Server.work` in its
own goroutine, in this order:

1. `Worker.Start` runs the handshake and installs the session.
2. `putBucket` registers the worker and must stop any older worker of the same user.
3. `afterConnectFunc` points the route table at this gateway.
4. `Worker.Run` starts four goroutines: the stop waiter, the write loop draining `replyChan`, the read loop, and the countdown ticker.
5. When `Run` returns, the deferred calls run: `Buckets.Del`, `Worker.Stop` (closes `replyChan`, waits for the write loop, stops the tunnels, closes the connection), then `afterDisconnectFunc`.

`Worker.Push` is called by `Server.Push`, which finds the worker through
`Buckets.GetByUID`. It is also called by a tunnel's `scLoop`. When a tunnel's
backend stream ends, its `OnGroupStop` arms the worker's countdown, and the
ticker then stops the worker.

## Modules

- **`Buckets.tla`**: `Put`, `Del`, `GetByUID`, `Bucket`, `get` (`Worker`)
  and `snapshot` of `buckets.go` as pure operators over the set of
  registered WIDs and the `uidWidMap`.
  - Each operation holds its shard lock and touches the map once, so each one
    is a single atomic step for its callers.
  - WIDs are never reused, so a shard map is a set of WIDs, and `del`'s
    identity check becomes a membership test.
  - `Walk` and `GetByUIDs` hold no lock between shards or between UIDs, so
    `Gateway` splits them into one step per shard snapshot and one step per
    `Load` and per `get`.
- **`Gateway.tla`**: the server, its workers, the buckets, the route table
  and the callers of `Push`.
  - `pc[w]` is the position of the `Server.work` goroutine of worker `w`:
    `start → put → connect → run → del → stop → stopwait → disconnect → done`.
    The early returns of `work` jump to `stop` or `del`, as its `defer`s do.
  - `readLoop`, `writeLoop`, `waitLoop` and `tickLoop` are the four goroutines
    of `Run`. `gctx` is the errgroup context, cancelled by the first loop that
    returns an error. `RunReturn` is `eg.Wait()`.
  - `Worker.Stop` is split at its one blocking point, the wait on
    `replyChanCompleted`. `StopBegin` sets stopping and closes the channel;
    `StopFinish` sets stopped and closes the connection.
  - `Worker.Push` is split the same way as the code: the `IsStopping` check
    (`PushCheck`), then the channel send (`PushSend`). The send blocks when
    the channel is full and panics on a closed channel (`sendOnClosed`).
  - The caller's lookup is a step of its own: `ServerPush` through
    `GetByUID`, or `TunnelPush` for a message the scLoop received while the
    run context was live. `pusher[p]` is the position of API caller `p`.
    - `PushGroup` runs `GetByUIDs`: `GroupLoad` (`uidWidMap.Load`), then
      `GroupGet` (`Buckets.Worker`). A worker deleted in between is appended
      as nil (`NoWID`).
    - `Broadcast` and the end of `PushGroup` walk the workers (`PushWalk`),
      one bucket snapshot at a time. `Worker.Push` on a nil worker panics
      (`nilPush`).
    - `Disconnect` looks the worker up, triggers it and waits in
      `DisconnectWait`.
  - The constant `Ops` says which API calls the environment makes, so that
    each run can choose its calls.
  - `ServerStart` is `Server.Start`: listening may fail; otherwise it
    starts `AcceptLoops` accept goroutines (`conf.Server.WorkerSize`).
    `NewServer` and `NewBuckets` give the state before it.
  - `Accept(l)` is one round of accept loop `l`: `acceptLoop` plus
    `accept`. `AcceptTCP` may fail. The loop exits once `Server.stop` has
    begun, but only after one more `AcceptTCP`, because the listener stays
    open.
  - `Server.stop` is `ServerStop` (`DoStop` plus the first bucket of the
    trigger walk), then `ServerTrigger` for each further bucket, then
    `ServerSnapshot` and `ServerWait` for each bucket of the `WaitStopped`
    walk. `srv` is its position.
  - The handshake of `Start` is built from `ReadOutcomes`, `AuthAccounts`
    and `WriteOutcomes`. A frame can be read or written only while the peer
    is open, and `Auth` yields any user or an error.
  - `AddRouteTable` can succeed, fail without effect, or fail after the
    `GetSet` was applied. A failure makes `work` skip `Run`.
    `DelRouteTable` may fail, and its error is swallowed. `afterConnectFunc`
    and `afterDisconnectFunc` are the hooks of `server/tcp.go` that call
    them.
  - `MainTunnelLost` is the player tunnel's `OnGroupStop` arming the
    countdown.
  - Data abstraction: packets are counted, not named. The handshake, frame
    reads and frame writes are choices between success and failure. A UID is
    a small natural number, and the route table is one boolean per UID (one
    gateway endpoint).
  - The stopper comes from vulcan-pkg-tool, which is outside this
    repository. It is modelled from how the code uses it:
    - `TriggerStop` sets `triggered`, which `StopTriggered()` reports.
    - `DoStop` sets `stopping`, reported by `IsStopping()` and `Stopping()`,
      then runs its function, then sets `stopped`, which releases
      `WaitStopped()`.
- **`MCGateway.tla`**: model values for the API callers and the `Ops`
  sets of the runs.
- **`WorkerLifecycle.tla`**: the abstract promise about one connection's
  worker (spec 4.E, 4.F). Its phases are
  `new → handshake → listed → unlisted → closing → closed`, with a failed
  handshake going straight to `closing`. A worker is listed at most once,
  and its stop begins only once the registry no longer holds it.
  - `Gateway` implements it through `Life == INSTANCE WorkerLifecycle WITH
    phase <- lifePhase`.
  - `lifePhase` maps each worker's `pc`, its stopper and its membership in
    the shards to a phase.
- **`Tunnel.tla`**: the backend side of one worker. It covers the read loop's
  `Service.handle`, the worker's tunnel holder, the tunnels' goroutines, the
  player and room tunnels, and the session's CS/SC indices.
  - `rpc` is the read loop's position in `handle`:
    `idle → create | fcheck → fsend → idle`, or `dead` when `handle` returns
    an error. `death` records which error. `Handle` is the CS index check
    (crypto sessions), the `Obj` default and the holder lookup, which skips
    stopping tunnels. `CreateTunnel` is `createTunnel` under the holder lock:
    the backend stream may fail to open, and a player tunnel `Reset`s the
    worker countdown. `Forward` is split like the code: the `IsStopping`
    check (`ForwardCheck`), then the send on `csChan` (`ForwardSend`). That
    send blocks on a full channel and panics on a closed one.
  - Per tunnel, `waiter`, `csLoop` and `scLoop` are the three goroutines of
    `Tunnel.run`. `RunWait` is `eg.Wait()` followed by `OnGroupStop`, which
    for a player tunnel sets the worker's countdown `expiry`. `TunnelStop` is
    the deferred `stop`: it sets stopping and closes `csChan`.
  - `Tunnel.push` is split at its two shared-state steps. `ScStamp` is
    `IncreaseSCIndex` truncated to `IndexBits` bits. `ScPush` is
    `Worker.Push`'s `IsStopping` check, and `ScSend` its send on the
    worker's bounded `replyChan` (`ReplyChanSize`). The send appends to
    `out`, the client's view. It blocks while `replyChan` is full, and it
    panics once `Worker.Stop` has closed the channel; scLoop's `RunSafe`
    turns the panic into the loop's error.
  - The worker's `writePackLoop` drains `replyChan`: `written` counts the
    packets of `out` it has written. `WriteOK` is a `conn.Write` that
    returns. `WriteFail` is one that fails: the loop exits (`wloop`) and
    `Run`'s context is cancelled. `WorkerStop` is `Worker.Stop` after `Run`
    has returned, which needs the write loop to have failed. It closes
    `replyChan` and triggers the holder's tunnels.
  - `SessionRecursion = TRUE` is the code as written. Both `player.Tunnel`
    and `room.Tunnel` implement `Session()` as `return t.Session()`, so the
    first stamp overflows the stack and the process dies (`fatal`).
    `SessionRecursion = FALSE` is the fix that spec open question (b) asks
    for. The runs about SC indices use it, because otherwise no packet ever
    reaches the client. No run keeps a property for the recursion itself:
    the first push of any test shows it.
  - Helpers named after the code: `SessionIndexStart` and `Increase` (the
    session's `indexInfo`), `NewTunnel` (the goroutines `tunnels.NewTunnel`
    starts), `CreateAppTunnel` and `OnGroupStop` (what the player and room
    tunnels do to the worker's countdown), `StreamDown` (when `CSHandle`
    and `SCHandle` fail) and `SessionOverflows`.
  - Environment: `StreamBreak` (a backend stream error), `WorkerCancel` (the
    worker's Run context ends) and `WorkerStop` (`tunnelHolder.stop`
    triggering every tunnel).
- **`SlabPool.tla`**: the slab pool of `bufreader/pool.go` and the framed
  reader of `reader.go`, as the workers and the TCP client of
  `pkg/net/tcp/client` use them. The pool is global to the process, so a
  client's reader takes buffers from the same classes as a connection's.
  - `NewSyncPool`'s two loops are `RECURSIVE` operators over its arguments
    (`PoolArgs`). `classesSize` and `sizeLookup` are the tables it fills,
    computed once for the model's pool. `MCSlabPool` checks the operators
    with `ASSUME`s at the real parameters `(1024, 65536, 4)`: 16 classes of
    2048, 3072, ..., 65536 bytes, and the size lookup. At the scale of the runs, ASSUMEs compare the
    lookup with the reference `SmallestClass` of spec 4.A: every size is
    served from a class that holds it, but a class's own size is served from
    the class above. One operator follows
    each loop. The counting loop and the sizing loop use different sequences
    (the sizing loop adds before it sizes), and class k fills the lookup
    from class k-1's size, so a class boundary looks up to the class above.
  - State: `pools[k]` is a bag of free buffer capacities. `rd[w]` is reader
    `w`'s `Reader` (buffer length, capacity, `r`, `w`). `Alloc` takes a
    free buffer of `sizeLookup[size]` or makes one of the class size.
    `Free` files a buffer under `sizeLookup[cap]`. `PoolDrop` is the garbage
    collector emptying a `sync.Pool`.
  - Each worker runs `NewReader`, then `Worker.read`'s `ReadFull` of the
    length prefix and of the body, then `Close`. `ReadFullBegin` is the
    buffer management (return at once, grow to
    `nextPowerOfTwo(needed+128)` with copy and `Free`, or compact), and
    `ReadFullIO` is the blocking `io.ReadAtLeast`. The connection delivers
    either exactly the missing bytes or a full buffer.
  - A slice expression `(*mem)[:size]` on a shorter buffer panics. `RunSafe`
    (read loop) or `GoSafe` (`NewWorker`) recovers it and the connection is
    dropped (`faulted`).
  - `cleaned` is `Reader.cleanedUp`. A `ReadFull` that must grow a closed
    reader fails with `ErrBufReaderAlreadyClosed`. A read that was in
    `conn.Read` when `Close` ran ends in a panic on the nil buffer.
  - The client (`Clients`): `ClientStart` (dial failure, or
    `SetDeadlineWithContext`, `NewReader(conn, 4096)` and the receive
    goroutine), `ClientCancel` (the end of `Start`'s context, at any time),
    `ClientDeadline` (`SetDeadlineWithContext`'s goroutine setting the
    deadline to now, after which every `ReadFullIO` of the client fails), `ClientRead` (its
    `read`: an `int32` prefix with no range check, so a negative length is
    `ErrBufReaderSize`), `ClientSend` (the send on `receivePackChan`, which
    panics once `stop` has closed it), `ClientTrigger` (the owner's
    `TriggerStop`), `ClientWaiter` (the errgroup's waiter, which calls
    `stop` on `StopTriggered` or returns when the loop's error or the end
    of `Start`'s context cancels the group), and `ClientReceiveEnd` (`eg.Wait`, then the deferred `stop`).
    `ClientStop` is `stop`'s one-shot `DoStop`: `Close` the reader, close
    the channel.
- **`MCSlabPool.tla`**: model values for the workers and the client, the
  body lengths (a negative one cannot be written in a `.cfg`), and the
  `ASSUME`s on the shipped pool.

## Runs

| Run | Config | Expect | What it shows |
|---|---|---|---|
| gateway_safety | `Gateway_safety.cfg` | pass | `TypeOK`; `UidMapSound` (the UID index names only registered workers of that user). This holds through every API call but `Server.Stop`, accept failures and route-table errors. About 3.9M states, 1.5 minutes. |
| gateway_liveness | `Gateway_liveness.cfg` | pass | `LifecycleRefined`: the gateway implements `WorkerLifecycle`. It follows that the registry never hands out a stopping worker, to `Push`, `PushGroup`, `Broadcast`, `Disconnect` or `Server.stop`. `PushReturns`: every push call returns. Either the write loop drains the channel or `Stop` closes it, and the walks over snapshots end. About 186k states, 30 s. |
| push_vs_stop | `Gateway_NoSendOnClosedChannel.cfg` | violation | A `Push` that found the worker just before its deferred `Del`/`Stop` sends on the closed `replyChan`, and Go panics. |
| replacement | `Gateway_ReplacedConnectionStopped.cfg` | violation | A second login of the same user never stops the first connection. |
| latest_reachable | `Gateway_LatestConnectionReachable.cfg` | violation | When an older or failed connection of a user tears down, it deletes the `uidWidMap` and route entries of the user's live connection. |
| triggered_stops | `Gateway_TriggeredWorkerStops.cfg` | violation | A worker told to stop (replaced, countdown, server stop) never finishes. |
| tunnel_checks | `Tunnel_checks.cfg` | pass | `TypeOK`; `SCIndexUnique` (two scLoops never stamp the same SC index); `MainDeathArmsCountdown` (while the client keeps reading, a dead main tunnel always arms the worker countdown, even when its scLoop is blocked on the full `replyChan`). About 455k states, two and a half minutes. |
| forward_vs_stop | `Tunnel_TunnelFailureIsolated.cfg` | violation | A room tunnel whose stream breaks between the holder lookup and `Forward` fails `handle`, so the whole connection dies, not only that tunnel (spec, error table). |
| sc_order | `Tunnel_SCIndexOrdered.cfg` | violation | With `Session()` fixed, two scLoops stamp then push, so the client receives SC indices out of order (spec 8.1). |
| extra_player_tunnel | `Tunnel_ExpiryOnlyOnMainDeath.cfg` | violation | `TunnelType` maps every module except Room to a player tunnel keyed by the client's `Obj`. When such a second "player" tunnel dies, it arms the worker countdown while the main tunnel lives. |
| slab_checks | `SlabPool_checks.cfg` | pass | At the shipped sizes: `TypeOK` (every buffer has a class size); `ReaderWindowSound` (`r <= w <= len <= cap`, and the unread window is exactly the bytes received but not yet returned, across grow and compaction) for every reader not yet closed, the client's included while `stop` races its read; `ClientReleased` (a client whose read loop has ended is eventually closed and its buffer freed, whether or not `TriggerStop` was called); `ClientEndsOnCancel` (a started client whose `Start` context ends is eventually closed, though nothing calls `stop` and `stop` never closes `conn`: the deadline fails its read). About 250k states, under a minute. |
| slab_undersized | `SlabPool_NoUndersizedBuffer.cfg` | violation | With `ReaderBufSize` 12288, a connection's freed 14336-byte buffer is filed under the 17408 class. Another connection's grow to 16384 gets it back, and the slice panics on a valid packet (spec 8.3). |

Why `triggered_stops` fails:

- `writePackLoop` ranges over `replyChan` and ignores `ctx`.
- `replyChan` is closed only by `Stop`.
- `Stop` runs only after `Run` returns.
- `Run` returns only after the write loop has returned.

For the same reason the write loop's exit "channel closed and drained" can
never happen, and it is left out of `WritePack`. PROJECT.json records the
violations as findings.

At the shipped sizes (`ReaderBufSize` 8192), every request of the readers is
either a power of two or the initial size. Each buffer they free lands in a
class that none of their requests uses, so the slab pool never hands a buffer
back. That is why no connection faults there, and also why the pool does no
pooling. `NoUndersizedBuffer` is therefore checked only where reuse happens.

Bounds:

- **Gateway safety:** two connections of a single user, a one-slot
  `replyChan`, one caller and two API calls, with every call but
  `Server.Stop` and one bucket. This bound includes:
  - every ordering of the two connections' `Put`, `Del` and route calls;
  - a push overlapping each step of the tear-down;
  - a `PushGroup` whose `Load` and `get` straddle a `Del`.
- **Gateway liveness:** one connection, two accept loops, one caller with
  two calls of any kind, `Server.Stop`, and two buckets. Two accept loops
  let one loop exit while the other still accepts. Two buckets are needed for the
  per-bucket steps of the walks to happen. Two calls let a push block on
  the full channel.
- **Tunnel:**
  - two tunnels (the main player tunnel and a room tunnel) and two client
    packets;
  - two backend messages, enough for two stamps to interleave;
  - a one-slot `csChan`, so that `Forward` blocks;
  - a one-slot `replyChan`, so that the second backend message's push
    blocks until the write loop takes the first;
  - `IndexBits` 16 (TLC's integers are 32-bit).
  - The extra player tunnel needs a second `Obj`, so it is in its own run.
- **Slab pool:** all sizes at 1/256 scale.
  - The pool `(4, 256, 4)` has the real pool's sixteen classes, in the same
    proportions.
  - `MaxBodySize` is 64 and the prefix is 1 byte.
  - Bodies of 8 (fits), 60 (grows to 64) and 64 (grows to 128), plus the
    out-of-range lengths 0 and 65. `slab_checks` leaves out 8 and 64: 0
    already reads without growing, and 60 grows both the connection's and
    the client's buffer; with them the run takes four times as long.
  - `slab_checks`: one connection of two packets and one client of one
    packet (`ClientPackets`), with a negative length too. The client's
    context may end before `Start`, during any read, or after the end. A second packet for the
    client multiplies the states by ten. The client's reader starts at 16
    (4096), so its reads grow into the pool's classes the connection uses.
  - `slab_undersized`: two connections of two packets each, no client.
- **Violation runs:** the smallest bounds that reach the interleaving.

## Fairness

Every step of the gateway's own goroutines is weakly fair: `Server.Start`
(the caller of `Start` runs it to its end), the `Server.work` steps, the four loops and the two halves of `Stop`. Once begun,
`Server.stop` and an API call also run on goroutines of the gateway, so
`ServerTrigger`, `ServerSnapshot`, `ServerWait`, `GroupLoad`, `GroupGet`,
`PushWalk`, `PushCheck`, `PushSend` and `DisconnectWait` are weakly fair.
A goroutine blocked on a channel proceeds once the channel stays ready. A
socket read always ends, with data or with the idle deadline that `Start`
and `readPack` set, so `ReadPack` is fair. The following are never fair,
because the gateway cannot rely on them:

- peers (`ClientClose`);
- backends (`MainTunnelLost`, `TunnelPush`);
- callers of the API (`ServerPush`, `PushGroup`, `Broadcast`, `Disconnect`);
- new connections (`Accept`);
- the caller of `Server.Stop` (`ServerStop`).

In `Tunnel`, the read loop's steps inside `handle` are weakly fair, and so
are the tunnels' goroutines: `ScSend` proceeds once `replyChan` has room
or is closed. `ScRecv` is fair only for its exit on a broken stream or a
cancelled context. A backend owes no further messages. `WorkerStop` is
weakly fair, because `Server.work` calls `Stop` as soon as `Run` returns.
Its guard holds only once the write loop has failed. Clients, backends and
the worker's other loops (`WorkerCancel`) are not fair. That includes
whether a client reads (`WriteOK`, `WriteFail`): a client that sends but
never reads keeps `readPack`'s deadline moving, so `conn.Write` may never
return. `MainDeathArmsCountdown` therefore assumes, as its hypothesis
`ClientKeepsUp`, that the write loop never fails and each write returns.
Without that hypothesis the property is violated in two ways:
- the slow client;
- a circular wait between `Forward` on a full `csChan` and a scLoop on a
  full `replyChan`, which only `Worker.Stop` closes, and `Stop` runs only
  after the read loop returns.

PROJECT.json lists both as hazards. No run shows them, because no run slot
is free. In `SlabPool`, once a
client's read loop has ended, its waiter (`ClientWaiter`) and the rest of
`receive` (`ClientReceiveEnd`) are weakly fair. Neither waits on anything
outside the client. So are `SetDeadlineWithContext`'s goroutine
(`ClientDeadline`), `readPackLoop`'s own steps (`ReadFullBegin`) and its
send (`ClientSend`): `receivePackChan` has 1024 slots, more than
`ClientPackets`. The client's socket read is not fair: `stop` never
closes `conn`, so only the peer or `Start`'s context can end it. Once the
deadline is set, the read and the EOF after the peer's last packet fail,
so `ReadFullIO` and `PeerDone` are weakly fair for a client in that state
only. The
workers, the peers and the caller of `TriggerStop` are not fair either.

## Not modelled (yet) and the plan

Found while modelling, with no run of its own:

- The read loop, blocked in `Forward` on a full `csChan` after `csLoop`
  exited on the cancelled context, waits on `Tunnel.stop`. `Tunnel.stop`
  waits on a scLoop blocked in `Worker.Push` on a full `replyChan` whose
  write loop has failed. Only `Worker.Stop` closes `replyChan`, and it
  waits on `Run`, which waits on the read loop. The connection leaks.
  `Tunnel.tla` reaches this circular wait when `ClientKeepsUp` is dropped.
- `GetByUIDs` has no nil check between `Load` and `get`. A connection
  torn down in between makes `PushGroup` call `Push` on a nil worker
  (`nilPush`, reached in 11 states). Nothing in this repository calls
  `PushGroup`, because the push service is a stub. PROJECT.json lists it
  as a hazard.
- `Server.stop`'s second walk can wait on a worker that was registered
  after the trigger walk and so was never triggered. It then hangs until
  that client leaves.

Planned for later work: a liveness property of `Server.stop`, and
`Auth`'s indices beyond the initial ones.

Left out:

- The packet codec, compression and encryption: pure byte transformations.
- The push gRPC service: its methods are empty stubs.
- Configuration, discovery and middleware: wiring with no concurrent state.
- Of the TCP client, `write`, `Send` and `Receive`: they are the caller's
  side of `conn` and `receivePackChan`. The client's races are modelled in
  `SlabPool`, but three of them have no run of their own, because every run
  slot is taken. PROJECT.json lists them as hazards:
  - `stop` closes `receivePackChan` while `readPackLoop` may be about to
    send on it, and the packet is lost (`ClientSend`'s panic branch);
  - `stop` frees the reader's buffer while a `conn.Read` may still fill it
    (`ReadFullIO`'s panic branch);
  - `stop` never closes `conn`, so after `TriggerStop` the read loop and
    the receive goroutine wait for the peer or for `Start`'s context
    (`ClientEndsOnCancel` checks the second way out).
  The queued packets also alias the reader's buffer, which the next
  `ReadFull` compacts or frees. Seeing that would need buffer contents,
  which the model does not keep.
- Of `pkg/net/context`, all but the client's `SetDeadlineWithContext`.
  Its uses on the server's listener and in `Worker.Stop` act only when
  `Start`'s context ends, and the runs shut the server down through
  `Server.Stop`. The value setters and getters and the address formatters
  hold no state; `CloseOnCancel` and `SetDeadlineWithTimeout` have no
  caller.
- `Reader.ReadByte`, `SyncPool.Size` and `InitReaderPool`: nothing in the
  gateway calls them.
- The player tunnel's `OnStop` route `DelDelay`: a Redis write with a TTL.
