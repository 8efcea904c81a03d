# TLA+ models of the MobiCore driver daemon

These modules model the concurrent core of the MobiCore driver daemon in
`src/mobicore/daemon/Daemon` and its on-disk registry in
`src/mobicore/daemon/Registry`. The daemon is the normal-world (NWd) side of the
TrustZone secure world (SWd). It keeps the table of trusted-application
sessions, drives the single MCP command slot shared with the SWd, and routes the
SWd's notifications to client processes.

## The system

### Threads and shared state

- **Socket server threads**, in `MobiCoreDriverDaemon::handleConnection`.
  - They handle one client request at a time.
  - They check `mcFault` first, then take a static "big" mutex and then
    `mutex_mcp`.
  - A request runs at most a few MCP transactions: open, close, NQ connect,
    notify, map/unmap, version, token and registry requests.
  - When a client's socket closes, `dropConnection` takes only `mutex_mcp` and
    runs `MobiCoreDevice::close`. `close` walks the session list from the back
    and calls `closeSession` for each session the connection owns.
- **IRQ thread**, in `TrustZoneDevice::handleIrq`.
  - It waits for an S-SIQ and drains the SWd→NWd notification queue.
  - A `SID_MCP` record signals `mcpSessionNotification`.
  - Any other record is looked up in `trustletSessions` with no lock. If the
    session is unknown, the record goes to the device's unknown-session queue.
  - If the session is known, the thread takes `mutex_connection` and then
    either writes the record to the session's NQ socket or queues it in the
    session. When the record is queued and the client is gone too, it wakes the
    reaper.
- **TA-exit reaper**, in `TrustZoneDevice::handleTaExit`.
  - It is woken by `taExitNotification` and takes `mutex_mcp`.
  - It closes every `TS_TA_DEAD` session and erases the ones whose close
    succeeds.
- **Scheduler**, in `TrustZoneDevice::schedule`. It gives the SWd CPU time with
  `nsiq`/`yield` and sleeps on `schedSync` while the SWd is idle.
- **Start-up**, in `MobiCoreDriverDaemon::run`, on the main thread.
  - `initDevice` opens the kernel module and maps the MCI (`getMciInstance`).
  - On a fresh MCI it wipes the MCI, sends `fcInit` and a first N-SIQ, and
    polls the SWd's status, with ten yields per poll, until the status reads
    `INITIALIZED`.
  - If the kernel module reports the MCI as reused, all of that is skipped.
  - `start()` then starts the IRQ, scheduler and TA-exit threads. The driver
    loads, the token and the servers follow.
  - The MCI and the SWd outlive the daemon process, so a restarted daemon
    finds the MCI reused.
- **MCP transaction**, in `mshNotifyAndWait` and `waitMcpNotification`.
  - The daemon writes a command into `mcpMessage`, notifies `SID_MCP` and waits
    up to 5 × 10 s on `mcpSessionNotification`.
  - If it finds the SWd halted, the device faults. It also faults after the
    fifth timeout.
  - The caller checks `rspId == cmdId | FLAG_RESPONSE`. `cmdHeader` and
    `rspHeader` are the same word of a union.

### Hard behaviours

- **Command after a fault.** `handleConnection` reads the fault flag before it
  takes the locks. `dropConnection`, the reaper and `run()`'s `LOAD_TOKEN`
  after a timed-out start-up sweep never read it. McpChannel contains these
  paths, but no run checks them: the start-up path breaks a "nothing is sent
  after a fault" property first, on the shortest trace.
- **Stale semaphore counts.** A late or spurious `SID_MCP` signal is consumed by
  the next transaction. Only the rspId check stops the wrong result being used.
- **Unlocked lookup.** The IRQ thread's session lookup takes no lock, while the
  `mutex_mcp` holder deletes sessions.
- **Unknown-session queue.** `openSession` clears this queue before its
  transaction and drains it into the new session afterwards, and the IRQ thread
  pushes to it concurrently.
- **NQ connection.** `registerTrustletConnection` publishes the connection
  without `mutex_connection`, before `processQueuedNotifications` flushes the
  backlog.
- **GP close.** A GP close answered `TASK_FAILED` is deferred to the reaper. It
  is retried once if the TA's death was already seen.
- **Bulk buffers.** Their lock/unlock pairing runs across `processMapBulkBuf`,
  `mapBulk`, `unmapBulk`, `closeSession` and `handleTaExit`.
- **Registry files.** Writes ignore `fwrite`'s result, so a short write or a
  crash leaves a torn file that later reads may accept. Cleanups stop at the
  first failed remove or rmdir, and the deletes in between ignore errors.
- **Undefined behaviour in `close()`.** It uses a reverse iterator whose base is
  erased, and it unlocks a mutex twice.

## Modules

| Module | Models | Sources |
|---|---|---|
| `McpChannel` | The MCP slot, the thread entry points and their locks, the timed wait with retries and fault, the rspId check, the SWd answering, halting or signalling spuriously, the IRQ thread's `SID_MCP` signal and exit, and the main thread's start-up transactions on a fresh or reused MCI | `handleConnection`, `dropConnection`, `handleTaExit`, `mshNotifyAndWait`, `waitMcpNotification`, `sendSessionCloseCmd`, `handleIrq`, `start`, `loadToken`, `run` 142–198 |
| `SessionEngine` | The session list, `openSession`, `closeSession` (GP deferral and retry), `close` on client drop, NQ connect and flush, the reaper, and the IRQ thread's routing through the unknown queue, the session backlogs and the NQ sockets; the SWd as the environment | `MobiCoreDevice.cpp` 81–283, 411–538, 592–714; `TrustZoneDevice.cpp` 586–724; `processNqConnect`, `processCloseSession` |
| `BulkBuffers` | The kernel module's lock count per WSM handle and each session's bulk list: the TCI path of `openSession`, map, unmap, `closeSession`'s unlock loop, `close` on client drop, a TA's exit and the reaper | `processMapBulkBuf`, `processUnmapBulkBuf`, `mapBulk`, `unmapBulk`, `openSession` 411–527, `closeSession` 635–703, `lockWsmL2`, `unlockWsmL2`, `handleTaExit` |
| `Scheduler` | `schedule()`'s idle wait, slice countdown, forced N-SIQ and yield; the IRQ thread's `schedSync.signal()`; `notify()`'s `nsiq()` from client threads; the SWd's work and flag as the environment; `run()`'s `initDevice` and `start()`, daemon crashes and restarts on the surviving MCI | `TrustZoneDevice.cpp` 106–192, 230–308, 374–395, 543–582, 640–716; `run` 129–141; `MobiCoreDevice::start` 287–303 |
| `Connections` | `handleConnection`'s command switch: client connections at reusable addresses, `OPEN_DEVICE`/`CLOSE_DEVICE`, opening sessions, `CLOSE_SESSION` and `NOTIFY` through `findSession`, `NQ_CONNECT`, `GET_MOBICORE_VERSION` with its cache, and the client drop with `close()`; which client a session belongs to | `handleConnection` 1126–1228, `findSession`, `close`, `closeSession`, `registerTrustletConnection`, `processOpenDevice` … `processNotify`, `getMobiCoreVersion`, `dropConnection` |
| `Registry` | The registry files as state, with failed opens, removes and mkdirs and short writes; every store, read and delete request; the SP, trustlet and root cleanups; `processLoadCheck` before a TA blob is stored; loading a GP TA's blob for `OPEN_SESSION`; the start-up token lookup and `LOAD_TOKEN` | `PrivateRegistry.cpp` 190–1260; `processRegistryWriteData`, `-ReadData`, `-DeleteData`, `processLoadCheck`, `run` 155–189, `loadToken` |
| `MC_McpChannel`, `MC_SessionEngine`, `MC_BulkBuffers`, `MC_Scheduler`, `MC_Connections`, `MC_Registry` | Model values for TLC | — |

### McpChannel

State:
- `pc` and `path`: each thread and the entry point it came through.
- `bigOwner` and `mcpOwner`: the two mutexes.
- `hdr`: the shared header word, holding a command or a response.
- `toSwd`, `fromSwd` and `sem`: the `SID_MCP` notifications in each direction
  and the semaphore.
- `mcFault` and `swdHalted`.
- `irqExiting`.
- `counter`: the retry counter.
- `sweepLeft`, `tokenPending` and `serversUp`: the main thread's start-up.

Ghost variables name transactions: `txn`, `slotTxn`, `answered` and `okFor`.

Each step of a thread is one action:
- `HandleConnection`, `DropConnection` and `HandleTaExit` are the entry points.
- `LockBig` and `LockMcp` take the mutexes.
- `SendCommand` writes the command and notifies the SWd.
- `WaitFaulted`, `WaitSignalled` and `WaitTimeout` are the three exits of a
  pass through the wait loop.
- `CheckResponse` checks the rspId.
- `Release` unlocks.

The main thread (`Main`) starts in `start()` with the IRQ, scheduler and
TAExitHandler threads already running. It takes no mutex. Until it starts the
servers, no other thread can use the channel: the reaper is woken only for
sessions, and sessions are opened only through the servers.
- `SweepClose` is one iteration of `start()`'s loop over session ids 2..19 on
  a reused MCI. Errors are only logged.
- `LoadToken` is `MobiCoreDriverDaemon::loadToken` for a token `run()` found
  in the registry. A failed `registerWsmL2` sends nothing.
- `CommandReturns` returns from either command to its caller.
- `StartServers` creates and starts the servers. The handlers' entry points,
  and the reaper's, are guarded by `serversUp`.

Init chooses a fresh or a reused MCI. A fresh MCI is wiped. A reused one is
not (`initDevice` skips the `memset`), and the queues are set up over it
again (`NotificationQueue` is not in the repository). So the slot may hold
any command or response the dead instance left, and a command may still have
its notification in the NWd→SWd queue. A stale notification in the SWd→NWd
queue is what `SwdSpurious` sends.

The SWd and the IRQ thread are `SwdAnswer`, `SwdSpurious`, `SwdHalt`,
`IrqMcpNotification` and `IrqExit`.

### SessionEngine

The mutex_mcp holder runs one operation at a time. The operation is `op`, with
a program counter. Each MCP transaction is a send step and a completion step
that consumes one signal of `sem`. The wait's timeouts and fault are
McpChannel's business.

`sem` starts anywhere in `0..MaxStale`. A daemon restarted on a reused MCI can
start serving with one count more than answers pending: `start()`'s sweep
was woken by the dead instance's leftover notification, and McpChannel reaches
that state. A completion woken by the stale count finds no answer in the slot
(`res = "none"`, so the rspId check fails) and returns an error. The SWd still
runs the command, and its answer leaves the next stale count.

State:
- `table` is `trustletSessions`, a function from session object names to
  records with these fields:
  - `sid`;
  - `owner`, the `deviceConnection`;
  - `nq`, set when `notificationConnection` is set;
  - `state`;
  - `gp`;
  - `backlog`.

  Objects are named in creation order, which is also the list order.
- `orphans` is `MobiCoreDevice::notifications`.
- `ring` is the SWd→NWd queue.
- `irq` is the IRQ thread's program counter, the record it holds, the session
  pointer it looked up and the connection it read.
- `taSig` is the count of `taExitNotification`.
- `swd` is the SWd's view of each session id.
- `delivered` is a ghost holding what each NQ socket received.

Actions:
- `OpenSession` / `OpenComplete`.
- `CloseSession` → `StartClose` / `CloseComplete` / `RetryComplete`.
- `DropConnection` / `DropNext` / `DropDone`, which are `close()`.
- `NqConnect` / `NqFlush`.
- `ReapStart` / `ReapNext` / `ReapComplete` / `ReapDone`.
- `IrqPop` / `IrqOrphan` / `IrqLockConnection` / `IrqDispatch`.

The IRQ lookup is split from the orphan push, and the connection read from the
queueing, because other threads act in between in the code.

The SWd:
- `SwdOpen` hands out a free id or fails.
- `SwdClose` frees an id. A running GP TA answers `TASK_FAILED` and is asked to
  exit. A running non-GP close may fail.
- `SwdNotify` sends a notification.
- `SwdTaExit` is a TA exiting and notifying its exit.

`TrustletSession.cpp` is not in the repository. Its `queueNotification` is
modelled from the specification: it queues the record, and an exit record marks
the session `TS_TA_DEAD`.

### BulkBuffers

Every handler that locks or unlocks a buffer, or edits a bulk list, runs
under `mutex_mcp`, and the IRQ thread touches neither. So each handler is one
atomic step, and its MCP transaction is a choice of result. McpChannel covers
the transaction itself.

- `sessions` maps a session id to its owner (`NULL` once a GP close has cut
  the client), the opening client, `gp_level`, whether the TA runs, the
  `TS_TA_DEAD` mark and the bulk list of `[handle, len]` entries.
- `locks` is the kernel module's lock count per handle. A count below zero
  stands for an unlock the kernel would refuse.
- `OpenSession` follows the TCI path. A contiguous buffer gives its own length,
  and an L2 buffer is taken at the client's word. Both are looked up with the
  client's socket. Then comes `lockWsmL2`, then the length check, then the
  transaction. The length check returns without unlocking. MCP errors unlock.
  On success the TCI is listed with the blob's length (`BlobLen`).
- `MapBulk` is `processMapBulkBuf`. It runs `lockWsmL2` (any registered
  handle), then `findWsmL2` (the client's own L2 buffer), then `mapBulk`
  (`AddBulkBuff`: `findSession`, then the entry is added before MAP is sent).
  No return after the lock unlocks.
- `UnmapBulk` is `processUnmapBulkBuf`. It runs `FindBulkBuff` (`findSession`
  and `findBulkBuff(handle, len)`), then UNMAP. On success it runs
  `RemoveBulkBuff` and then `unlockWsmL2`.
- `CloseBody` is `closeSession`. On success it unlocks every listed entry
  (`UnlockAll`) and erases the session. A GP TA still running gives a deferred
  close or a retried one.
- `DropConnection`, `DropNext` and `DropDone` are `close()` on a client drop.
- `TaExit` is a TA exiting. A session with no client is marked `TS_TA_DEAD`
  and the reaper is woken.
- `Reap` erases dead sessions without unlocking.

Handles: c1 has an L2 buffer (1) and a one-byte contiguous buffer (2), c2 has
an L2 buffer (3), and 4 is registered by nobody.

### Scheduler

- `flag` is `mcFlags->schedule`, written by the SWd. `work` is the SWd's
  pending work. The SWd writes `NON_IDLE` exactly while work remains, and each
  slice of CPU it gets does one unit (`SwdRuns`).
- `schedSync` is the semaphore's count. `CSemaphore` is not in the repository,
  so it is modelled as a counting semaphore (`Signal`).
- `SchedIdle` reads `IDLE` and goes to the wait. `SchedWake` is
  `schedSync.wait()` returning. Reading the flag and waiting are separate
  steps, as in the code.
- `SchedTick` resets a used-up slice and calls `nsiq()`, which runs the SWd
  and signals `schedSync`. `SchedYield` decrements the slice and yields.
  `SchedFail` is either call failing, which ends the thread.
- `IrqSsiq` is one S-SIQ taken by `waitSsiq`, with the drain and then the
  signal. `IrqFail` is `waitSsiq` failing.
- `Notify` is a client's `notify()`. The notification is queued and `nsiq()`
  either runs the SWd and signals, or fails and does neither.
- `SwdFiq` is a FIQ for a SWd driver. The SWd becomes busy and raises an S-SIQ.

Start-up and restart:
- `boot` is where the main thread is in `run()`/`initDevice`. It is `down`
  when no daemon runs.
- `mci` says whether the kernel module holds the mapped MCI. `status` is the
  SWd's MC status word. Both survive the daemon.
- `Launch` starts an instance. There are at most `MaxStarts` instances.
- `InitOpen` is the open and `checkVersion`. `GetMciInstance` is `mapMCI`:
  a reused MCI goes straight to `start`, a fresh one to `FcInit`.
- `FcInit` is the wipe and `fcInit`. `InitNsiq` is the first `nsiq()`,
  which also signals `schedSync`.
- `InitStatus` is `getMobicoreStatus` and the branch on its value
  (`AfterStatus`). `InitYield` is one of the ten `yield()` calls.
- `Quit` is `initDevice` returning false: `run()` returns and the daemon
  ends. Every failing kernel call above leads to it.
- `SwdInit` is the SWd leaving `NOT_INITIALIZED` for `INITIALIZED`, `HALT`
  or a bad status.
- `DeviceStart` is `start()` starting the IRQ and scheduler threads.
  Client notifications (`Notify`) happen only after it.
- `Crash` kills the daemon at any point. Its threads and its semaphore are
  lost; the MCI, the S-SIQ count and the SWd stay.

### Connections

The daemon knows a client only by the address of its `Connection` object. A
session stores that address (`deviceConnection`), and `findSession` admits a
request only when it equals the requesting connection. After the server
deletes a connection, the next one can be allocated at the same address.

- `conn[a]` is the connection at address `a`: free, a command connection
  with or without the device linked (`connectionData`), or an NQ socket.
  Its `gen` is a ghost numbering the clients, because the code has only the
  address.
- `sessions[s]` has `owner` (`deviceConnection`), the ghost `gen` of the
  client that opened it, `gp`, `nq` (`notificationConnection`), and whether
  a close of it failed.
- `Accept` allocates a connection at a free address. `HandleConnection(a)`
  is the command switch of `handleConnection`: `OpenDevice`,
  `ProcessCloseDevice`, `OpenSession` (`OPEN_SESSION`, and
  `OPEN_TRUSTED_APP` with `gp`), `OpenTrustlet`, `ProcessCloseSession`,
  `ProcessNotify`, `NqConnect` and `ProcessGetMobiCoreVersion` are the
  handlers. `Drop` is `handleConnection` returning false (an empty or failed
  header read, or an unknown command), then `dropConnection` and the delete.
  The bulk and registry commands leave the session table alone and are
  actions of `BulkBuffers` and `Registry`.
- `version` is the device's `mcVersionInfo`. `getMobiCoreVersion` answers
  from it once set, and otherwise sends `GET_MOBICORE_VERSION` and caches
  only an OK answer.
- `CloseResults` is `closeSession` as a set of outcomes. A GP session is cut
  from its client and loses its NQ socket, then it is closed or deferred. A
  non-GP session is closed, or the SWd refuses and it stays as it was.
  `CloseEach` is `close()`'s walk, which ignores every error (RECURSIVE).
- `foreign` records that `findSession` admitted a request of one client for a
  session another client opened.

Each handler holds the big mutex and `mutex_mcp` (`dropConnection` holds
`mutex_mcp`), so each is one step.

### Registry

The registry is a directory of files. The daemon writes it on a client's
request and reads it to load TAs and, at start-up, the auth token.

- `fs` is the directory. Each object is missing (`"none"`), whole (`"ok"`)
  or `"torn"`:
  - `auth` is the auth token.
  - `root` is the root container with the SP ids it lists.
  - `sp[s]` is SP `s`'s container with the UUIDs it lists.
  - `tlc[<<u, s>>]` is a TL container.
  - `tldir[u]` and `tlfiles[u]` are a trustlet's data directory and its
    data objects.
  - `tabin[u]` is a GP TA's binary, and `taspid[u]` is its `.spid` file
    with the SP id it holds.
- Every store opens with `"wb"` and ignores `fwrite`'s result (`Written`),
  so a short write or a crash in the middle leaves a torn object. The store
  still answers OK.
- Reads:
  - `ReadRoot`, `ReadResult` (`mcRegistryReadSp`) and `ReadTrustletCon`
    check nothing but `fread > 0`. A torn file may read as OK, or as an
    error when it is empty.
  - `mcRegistryReadAuthToken` and the cleanups' length checks need the whole
    object (`ReadsWhole`).
- The cleanups are sets of outcomes:
  - `CleanupTrustletResults` removes the data directory, then the TL
    container. An `opendir` that fails on an existing directory is taken
    for a missing one (`DataDirResults`): the data stay and the TL
    container is still removed, so the property about the cleanup's order
    covers the SP level only.
  - `CleanupSpResults` cleans each listed trustlet (`CleanupChildren`,
    RECURSIVE). It then deletes the SP's TA files (`DeleteSPTA`, which finds
    them through `.spid` files and ignores failed removals), and finally
    removes the container.
  - `CleanupRootResults` does this for every listed SP (`CleanupSps`,
    RECURSIVE).
  - A failure stops the walk where the code returns. A container too short
    for the length check returns the earlier read's OK and deletes nothing
    (lines 956 and 1013).
- `StoreTABlob` is `processLoadCheck` followed by `mcRegistryStoreTABlob`.
- `ProcessRegistryWriteData` is the write handler's switch: each command
  reads its ids and data and calls its store. `RequestFails` is a failed read
  of the size or a failed allocation before the switch.
  - `LoadCheck` builds the blob: an SP TA gets its root, SP and TL containers
    appended (`MemGetServiceBlobResults`). Then `CHECK_LOAD_TA` goes to the
    SWd.
  - The store checks the SP id range (`TASpidAccepted`) and writes `.tabin`,
    then `.spid` for an SP TA. A failed `.spid` open leaves the `.tabin`.
- `LoadServiceBlob` is `mcRegistryGetServiceBlob` for `OPEN_SESSION` of a GP
  TA (`LoadResults`). The SP id comes from `.spid`, and the blob is built
  like `LoadCheck`'s.
- `Boot` is `run()`'s token lookup followed by `LOAD_TOKEN`. It takes the
  auth token if it reads whole, and otherwise the root container if it reads
  (`StartupTokens`).
- There are two ghosts:
  - `tabFor[u]` is the SP a TA binary was stored for.
  - `revoked` holds the SPs whose cleanup reported OK and for which no TA has
    been stored since.

Every registry handler runs under `handleConnection`'s big mutex, so each is
one step. A crash between two files of one handler is the same as a failure
of the later writes, which the model already contains.

## Runs

| Run | Expect | Checks | What it shows |
|---|---|---|---|
| `mcp_channel` | pass | `TypeOK`, `SlotOwnership`, `ResponseIsOwn`, `WaitTerminates`, `ServersStart` | While a thread waits for or reads an answer, its command is in the slot and it owns `mutex_mcp`. For the main thread's lock-free start-up commands, nobody owns the mutex. An OK result is always the answer to that thread's own command, even with a stale or spurious `SID_MCP` on a reused MCI. Every wait ends. Whatever the SWd does during the sweep and `LOAD_TOKEN`, `run()` eventually starts the servers. |
| `sessions` | pass | `TypeOK`, `TableMirrorsSwd`, `GpSessionsReaped` | With a semaphore count that matches the pending answers (`MaxStale = 0`), between transactions each id the SWd holds has exactly one session object, and a GP session given up by its client is eventually deleted. |
| `sessions_irq_alive` | violation | `IrqSessionAlive` | With one stale count, `closeSession` deletes a session while the IRQ thread holds the pointer it looked up without a lock. |
| `session_stranded_orphan` | violation | `NoStrandedOrphan` | A notification for the session being opened is left in the unknown queue after the session exists. |
| `session_delivery_order` | violation | `DeliveredInOrder` | Around `NQ_CONNECT`, a newer notification reaches the client before an older queued one. |
| `bulk_buffers` | pass | `TypeOK`, `BuffersLocked` | No unmap, close, drop or reap path unlocks a buffer that a session still lists. |
| `bulk_lock_pairing` | violation | `LockPairing` | A buffer stays locked with no session listing it. |
| `scheduler` | pass | `TypeOK`, `NoLostWakeup`, `SwdBusyScheduled`, `InitDeviceReturns` | The scheduler never waits on a busy SWd without a signal or an S-SIQ on the way. A SWd whose flag reads `NON_IDLE` gets the CPU until it reads `IDLE`, unless the scheduler or IRQ thread died. Across crashes and restarts, `initDevice` always returns. |
| `connections` | pass | `TypeOK`, `StaleOwnerOnlyAfterFailedClose` | Addresses are reused. A session points at a connection of another client only after the SWd refused to close it when its own client left. |
| `connection_reuse` | violation | `NoForeignAccess` | A new client at a reused address closes and notifies another client's surviving session. |
| `registry` | pass | `TypeOK`, `CleanupBottomUp` | Whatever opens, removes, rmdirs and writes fail, an SP container is removed only with or after the TL containers of all its trustlets. |
| `registry_revoked_load` | violation | `RevokedTaNotLoaded` | After `DELETE_SP_CONT` reported success for an SP whose container was written short, `OPEN_SESSION` still loads that SP's TA. |

### What the runs show

**A session deleted under the IRQ thread.** The unlocked lookup in
`handleIrq` is safe only while the semaphore count matches the answers
pending: a session is deleted only after an MCP answer, which then sits
behind the IRQ thread's current record. With one stale count:
1. Client c1 opens a session. The SWd answers, and `OpenComplete` runs on the
   stale count before the IRQ thread has taken the answer's `SID_MCP`.
2. c1 sends `CLOSE_SESSION`. The IRQ thread takes the OPEN's `SID_MCP`, so the
   count is one again.
3. The TA sends a notification. The IRQ thread takes it and looks the session
   up (line 679).
4. The SWd answers the close, and `CloseComplete` runs on the OPEN's count:
   the session is erased and deleted while the IRQ thread holds its pointer.

The same stale count breaks `TableMirrorsSwd`: an `OPEN_SESSION` woken before
its answer fails, and the SWd then opens a session the list does not hold.

**Stranded orphan.** The IRQ thread looks a session up and misses it. The
opener then pushes the session and drains the unknown queue. Only after that
does the IRQ thread push the record to the unknown queue, where no one reads it
until the next open clears it.

**Out-of-order delivery.**
1. A notification is queued in the session.
2. `NQ_CONNECT` publishes the socket.
3. The IRQ thread writes a newer notification to the socket directly.
4. The flush then writes the older one.

**Leaked buffer lock.**
1. c1 opens a session with its one-byte contiguous buffer as TCI and
   `tciLen = 2`.
2. `openSession` locks the handle.
3. The length check fails, and the handle stays locked with no session
   listing it.

The same leak follows a failed `findWsmL2` or `mapBulk` in
`processMapBulkBuf`, and a session erased by `handleTaExit`. TLC reports the
shortest trace.

**Restarts.** Both scheduler properties also hold across crashes and
restarts, with a restarted scheduler starting with a zero semaphore on a SWd
that may still be busy.
`InitDeviceReturns` holds only because the SWd promises to leave
`NOT_INITIALIZED`. The mutant that keeps polling a halted SWd never returns.

**Lost notification after a failed N-SIQ.** The Scheduler model contains
this path but no run checks it. The code's IMPROVEMENT comment at line 291
already names the loss. Likewise McpChannel contains the fault after five
timeouts of a live SWd, which `waitMcpNotification` raises on purpose.
1. The scheduler reads `IDLE` and waits.
2. A client's `notify()` queues a notification.
3. `fcNSIQ` fails, and `notify()` ignores the failure (line 296).
4. The SWd never ran, so its flag still reads `IDLE`, and nothing signals
   `schedSync`. The notification waits for an unrelated event.

**Another client's session through a reused address.**
1. Client 1 connects at address a, opens the device and opens a non-GP
   session. The session's `deviceConnection` is a.
2. Client 1 goes away. `dropConnection` calls `close()`, the SWd refuses
   `CLOSE_SESSION`, and `close()` ignores the error (line 251). The session
   stays, still pointing at a, and the connection is deleted.
3. Client 2 is accepted at the freed address a and opens the device.
4. Client 2 sends `CLOSE_SESSION` (or `NOTIFY`) with the session's id.
   `findSession` compares addresses only (line 131) and admits it. The
   comment above `closeSession` says this check stops a client closing
   sessions that are not its own.

**A revoked SP's TA is loaded.**
1. The root container, SP s1's container and s1's TL container for u1 are
   stored. The SP container is written short (torn, not empty).
2. `STORE_TA_BLOB` for u1 as an SP TA of s1: the load check reads all three
   containers (a non-empty torn file reads as OK), and `.tabin` and `.spid`
   are written.
3. `DELETE_SP_CONT` for s1: `mcRegistryCleanupSp` reads the container,
   finds it shorter than `mcSoSpCont_t`, and returns the read's
   `MC_DRV_OK` (line 956) without deleting anything.
4. `OPEN_SESSION` for u1: `mcRegistryGetServiceBlob` reads `.spid`, builds
   the blob from the same containers, and the load succeeds. The comment at
   line 970 says the cleanup deletes the remaining TABIN and SPID files.

TLC labels the last step `ReadRegistry`, because a read that answers OK
leads to the same state.

### Bounds and why they are enough

- **`mcp_channel`** runs one socket server, the reaper, the main thread, one
  handler command id, `RetryCount = 2`, one spurious notification, a sweep of
  one session id and the optional `LOAD_TOKEN`. `MaxTxns = 1` bounds the
  handlers' entries, not their transactions: the socket server and the reaper
  can both enter before either sends, so two handler transactions still
  contend for the slot. With `MaxTxns = 2` the run takes 4 minutes 45
  seconds, too close to the five-minute limit; a sweep of two ids takes
  longer still.
  - The main thread's close and `LOAD_TOKEN` are two commands in a row. That
    is enough for a stale count to shift the next wait by one.
  - A single command id is the hard case for the rspId check: a stale response
    has the right id.
  - Two threads are enough for the slot to be contended through every entry
    point.
  - Retry count 2 exercises both the countdown and the fault.
- **`sessions`** runs two clients, two SWd ids, two opens, three client
  requests and one data notification, with `MaxStale = 0`; the
  `sessions_irq_alive` run is the same with `MaxStale = 1`.
  - The two ids can be reused.
  - A drop can meet sessions of the other client.
  - TA exits are not bounded: at most one per open.
  - With two data notifications the run takes more than six minutes. The order
    run, which needs two, uses that bound with only the invariant.

- **`bulk_buffers`** runs two clients, the four handles above, lengths 0–2,
  two opens and four client requests.
  - Lengths 0–2 cover a zero TCI length, a TCI longer than the contiguous
    buffer, and the blob length recorded for a TCI. So a client can unmap its
    own TCI.
  - Four requests are enough for open GP, map, close (deferred), drop, and the
    reaper after the TA's exit.

- **`scheduler`** runs `SchedulingFreq = 2`, two FIQs and two notifications.
  - The slice reaches 0, so the forced tick happens.
  - Two pending units keep the SWd busy across a slice.
  - A FIQ can arrive while the scheduler is between reading the flag and
    waiting.

  - `MaxStarts = 2` gives one restart. The crash can fall at every step of
    the first instance, including the status poll and service.
  - The ten yields of a poll are kept, as in the code, so a poll can be cut
    short at any of them.

- **`connections`** runs two addresses, three accepted connections and two
  opened sessions, with symmetry over the addresses.
  - Three connections over two addresses force a reuse.
  - Two sessions let one client's drop meet both a GP and a non-GP session,
    or one session of each client.

- **`registry`** runs one SP id below `MC_SPID_SYSTEM` and one above it,
  the system id, two UUIDs (with symmetry), one data object id and six
  requests.
  - The id above the system id is what `TASpidAccepted` must refuse for an
    SP TA. Containers can still be stored for it, since `mcRegistryStoreSp`
    rejects only 0.
  - Two UUIDs let an SP list two trustlets, so a cleanup can fail after the
    first child is gone.
  - Six requests are enough to store a root, an SP, a TL container, data and
    a TA blob, and then clean up. The revoked-load trace needs six. Seven
    requests take more than eight minutes.

All runs set `CHECK_DEADLOCK FALSE` because the daemon legitimately idles when
clients stop sending requests, and the models bound the requests.

### Fairness

McpChannel:
- Each thread's wait is weakly fair, because `wait(10)` always returns.
- So are `CheckResponse` and `Release`, which are plain code.
- So are the main thread's start-up steps and its send, which are
  straight-line code in `start()` and `run()`.
- The SWd may stay silent or halt, and the IRQ thread may die, so neither gets
  fairness.

SessionEngine:
- Every step of an operation already begun by the `mutex_mcp` holder is weakly
  fair, and so are the reaper's start and the IRQ thread.
- The SWd answers MCP commands fairly. Otherwise the wait times out, which
  McpChannel covers.
- A GP TA told to close eventually exits. This is weak fairness on `SwdTaExit`
  restricted to ids with a close request.
- Clients, data notifications and spontaneous TA exits get no fairness.
- The client requests are bounded, so the reaper, which needs `mutex_mcp` free,
  gets it once clients stop.

Clients follow the client library's order: `NQ_CONNECT` is sent inside
`mcOpenSession`, so before the client can close the session. A client that
sends `NQ_CONNECT` after closing a GP session re-attaches a socket. The TA's
exit is then forwarded instead of queued, and the session is never reaped. The
liveness run finds this when the restriction is lifted. It is listed as a
hazard.

BulkBuffers checks safety only and assumes no fairness.

Scheduler:
- The scheduler thread's loop steps and its wait (once `schedSync` is
  positive) are weakly fair, and so is the IRQ thread's handling of a pending
  S-SIQ. Both are OS threads.
- The main thread's start-up steps are weakly fair.
- `SwdInit` is weakly fair. The comment at `TrustZoneDevice.cpp` 156 says
  the SWd "always switches state at a certain point in time", and the poll
  relies on it.
- Kernel-call failures, crashes, launches, FIQs and notifications are not
  forced.
- `getMobicoreStatus` ignores `fcInfo`'s result, and on failure it returns
  an uninitialised local. The model assumes `fcInfo` succeeds: no fairness
  the code justifies would end a poll whose reads may fail forever.
- The liveness properties exempt a dead scheduler or IRQ thread. The daemon
  treats the death of either as fatal.

Connections and Registry check safety only and assume no fairness.

## Not modelled (yet)

- **Whether a dead scheduler is reported.** `schedule()` does not call
  `setExiting`, unlike `handleIrq` and `handleTaExit`. The thread wrapper in
  `DeviceScheduler.h`, which is not in the repository, decides this.
- **The NWd/SWd ring internals.** `NotificationQueue.cpp` is not in the
  repository, so each direction is a FIFO sequence here.
- **The rest of daemon start-up.**
  - `loadDeviceDriver` loads driver files from outside the registry. Its
    resources are kernel buffers, and whether the kernel module reclaims them
    when the daemon dies is decided outside the repository. When a driver's
    `OPEN_SESSION` fails, its persistent TCI buffer is neither released nor
    recorded (line 322). The destructor releases the TCI buffers with
    `unregisterWsmL2`, the call for registered L2 buffers (line 100). Both
    are listed as hazards.
  - Whether `start()`'s sweep of session ids 2..19 after the MCI was reused
    reaches every session of the dead instance. Which ids the SWd hands out
    is decided in the SWd, which is not in the repository. The sweep itself
    is modelled in McpChannel.
  - What happens to the token's memory that `loadToken` unregisters when the
    SWd answers `LOAD_TOKEN` after the wait timed out (line 1467). McpChannel
    reaches the late answer, but `unregisterWsmL2` is a kernel module call.
    It is listed as a hazard.
  - `loadToken`'s clearing of the orphan notification queue. It runs before
    this instance has opened any session, so all it can drop are
    notifications left over from a previous instance.
  - `checkMobiCoreVersion` is defined but never called.
- **A restart on a half-initialised MCI.** If a daemon dies or gives up
  after `mapMCI` but before the SWd reads `INITIALIZED`, the next instance
  finds the MCI reused. It skips `fcInit`, the first N-SIQ and the poll, and
  starts its threads on a SWd that never finished initialising. The
  Scheduler model reaches this state. The comment at `TrustZoneDevice.cpp`
  131 equates reuse with an initialised MC, and nothing in the repository
  says what a restart should do instead, so no property claims it. It is
  listed as a hazard.
- **Parts of the registry.**
  - `.tlbin` files and `mcRegistryGetDriverBlob` are written outside the
    daemon.
  - The TbStorage directories that `CleanupGPTAStorage` removes are not
    modelled.
  - SP data directories are not modelled, because `SPDATA` cannot be stored.
  - The header and attestation checks are abstracted to a possible
    rejection.
- **Leaked NQ connections.** A connection that `processNqConnect` detached
  and failed to register is never deleted (`MobiCoreDriverDaemon.cpp` 742).
  Connections has no property about unreferenced objects.
- **The headers.** They contain declarations only.
- **Undefined behaviour in `close()`.** The double unlock and the erased
  reverse-iterator base are below the model's granularity. The walk is modelled
  as the usual build behaves.

## Plan for further modules

1. Start-up: `loadDeviceDriver` with the kernel buffers it registers and
   maps, if the kernel module's behaviour on process exit can be pinned
   down.
2. Registry: a stale `.spid` next to a newer `.tabin` (line 541), which
   loads a TA with another SP's containers.
3. A composition of Registry with Connections, so that `OPEN_SESSION`'s
   blob load and the session table are one step.
