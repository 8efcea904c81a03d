----------------------------- MODULE McpChannel -----------------------------
(***************************************************************************)
(* The MCP control channel of the daemon: the single command/response     *)
(* slot shared with the secure world (SWd), the threads that write it     *)
(* under mutex_mcp, the SWd that answers it, and the IRQ thread that      *)
(* turns the SWd's SID_MCP notification into a signal of the              *)
(* mcpSessionNotification semaphore.                                      *)
(*                                                                         *)
(* Sources:                                                               *)
(*   MobiCoreDriverDaemon.cpp  handleConnection, dropConnection           *)
(*   MobiCoreDevice.cpp        mshNotifyAndWait, waitMcpNotification and  *)
(*                             the response check of every MCP command    *)
(*   TrustZoneDevice.cpp       notify(SID_MCP), handleIrq, handleTaExit   *)
(*   MobiCoreDevice.cpp        start (the session sweep), loadToken       *)
(*   MobiCoreDriverDaemon.cpp  run (token lookup, starting the servers)   *)
(*                                                                         *)
(* A command is abstracted to its identifier; the slot header is the one  *)
(* word that holds cmdId when the daemon writes a command and rspId when  *)
(* the SWd writes the response (cmdHeader and rspHeader share it in the   *)
(* mcpMessage union).  Every thread that takes mutex_mcp runs exactly one *)
(* MCP transaction before it unlocks; handlers that send none or two are  *)
(* sequences of these.                                                    *)
(*                                                                         *)
(* Before the servers exist, the main thread runs the start-up            *)
(* transactions without mutex_mcp: with a reused MCI the close sweep of   *)
(* start(), then LOAD_TOKEN.  A reused MCI is not wiped, so the slot and  *)
(* both queues may still hold what the previous daemon instance left.     *)
(***************************************************************************)
EXTENDS Naturals

CONSTANTS
  Servers,      \* socket server threads (Server, NetlinkServer)
  Reaper,       \* the TAExitHandler thread
  Cmds,         \* MCP command identifiers
  RetryCount,   \* waitMcpNotification: int counter = 5
  MaxTxns,      \* bound on the handlers' MCP transactions in a behaviour
  MaxSpurious,  \* bound on unsolicited SID_MCP notifications from the SWd
  Main,         \* the daemon's main thread (MobiCoreDriverDaemon::run)
  CloseCmd,     \* MC_MCP_CMD_CLOSE_SESSION
  TokenCmd,     \* MC_MCP_CMD_LOAD_TOKEN
  SweepIds,     \* session ids start() closes (2..19 in the code)
  NoThread

Threads == Servers \cup {Reaper, Main}

McpCmds == Cmds \cup {TokenCmd}

ASSUME Reaper \notin Servers /\ Main \notin Servers \cup {Reaper}
ASSUME NoThread \notin Threads /\ CloseCmd \in Cmds
ASSUME RetryCount \in Nat \ {0} /\ MaxTxns \in Nat /\ MaxSpurious \in Nat
ASSUME SweepIds \in Nat

VARIABLES
  pc,          \* per thread program counter
  path,        \* which entry point the thread runs: handle, drop or reap
  bigOwner,    \* the static CMutex of handleConnection
  mcpOwner,    \* mutex_mcp
  cmd,         \* command the thread wrote
  counter,     \* retry counter of waitMcpNotification
  hdr,         \* the shared header word: [kind |-> "cmd"|"rsp", id |-> c]
  toSwd,       \* SID_MCP notifications in the NWd->SWd queue
  fromSwd,     \* SID_MCP notifications in the SWd->NWd queue
  sem,         \* count of mcpSessionNotification
  mcFault,     \* MobiCoreDevice::mcFault
  swdHalted,   \* getMobicoreStatus() == MC_STATUS_HALT
  irqExiting,  \* DeviceIrqHandler::isExiting()
  spurious,    \* unsolicited notifications sent so far
  nTxn,        \* transactions started (ghost, also names them)
  txn,         \* transaction number of each thread (ghost)
  slotTxn,     \* transaction whose command is in the slot (ghost)
  answered,    \* transaction whose command the SWd last answered (ghost)
  result,      \* outcome of the thread's last transaction
  okFor,       \* answer a transaction returned MC_DRV_OK with (ghost)
  sweepLeft,   \* session ids start() has still to close
  tokenPending,\* run() found a token in the registry and has not used it
  serversUp    \* run() has started the socket servers

vars == << pc, path, bigOwner, mcpOwner, cmd, counter, hdr, toSwd, fromSwd,
           sem, mcFault, swdHalted, irqExiting, spurious, nTxn, txn,
           slotTxn, answered, result, okFor, sweepLeft,
           tokenPending, serversUp >>

startVars == << sweepLeft, tokenPending, serversUp >>

Cmd(c) == [kind |-> "cmd", id |-> c]
Rsp(c) == [kind |-> "rsp", id |-> c]   \* c | FLAG_RESPONSE

(* initDevice wipes the MCI buffer with memset before first use. *)
Zeroed == [kind |-> "zero", id |-> "zero"]

(* A reused MCI keeps whatever the previous instance left in the slot,   *)
(* and a command it wrote may still have its notification in the        *)
(* NWd->SWd queue.  A notification it left in the SWd->NWd queue is one  *)
(* SwdSpurious sends.                                                    *)
Leftover == {Zeroed} \cup {Cmd(c) : c \in McpCmds} \cup {Rsp(c) : c \in McpCmds}

LeftoverQueued(h) == IF h.kind = "cmd" THEN 0..1 ELSE {0}

(* The main thread is in start(), after the IRQ, scheduler and          *)
(* TAExitHandler threads have been started, on a fresh or a reused MCI   *)
(* (getMciInstance).  Whether run() will find an AuthToken or a Root     *)
(* Container in the registry is decided by files outside the model.      *)
Init ==
  /\ pc = [t \in Threads |-> IF t = Main THEN "start" ELSE "idle"]
  /\ path = [t \in Threads |-> CASE t = Reaper -> "reap"
                                  [] t = Main   -> "startup"
                                  [] OTHER      -> "handle"]
  /\ bigOwner = NoThread
  /\ mcpOwner = NoThread
  /\ cmd = [t \in Threads |-> CHOOSE c \in Cmds : TRUE]
  /\ counter = [t \in Threads |-> RetryCount]
  /\ \E mciReused \in BOOLEAN :
       /\ IF mciReused
            THEN hdr \in Leftover /\ toSwd \in LeftoverQueued(hdr)
            ELSE hdr = Zeroed /\ toSwd = 0
       /\ sweepLeft = IF mciReused THEN SweepIds ELSE 0
  /\ fromSwd = 0 /\ sem = 0
  /\ mcFault = FALSE /\ swdHalted = FALSE /\ irqExiting = FALSE
  /\ spurious = 0 /\ nTxn = 0
  /\ txn = [t \in Threads |-> 0]
  /\ slotTxn = 0 /\ answered = 0
  /\ result = [t \in Threads |-> "none"]
  /\ okFor = [t \in Threads |-> 0]
  /\ tokenPending \in BOOLEAN
  /\ serversUp = FALSE

-----------------------------------------------------------------------------
(* Entry points.                                                          *)

(* Transactions of the handlers so far: the main thread's all come       *)
(* before the servers start, numbered 1 to txn[Main].                    *)
HandlerTxns == nTxn - txn[Main]

(* handleConnection: a request is refused when the device has faulted,   *)
(* and only then are the big mutex and mutex_mcp taken.                  *)
HandleConnection(t) ==
  /\ t \in Servers /\ serversUp /\ pc[t] = "idle" /\ HandlerTxns < MaxTxns
  /\ ~mcFault
  /\ pc' = [pc EXCEPT ![t] = "big"]
  /\ path' = [path EXCEPT ![t] = "handle"]
  /\ UNCHANGED << startVars, bigOwner, mcpOwner, cmd, counter, hdr, toSwd, fromSwd, sem,
                  mcFault, swdHalted, irqExiting, spurious, nTxn, txn,
                  slotTxn, answered, result, okFor >>

(* dropConnection: a client whose connection still has the device closes *)
(* its sessions under mutex_mcp only; there is no mcFault check.         *)
DropConnection(t) ==
  /\ t \in Servers /\ serversUp /\ pc[t] = "idle" /\ HandlerTxns < MaxTxns
  /\ pc' = [pc EXCEPT ![t] = "mcp"]
  /\ path' = [path EXCEPT ![t] = "drop"]
  /\ UNCHANGED << startVars, bigOwner, mcpOwner, cmd, counter, hdr, toSwd, fromSwd, sem,
                  mcFault, swdHalted, irqExiting, spurious, nTxn, txn,
                  slotTxn, answered, result, okFor >>

(* handleTaExit: woken by taExitNotification, locks mutex_mcp and closes *)
(* the dead sessions; there is no mcFault check either.  Sessions exist  *)
(* only once the servers run, so it is not woken before.                 *)
HandleTaExit(t) ==
  /\ t = Reaper /\ serversUp /\ pc[t] = "idle" /\ HandlerTxns < MaxTxns
  /\ pc' = [pc EXCEPT ![t] = "mcp"]
  /\ UNCHANGED << startVars, path, bigOwner, mcpOwner, cmd, counter, hdr, toSwd, fromSwd,
                  sem, mcFault, swdHalted, irqExiting, spurious, nTxn, txn,
                  slotTxn, answered, result, okFor >>

LockBig(t) ==
  /\ pc[t] = "big" /\ bigOwner = NoThread
  /\ bigOwner' = t
  /\ pc' = [pc EXCEPT ![t] = "mcp"]
  /\ UNCHANGED << startVars, path, mcpOwner, cmd, counter, hdr, toSwd, fromSwd, sem,
                  mcFault, swdHalted, irqExiting, spurious, nTxn, txn,
                  slotTxn, answered, result, okFor >>

(* Mutation: mutex_mcp taken without waiting for its owner to unlock.   *)
LockMcpUnguarded(t) ==
  /\ pc[t] = "mcp"
  /\ mcpOwner' = t
  /\ pc' = [pc EXCEPT ![t] = "send"]
  /\ UNCHANGED << startVars, path, bigOwner, cmd, counter, hdr, toSwd, fromSwd, sem,
                  mcFault, swdHalted, irqExiting, spurious, nTxn, txn,
                  slotTxn, answered, result, okFor >>

LockMcp(t) ==
  /\ pc[t] = "mcp" /\ mcpOwner = NoThread
  /\ mcpOwner' = t
  /\ pc' = [pc EXCEPT ![t] = "send"]
  /\ UNCHANGED << startVars, path, bigOwner, cmd, counter, hdr, toSwd, fromSwd, sem,
                  mcFault, swdHalted, irqExiting, spurious, nTxn, txn,
                  slotTxn, answered, result, okFor >>

-----------------------------------------------------------------------------
(* mshNotifyAndWait.                                                      *)

(* The command is written into the slot, then notify(SID_MCP) puts a     *)
(* notification into the NWd->SWd queue and raises an N-SIQ.             *)
SendCommand(t, c) ==
  /\ pc[t] = "send"
  /\ hdr' = Cmd(c)
  /\ cmd' = [cmd EXCEPT ![t] = c]
  /\ nTxn' = nTxn + 1
  /\ txn' = [txn EXCEPT ![t] = nTxn + 1]
  /\ slotTxn' = nTxn + 1
  /\ toSwd' = toSwd + 1
  /\ counter' = [counter EXCEPT ![t] = RetryCount]
  /\ result' = [result EXCEPT ![t] = "none"]
  /\ pc' = [pc EXCEPT ![t] = "wait"]
  /\ UNCHANGED << startVars, path, bigOwner, mcpOwner, fromSwd, sem, mcFault, swdHalted,
                  irqExiting, spurious, answered, okFor >>

(* waitMcpNotification, the early return on a faulted device.            *)
WaitFaulted(t) ==
  /\ pc[t] = "wait" /\ mcFault
  /\ result' = [result EXCEPT ![t] = "mciError"]
  /\ pc' = [pc EXCEPT ![t] = "release"]
  /\ UNCHANGED << startVars, path, bigOwner, mcpOwner, cmd, counter, hdr, toSwd, fromSwd,
                  sem, mcFault, swdHalted, irqExiting, spurious, nTxn, txn,
                  slotTxn, answered, okFor >>

(* The semaphore is signalled: the loop breaks and the health check of   *)
(* the IRQ thread follows.                                               *)
WaitSignalled(t) ==
  /\ pc[t] = "wait" /\ ~mcFault /\ sem > 0
  /\ sem' = sem - 1
  /\ IF irqExiting
       THEN /\ result' = [result EXCEPT ![t] = "mciError"]
            /\ pc' = [pc EXCEPT ![t] = "release"]
       ELSE /\ pc' = [pc EXCEPT ![t] = "check"]
            /\ UNCHANGED result
  /\ UNCHANGED << startVars, path, bigOwner, mcpOwner, cmd, counter, hdr, toSwd, fromSwd,
                  mcFault, swdHalted, irqExiting, spurious, nTxn, txn,
                  slotTxn, answered, okFor >>

(* Mutation: the retry counter is never decremented.                     *)
WaitTimeoutNoCountdown(t) ==
  /\ pc[t] = "wait" /\ ~mcFault /\ sem = 0
  /\ IF swdHalted
       THEN /\ mcFault' = TRUE
            /\ result' = [result EXCEPT ![t] = "mciError"]
            /\ pc' = [pc EXCEPT ![t] = "release"]
       ELSE UNCHANGED << mcFault, result, pc >>
  /\ UNCHANGED << startVars, path, bigOwner, mcpOwner, cmd, counter, hdr, toSwd, fromSwd,
                  sem, swdHalted, irqExiting, spurious, nTxn, txn, slotTxn,
                  answered, okFor >>

(* Mutation: off by one in the retry test, counter < 0 for counter < 1.  *)
WaitTimeoutOffByOne(t) ==
  /\ pc[t] = "wait" /\ ~mcFault /\ sem = 0
  /\ IF swdHalted \/ counter[t] - 1 < 0
       THEN /\ mcFault' = TRUE
            /\ result' = [result EXCEPT ![t] = "mciError"]
            /\ pc' = [pc EXCEPT ![t] = "release"]
            /\ UNCHANGED counter
       ELSE /\ counter' = [counter EXCEPT ![t] = @ - 1]
            /\ UNCHANGED << mcFault, result, pc >>
  /\ UNCHANGED << startVars, path, bigOwner, mcpOwner, cmd, hdr, toSwd, fromSwd, sem,
                  swdHalted, irqExiting, spurious, nTxn, txn, slotTxn,
                  answered, okFor >>

(* wait(10) times out: a halted SWd faults the device; otherwise the     *)
(* counter is decremented and the device faults when it drops below 1.   *)
WaitTimeout(t) ==
  /\ pc[t] = "wait" /\ ~mcFault /\ sem = 0
  /\ IF swdHalted \/ counter[t] - 1 < 1
       THEN /\ mcFault' = TRUE
            /\ result' = [result EXCEPT ![t] = "mciError"]
            /\ pc' = [pc EXCEPT ![t] = "release"]
            /\ UNCHANGED counter
       ELSE /\ counter' = [counter EXCEPT ![t] = @ - 1]
            /\ UNCHANGED << mcFault, result, pc >>
  /\ UNCHANGED << startVars, path, bigOwner, mcpOwner, cmd, hdr, toSwd, fromSwd, sem,
                  swdHalted, irqExiting, spurious, nTxn, txn, slotTxn,
                  answered, okFor >>

(* Mutation: the rspId check is left out and the result is trusted.      *)
CheckResponseNoRspId(t) ==
  /\ pc[t] = "check"
  /\ result' = [result EXCEPT ![t] = "ok"]
  /\ okFor' = [okFor EXCEPT ![t] = answered]
  /\ pc' = [pc EXCEPT ![t] = "release"]
  /\ UNCHANGED << startVars, path, bigOwner, mcpOwner, cmd, counter, hdr, toSwd, fromSwd,
                  sem, mcFault, swdHalted, irqExiting, spurious, nTxn, txn,
                  slotTxn, answered >>

(* The command handler checks rspId == (cmdId | FLAG_RESPONSE).          *)
CheckResponse(t) ==
  /\ pc[t] = "check"
  /\ IF hdr = Rsp(cmd[t])
       THEN /\ result' = [result EXCEPT ![t] = "ok"]
            /\ okFor' = [okFor EXCEPT ![t] = answered]
       ELSE /\ result' = [result EXCEPT ![t] = "mciError"]
            /\ UNCHANGED okFor
  /\ pc' = [pc EXCEPT ![t] = "release"]
  /\ UNCHANGED << startVars, path, bigOwner, mcpOwner, cmd, counter, hdr, toSwd, fromSwd,
                  sem, mcFault, swdHalted, irqExiting, spurious, nTxn, txn,
                  slotTxn, answered >>

(* mutex_mcp is unlocked, and for handleConnection the big mutex.        *)
Release(t) ==
  /\ t # Main /\ pc[t] = "release"
  /\ mcpOwner' = NoThread
  /\ bigOwner' = IF path[t] = "handle" THEN NoThread ELSE bigOwner
  /\ pc' = [pc EXCEPT ![t] = "idle"]
  /\ UNCHANGED << startVars, path, cmd, counter, hdr, toSwd, fromSwd, sem, mcFault,
                  swdHalted, irqExiting, spurious, nTxn, txn, slotTxn,
                  answered, result, okFor >>

-----------------------------------------------------------------------------
(* The main thread at start-up.  It holds no mutex: no other thread can  *)
(* send before the servers are started.  Every result is only logged.    *)

(* The main thread returns from one start-up command to its caller.      *)
CommandReturns(t) ==
  /\ t = Main /\ pc[t] = "release"
  /\ pc' = [pc EXCEPT ![t] = "start"]
  /\ UNCHANGED << startVars, path, bigOwner, mcpOwner, cmd, counter, hdr,
                  toSwd, fromSwd, sem, mcFault, swdHalted, irqExiting,
                  spurious, nTxn, txn, slotTxn, answered, result, okFor >>

(* start() on a reused MCI: sendSessionCloseCmd for the next session id, *)
(* whatever the previous one returned.                                   *)
SweepClose(t) ==
  /\ t = Main /\ pc[t] = "start" /\ sweepLeft > 0
  /\ sweepLeft' = sweepLeft - 1
  /\ cmd' = [cmd EXCEPT ![t] = CloseCmd]
  /\ pc' = [pc EXCEPT ![t] = "send"]
  /\ UNCHANGED << tokenPending, serversUp, path, bigOwner, mcpOwner,
                  counter, hdr, toSwd, fromSwd, sem, mcFault, swdHalted,
                  irqExiting, spurious, nTxn, txn, slotTxn, answered, result,
                  okFor >>

(* run() passes a token found in the registry to the SWd: loadToken     *)
(* registers the token's memory and writes LOAD_TOKEN; when the          *)
(* registration fails no command is sent.                                *)
LoadToken(t) ==
  /\ t = Main /\ pc[t] = "start" /\ sweepLeft = 0 /\ tokenPending
  /\ tokenPending' = FALSE
  /\ \/ /\ cmd' = [cmd EXCEPT ![t] = TokenCmd]
        /\ pc' = [pc EXCEPT ![t] = "send"]
     \/ UNCHANGED << cmd, pc >>
  /\ UNCHANGED << sweepLeft, serversUp, path, bigOwner, mcpOwner,
                  counter, hdr, toSwd, fromSwd, sem, mcFault, swdHalted,
                  irqExiting, spurious, nTxn, txn, slotTxn, answered, result,
                  okFor >>

(* Mutation: run() gives up instead of logging a failed LOAD_TOKEN.      *)
StartServersUnlessFailed(t) ==
  /\ t = Main /\ pc[t] = "start" /\ sweepLeft = 0 /\ ~tokenPending
  /\ result[t] # "mciError"
  /\ serversUp' = TRUE
  /\ pc' = [pc EXCEPT ![t] = "serve"]
  /\ cmd' = [cmd EXCEPT ![t] = CloseCmd]
  /\ counter' = [counter EXCEPT ![t] = RetryCount]
  /\ UNCHANGED << sweepLeft, tokenPending, path, bigOwner, mcpOwner, hdr,
                  toSwd, fromSwd, sem, mcFault, swdHalted, irqExiting,
                  spurious, nTxn, txn, slotTxn, answered, result, okFor >>

(* run() creates and starts the Netlink and socket servers.  The locals  *)
(* of the start-up commands, which have all returned, are dropped; the   *)
(* outcome of the last one stays visible.                                *)
StartServers(t) ==
  /\ t = Main /\ pc[t] = "start" /\ sweepLeft = 0 /\ ~tokenPending
  /\ serversUp' = TRUE
  /\ pc' = [pc EXCEPT ![t] = "serve"]
  /\ cmd' = [cmd EXCEPT ![t] = CloseCmd]
  /\ counter' = [counter EXCEPT ![t] = RetryCount]
  /\ UNCHANGED << sweepLeft, tokenPending, path, bigOwner, mcpOwner, hdr,
                  toSwd, fromSwd, sem, mcFault, swdHalted, irqExiting,
                  spurious, nTxn, txn, slotTxn, answered, result, okFor >>

(* A handler sends the command of its request; the main thread the one   *)
(* its start-up step chose.                                              *)
CmdsOf(t) == IF t = Main THEN {cmd[t]} ELSE Cmds

StartupStep(t) ==
  \/ SweepClose(t) \/ LoadToken(t) \/ StartServers(t) \/ CommandReturns(t)

-----------------------------------------------------------------------------
(* The secure world and the IRQ thread.                                   *)

(* The SWd takes a SID_MCP notification and answers the command in the  *)
(* slot; a slot that holds no command is left alone.                     *)
SwdAnswer ==
  /\ toSwd > 0 /\ ~swdHalted
  /\ toSwd' = toSwd - 1
  /\ IF hdr.kind = "cmd"
       THEN /\ hdr' = Rsp(hdr.id)
            /\ answered' = slotTxn
            /\ fromSwd' = fromSwd + 1
       ELSE UNCHANGED << hdr, answered, fromSwd >>
  /\ UNCHANGED << startVars, pc, path, bigOwner, mcpOwner, cmd, counter, sem, mcFault,
                  swdHalted, irqExiting, spurious, nTxn, txn, slotTxn,
                  result, okFor >>

(* An untrusted SWd may send a SID_MCP notification nobody asked for.    *)
SwdSpurious ==
  /\ spurious < MaxSpurious /\ ~swdHalted
  /\ spurious' = spurious + 1
  /\ fromSwd' = fromSwd + 1
  /\ UNCHANGED << startVars, pc, path, bigOwner, mcpOwner, cmd, counter, hdr, toSwd, sem,
                  mcFault, swdHalted, irqExiting, nTxn, txn, slotTxn,
                  answered, result, okFor >>

SwdHalt ==
  /\ ~swdHalted
  /\ swdHalted' = TRUE
  /\ UNCHANGED << startVars, pc, path, bigOwner, mcpOwner, cmd, counter, hdr, toSwd,
                  fromSwd, sem, mcFault, irqExiting, spurious, nTxn, txn,
                  slotTxn, answered, result, okFor >>

(* handleIrq: a SID_MCP notification signals mcpSessionNotification.     *)
IrqMcpNotification ==
  /\ ~irqExiting /\ fromSwd > 0
  /\ fromSwd' = fromSwd - 1
  /\ sem' = sem + 1
  /\ UNCHANGED << startVars, pc, path, bigOwner, mcpOwner, cmd, counter, hdr, toSwd,
                  mcFault, swdHalted, irqExiting, spurious, nTxn, txn,
                  slotTxn, answered, result, okFor >>

(* handleIrq: waitSsiq fails, the thread marks itself exiting and        *)
(* signals the MCP waiter so that it does not block.                     *)
IrqExit ==
  /\ ~irqExiting
  /\ irqExiting' = TRUE
  /\ sem' = sem + 1
  /\ UNCHANGED << startVars, pc, path, bigOwner, mcpOwner, cmd, counter, hdr, toSwd,
                  fromSwd, mcFault, swdHalted, spurious, nTxn, txn, slotTxn,
                  answered, result, okFor >>

-----------------------------------------------------------------------------
ThreadStep(t) ==
  \/ HandleConnection(t) \/ DropConnection(t) \/ HandleTaExit(t)
  \/ LockBig(t) \/ LockMcp(t)
  \/ \E c \in CmdsOf(t) : SendCommand(t, c)
  \/ WaitFaulted(t) \/ WaitSignalled(t) \/ WaitTimeout(t)
  \/ CheckResponse(t) \/ Release(t) \/ StartupStep(t)

Next ==
  \/ \E t \in Threads : ThreadStep(t)
  \/ SwdAnswer \/ SwdSpurious \/ SwdHalt
  \/ IrqMcpNotification \/ IrqExit

(* The wait of a thread is a timed semaphore wait, so a waiting thread   *)
(* always makes progress; the other thread steps are plain code.  The    *)
(* SWd and the IRQ thread get no fairness: the SWd may halt or stay      *)
(* silent, and the IRQ thread may die.  The main thread's start-up is   *)
(* straight-line code as well.                                           *)
Fairness ==
  /\ \A t \in Threads :
       /\ WF_vars(WaitFaulted(t) \/ WaitSignalled(t) \/ WaitTimeout(t))
       /\ WF_vars(CheckResponse(t)) /\ WF_vars(Release(t))
  /\ WF_vars(StartupStep(Main) \/ SendCommand(Main, cmd[Main]))

Spec == Init /\ [][Next]_vars /\ Fairness

-----------------------------------------------------------------------------
(* Properties.                                                            *)

TypeOK ==
  /\ pc \in [Threads -> {"idle", "big", "mcp", "send", "wait", "check",
                         "release", "start", "serve"}]
  /\ path \in [Threads -> {"handle", "drop", "reap", "startup"}]
  /\ bigOwner \in Threads \cup {NoThread}
  /\ mcpOwner \in Threads \cup {NoThread}
  /\ cmd \in [Threads -> McpCmds]
  /\ counter \in [Threads -> 1..RetryCount]
  /\ hdr \in Leftover
  /\ toSwd \in Nat /\ fromSwd \in Nat /\ sem \in Nat
  /\ mcFault \in BOOLEAN /\ swdHalted \in BOOLEAN /\ irqExiting \in BOOLEAN
  /\ result \in [Threads -> {"none", "ok", "mciError"}]
  /\ sweepLeft \in 0..SweepIds /\ tokenPending \in BOOLEAN
  /\ serversUp \in BOOLEAN

(* Single flight: while a thread waits for or reads the answer to its    *)
(* command, no other thread has overwritten the slot, and it holds       *)
(* mutex_mcp, whichever of handleConnection, dropConnection and          *)
(* handleTaExit it came through; the main thread's start-up commands run *)
(* without the mutex, and then no other thread holds it.                 *)
SlotOwnership ==
  \A t \in Threads :
    pc[t] \in {"wait", "check"} =>
      /\ slotTxn = txn[t]
      /\ \/ mcpOwner = t
         \/ t = Main /\ mcpOwner = NoThread

(* A command that returns MC_DRV_OK returns the SWd's answer to that     *)
(* very command, even when an untrusted SWd sends SID_MCP notifications  *)
(* nobody asked for: the rspId check in every MCP command is what stands *)
(* between a stale semaphore count and a wrong result.                   *)
ResponseIsOwn ==
  \A t \in Threads : result[t] = "ok" => okFor[t] = txn[t]

(* waitMcpNotification always returns: a thread that waits for the SWd  *)
(* eventually gets past the wait, whether the SWd answers or not.        *)
WaitTerminates ==
  \A t \in Threads : pc[t] = "wait" ~> pc[t] # "wait"

(* Start-up ends: whatever the SWd does with the close sweep and         *)
(* LOAD_TOKEN on a reused MCI (answers, stays silent, halts, or a        *)
(* notification left by the previous instance wakes the main thread      *)
(* early), run() eventually starts the socket servers.                   *)
ServersStart == <>serversUp

=============================================================================
