---------------------------- MODULE SessionEngine ----------------------------
(***************************************************************************)
(* The session table of MobiCoreDevice and the routing of SWd             *)
(* notifications to it.                                                    *)
(*                                                                         *)
(* Three threads of the daemon share trustletSessions:                     *)
(*  - the holder of mutex_mcp, which runs one operation at a time: a      *)
(*    client request in handleConnection (openSession, closeSession,      *)
(*    registerTrustletConnection + processQueuedNotifications), a         *)
(*    dropConnection of a dead client (close), or a round of handleTaExit;*)
(*  - the IRQ thread (handleIrq), which takes no lock to look a session   *)
(*    up and mutex_connection to hand it a notification;                  *)
(*  - the secure world (SWd), which answers MCP commands and sends        *)
(*    notifications for its sessions.                                     *)
(* Every MCP transaction is a send step and a completion step that        *)
(* consumes the mcpSessionNotification signal; McpChannel models the wait *)
(* itself, its timeouts and the fault.  The count may start above zero:  *)
(* a daemon restarted on a reused MCI can enter service with one more     *)
(* count than answers pending, when start()'s sweep was woken by the dead *)
(* instance's leftover notification (McpChannel).  A completion woken     *)
(* that way finds no answer in the slot (res "none", the rspId check      *)
(* fails) and returns an error, while the SWd still runs the command and  *)
(* its answer leaves the next count.                                      *)
(*                                                                         *)
(* A session object is named by the order it was created in (its pointer  *)
(* in the code); 0 is NULL.  trustletSessions is kept in creation order,  *)
(* so the list order is the order of the names.                           *)
(***************************************************************************)
EXTENDS Naturals, Sequences, FiniteSets

CONSTANTS
  Clients,      \* client processes, each with its device connection
  Sids,         \* session ids the SWd hands out
  McpSid,       \* SID_MCP
  MaxOpens,     \* bound on openSession requests (names 1..MaxOpens)
  MaxRequests,  \* bound on all client requests
  MaxNotifs,    \* bound on data notifications sent by the SWd
  MaxStale,     \* bound on the semaphore count the daemon starts serving with
  NULL

ASSUME McpSid \notin Sids /\ NULL \notin Clients

Oids == 1..MaxOpens
NoOid == 0

VARIABLES
  table,      \* trustletSessions: [live names -> session record]
  opener,     \* client that opened each name (the magic it got back)
  nqDone,     \* names a client has sent MC_DRV_CMD_NQ_CONNECT for
  orphans,    \* MobiCoreDevice::notifications (unknown-session queue)
  ring,       \* the SWd->NWd notification queue
  sem,        \* count of mcpSessionNotification
  taSig,      \* count of taExitNotification
  irq,        \* IRQ thread: pc, notification in hand, session pointer
  op,         \* the operation of the mutex_mcp holder
  slot,       \* the MCP message
  mcpReq,     \* a SID_MCP notification is waiting in the NWd->SWd queue
  swd,        \* SWd view of each session id
  nOpens, nReq, nData, nSerial,
  delivered,  \* notifications written to each session's NQ socket (ghost)
  connected   \* the client's device connection still exists

vars == << table, opener, nqDone, orphans, ring, sem, taSig, irq, op, slot,
           mcpReq, swd, nOpens, nReq, nData, nSerial, delivered, connected >>

Idle == [pc |-> "idle", c |-> NULL, o |-> NoOid, gp |-> 0, todo |-> {},
         drop |-> FALSE]
IrqIdle == [pc |-> "idle", rec |-> [sid |-> McpSid, id |-> 0, exit |-> FALSE],
            ts |-> NoOid, con |-> FALSE]
McpRecord == [sid |-> McpSid, id |-> 0, exit |-> FALSE]
NoSlot == [cmd |-> "none", sid |-> McpSid, gp |-> 0, res |-> "none",
           rspSid |-> McpSid]

Init ==
  /\ table = << >>
  /\ opener = [o \in Oids |-> NULL]
  /\ nqDone = {}
  /\ orphans = << >>
  /\ ring = << >>
  /\ sem \in 0..MaxStale /\ taSig = 0
  /\ irq = IrqIdle
  /\ op = Idle
  /\ slot = NoSlot
  /\ mcpReq = FALSE
  /\ swd = [s \in Sids |-> [st |-> "free", gp |-> 0, closeReq |-> FALSE]]
  /\ nOpens = 0 /\ nReq = 0 /\ nData = 0 /\ nSerial = 0
  /\ delivered = [o \in Oids |-> << >>]
  /\ connected = [c \in Clients |-> TRUE]

-----------------------------------------------------------------------------
(* Helpers.                                                               *)

Live == DOMAIN table

(* getTrustletSession: the first session in the list with this id.       *)
GetTrustletSession(s) ==
  LET hits == {o \in Live : table[o].sid = s}
  IN IF hits = {} THEN NoOid ELSE CHOOSE o \in hits : \A p \in hits : o <= p

(* findSession: the session with this id, if this connection owns it.    *)
FindSession(c, s) ==
  LET o == GetTrustletSession(s)
  IN IF o # NoOid /\ table[o].owner = c THEN o ELSE NoOid

Erase(o) == [p \in Live \ {o} |-> table[p]]

(* TrustletSession::queueNotification: the notification is queued, and  *)
(* a notification that reports the TA's exit marks the session dead.    *)
QueueNotification(ses, r) ==
  [ses EXCEPT !.backlog = Append(@, r),
              !.state = IF r.exit THEN "TA_DEAD" ELSE @]

(* sendSessionCloseCmd: write MCP CLOSE_SESSION and notify(SID_MCP).     *)
SendClose(s) ==
  /\ slot' = [NoSlot EXCEPT !.cmd = "CLOSE", !.sid = s]
  /\ mcpReq' = TRUE

(* Where a closeSession returns to: the loop of MobiCoreDevice::close,   *)
(* or the end of the request.                                            *)
AfterClose ==
  IF op.drop THEN [op EXCEPT !.pc = "drop_next", !.o = NoOid] ELSE Idle

-----------------------------------------------------------------------------
(* Requests of a client, each under mutex_mcp.                            *)

(* processOpenSession / openSession up to mshNotifyAndWait: the queue of *)
(* unknown-session notifications is cleared and OPEN_SESSION is sent.    *)
OpenSession(c, g) ==
  /\ op = Idle /\ connected[c] /\ nOpens < MaxOpens /\ nReq < MaxRequests
  /\ orphans' = << >>
  /\ slot' = [NoSlot EXCEPT !.cmd = "OPEN", !.gp = g]
  /\ mcpReq' = TRUE
  /\ op' = [Idle EXCEPT !.pc = "open_wait", !.c = c, !.o = nOpens + 1,
                        !.gp = g]
  /\ nOpens' = nOpens + 1 /\ nReq' = nReq + 1
  /\ UNCHANGED << table, opener, nqDone, ring, sem, taSig, irq, swd, nData,
                  nSerial, delivered, connected >>

(* Mutation: the MCP result of OPEN_SESSION is not checked.             *)
OpenCompleteNoResultCheck ==
  /\ op.pc = "open_wait" /\ sem > 0
  /\ sem' = sem - 1
  /\ table' = [p \in Live \cup {op.o} |->
                 IF p = op.o
                   THEN [sid |-> slot.rspSid, owner |-> op.c, nq |-> FALSE,
                         state |-> "RUNNING", gp |-> op.gp, backlog |-> orphans]
                   ELSE table[p]]
  /\ opener' = [opener EXCEPT ![op.o] = op.c]
  /\ orphans' = << >>
  /\ op' = Idle
  /\ UNCHANGED << nqDone, ring, taSig, irq, slot, mcpReq, swd, nOpens, nReq,
                  nData, nSerial, delivered, connected >>

(* openSession after the answer: on success the session is created,      *)
(* pushed to the list, and every notification queued meanwhile is moved *)
(* into its queue.                                                       *)
OpenComplete ==
  /\ op.pc = "open_wait" /\ sem > 0
  /\ sem' = sem - 1
  /\ IF slot.res = "ok"
       THEN LET new == [sid |-> slot.rspSid, owner |-> op.c, nq |-> FALSE,
                        state |-> "RUNNING", gp |-> op.gp, backlog |-> << >>]
                moved == [new EXCEPT
                  !.backlog = orphans,
                  !.state = IF \E i \in 1..Len(orphans) : orphans[i].exit
                              THEN "TA_DEAD" ELSE @]
            IN /\ table' = [p \in Live \cup {op.o} |->
                              IF p = op.o THEN moved ELSE table[p]]
               /\ opener' = [opener EXCEPT ![op.o] = op.c]
               /\ orphans' = << >>
       ELSE UNCHANGED << table, opener, orphans >>
  /\ op' = Idle
  /\ UNCHANGED << nqDone, ring, taSig, irq, slot, mcpReq, swd, nOpens, nReq,
                  nData, nSerial, delivered, connected >>

(* closeSession up to the MCP command.  A GP session is first cut from   *)
(* its client under mutex_connection: no device connection, the NQ       *)
(* connection deleted, state TS_CLOSE_SEND.                              *)
StartClose(c, o, drop, todo) ==
  /\ table[o].gp = 1 => irq.pc # "locked"
  /\ table' = IF table[o].gp = 1
                THEN [table EXCEPT ![o].owner = NULL, ![o].nq = FALSE,
                                   ![o].state = "CLOSE_SEND"]
                ELSE table
  /\ SendClose(table[o].sid)
  /\ op' = [Idle EXCEPT !.pc = "close_wait", !.c = c, !.o = o,
                        !.todo = todo, !.drop = drop]

(* processCloseSession: closeSession(connection, sessionId).            *)
CloseSession(c, s) ==
  /\ op = Idle /\ connected[c] /\ nReq < MaxRequests
  /\ FindSession(c, s) # NoOid
  /\ StartClose(c, FindSession(c, s), FALSE, {})
  /\ nReq' = nReq + 1
  /\ UNCHANGED << opener, nqDone, orphans, ring, sem, taSig, irq, swd, nOpens,
                  nData, nSerial, delivered, connected >>

(* Mutation: the deferred GP close (TASK_FAILED) also erases the session.*)
CloseCompleteEraseDeferred ==
  /\ op.pc = "close_wait" /\ sem > 0
  /\ sem' = sem - 1
  /\ LET o == op.o
         failed == table[o].gp = 1 /\ slot.res = "taskFailed"
     IN \/ /\ failed /\ table[o].state = "TA_DEAD"
           /\ SendClose(table[o].sid)
           /\ op' = [op EXCEPT !.pc = "retry_wait"]
           /\ UNCHANGED table
        \/ /\ ~(failed /\ table[o].state = "TA_DEAD")
           /\ table' = IF slot.res = "ok" \/ failed THEN Erase(o) ELSE table
           /\ op' = AfterClose
           /\ UNCHANGED << slot, mcpReq >>
  /\ UNCHANGED << opener, nqDone, orphans, ring, taSig, irq, swd, nOpens, nReq,
                  nData, nSerial, delivered, connected >>

(* closeSession after the answer.  A GP TA that is still exiting answers *)
(* TASK_FAILED: if its exit has already been seen (TS_TA_DEAD) the close *)
(* is sent once more, otherwise the close is left to handleTaExit.  On   *)
(* success the session is erased and deleted.                            *)
CloseComplete ==
  /\ op.pc = "close_wait" /\ sem > 0
  /\ sem' = sem - 1
  /\ LET o == op.o
         failed == table[o].gp = 1 /\ slot.res = "taskFailed"
     IN \/ /\ failed /\ table[o].state = "TA_DEAD"
           /\ SendClose(table[o].sid)
           /\ op' = [op EXCEPT !.pc = "retry_wait"]
           /\ UNCHANGED table
        \/ /\ ~(failed /\ table[o].state = "TA_DEAD")
           /\ table' = IF slot.res = "ok" THEN Erase(o) ELSE table
           /\ op' = AfterClose
           /\ UNCHANGED << slot, mcpReq >>
  /\ UNCHANGED << opener, nqDone, orphans, ring, taSig, irq, swd, nOpens, nReq,
                  nData, nSerial, delivered, connected >>

(* The second close of a dead GP TA (asserted to succeed; the assert is  *)
(* compiled out in release builds, and a failure is then returned).      *)
RetryComplete ==
  /\ op.pc = "retry_wait" /\ sem > 0
  /\ sem' = sem - 1
  /\ table' = IF slot.res = "ok" THEN Erase(op.o) ELSE table
  /\ op' = AfterClose
  /\ UNCHANGED << opener, nqDone, orphans, ring, taSig, irq, slot, mcpReq, swd,
                  nOpens, nReq, nData, nSerial, delivered, connected >>

(* dropConnection -> MobiCoreDevice::close: the sessions the list holds  *)
(* when the socket closes are walked from the back, each closed with     *)
(* closeSession(connection, sessionId).                                  *)
DropConnection(c) ==
  /\ op = Idle /\ connected[c] /\ nReq < MaxRequests
  /\ op' = [Idle EXCEPT !.pc = "drop_next", !.c = c, !.todo = Live,
                        !.drop = TRUE]
  /\ nReq' = nReq + 1
  /\ UNCHANGED << table, opener, nqDone, orphans, ring, sem, taSig, irq, slot,
                  mcpReq, swd, nOpens, nData, nSerial, delivered, connected >>

DropNext ==
  /\ op.pc = "drop_next" /\ op.todo # {}
  /\ LET o == CHOOSE p \in op.todo : \A q \in op.todo : q <= p
         rest == op.todo \ {o}
         mine == FindSession(op.c, table[o].sid)
     IN IF table[o].owner = op.c /\ mine # NoOid
          THEN StartClose(op.c, mine, TRUE, rest)
          ELSE /\ op' = [op EXCEPT !.todo = rest]
               /\ UNCHANGED << table, slot, mcpReq >>
  /\ UNCHANGED << opener, nqDone, orphans, ring, sem, taSig, irq, swd, nOpens,
                  nReq, nData, nSerial, delivered, connected >>

(* End of close: the WSM of the connection is released and the           *)
(* connection is deleted.                                                *)
DropDone ==
  /\ op.pc = "drop_next" /\ op.todo = {}
  /\ connected' = [connected EXCEPT ![op.c] = FALSE]
  /\ op' = Idle
  /\ UNCHANGED << table, opener, nqDone, orphans, ring, sem, taSig, irq, slot,
                  mcpReq, swd, nOpens, nReq, nData, nSerial, delivered >>

(* processNqConnect: registerTrustletConnection sets the session's NQ    *)
(* connection (without mutex_connection) ...                             *)
(* The client library sends NQ_CONNECT once, inside mcOpenSession, so    *)
(* before the client can close the session: the session is still its.  *)
NqConnect(c, o) ==
  /\ op = Idle /\ connected[c] /\ nReq < MaxRequests
  /\ o \in Live /\ opener[o] = c /\ table[o].owner = c /\ o \notin nqDone
  /\ table' = [table EXCEPT ![o].nq = TRUE]
  /\ nqDone' = nqDone \cup {o}
  /\ nReq' = nReq + 1
  /\ op' = [Idle EXCEPT !.pc = "nq_flush", !.c = c, !.o = o]
  /\ UNCHANGED << opener, orphans, ring, sem, taSig, irq, slot, mcpReq, swd,
                  nOpens, nData, nSerial, delivered, connected >>

(* ... then processQueuedNotifications writes the queued notifications   *)
(* to it, oldest first.                                                   *)
NqFlush ==
  /\ op.pc = "nq_flush"
  /\ LET o == op.o IN
       /\ delivered' = [delivered EXCEPT ![o] = @ \o table[o].backlog]
       /\ table' = [table EXCEPT ![o].backlog = << >>]
  /\ op' = Idle
  /\ UNCHANGED << opener, nqDone, orphans, ring, sem, taSig, irq, slot, mcpReq,
                  swd, nOpens, nReq, nData, nSerial, connected >>

-----------------------------------------------------------------------------
(* handleTaExit: woken by taExitNotification, it takes mutex_mcp and     *)
(* walks the list, closing every TS_TA_DEAD session; a session whose     *)
(* close succeeds is erased and deleted.                                 *)

ReapStart ==
  /\ op = Idle /\ taSig > 0
  /\ taSig' = taSig - 1
  /\ op' = [Idle EXCEPT !.pc = "reap_next", !.todo = Live]
  /\ UNCHANGED << table, opener, nqDone, orphans, ring, sem, irq, slot, mcpReq,
                  swd, nOpens, nReq, nData, nSerial, delivered, connected >>

ReapNext ==
  /\ op.pc = "reap_next" /\ op.todo # {}
  /\ LET o == CHOOSE p \in op.todo : \A q \in op.todo : p <= q
         rest == op.todo \ {o}
     IN IF table[o].state = "TA_DEAD"
          THEN /\ SendClose(table[o].sid)
               /\ op' = [op EXCEPT !.pc = "reap_wait", !.o = o, !.todo = rest]
          ELSE /\ op' = [op EXCEPT !.todo = rest]
               /\ UNCHANGED << slot, mcpReq >>
  /\ UNCHANGED << table, opener, nqDone, orphans, ring, sem, taSig, irq, swd,
                  nOpens, nReq, nData, nSerial, delivered, connected >>

ReapComplete ==
  /\ op.pc = "reap_wait" /\ sem > 0
  /\ sem' = sem - 1
  /\ table' = IF slot.res = "ok" THEN Erase(op.o) ELSE table
  /\ op' = [op EXCEPT !.pc = "reap_next", !.o = NoOid]
  /\ UNCHANGED << opener, nqDone, orphans, ring, taSig, irq, slot, mcpReq, swd,
                  nOpens, nReq, nData, nSerial, delivered, connected >>

ReapDone ==
  /\ op.pc = "reap_next" /\ op.todo = {}
  /\ op' = Idle
  /\ UNCHANGED << table, opener, nqDone, orphans, ring, sem, taSig, irq, slot,
                  mcpReq, swd, nOpens, nReq, nData, nSerial, delivered,
                  connected >>

-----------------------------------------------------------------------------
(* The secure world.  It takes the MCP command, answers it and raises    *)
(* the SID_MCP notification in one step.  OPEN_SESSION hands out a free  *)
(* session id or fails; CLOSE_SESSION frees the id, except for a GP TA   *)
(* still running, which is told to exit and answers TASK_FAILED; closing *)
(* a running non-GP session may also fail.                               *)

Answer(res, rspSid) ==
  /\ slot' = [slot EXCEPT !.res = res, !.rspSid = rspSid]
  /\ mcpReq' = FALSE
  /\ ring' = Append(ring, McpRecord)

SwdOpen ==
  /\ mcpReq /\ slot.cmd = "OPEN"
  /\ \/ \E s \in Sids :
          /\ swd[s].st = "free"
          /\ swd' = [swd EXCEPT ![s] = [st |-> "running", gp |-> slot.gp,
                                        closeReq |-> FALSE]]
          /\ Answer("ok", s)
     \/ /\ Answer("err", McpSid)
        /\ UNCHANGED swd
  /\ UNCHANGED << table, opener, nqDone, orphans, sem, taSig, irq, op, nOpens,
                  nReq, nData, nSerial, delivered, connected >>

SwdClose ==
  /\ mcpReq /\ slot.cmd = "CLOSE"
  /\ LET s == slot.sid IN
       \/ /\ swd[s].st = "exited" \/ swd[s].gp = 0
          /\ swd' = [swd EXCEPT ![s] = [st |-> "free", gp |-> 0,
                                        closeReq |-> FALSE]]
          /\ Answer("ok", McpSid)
       \/ /\ swd[s].st = "running" /\ swd[s].gp = 1
          /\ swd' = [swd EXCEPT ![s].closeReq = TRUE]
          /\ Answer("taskFailed", McpSid)
       \/ /\ swd[s].st = "running" /\ swd[s].gp = 0
          /\ Answer("err", McpSid)
          /\ UNCHANGED swd
  /\ UNCHANGED << table, opener, nqDone, orphans, sem, taSig, irq, op, nOpens,
                  nReq, nData, nSerial, delivered, connected >>

(* A TA sends a notification to its client.                              *)
SwdNotify(s) ==
  /\ swd[s].st = "running" /\ nData < MaxNotifs
  /\ ring' = Append(ring, [sid |-> s, id |-> nSerial + 1, exit |-> FALSE])
  /\ nData' = nData + 1 /\ nSerial' = nSerial + 1
  /\ UNCHANGED << table, opener, nqDone, orphans, sem, taSig, irq, op, slot,
                  mcpReq, swd, nOpens, nReq, delivered, connected >>

(* A TA exits (asked to, or on its own) and its exit is notified.        *)
SwdTaExit(s) ==
  /\ swd[s].st = "running"
  /\ swd' = [swd EXCEPT ![s].st = "exited"]
  /\ ring' = Append(ring, [sid |-> s, id |-> nSerial + 1, exit |-> TRUE])
  /\ nSerial' = nSerial + 1
  /\ UNCHANGED << table, opener, nqDone, orphans, sem, taSig, irq, op, slot,
                  mcpReq, nOpens, nReq, nData, delivered, connected >>

-----------------------------------------------------------------------------
(* handleIrq, one notification at a time.                                *)

(* getNotification; a SID_MCP record wakes the MCP waiter, any other is  *)
(* looked up in the session list without a lock.                         *)
IrqPop ==
  /\ irq.pc = "idle" /\ ring # << >>
  /\ ring' = Tail(ring)
  /\ LET r == Head(ring) IN
       IF r.sid = McpSid
         THEN /\ sem' = sem + 1
              /\ UNCHANGED irq
         ELSE /\ irq' = [irq EXCEPT !.pc = "looked", !.rec = r,
                                    !.ts = GetTrustletSession(r.sid)]
              /\ UNCHANGED sem
  /\ UNCHANGED << table, opener, nqDone, orphans, taSig, op, slot, mcpReq, swd,
                  nOpens, nReq, nData, nSerial, delivered, connected >>

(* queueUnknownNotification.                                              *)
IrqOrphan ==
  /\ irq.pc = "looked" /\ irq.ts = NoOid
  /\ orphans' = Append(orphans, irq.rec)
  /\ irq' = IrqIdle
  /\ UNCHANGED << table, opener, nqDone, ring, sem, taSig, op, slot, mcpReq,
                  swd, nOpens, nReq, nData, nSerial, delivered, connected >>

(* mutex_connection.lock() and the read of ts->notificationConnection.   *)
(* If ts was deleted since the lookup this reads freed memory; the model *)
(* lets the notification be lost.                                         *)
IrqLockConnection ==
  /\ irq.pc = "looked" /\ irq.ts # NoOid
  /\ irq' = IF irq.ts \in Live
              THEN [irq EXCEPT !.pc = "locked", !.con = table[irq.ts].nq]
              ELSE IrqIdle
  /\ UNCHANGED << table, opener, nqDone, orphans, ring, sem, taSig, op, slot,
                  mcpReq, swd, nOpens, nReq, nData, nSerial, delivered,
                  connected >>

(* Mutation: taExitNotification is not signalled for a session whose    *)
(* client is gone.                                                        *)
IrqDispatchNoSignal ==
  /\ irq.pc = "locked"
  /\ LET o == irq.ts IN
       \/ /\ o \notin Live
          /\ UNCHANGED << table, taSig, delivered >>
       \/ /\ o \in Live /\ ~irq.con
          /\ table' = [table EXCEPT ![o] = QueueNotification(@, irq.rec)]
          /\ UNCHANGED << taSig, delivered >>
       \/ /\ o \in Live /\ irq.con
          /\ delivered' = [delivered EXCEPT ![o] = Append(@, irq.rec)]
          /\ UNCHANGED << table, taSig >>
  /\ irq' = IrqIdle
  /\ UNCHANGED << opener, nqDone, orphans, ring, sem, op, slot, mcpReq, swd,
                  nOpens, nReq, nData, nSerial, connected >>

(* With no NQ connection the notification is queued in the session, and  *)
(* if the client is gone too the reaper is woken; otherwise it is        *)
(* written to the NQ socket.  Then mutex_connection.unlock().             *)
IrqDispatch ==
  /\ irq.pc = "locked"
  /\ LET o == irq.ts IN
       \/ /\ o \notin Live
          /\ UNCHANGED << table, taSig, delivered >>
       \/ /\ o \in Live /\ ~irq.con
          /\ table' = [table EXCEPT ![o] = QueueNotification(@, irq.rec)]
          /\ taSig' = IF table[o].owner = NULL THEN taSig + 1 ELSE taSig
          /\ UNCHANGED delivered
       \/ /\ o \in Live /\ irq.con
          /\ delivered' = [delivered EXCEPT ![o] = Append(@, irq.rec)]
          /\ UNCHANGED << table, taSig >>
  /\ irq' = IrqIdle
  /\ UNCHANGED << opener, nqDone, orphans, ring, sem, op, slot, mcpReq, swd,
                  nOpens, nReq, nData, nSerial, connected >>

-----------------------------------------------------------------------------
ClientStep ==
  \/ \E c \in Clients, g \in {0, 1} : OpenSession(c, g)
  \/ \E c \in Clients, s \in Sids : CloseSession(c, s)
  \/ \E c \in Clients, o \in Oids : NqConnect(c, o)
  \/ \E c \in Clients : DropConnection(c)

(* Steps of the mutex_mcp holder once it has begun an operation.         *)
DaemonStep ==
  \/ OpenComplete \/ CloseComplete \/ RetryComplete
  \/ DropNext \/ DropDone \/ NqFlush
  \/ ReapStart \/ ReapNext \/ ReapComplete \/ ReapDone

IrqStep == IrqPop \/ IrqOrphan \/ IrqLockConnection \/ IrqDispatch

SwdStep ==
  \/ SwdOpen \/ SwdClose
  \/ \E s \in Sids : SwdNotify(s) \/ SwdTaExit(s)

Next == ClientStep \/ DaemonStep \/ IrqStep \/ SwdStep

(* Clients, TA notifications and TA crashes are the environment and get  *)
(* no fairness.  The daemon's threads run whenever they can; the SWd     *)
(* answers every MCP command (otherwise the wait times out, which        *)
(* McpChannel models), and a GP TA told to close does exit.              *)
Fairness ==
  /\ WF_vars(DaemonStep)
  /\ WF_vars(IrqStep)
  /\ WF_vars(SwdOpen \/ SwdClose)
  /\ \A s \in Sids : WF_vars(swd[s].closeReq /\ SwdTaExit(s))

Spec == Init /\ [][Next]_vars /\ Fairness

-----------------------------------------------------------------------------
(* Properties.                                                            *)

SessionRec == [sid : Sids, owner : Clients \cup {NULL}, nq : BOOLEAN,
               state : {"RUNNING", "CLOSE_SEND", "TA_DEAD"}, gp : {0, 1},
               backlog : Seq([sid : Sids, id : Nat, exit : BOOLEAN])]

TypeOK ==
  /\ Live \subseteq Oids
  /\ \A o \in Live : table[o] \in SessionRec
  /\ opener \in [Oids -> Clients \cup {NULL}]
  /\ nqDone \subseteq Oids
  /\ op.pc \in {"idle", "open_wait", "close_wait", "retry_wait", "drop_next",
                "nq_flush", "reap_next", "reap_wait"}
  /\ op.todo \subseteq Oids
  /\ irq.pc \in {"idle", "looked", "locked"}
  /\ sem \in Nat /\ taSig \in Nat
  /\ connected \in [Clients -> BOOLEAN]

InTransaction == op.pc \in {"open_wait", "close_wait", "retry_wait",
                            "reap_wait"}

(* Between MCP transactions the daemon's session list and the SWd agree: *)
(* each session id the SWd holds is held by exactly one session object,  *)
(* and every object names an id the SWd holds.  This is what the close   *)
(* paths of closeSession (GP deferral, retry, failure) and handleTaExit  *)
(* must keep when they decide whether to erase a session.  It needs the  *)
(* semaphore count to match the answers pending (MaxStale = 0): a         *)
(* transaction woken by a stale count fails while the SWd still runs its  *)
(* command, and the two part.                                             *)
TableMirrorsSwd ==
  ~InTransaction =>
    /\ {table[o].sid : o \in Live} = {s \in Sids : swd[s].st # "free"}
    /\ \A o, p \in Live : table[o].sid = table[p].sid => o = p

(* A GP session whose client has let it go (closeSession cleared its     *)
(* deviceConnection) is eventually deleted: its TA exits, the IRQ thread *)
(* wakes handleTaExit, and the reaper's close succeeds.                  *)
GpSessionsReaped ==
  \A o \in Oids :
    (o \in Live /\ table[o].gp = 1 /\ table[o].owner = NULL) ~> (o \notin Live)

(* The session pointer handleIrq got from getTrustletSession, and       *)
(* dereferences without mutex_mcp, still names a live session: no        *)
(* closeSession or handleTaExit erases and deletes a session between the *)
(* IRQ thread's lookup and its use.  Only the order of the SID_MCP answer *)
(* in the notification queue could protect this, and a stale count on    *)
(* mcpSessionNotification lets a close complete before the IRQ thread     *)
(* has taken that answer.                                                 *)
IrqSessionAlive ==
  irq.pc \in {"looked", "locked"} /\ irq.ts # NoOid => irq.ts \in Live

(* A notification queued as for an unknown session never names a         *)
(* session in the list: openSession moves every such notification into   *)
(* the session it creates, so none is left behind where no one reads it.*)
NoStrandedOrphan ==
  \A i \in 1..Len(orphans) : GetTrustletSession(orphans[i].sid) = NoOid

(* Notifications written to a session's NQ socket are in the order the   *)
(* SWd sent them (both those queued before NQ_CONNECT and those          *)
(* forwarded directly by handleIrq).                                      *)
DeliveredInOrder ==
  \A o \in Oids : \A i, j \in 1..Len(delivered[o]) :
    i < j => delivered[o][i].id < delivered[o][j].id

=============================================================================
