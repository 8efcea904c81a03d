----------------------------- MODULE BulkBuffers -----------------------------
(***************************************************************************)
(* World-shared memory (WSM) buffers of clients and the daemon's locks on  *)
(* them.  A client registers buffers with the kernel module and passes     *)
(* their handles to the daemon: as the TCI of openSession and as bulk      *)
(* buffers of MAP_BULK_BUF.  The daemon locks a handle (lockWsmL2) while  *)
(* the SWd may use the buffer, records it in the session's bulk list, and *)
(* unlocks it on UNMAP_BULK_BUF and when the session is closed.           *)
(*                                                                         *)
(* Every handler that touches locks or bulk lists runs under mutex_mcp,   *)
(* and the IRQ thread touches neither, so each handler is one atomic step *)
(* here; the MCP transaction inside it is a choice of its result.  The    *)
(* TA's exit, which the IRQ thread turns into TS_TA_DEAD and a wake-up of *)
(* handleTaExit, is an environment step.                                  *)
(*                                                                         *)
(* A lock count below zero stands for an unlock the kernel module would   *)
(* refuse.                                                                *)
(***************************************************************************)
EXTENDS Naturals, Sequences, FiniteSets, SequencesExt

CONSTANTS
  Clients,
  L2Of,        \* [Clients -> SUBSET handles]: L2 buffers each client registered
  ContOf,      \* [Clients -> SUBSET handles]: contiguous buffers
  ContSize,    \* [contiguous handles -> lengths]
  Bogus,       \* a handle no client registered
  Lens,        \* TCI and bulk lengths a client may pass (0 included)
  BlobLen,     \* regObj->len of the trustlet blob
  MaxOpens, MaxRequests,
  NULL, NoHandle

Handles == UNION {L2Of[c] \cup ContOf[c] : c \in Clients}
Registered == Handles
Sids == 1..MaxOpens

VARIABLES
  sessions,   \* trustletSessions: [sid -> session]; sid is the creation order
  locks,      \* lock count the kernel module keeps per handle
  taSig,      \* count of taExitNotification
  dropping,   \* client whose connection close() is walking, and what is left
  connected,
  nOpens, nReq

vars == << sessions, locks, taSig, dropping, connected, nOpens, nReq >>

NoDrop == [c |-> NULL, todo |-> {}]

Init ==
  /\ sessions = << >>
  /\ locks = [h \in Handles |-> 0]
  /\ taSig = 0
  /\ dropping = NoDrop
  /\ connected = [c \in Clients |-> TRUE]
  /\ nOpens = 0 /\ nReq = 0

Live == DOMAIN sessions

(* Number of bulk list entries, over all sessions, for handle h.          *)
Entries(h) ==
  MapThenSumSet(LAMBDA s : Len(SelectSeq(sessions[s].bulk,
                                         LAMBDA b : b.h = h)),
                Live)

(* findSession: the session with this id, if this connection owns it.    *)
Owns(c, s) == s \in Live /\ sessions[s].owner = c

Lock(h) == [locks EXCEPT ![h] = @ + 1]
Unlock(h) == [locks EXCEPT ![h] = @ - 1]

(* closeSession's clean-up: popBulkBuff / unlockWsmL2 for every entry.   *)
UnlockAll(s) ==
  [h \in Handles |-> locks[h] - Len(SelectSeq(sessions[s].bulk,
                                              LAMBDA b : b.h = h))]

Erase(s) == [t \in Live \ {s} |-> sessions[t]]

Ready(c) ==
  /\ connected[c] /\ dropping = NoDrop /\ nReq < MaxRequests
  /\ nReq' = nReq + 1

(* findWsmL2 and findContiguousWsm: the kernel module resolves a handle  *)
(* only for a buffer the calling client (its fd) registered.              *)
FindWsmL2(c, h) == h \in L2Of[c]
FindContiguousWsm(c, h) == h \in ContOf[c]

-----------------------------------------------------------------------------
(* openSession with TCI handle h of length tciLen: a contiguous buffer   *)
(* gives its own length, an L2 buffer is taken at the client's word;     *)
(* the handle is locked, then the length is checked, then OPEN_SESSION   *)
(* is sent.  Every MCP failure unlocks the handle; success records the   *)
(* TCI in the new session's bulk list.                                    *)
OpenSession(c, h, tciLen, g) ==
  /\ Ready(c) /\ nOpens < MaxOpens
  /\ LET useTci == h # NoHandle /\ tciLen # 0
         cont   == useTci /\ FindContiguousWsm(c, h)
         l2     == useTci /\ ~cont /\ FindWsmL2(c, h)
         len    == IF cont THEN ContSize[h] ELSE IF l2 THEN tciLen ELSE 0
         locked == (cont \/ l2) /\ h \in Registered
         badLen == (h # NoHandle /\ tciLen = 0) \/ tciLen > len
         s      == nOpens + 1
     IN \/ /\ useTci /\ ~locked
           /\ UNCHANGED << sessions, locks, nOpens >>
        \/ /\ ~(useTci /\ ~locked) /\ badLen
           /\ locks' = IF locked THEN Lock(h) ELSE locks
           /\ UNCHANGED << sessions, nOpens >>
        \/ /\ ~(useTci /\ ~locked) /\ ~badLen
           /\ nOpens' = s
           /\ \/ UNCHANGED << sessions, locks >>          \* MCP failure
              \/ /\ sessions' = [t \in Live \cup {s} |->
                      IF t = s
                        THEN [owner |-> c, client |-> c, gp |-> g,
                              ta |-> "running", dead |-> FALSE,
                              bulk |-> IF locked
                                         THEN << [h |-> h, len |-> BlobLen] >>
                                         ELSE << >>]
                        ELSE sessions[t]]
                 /\ locks' = IF locked THEN Lock(h) ELSE locks
  /\ UNCHANGED << taSig, dropping, connected >>

(* mapBulk: findSession, then addBulkBuff before MCP MAP; the entry      *)
(* stays in the list whatever MAP answers.                                *)
AddBulkBuff(c, s, h, len) ==
  IF Owns(c, s)
    THEN [sessions EXCEPT ![s].bulk = Append(@, [h |-> h, len |-> len])]
    ELSE sessions

(* processMapBulkBuf: lockWsmL2 (any registered handle), then findWsmL2  *)
(* for the client's own L2 buffer, then mapBulk.  No early return after  *)
(* the lock unlocks it.                                                   *)
MapBulk(c, s, h, len) ==
  /\ Ready(c)
  /\ \/ /\ h \notin Registered
        /\ UNCHANGED << sessions, locks >>
     \/ /\ h \in Registered
        /\ locks' = Lock(h)
        /\ sessions' = IF FindWsmL2(c, h) THEN AddBulkBuff(c, s, h, len)
                                        ELSE sessions
  /\ UNCHANGED << taSig, dropping, connected, nOpens >>

(* unmapBulk's checks: findSession and findBulkBuff(handle, len).         *)
FindBulkBuff(c, s, h, len) ==
  Owns(c, s) /\ SelectInSeq(sessions[s].bulk,
                            LAMBDA b : b.h = h /\ b.len = len) # 0

(* removeBulkBuff(handle): the first entry with this handle.             *)
RemoveBulkBuff(s, h) ==
  [sessions EXCEPT ![s].bulk = RemoveAt(@, SelectInSeq(@, LAMBDA b : b.h = h))]

(* Mutation: the handle is unlocked even when UNMAP failed.              *)
UnmapBulkIgnoreError(c, s, h, len) ==
  /\ Ready(c)
  /\ FindBulkBuff(c, s, h, len)
  /\ locks' = Unlock(h)
  /\ sessions' \in {sessions, RemoveBulkBuff(s, h)}
  /\ UNCHANGED << taSig, dropping, connected, nOpens >>

(* processUnmapBulkBuf: unmapBulk sends MCP UNMAP once its checks pass   *)
(* and on success removes the entry; only a successful unmapBulk is      *)
(* followed by unlockWsmL2.                                               *)
UnmapBulk(c, s, h, len) ==
  /\ Ready(c)
  /\ \/ /\ ~FindBulkBuff(c, s, h, len)
        /\ UNCHANGED << sessions, locks >>
     \/ /\ FindBulkBuff(c, s, h, len)
        /\ \/ UNCHANGED << sessions, locks >>             \* MCP failure
           \/ /\ sessions' = RemoveBulkBuff(s, h)
              /\ locks' = Unlock(h)
  /\ UNCHANGED << taSig, dropping, connected, nOpens >>

(* closeSession(c, s), its transaction included.  A GP session is cut    *)
(* from its client first.  A GP TA still running answers TASK_FAILED:    *)
(* the close is deferred, or, if the TA's death was seen meanwhile,      *)
(* retried with success.  A non-GP close may fail.  On success the bulk  *)
(* buffers are unlocked and the session erased.                           *)
CloseBody(c, s) ==
  /\ Owns(c, s)
  /\ LET cut == IF sessions[s].gp = 1
                  THEN [sessions EXCEPT ![s].owner = NULL] ELSE sessions
         closed == /\ locks' = UnlockAll(s)
                   /\ sessions' = Erase(s)
     IN IF sessions[s].gp = 1
          THEN IF sessions[s].ta = "exited"
                 THEN closed
                 ELSE \/ /\ sessions' = cut              \* deferred
                         /\ UNCHANGED locks
                      \/ closed                          \* TA died, retried
          ELSE \/ closed
               \/ UNCHANGED << sessions, locks >>        \* MCP failure

CloseSession(c, s) ==
  /\ Ready(c)
  /\ CloseBody(c, s)
  /\ UNCHANGED << taSig, dropping, connected, nOpens >>

(* dropConnection -> close(): closeSession for each session of the       *)
(* connection, last first, then the connection is gone.                  *)
DropConnection(c) ==
  /\ Ready(c)
  /\ dropping' = [c |-> c, todo |-> {s \in Live : sessions[s].owner = c}]
  /\ UNCHANGED << sessions, locks, taSig, connected, nOpens >>

DropNext ==
  /\ dropping.todo # {}
  /\ LET s == CHOOSE t \in dropping.todo : \A u \in dropping.todo : u <= t
     IN /\ dropping' = [dropping EXCEPT !.todo = @ \ {s}]
        /\ IF Owns(dropping.c, s) THEN CloseBody(dropping.c, s)
                                  ELSE UNCHANGED << sessions, locks >>
  /\ UNCHANGED << taSig, connected, nOpens, nReq >>

DropDone ==
  /\ dropping # NoDrop /\ dropping.todo = {}
  /\ connected' = [connected EXCEPT ![dropping.c] = FALSE]
  /\ dropping' = NoDrop
  /\ UNCHANGED << sessions, locks, taSig, nOpens, nReq >>

(* The TA of session s exits.  With no NQ connection the IRQ thread      *)
(* queues the exit (TS_TA_DEAD) and, the client being gone, wakes the    *)
(* reaper; a client with an NQ connection receives the exit instead.     *)
TaExit(s) ==
  /\ s \in Live /\ sessions[s].ta = "running"
  /\ \E dead \in IF sessions[s].owner = NULL THEN {TRUE} ELSE BOOLEAN :
       /\ sessions' = [sessions EXCEPT ![s].ta = "exited", ![s].dead = dead]
       /\ taSig' = IF dead /\ sessions[s].owner = NULL THEN taSig + 1
                                                      ELSE taSig
  /\ UNCHANGED << locks, dropping, connected, nOpens, nReq >>

(* handleTaExit: one round closes every TS_TA_DEAD session (the SWd      *)
(* answers OK for an exited TA) and erases it.                           *)
Reap ==
  /\ taSig > 0 /\ dropping = NoDrop
  /\ taSig' = taSig - 1
  /\ sessions' = [t \in {u \in Live : ~sessions[u].dead} |-> sessions[t]]
  /\ UNCHANGED << locks, dropping, connected, nOpens, nReq >>

-----------------------------------------------------------------------------
Next ==
  \/ \E c \in Clients, h \in Registered \cup {Bogus, NoHandle}, l \in Lens,
        g \in {0, 1} : OpenSession(c, h, l, g)
  \/ \E c \in Clients, s \in Sids, h \in Registered \cup {Bogus},
        l \in Lens : MapBulk(c, s, h, l) \/ UnmapBulk(c, s, h, l)
  \/ \E c \in Clients, s \in Sids : CloseSession(c, s)
  \/ \E c \in Clients : DropConnection(c)
  \/ DropNext \/ DropDone
  \/ \E s \in Sids : TaExit(s)
  \/ Reap

Spec == Init /\ [][Next]_vars

-----------------------------------------------------------------------------
(* Properties.                                                            *)

TypeOK ==
  /\ Live \subseteq Sids
  /\ \A s \in Live :
       /\ sessions[s].owner \in Clients \cup {NULL}
       /\ sessions[s].client \in Clients
       /\ \A i \in 1..Len(sessions[s].bulk) :
            sessions[s].bulk[i] \in [h : Handles, len : Lens \cup {BlobLen}]
  /\ locks \in [Handles -> Nat]
  /\ taSig \in Nat

(* Every buffer a session has handed to the SWd (its TCI or a mapped     *)
(* bulk buffer) is locked, by as many locks as the session lists hold:   *)
(* no path of unmap, close or drop unlocks a buffer the SWd may still    *)
(* use.                                                                   *)
BuffersLocked == \A h \in Handles : locks[h] >= Entries(h)

(* Lock/unlock pairing (spec 8): a handle stays locked exactly as long   *)
(* as a session's bulk list holds it; a failed open or map leaves it     *)
(* unlocked, and a deleted session leaves none of its buffers locked.    *)
LockPairing == \A h \in Handles : locks[h] = Entries(h)

=============================================================================
