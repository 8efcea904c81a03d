----------------------------- MODULE Connections -----------------------------
(***************************************************************************)
(* Client connections of the daemon and what they can reach.  A           *)
(* Connection object lives at an address from accept until the server     *)
(* deletes it after handleConnection reports the peer gone; the address   *)
(* may then be reused by the next connection.  OPEN_DEVICE links the      *)
(* device (connectionData); a session records the address of the         *)
(* connection that opened it (deviceConnection), and findSession admits a *)
(* request only when that pointer equals the requesting connection.      *)
(* NQ_CONNECT turns a fresh connection into a session's notification      *)
(* socket, detached from the servers.                                     *)
(*                                                                         *)
(* Each handler runs under the big mutex and mutex_mcp (dropConnection    *)
(* under mutex_mcp) and is one step; every MCP transaction is a choice    *)
(* of its result.  gen, the client a connection object belongs to, is a   *)
(* ghost: the code only has the address.                                  *)
(***************************************************************************)
EXTENDS Naturals, FiniteSets

CONSTANTS
  Addrs,      \* addresses a Connection object may be allocated at
  MaxGen,     \* bound on connections accepted
  MaxOpens,   \* bound on sessions opened
  NULL

Sids == 1..MaxOpens

VARIABLES
  conn,       \* [Addrs -> Free or [state, gen, device]]
  sessions,   \* trustletSessions: [sid -> [owner, gen, gp, nq, failed]]
  nGen, nOpens,
  foreign,    \* a request reached a session of another client (ghost)
  version     \* mcVersionInfo of the device: "none" or "cached"

vars == << conn, sessions, nGen, nOpens, foreign, version >>

Free == [state |-> "free", gen |-> 0, device |-> FALSE]

Init ==
  /\ conn = [a \in Addrs |-> Free]
  /\ sessions = [s \in {} |-> NULL]
  /\ nGen = 0 /\ nOpens = 0
  /\ foreign = FALSE
  /\ version = "none"

Live == DOMAIN sessions

(* CHECK_DEVICE: a command connection with the device linked.           *)
Device(a) == conn[a].state = "cmd" /\ conn[a].device

(* findSession: the session's deviceConnection is this very address.    *)
FindSession(a, s) == s \in Live /\ sessions[s].owner = a

(* A request admitted by findSession on behalf of a different client.   *)
Admitted(a, s) == foreign' = (foreign \/ sessions[s].gen # conn[a].gen)

(* The NQ connection of session s is deleted (its address freed).        *)
DeleteNq(s, ss, cs) == IF ss[s].nq = NULL THEN cs ELSE [cs EXCEPT ![ss[s].nq] = Free]

(* The session object is deleted; its NQ connection goes with it.       *)
Gone(s, ss) == [t \in DOMAIN ss \ {s} |-> ss[t]]

(* Mutation: the NQ connection is deleted but the pointer is kept.      *)
CloseResultsNoNull(s, ss, cs) ==
  IF ss[s].gp = 1
    THEN { [ss |-> [ss EXCEPT ![s].owner = NULL], cs |-> DeleteNq(s, ss, cs)],
           [ss |-> Gone(s, ss), cs |-> DeleteNq(s, ss, cs)] }
    ELSE { [ss |-> Gone(s, ss), cs |-> DeleteNq(s, ss, cs)],
           [ss |-> [ss EXCEPT ![s].failed = TRUE], cs |-> cs] }

(* closeSession(s), as the possible [sessions, connections] after it: a  *)
(* GP session is first cut from its client and its NQ connection deleted *)
(* and the pointer cleared; its close is then deferred (TASK_FAILED) or  *)
(* done.  A non-GP close the SWd refuses leaves the session as it was.   *)
CloseResults(s, ss, cs) ==
  IF ss[s].gp = 1
    THEN { [ss |-> [ss EXCEPT ![s].owner = NULL, ![s].nq = NULL],
            cs |-> DeleteNq(s, ss, cs)],
           [ss |-> Gone(s, ss), cs |-> DeleteNq(s, ss, cs)] }
    ELSE { [ss |-> Gone(s, ss), cs |-> DeleteNq(s, ss, cs)],
           [ss |-> [ss EXCEPT ![s].failed = TRUE], cs |-> cs] }

(* close(a): the walk over the list, last session first, closing each    *)
(* session a owns and ignoring errors; the outcomes of the whole walk.   *)
RECURSIVE CloseEach(_, _, _)
CloseEach(todo, ss, cs) ==
  IF todo = {} THEN {[ss |-> ss, cs |-> cs]}
  ELSE LET s == CHOOSE t \in todo : \A u \in todo : u <= t
       IN UNION { CloseEach(todo \ {s}, r.ss, r.cs) :
                    r \in CloseResults(s, ss, cs) }

(* close(a) followed by connectionData = NULL.                           *)
CloseDevice(a) ==
  \E r \in CloseEach({s \in Live : sessions[s].owner = a}, sessions, conn) :
    /\ sessions' = r.ss
    /\ conn' = [r.cs EXCEPT ![a].device = FALSE]

-----------------------------------------------------------------------------
(* A new client connection is accepted at a free address.               *)
Accept(a) ==
  /\ conn[a] = Free /\ nGen < MaxGen
  /\ nGen' = nGen + 1
  /\ conn' = [conn EXCEPT ![a] = [state |-> "cmd", gen |-> nGen + 1,
                                  device |-> FALSE]]
  /\ UNCHANGED << sessions, nOpens, foreign, version >>

(* processOpenDevice: refused when the device is already linked.        *)
OpenDevice(a) ==
  /\ conn[a].state = "cmd" /\ ~conn[a].device
  /\ conn' = [conn EXCEPT ![a].device = TRUE]
  /\ UNCHANGED << sessions, nGen, nOpens, foreign, version >>

(* processCloseDevice: close(a) with the mutexes handleConnection holds. *)
ProcessCloseDevice(a) ==
  /\ Device(a)
  /\ CloseDevice(a)
  /\ UNCHANGED << nGen, nOpens, foreign, version >>

(* processOpenSession / processOpenTrustlet: the blob is looked up and   *)
(* shared, OPEN_SESSION is sent, the blob unshared; any failure leaves   *)
(* no session.                                                            *)
OpenSession(a, g) ==
  /\ Device(a) /\ nOpens < MaxOpens
  /\ nOpens' = nOpens + 1
  /\ \/ UNCHANGED sessions
     \/ sessions' = [t \in Live \cup {nOpens + 1} |->
                       IF t = nOpens + 1
                         THEN [owner |-> a, gen |-> conn[a].gen, gp |-> g,
                               nq |-> NULL, failed |-> FALSE]
                         ELSE sessions[t]]
  /\ UNCHANGED << conn, nGen, foreign, version >>

(* processOpenTrustlet: the trustlet blob comes in the request payload   *)
(* instead of the registry (a failed read is one more way to fail); the  *)
(* rest is processOpenSession's.                                          *)
OpenTrustlet(a, g) == OpenSession(a, g)

(* processCloseSession: findSession, then closeSession.                  *)
ProcessCloseSession(a, s) ==
  /\ Device(a) /\ FindSession(a, s)
  /\ Admitted(a, s)
  /\ \E r \in CloseResults(s, sessions, conn) :
       sessions' = r.ss /\ conn' = r.cs
  /\ UNCHANGED << nGen, nOpens, version >>

(* processNotify -> notify(a, s): findSession, then a notification to    *)
(* the SWd (McpChannel, Scheduler).                                      *)
ProcessNotify(a, s) ==
  /\ Device(a) /\ FindSession(a, s)
  /\ Admitted(a, s)
  /\ UNCHANGED << conn, sessions, nGen, nOpens, version >>

(* registerTrustletConnection: the session with the given pointer,      *)
(* magic and id gets this notification connection, whoever opened it.    *)
RegisterTrustletConnection(a, s) ==
  IF s \in Live THEN [sessions EXCEPT ![s].nq = a] ELSE sessions

(* processNqConnect on a fresh connection: it is detached from the       *)
(* servers and registered; if no session matches, the detached           *)
(* connection belongs to nobody.                                          *)
NqConnect(a, s) ==
  /\ conn[a].state = "cmd" /\ ~conn[a].device
  /\ conn' = [conn EXCEPT ![a].state = "nq"]
  /\ sessions' = RegisterTrustletConnection(a, s)
  /\ UNCHANGED << nGen, nOpens, foreign, version >>

(* Mutation: the sessions of a vanished client are left alone.          *)
DropNoClose(a) ==
  /\ conn[a].state = "cmd"
  /\ conn' = [conn EXCEPT ![a] = Free]
  /\ UNCHANGED << sessions, nGen, nOpens, foreign, version >>

(* handleConnection reads nothing (peer closed, socket error, timeout)   *)
(* or an unknown command and returns false; dropConnection closes the    *)
(* device's sessions under mutex_mcp, and the Connection is deleted.     *)
Drop(a) ==
  /\ conn[a].state = "cmd"
  /\ IF conn[a].device
       THEN \E r \in CloseEach({s \in Live : sessions[s].owner = a},
                               sessions, conn) :
              /\ sessions' = r.ss
              /\ conn' = [r.cs EXCEPT ![a] = Free]
       ELSE /\ conn' = [conn EXCEPT ![a] = Free]
            /\ UNCHANGED sessions
  /\ UNCHANGED << nGen, nOpens, foreign, version >>

(* getMobiCoreVersion: the answer is taken from mcVersionInfo once it   *)
(* is cached; otherwise GET_MOBICORE_VERSION goes to the SWd, and only an *)
(* answer with result OK is cached.                                        *)
GetMobiCoreVersion ==
  IF version = "cached" THEN {"cached"}
  ELSE {IF r = "OK" THEN "cached" ELSE "none" : r \in {"OK", "ERR"}}

(* processGetMobiCoreVersion: CHECK_DEVICE, then the query.              *)
ProcessGetMobiCoreVersion(a) ==
  /\ Device(a)
  /\ version' \in GetMobiCoreVersion
  /\ UNCHANGED << conn, sessions, nGen, nOpens, foreign >>

(* handleConnection: one command read from connection a, under the big   *)
(* mutex and mutex_mcp.  OPEN_TRUSTED_APP is processOpenSession with gp.   *)
(* A failed or empty header read, or an unknown command, returns false and *)
(* the connection is dropped.  The bulk, version and registry commands do  *)
(* not touch the session table and are the actions of other modules.       *)
HandleConnection(a) ==
  \/ OpenDevice(a) \/ ProcessCloseDevice(a) \/ Drop(a)
  \/ ProcessGetMobiCoreVersion(a)
  \/ \E g \in {0, 1} : OpenSession(a, g) \/ OpenTrustlet(a, g)
  \/ \E s \in Sids : ProcessCloseSession(a, s) \/ ProcessNotify(a, s)
                     \/ NqConnect(a, s)

Next == \E a \in Addrs : Accept(a) \/ HandleConnection(a)

Spec == Init /\ [][Next]_vars

-----------------------------------------------------------------------------
(* Properties.                                                            *)

TypeOK ==
  /\ \A a \in Addrs :
       conn[a] \in {Free} \cup [state : {"cmd", "nq"}, gen : 1..MaxGen,
                                device : BOOLEAN]
  /\ version \in {"none", "cached"}
  /\ Live \subseteq Sids
  /\ \A s \in Live :
       /\ sessions[s].owner \in Addrs \cup {NULL}
       /\ sessions[s].nq \in {a \in Addrs : conn[a].state = "nq"} \cup {NULL}
       /\ sessions[s].gp \in {0, 1} /\ sessions[s].failed \in BOOLEAN

(* A session points at a connection of another client only after its    *)
(* close failed: close() on CLOSE_DEVICE or on a client drop closes      *)
(* every session it owns, so a session whose pointer outlives its        *)
(* connection is one the SWd refused to close.                           *)
StaleOwnerOnlyAfterFailedClose ==
  \A s \in Live :
    sessions[s].owner # NULL /\ ~sessions[s].failed =>
      conn[sessions[s].owner].gen = sessions[s].gen

(* Sessions belong to the client that opened them (spec: a client can    *)
(* not close sessions not belonging to him): findSession never admits a  *)
(* request of one client for a session another client opened.            *)
NoForeignAccess == ~foreign

=============================================================================
