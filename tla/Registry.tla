------------------------------ MODULE Registry ------------------------------
(***************************************************************************)
(* The daemon's on-disk registry (PrivateRegistry.cpp) and the socket     *)
(* handlers that expose it (processRegistryReadData, -WriteData,          *)
(* -DeleteData).  The files are the state: the auth token, the root       *)
(* container listing SP ids, one SP container per SP listing trustlet     *)
(* UUIDs, one TL container per (UUID, SP), a data directory per UUID, and *)
(* per GP TA a binary (.tabin) and a file holding its SP id (.spid).      *)
(*                                                                         *)
(* A write opens the file with "wb" and ignores what fwrite returns: the  *)
(* file then holds the object or, after a short write or a crash of the   *)
(* daemon in the middle, a truncated one ("torn").  open, remove, rmdir   *)
(* and mkdir may fail.  Handlers run under handleConnection's big mutex,  *)
(* so each is one step; a crash between the files a handler touches is    *)
(* the same as a failure of the later ones.  Container payloads are       *)
(* abstracted to the ids the daemon reads out of them.                    *)
(***************************************************************************)
EXTENDS Naturals, FiniteSets

CONSTANTS
  Spids,       \* SP ids (non-zero, below MC_SPID_SYSTEM)
  SpidSystem,  \* MC_SPID_SYSTEM, the SP id of system TAs
  SpidsOver,   \* SP ids above MC_SPID_SYSTEM a client may send
  Uuids,       \* trustlet / TA UUIDs
  Pids,        \* data object ids of a trustlet
  MaxOps       \* bound on handled registry requests

VARIABLES
  fs,       \* the registry directory, see Files below
  tabFor,   \* ghost: the SP a stored TA binary was stored for
  revoked,  \* ghost: SPs whose DELETE_SP_CONT (or root cleanup) said OK
  ret,      \* result of the last request
  nOps

vars == << fs, tabFor, revoked, ret, nOps >>

(* The SP ids containers can be stored under: mcRegistryStoreSp and      *)
(* -StoreTrustletCon only reject 0.                                      *)
ContSpids == Spids \cup SpidsOver

Content == {"none", "ok", "torn"}
Cont(S) == [st : Content, ch : SUBSET S]
NoCont == [st |-> "none", ch |-> {}]

Files ==
  [auth : Content, root : Cont(ContSpids), sp : [ContSpids -> Cont(Uuids)],
   tlc : [Uuids \X ContSpids -> Content],
   tldir : [Uuids -> BOOLEAN], tlfiles : [Uuids -> SUBSET Pids],
   tabin : [Uuids -> Content],
   taspid : [Uuids -> [st : Content, s : Spids \cup {SpidSystem}]]]

NoSpid == [st |-> "none", s |-> SpidSystem]

Init ==
  /\ fs = [auth |-> "none", root |-> NoCont, sp |-> [s \in ContSpids |-> NoCont],
           tlc |-> [p \in Uuids \X ContSpids |-> "none"],
           tldir |-> [u \in Uuids |-> FALSE], tlfiles |-> [u \in Uuids |-> {}],
           tabin |-> [u \in Uuids |-> "none"], taspid |-> [u \in Uuids |-> NoSpid]]
  /\ tabFor = [u \in Uuids |-> SpidSystem]
  /\ revoked = {}
  /\ ret = "none"
  /\ nOps = 0

-----------------------------------------------------------------------------
(* File primitives.                                                       *)

(* fopen "wb", fwrite unchecked, fclose: the whole object or a torn one.  *)
Written(c) == {c, "torn"}
WrittenCont(ch) == {[st |-> "ok", ch |-> ch], [st |-> "torn", ch |-> {}]}

(* A read checked against sizeof (mcRegistryReadAuthToken's file size,   *)
(* the cleanups' length check): a torn file has fewer bytes.             *)
ReadsWhole(c) == c = "ok"

(* fread of a container without a size check (mcRegistryReadRoot,        *)
(* -ReadSp, -ReadTrustletCon): any non-empty file reads as MC_DRV_OK, so  *)
(* a torn one may.  A container of an SP id that is not provisioned (0,   *)
(* or one no SP container was stored for) is a missing file.              *)
ReadResult(c) == IF c = "ok" THEN {"OK"} ELSE IF c = "torn" THEN {"OK", "ERR"}
                 ELSE {"ERR"}

SpSt(s, f) == IF s \in ContSpids THEN f.sp[s].st ELSE "none"
TlcSt(u, s, f) == IF s \in ContSpids THEN f.tlc[<< u, s >>] ELSE "none"

(* mcRegistryReadRoot and mcRegistryReadTrustletCon: the same unchecked   *)
(* fread of the root container and of the TL container of (u, s).        *)
ReadRoot(f) == ReadResult(f.root.st)
ReadTrustletCon(u, s, f) == ReadResult(TlcSt(u, s, f))

(* The MCP transactions CHECK_LOAD_TA and LOAD_TOKEN: the SWd decides;   *)
(* a timeout or a wrong response id is an error as well.                 *)
McpResults == {"OK", "ERR"}

(* mcRegistryMemGetServiceBlob(s, blob) for a blob of service type t: a  *)
(* system TA is taken as is; an SP TA gets the root, SP and TL containers *)
(* appended, read in that order and stopping at the first error; a TL    *)
(* container of unknown size breaks out with ret still MC_DRV_OK.        *)
MemGetServiceBlobResults(u, s, t, f) ==
  LET Reads == {ReadRoot(f), ReadResult(SpSt(s, f)), ReadTrustletCon(u, s, f)}
  IN IF t = "system" THEN {"OK"}
     ELSE {r \in {"OK"} : \A R \in Reads : "OK" \in R}
          \cup {r \in {"ERR"} : \E R \in Reads : "ERR" \in R}

(* processLoadCheck: the blob with its containers must be built, mapped  *)
(* and accepted by the SWd's CHECK_LOAD_TA before STORE_TA_BLOB stores it.*)
LoadCheck(u, s, t, f) ==
  IF "OK" \in MemGetServiceBlobResults(u, s, t, f) THEN McpResults ELSE {"ERR"}

-----------------------------------------------------------------------------
(* Cleanup, as the set of [fs, ok] its I/O outcomes can produce.          *)

(* The files of a data directory are removed one by one, each removal    *)
(* may fail; rmdir then fails unless the directory is empty.  An opendir *)
(* that fails on an existing directory is taken for a missing one, and   *)
(* the cleanup goes on with the directory untouched.                     *)
DataDirResults(u, f) ==
  IF ~f.tldir[u] THEN {[fs |-> f, ok |-> TRUE]}
  ELSE {[fs |-> [f EXCEPT !.tlfiles[u] = left], ok |-> FALSE] :
          left \in SUBSET f.tlfiles[u]}
       \cup {[fs |-> [f EXCEPT !.tlfiles[u] = {}, !.tldir[u] = FALSE],
              ok |-> TRUE],
             [fs |-> f, ok |-> TRUE]}

(* deleteSPTA: every .spid file that reads as spid s (and, with a UUID,  *)
(* whose .tabin header carries that UUID) has its .tabin and .spid       *)
(* removed; failures are logged and ignored.                             *)
SptaMatches(u, s, f) ==
  {v \in Uuids : /\ f.taspid[v] = [st |-> "ok", s |-> s]
                 /\ u # "any" => v = u /\ f.tabin[v] # "none"}

DeleteSPTA(u, s, f) ==
  LET M == SptaMatches(u, s, f) IN
  { [f EXCEPT !.tabin = [v \in Uuids |-> IF v \in gone1 THEN "none"
                                          ELSE f.tabin[v]],
              !.taspid = [v \in Uuids |-> IF v \in gone2 THEN NoSpid
                                           ELSE f.taspid[v]]] :
      gone1 \in SUBSET M, gone2 \in SUBSET M }

(* mcRegistryCleanupTrustlet(u, s): data directory (an rmdir failure     *)
(* returns), the .tlbin, deleteSPTA with the UUID check, and last the TL *)
(* container, whose removal must succeed.                                *)
CleanupTrustletResults(u, s, f) ==
  UNION { IF ~d.ok THEN {d}
          ELSE UNION { { [fs |-> g, ok |-> FALSE],
                         [fs |-> [g EXCEPT !.tlc[<< u, s >>] = "none"],
                          ok |-> g.tlc[<< u, s >>] # "none"] } :
                       g \in DeleteSPTA(u, s, d.fs) } :
          d \in DataDirResults(u, f) }

(* The loop over the SP container's children, in the container's order, *)
(* stopping at the first failure.                                         *)
RECURSIVE CleanupChildren(_, _, _)
CleanupChildren(todo, s, f) ==
  IF todo = {} THEN {[fs |-> f, ok |-> TRUE]}
  ELSE UNION { UNION { IF ~r.ok THEN {r}
                       ELSE CleanupChildren(todo \ {u}, s, r.fs) :
                         r \in CleanupTrustletResults(u, s, f) } :
               u \in todo }

(* Mutation: a child's failure does not stop the SP's removal.           *)
CleanupSpResultsIgnoreChildren(s, f) ==
  IF f.sp[s].st = "none" THEN {[fs |-> f, ok |-> FALSE]}
  ELSE IF ~ReadsWhole(f.sp[s].st) THEN {[fs |-> f, ok |-> b] : b \in BOOLEAN}
  ELSE UNION { UNION { { [fs |-> g, ok |-> FALSE],
                         [fs |-> [g EXCEPT !.sp[s] = NoCont], ok |-> TRUE] } :
                       g \in DeleteSPTA("any", s, c.fs) } :
               c \in CleanupChildren(f.sp[s].ch, s, f) }

(* mcRegistryCleanupSp(s): the SP container is read (a missing one is an *)
(* error; a torn one fails the size check, which returns the read's      *)
(* result: MC_DRV_OK when it read some bytes, an error when the file is  *)
(* empty); its children are cleaned up; deleteSPTA without the UUID  *)
(* check; the SP container is removed last.                               *)
CleanupSpResults(s, f) ==
  IF f.sp[s].st = "none" THEN {[fs |-> f, ok |-> FALSE]}
  ELSE IF ~ReadsWhole(f.sp[s].st) THEN {[fs |-> f, ok |-> b] : b \in BOOLEAN}
  ELSE UNION { IF ~c.ok THEN {c}
               ELSE UNION { { [fs |-> g, ok |-> FALSE],
                              [fs |-> [g EXCEPT !.sp[s] = NoCont], ok |-> TRUE] } :
                            g \in DeleteSPTA("any", s, c.fs) } :
               c \in CleanupChildren(f.sp[s].ch, s, f) }

(* mcRegistryCleanupRoot: the same loop one level up, over the SP ids   *)
(* the root container lists; okd collects the SPs whose cleanup said OK. *)
RECURSIVE CleanupSps(_, _)
CleanupSps(todo, f) ==
  IF todo = {} THEN {[fs |-> f, ok |-> TRUE, okd |-> {}]}
  ELSE UNION { UNION { IF ~r.ok THEN {[fs |-> r.fs, ok |-> FALSE, okd |-> {}]}
                       ELSE { [x EXCEPT !.okd = @ \cup {s}] :
                                x \in CleanupSps(todo \ {s}, r.fs) } :
                         r \in CleanupSpResults(s, f) } :
               s \in todo }

CleanupRootResults(f) ==
  IF f.root.st = "none" THEN {[fs |-> f, ok |-> FALSE, okd |-> {}]}
  ELSE IF ~ReadsWhole(f.root.st)
    THEN {[fs |-> f, ok |-> b, okd |-> {}] : b \in BOOLEAN}
  ELSE UNION { IF ~c.ok THEN {c}
               ELSE { [c EXCEPT !.ok = FALSE],
                      [c EXCEPT !.fs = [c.fs EXCEPT !.root = NoCont]] } :
               c \in CleanupSps(f.root.ch, f) }

-----------------------------------------------------------------------------
(* Handlers.  Each request is one step under the big mutex.              *)

Request == nOps < MaxOps /\ nOps' = nOps + 1

(* A write handler's outcome: an error with the files as they were, or  *)
(* the files f2 and MC_DRV_OK.                                           *)
Stored(f2) ==
  \/ fs' = fs /\ ret' = "ERR"
  \/ fs' = f2 /\ ret' = "OK"

(* getData fails (the client sent less than it announced), malloc fails, *)
(* or the command id is unknown: no file is touched.                     *)
RequestFails ==
  /\ Request
  /\ ret' = "ERR"
  /\ UNCHANGED << fs, tabFor, revoked >>

(* MC_DRV_REG_STORE_AUTH_TOKEN: mcRegistryStoreAuthToken.                *)
StoreAuthToken ==
  /\ Request
  /\ \E c \in Written("ok") : Stored([fs EXCEPT !.auth = c])
  /\ UNCHANGED << tabFor, revoked >>

(* MC_DRV_REG_WRITE_ROOT_CONT: mcRegistryStoreRoot.                      *)
StoreRoot(ch) ==
  /\ Request
  /\ \E c \in WrittenCont(ch) : Stored([fs EXCEPT !.root = c])
  /\ UNCHANGED << tabFor, revoked >>

(* MC_DRV_REG_WRITE_SP_CONT: mcRegistryStoreSp; the SP is provisioned    *)
(* again.                                                                 *)
StoreSp(s, ch) ==
  /\ Request
  /\ \E c \in WrittenCont(ch) : Stored([fs EXCEPT !.sp[s] = c])
  /\ revoked' = IF ret' = "OK" THEN revoked \ {s} ELSE revoked
  /\ UNCHANGED tabFor

(* MC_DRV_REG_WRITE_TL_CONT: mcRegistryStoreTrustletCon.                 *)
StoreTrustletCon(u, s) ==
  /\ Request
  /\ \E c \in Written("ok") : Stored([fs EXCEPT !.tlc[<< u, s >>] = c])
  /\ UNCHANGED << tabFor, revoked >>

(* MC_DRV_REG_WRITE_SO_DATA: mcRegistryStoreData.  mkdir of the UUID's   *)
(* data directory must succeed, so it fails when the directory exists;  *)
(* a failed fopen leaves the new directory behind.                       *)
StoreData(u, p) ==
  /\ Request
  /\ IF fs.tldir[u]
       THEN fs' = fs /\ ret' = "ERR"
       ELSE \/ fs' = fs /\ ret' = "ERR"
            \/ fs' = [fs EXCEPT !.tldir[u] = TRUE] /\ ret' = "ERR"
            \/ fs' = [fs EXCEPT !.tldir[u] = TRUE, !.tlfiles[u] = @ \cup {p}]
               /\ ret' = "OK"
  /\ UNCHANGED << tabFor, revoked >>

(* Mutation: the range check of an SP TA's id is missing.               *)
TASpidAcceptedNoRange(t, s) ==
  IF t = "system" THEN s = SpidSystem ELSE TRUE

(* The SP id checks of mcRegistryStoreTABlob for a header of service     *)
(* type t: a system TA must come with MC_SPID_SYSTEM, an SP TA with an id  *)
(* below it.                                                              *)
TASpidAccepted(t, s) ==
  IF t = "system" THEN s = SpidSystem ELSE s \notin {SpidSystem} \cup SpidsOver

(* MC_DRV_REG_STORE_TA_BLOB: processLoadCheck, then                     *)
(* mcRegistryStoreTABlob: the header and attestation checks             *)
(* (which may reject the blob), the SP id check, the .tabin, and for an  *)
(* SP TA the .spid file after it; when that fopen fails the handler      *)
(* returns an error and the .tabin stays.                                *)
StoreTABlob(u, s, t) ==
  /\ Request
  /\ \/ /\ fs' = fs /\ ret' = "ERR"
        /\ UNCHANGED << tabFor, revoked >>
     \/ /\ "OK" \in LoadCheck(u, s, t, fs)
        /\ TASpidAccepted(t, s)
        /\ \E b \in Written("ok") :
             LET f1 == [fs EXCEPT !.tabin[u] = b] IN
             /\ tabFor' = [tabFor EXCEPT ![u] = s]
             /\ revoked' = revoked \ {s}
             /\ IF t = "system"
                  THEN fs' = f1 /\ ret' = "OK"
                  ELSE \/ fs' = f1 /\ ret' = "ERR"
                       \/ \E c \in Written("ok") :
                            /\ fs' = [f1 EXCEPT !.taspid[u] = [st |-> c, s |-> s]]
                            /\ ret' = "OK"

(* MC_DRV_REG_DELETE_AUTH_TOKEN: remove() of the token file.            *)
DeleteAuthToken ==
  /\ Request
  /\ IF fs.auth = "none" THEN fs' = fs /\ ret' = "ERR"
                          ELSE Stored([fs EXCEPT !.auth = "none"])
  /\ UNCHANGED << tabFor, revoked >>

(* MC_DRV_REG_DELETE_TL_CONT: mcRegistryCleanupTrustlet.                 *)
CleanupTrustlet(u, s) ==
  /\ Request
  /\ \E r \in CleanupTrustletResults(u, s, fs) :
       fs' = r.fs /\ ret' = IF r.ok THEN "OK" ELSE "ERR"
  /\ UNCHANGED << tabFor, revoked >>

(* MC_DRV_REG_DELETE_SP_CONT: mcRegistryCleanupSp.                       *)
CleanupSp(s) ==
  /\ Request
  /\ \E r \in CleanupSpResults(s, fs) :
       /\ fs' = r.fs /\ ret' = IF r.ok THEN "OK" ELSE "ERR"
       /\ revoked' = IF r.ok THEN revoked \cup {s} ELSE revoked
  /\ UNCHANGED tabFor

(* MC_DRV_REG_DELETE_ROOT_CONT: mcRegistryCleanupRoot.                   *)
CleanupRoot ==
  /\ Request
  /\ \E r \in CleanupRootResults(fs) :
       /\ fs' = r.fs /\ ret' = IF r.ok THEN "OK" ELSE "ERR"
       /\ revoked' = revoked \cup r.okd
  /\ UNCHANGED tabFor

(* The read handler: READ_AUTH_TOKEN needs exactly                        *)
(* sizeof(mcSoAuthTokenCont_t) bytes, the container reads any non-empty  *)
(* file.                                                                   *)
ReadRegistry ==
  /\ Request
  /\ \/ ret' = IF ReadsWhole(fs.auth) THEN "OK" ELSE "ERR"
     \/ ret' \in ReadRoot(fs)
     \/ \E s \in ContSpids : ret' \in ReadResult(fs.sp[s].st)
     \/ \E u \in Uuids, s \in ContSpids : ret' \in ReadTrustletCon(u, s, fs)
  /\ UNCHANGED << fs, tabFor, revoked >>

(* mcRegistryGetServiceBlob for a GP UUID, as OPEN_SESSION calls it: the  *)
(* .spid file gives the SP id (a missing one leaves it 0, a short read    *)
(* fails), the .tabin is opened and its magic checked (a torn one may     *)
(* fail), and mcRegistryMemGetServiceBlob builds the blob.  The service   *)
(* type in the header is the one StoreTABlob accepted.                    *)
LoadResults(u, f) ==
  LET sp == f.taspid[u]
      t == IF tabFor[u] = SpidSystem THEN "system" ELSE "sp"
  IN
  IF f.tabin[u] = "none" \/ sp.st = "torn" THEN {"ERR"}
  ELSE (IF f.tabin[u] = "torn" THEN {"ERR"} ELSE {})
       \cup (IF sp.st = "none" /\ t = "sp" THEN {"ERR"}
             ELSE MemGetServiceBlobResults(u, sp.s, t, f))

LoadServiceBlob(u) ==
  /\ Request
  /\ ret' \in LoadResults(u, fs)
  /\ UNCHANGED << fs, tabFor, revoked >>

(* Start-up (run(), after the device is started): the auth token if it   *)
(* reads whole, otherwise the root container if it reads at all, is the  *)
(* token for device endorsement.  The daemon keeps nothing of the        *)
(* registry in memory, so a restart of the daemon is this lookup.         *)
StartupTokens(f) ==
  IF ReadsWhole(f.auth) THEN {"auth"}
  ELSE {IF r = "OK" THEN "root" ELSE "none" : r \in ReadRoot(f)}

(* loadToken: the token's buffer is registered with the kernel module   *)
(* (which may fail) and sent with LOAD_TOKEN; without a token nothing is *)
(* sent.                                                                  *)
LoadToken(tok) == IF tok = "none" THEN {"ERR"} ELSE McpResults

Boot ==
  /\ Request
  /\ \E tok \in StartupTokens(fs) : ret' \in LoadToken(tok)
  /\ UNCHANGED << fs, tabFor, revoked >>

(* processRegistryWriteData: after the SO size is read and allocated,    *)
(* the command's ids and data are read and the store it names is called; *)
(* a failed read of them is one more way for the store to fail.          *)
ProcessRegistryWriteData ==
  \/ StoreAuthToken
  \/ \E ch \in SUBSET ContSpids : StoreRoot(ch)
  \/ \E s \in ContSpids, ch \in SUBSET Uuids : StoreSp(s, ch)
  \/ \E u \in Uuids :
       \/ \E s \in ContSpids : StoreTrustletCon(u, s)
       \/ \E p \in Pids : StoreData(u, p)
       \/ \E s \in ContSpids \cup {SpidSystem}, t \in {"system", "sp"} :
            StoreTABlob(u, s, t)

Next ==
  \/ RequestFails \/ ProcessRegistryWriteData \/ DeleteAuthToken
  \/ CleanupRoot \/ ReadRegistry \/ Boot
  \/ \E s \in ContSpids : CleanupSp(s)
  \/ \E u \in Uuids :
       \/ \E s \in ContSpids : CleanupTrustlet(u, s)
       \/ LoadServiceBlob(u)

Spec == Init /\ [][Next]_vars

-----------------------------------------------------------------------------
(* Properties.                                                            *)

TypeOK ==
  /\ fs \in Files
  /\ tabFor \in [Uuids -> Spids \cup {SpidSystem}]
  /\ revoked \subseteq ContSpids
  /\ ret \in {"none", "OK", "ERR"}
  /\ nOps \in 0..MaxOps

(* SP containers are torn down after their children, whatever fails on   *)
(* the way: an SP container disappears only together with or after the  *)
(* TL containers of every trustlet it lists (mcRegistryCleanupSp stops   *)
(* at a child's failed mcRegistryCleanupTrustlet, and DELETE_SP_CONT and *)
(* the root cleanup go through it), so a failed cleanup never leaves a   *)
(* TL container that no SP container lists.                              *)
CleanupBottomUp ==
  [][ \A s \in ContSpids :
        fs.sp[s].st # "none" /\ fs'.sp[s].st = "none" =>
          \A u \in fs.sp[s].ch : fs'.tlc[<< u, s >>] = "none" ]_vars

(* A TA of a removed SP is not loaded: once DELETE_SP_CONT (or the root  *)
(* cleanup) reported MC_DRV_OK for an SP, OPEN_SESSION does not load an   *)
(* SP TA with that SP id until a TA blob is stored for it again; the     *)
(* cleanup deletes the SP's TL containers, TABIN and SPID files and its  *)
(* container (mcRegistryCleanupSp: "Delete remaining TABIN and SPID       *)
(* files").                                                               *)
RevokedTaNotLoaded ==
  [][\A u \in Uuids :
       LoadServiceBlob(u) /\ ret' = "OK" /\ tabFor[u] # SpidSystem =>
         fs.taspid[u].s \notin revoked]_vars

====
