------------------------------ MODULE Scheduler ------------------------------
(***************************************************************************)
(* The scheduler thread of TrustZoneDevice (schedule()), which hands the  *)
(* CPU to the secure world (SWd) while the SWd's schedule flag in the MCI *)
(* says NON_IDLE and sleeps on schedSync while it says IDLE; the IRQ      *)
(* thread, which signals schedSync after every S-SIQ; and nsiq(), called  *)
(* by client threads through notify() and by the scheduler on a forced    *)
(* tick, which also signals schedSync.                                    *)
(*                                                                         *)
(* The SWd is the environment.  Its pending work is a count: it becomes   *)
(* busy on a FIQ (and raises an S-SIQ to say so) or on a notification     *)
(* from a client, and each time it is given the CPU (fcYield or fcNSIQ)   *)
(* it does one unit, may raise an S-SIQ, and writes its flag.  The        *)
(* flag it writes is NON_IDLE exactly while work remains.                 *)
(*                                                                         *)
(* Before the threads exist, run() brings the device up: initDevice opens *)
(* the kernel module, maps the MCI (getMciInstance), and on a fresh MCI   *)
(* sends fcInit and a first N-SIQ and polls the SWd's status, yielding    *)
(* ten times per poll, until it reads INITIALIZED; start() then starts    *)
(* the IRQ and scheduler threads.  initDevice returning false ends the    *)
(* daemon, and the daemon may be killed at any point; a new instance is   *)
(* started on the same kernel module, whose MCI and the SWd survive, so   *)
(* mapMCI reports the MCI as reused and the initialisation is skipped.    *)
(***************************************************************************)
EXTENDS Naturals

CONSTANTS
  SchedulingFreq,  \* SCHEDULING_FREQ, yields before a forced N-SIQ
  MaxFiq,          \* bound on FIQs that wake the SWd
  MaxNotify,       \* bound on client notifications (notify -> nsiq)
  MaxStarts        \* bound on daemon instances started

VARIABLES
  flag,       \* mcFlags->schedule: "IDLE" or "NON_IDLE"
  work,       \* units of work the SWd has pending
  ssiq,       \* S-SIQs raised and not yet taken by waitSsiq
  schedSync,  \* count of the schedSync semaphore
  spc,        \* scheduler thread: "loop", "wait" or "dead"
  timeslice,  \* schedule()'s local slice counter
  irqAlive,   \* the IRQ thread has not left its loop
  nFiq, nNotify,
  boot,       \* run()/initDevice of the current instance, "down" if none
  mci,        \* the kernel module holds a mapped MCI
  status,     \* the SWd's MC status; "OFF" until its first N-SIQ
  tslot,      \* initDevice's timeslot counter
  nStarts

dev == << boot, mci, status, tslot, nStarts >>
vars == << flag, work, ssiq, schedSync, spc, timeslice, irqAlive, nFiq,
           nNotify, dev >>

(* The phases of initDevice, up to its return.                           *)
InitPhases == {"open", "mci", "fcinit", "nsiq", "status", "yield"}

(* The inner for loop of initDevice's status poll.                       *)
InitYields == 10

Init ==
  /\ flag = "IDLE" /\ work = 0 /\ ssiq = 0
  /\ schedSync = 0
  /\ spc = "off" /\ timeslice = SchedulingFreq
  /\ irqAlive = FALSE
  /\ nFiq = 0 /\ nNotify = 0
  /\ boot = "down" /\ mci = FALSE /\ status = "OFF" /\ tslot = 0
  /\ nStarts = 0

(* CSemaphore::signal: the count goes up and one waiter may proceed.     *)
Signal == schedSync' = schedSync + 1

(* The SWd runs for one slice, given the CPU by fcYield or fcNSIQ.       *)
SwdRuns ==
  /\ work' = IF work > 0 THEN work - 1 ELSE 0
  /\ flag' = IF work' > 0 THEN "NON_IDLE" ELSE "IDLE"
  /\ ssiq' \in IF work > 0 THEN {ssiq, ssiq + 1} ELSE {ssiq}

-----------------------------------------------------------------------------
(* run(), initDevice() and start() of one daemon instance.               *)

(* A daemon instance is started; run() calls initDevice.                 *)
Launch ==
  /\ boot = "down" /\ nStarts < MaxStarts
  /\ boot' = "open" /\ nStarts' = nStarts + 1
  /\ UNCHANGED << flag, work, ssiq, schedSync, spc, timeslice, irqAlive,
                  nFiq, nNotify, mci, status, tslot >>

(* initDevice returns false and run() returns: the daemon exits.         *)
Quit ==
  /\ boot' = "down"
  /\ UNCHANGED << flag, work, ssiq, schedSync, spc, timeslice, irqAlive,
                  nFiq, nNotify, mci, status, tslot, nStarts >>

(* The kernel module is opened and its version checked; either may fail. *)
InitOpen ==
  /\ boot = "open"
  /\ \/ Quit
     \/ /\ boot' = "mci"
        /\ UNCHANGED << flag, work, ssiq, schedSync, spc, timeslice, irqAlive,
                        nFiq, nNotify, mci, status, tslot, nStarts >>

(* getMciInstance: mapMCI maps the MCI, reporting whether the kernel     *)
(* module had it mapped already; an MCI that is reused is taken as       *)
(* initialised and initDevice goes straight to its success return.       *)
GetMciInstance ==
  /\ boot = "mci"
  /\ \/ Quit
     \/ /\ mci' = TRUE
        /\ boot' = IF mci THEN "start" ELSE "fcinit"
        /\ UNCHANGED << flag, work, ssiq, schedSync, spc, timeslice, irqAlive,
                        nFiq, nNotify, status, tslot, nStarts >>

(* A fresh MCI is cleared and fcInit hands it to the SWd; setupLog's     *)
(* result is ignored.                                                     *)
FcInit ==
  /\ boot = "fcinit"
  /\ \/ Quit
     \/ /\ boot' = "nsiq"
        /\ UNCHANGED << flag, work, ssiq, schedSync, spc, timeslice, irqAlive,
                        nFiq, nNotify, mci, status, tslot, nStarts >>

(* The first nsiq(): fcNSIQ runs the SWd, which starts initialising, and *)
(* schedSync is signalled; a failed fcNSIQ ends initDevice.              *)
InitNsiq ==
  /\ boot = "nsiq"
  /\ \/ Quit
     \/ /\ SwdRuns /\ Signal
        /\ status' = IF status = "OFF" THEN "NOT_INIT" ELSE status
        /\ boot' = "status"
        /\ UNCHANGED << spc, timeslice, irqAlive, nFiq, nNotify, mci, tslot,
                        nStarts >>

(* Mutation: a halted SWd is polled like one still initialising.         *)
AfterStatusHaltSpins(st) ==
  CASE st = "INIT"                          -> "start"
    [] st \in {"OFF", "NOT_INIT", "HALT"}   -> "yield"
    [] st = "BAD"                           -> "down"

(* Where the status poll goes on each status it can read.                *)
AfterStatus(st) ==
  CASE st = "INIT"                  -> "start"
    [] st \in {"OFF", "NOT_INIT"}   -> "yield"
    [] st \in {"HALT", "BAD"}       -> "down"

(* getMobicoreStatus reads the status word of the MCI: INITIALIZED ends  *)
(* the loop, NOT_INITIALIZED goes on to the yields, HALT or any other    *)
(* value makes initDevice return false.                                  *)
InitStatus ==
  /\ boot = "status"
  /\ boot' = AfterStatus(status)
  /\ UNCHANGED << flag, work, ssiq, schedSync, spc, timeslice, irqAlive,
                  nFiq, nNotify, mci, status, tslot, nStarts >>

(* One of the ten yield() calls of a poll: fcYield runs the SWd; after   *)
(* the tenth the status is read again; a failed fcYield ends initDevice. *)
InitYield ==
  /\ boot = "yield"
  /\ \/ Quit
     \/ /\ SwdRuns
        /\ tslot' = (tslot + 1) % InitYields
        /\ boot' = IF tslot + 1 = InitYields THEN "status" ELSE "yield"
        /\ UNCHANGED << schedSync, spc, timeslice, irqAlive, nFiq, nNotify,
                        mci, status, nStarts >>

(* The SWd finishes initialising, successfully or not.                   *)
SwdInit ==
  /\ status = "NOT_INIT"
  /\ status' \in {"INIT", "HALT", "BAD"}
  /\ UNCHANGED << flag, work, ssiq, schedSync, spc, timeslice, irqAlive,
                  nFiq, nNotify, boot, mci, tslot, nStarts >>

(* start(): the IRQ thread and the scheduler thread are started.         *)
DeviceStart ==
  /\ boot = "start"
  /\ boot' = "up"
  /\ irqAlive' = TRUE /\ spc' = "loop" /\ timeslice' = SchedulingFreq
  /\ UNCHANGED << flag, work, ssiq, schedSync, nFiq, nNotify, mci, status,
                  tslot, nStarts >>

(* The daemon process dies: its threads and its semaphore go with it;    *)
(* the kernel module's MCI and S-SIQ count and the SWd itself stay.      *)
Crash ==
  /\ boot # "down"
  /\ boot' = "down" /\ spc' = "off" /\ irqAlive' = FALSE
  /\ schedSync' = 0 /\ tslot' = 0 /\ timeslice' = SchedulingFreq
  /\ UNCHANGED << flag, work, ssiq, nFiq, nNotify, mci, status, nStarts >>

InitStep ==
  InitOpen \/ GetMciInstance \/ FcInit \/ InitNsiq \/ InitStatus
    \/ InitYield \/ DeviceStart

-----------------------------------------------------------------------------
(* schedule().                                                            *)

(* The flag reads IDLE: the loop goes to schedSync.wait().               *)
SchedIdle ==
  /\ spc = "loop" /\ flag = "IDLE"
  /\ spc' = "wait"
  /\ UNCHANGED << dev, flag, work, ssiq, schedSync, timeslice, irqAlive, nFiq,
                  nNotify >>

(* schedSync.wait() returns once the count is positive; the loop        *)
(* continues and reads the flag again.                                   *)
SchedWake ==
  /\ spc = "wait" /\ schedSync > 0
  /\ schedSync' = schedSync - 1
  /\ spc' = "loop"
  /\ UNCHANGED << dev, flag, work, ssiq, timeslice, irqAlive, nFiq, nNotify >>

(* The slice is used up: it is reset and nsiq() forces a scheduling      *)
(* tick, which runs the SWd and signals schedSync.                       *)
SchedTick ==
  /\ spc = "loop" /\ flag = "NON_IDLE" /\ timeslice = 0
  /\ timeslice' = SchedulingFreq
  /\ SwdRuns /\ Signal
  /\ UNCHANGED << dev, spc, irqAlive, nFiq, nNotify >>

(* Mutation: the slice is not checked before it is decremented.          *)
SchedYieldNoSliceCheck ==
  /\ spc = "loop" /\ flag = "NON_IDLE"
  /\ timeslice' = timeslice - 1
  /\ SwdRuns
  /\ UNCHANGED << dev, schedSync, spc, irqAlive, nFiq, nNotify >>

(* Otherwise the slice is decremented and yield() hands the CPU over.    *)
SchedYield ==
  /\ spc = "loop" /\ flag = "NON_IDLE" /\ timeslice # 0
  /\ timeslice' = timeslice - 1
  /\ SwdRuns
  /\ UNCHANGED << dev, schedSync, spc, irqAlive, nFiq, nNotify >>

(* fcNSIQ or fcYield fails: the loop breaks and the thread ends.         *)
SchedFail ==
  /\ spc = "loop" /\ flag = "NON_IDLE"
  /\ spc' = "dead"
  /\ UNCHANGED << dev, flag, work, ssiq, schedSync, timeslice, irqAlive, nFiq,
                  nNotify >>

-----------------------------------------------------------------------------
(* The IRQ thread and the clients.                                       *)

(* Mutation: schedSync is not signalled after the queue is drained.      *)
IrqSsiqNoSignal ==
  /\ irqAlive /\ ssiq > 0
  /\ ssiq' = ssiq - 1
  /\ UNCHANGED << dev, flag, work, schedSync, spc, timeslice, irqAlive, nFiq,
                  nNotify >>

(* handleIrq: waitSsiq returns, the notification queue is drained (see   *)
(* SessionEngine), and schedSync is signalled: the SWd may no longer be  *)
(* idle.                                                                  *)
IrqSsiq ==
  /\ irqAlive /\ ssiq > 0
  /\ ssiq' = ssiq - 1
  /\ Signal
  /\ UNCHANGED << dev, flag, work, spc, timeslice, irqAlive, nFiq, nNotify >>

(* waitSsiq fails and the IRQ thread leaves its loop.                    *)
IrqFail ==
  /\ irqAlive
  /\ irqAlive' = FALSE
  /\ UNCHANGED << dev, flag, work, ssiq, schedSync, spc, timeslice, nFiq,
                  nNotify >>

(* notify(): a client thread puts a notification into the NWd->SWd queue *)
(* and calls nsiq(); a successful fcNSIQ runs the SWd and signals        *)
(* schedSync; a failed one does neither, and notify() goes on: the       *)
(* notification waits in the queue of a SWd that did not run.            *)
Notify ==
  /\ boot = "up" /\ nNotify < MaxNotify
  /\ nNotify' = nNotify + 1
  /\ \/ /\ work' = work + 1
        /\ UNCHANGED << dev, flag, ssiq, schedSync >>
     \/ /\ LET w == work + 1 IN
             /\ work' = w - 1
             /\ flag' = IF w - 1 > 0 THEN "NON_IDLE" ELSE "IDLE"
             /\ ssiq' \in {ssiq, ssiq + 1}
        /\ Signal
  /\ UNCHANGED << dev, spc, timeslice, irqAlive, nFiq >>

(* A FIQ for an SWd driver: the SWd becomes busy and raises an S-SIQ.    *)
SwdFiq ==
  /\ nFiq < MaxFiq
  /\ nFiq' = nFiq + 1
  /\ work' = work + 1 /\ flag' = "NON_IDLE"
  /\ ssiq' = ssiq + 1
  /\ UNCHANGED << dev, schedSync, spc, timeslice, irqAlive, nNotify >>

Next ==
  \/ SchedIdle \/ SchedWake \/ SchedTick \/ SchedYield \/ SchedFail
  \/ IrqSsiq \/ IrqFail
  \/ Notify \/ SwdFiq
  \/ Launch \/ InitStep \/ SwdInit \/ Crash

(* The main, scheduler and IRQ threads are OS threads: each of their     *)
(* enabled steps is eventually taken.  The SWd eventually leaves         *)
(* NOT_INITIALIZED, as initDevice assumes ("<t-base always switches      *)
(* state at a certain point in time").  Failures of the kernel calls,    *)
(* crashes, launches, FIQs and client notifications are not forced.      *)
Spec ==
  /\ Init /\ [][Next]_vars
  /\ WF_vars(SchedIdle \/ SchedTick \/ SchedYield)
  /\ WF_vars(SchedWake)
  /\ WF_vars(IrqSsiq)
  /\ WF_vars(InitStep)
  /\ WF_vars(SwdInit)

-----------------------------------------------------------------------------
(* Properties.                                                            *)

TypeOK ==
  /\ flag \in {"IDLE", "NON_IDLE"}
  /\ work \in Nat /\ ssiq \in Nat /\ schedSync \in Nat
  /\ spc \in {"off", "loop", "wait", "dead"}
  /\ timeslice \in 0..SchedulingFreq
  /\ irqAlive \in BOOLEAN
  /\ boot \in InitPhases \cup {"down", "start", "up"}
  /\ mci \in BOOLEAN /\ tslot \in 0..InitYields - 1
  /\ status \in {"OFF", "NOT_INIT", "INIT", "HALT", "BAD"}

(* A SWd that says it is busy is scheduled until it says it is idle:     *)
(* once the flag reads NON_IDLE, whether set on a FIQ, a client's        *)
(* notification or an earlier slice, schedule() hands over the CPU until *)
(* the flag reads IDLE, although it reads the flag and then sleeps in    *)
(* two separate steps.  This holds while the scheduler and IRQ threads   *)
(* live.                                                                  *)
SwdBusyScheduled ==
  (flag = "NON_IDLE") ~> (flag = "IDLE" \/ spc = "dead" \/ ~irqAlive)


(* The scheduler does not sleep through work: whenever it waits on       *)
(* schedSync while the SWd is busy, a signal is pending or an S-SIQ will *)
(* bring one.                                                             *)
NoLostWakeup ==
  (spc = "wait" /\ flag = "NON_IDLE" /\ irqAlive) => (schedSync > 0 \/ ssiq > 0)

(* initDevice returns: a daemon instance that has begun initialising the *)
(* device either starts its threads or gives up, although the status     *)
(* poll has no bound of its own and only ends when the SWd leaves        *)
(* NOT_INITIALIZED or a kernel call fails.                               *)
InitDeviceReturns ==
  (boot \in InitPhases) ~> (boot \in {"up", "down"})

=============================================================================
