------------------------------ MODULE IrisCore ------------------------------
(***************************************************************************)
(* Life cycle of the VPU5 core shared by every open file of the iris       *)
(* driver: boot, tear-down, fatal-error recovery, idle power collapse,     *)
(* system sleep, and the opening and closing of firmware sessions.         *)
(*                                                                         *)
(* Threads: one per client (a file descriptor used by one process at a     *)
(* time), the sys_error_handler work item, the pc_work item, the threaded  *)
(* interrupt handler, the firmware, and the system-sleep callbacks.        *)
(* A step is a region under core->lock, one unlocked access to shared      *)
(* state, or the end of a wait.  core->lock itself is a variable because   *)
(* iris_core_init() holds it across writes other threads make without it.  *)
(***************************************************************************)
EXTENDS Integers, FiniteSets, Sequences

CONSTANTS
  Clients,      \* file descriptors, each driven by one process at a time
  SysWorker,    \* the thread that runs iris_sys_error_handler()
  NoThread,     \* "nobody holds core->lock"
  MaxSessions,  \* iris_platform_data->max_session_count
  Events,       \* which environment events a run allows
  MaxFaults,    \* bound on the faults injected in one behaviour
  MaxDone,      \* bound on completions left in core_init_done
  MaxRegions,   \* queue regions that memory has room for
  Timely        \* threads keep up with the driver's delays, see below

(* Failures of one step of iris_core_init(), of a wake-up from collapse,   *)
(* of the SYS_INIT handshake, of the running firmware and of a session.    *)
BootFaults == {"queues", "sfr", "power", "firmware"}
WakeFaults == {"wake_power", "wake_boot"}
CoreFaults == {"init_lost", "init_error", "sys_error"}
Faults     == BootFaults \cup WakeFaults \cup CoreFaults
              \cup {"session", "memory"}

ASSUME CoreAssumption ==
  /\ IsFiniteSet(Clients)
  /\ SysWorker \notin Clients
  /\ NoThread \notin Clients \cup {SysWorker}
  /\ MaxSessions \in Nat
  /\ MaxFaults \in Nat
  /\ MaxDone \in Nat
  /\ MaxRegions \in Nat
  /\ Timely \in BOOLEAN
  /\ Events \subseteq Faults \cup {"sleep", "load", "unpowered_read"}

Threads == Clients \cup {SysWorker}

VARIABLES
  lock,             \* core->lock, when held from one step to the next
  core,             \* state, vpu_suspended, recovery_pending, core_init_done
  hw,               \* vpu_powered, queue table, and what is really held
  fw,               \* the firmware
  msgs,             \* system messages in the message queue
  irq,              \* what the threaded interrupt handler is working on
  work,             \* which work is queued, where iris_pc_handler() is
  asleep,           \* the system is between suspend and resume
  pc, cont, ret,    \* per thread: label, where a call returns, its result
  instances,        \* core->instances
  opened,           \* instances with hfi_session_opened
  instState,        \* inst->state; streaming states count as "INIT" here
  faults            \* faults injected so far

deviceVars == <<hw, fw, msgs>>
envVars == <<irq, work, asleep>>
callVars == <<pc, cont, ret>>
instVars == <<instances, opened, instState>>
vars == <<lock, core, deviceVars, envVars, callVars, instVars, faults>>

-----------------------------------------------------------------------------
(* Hardware and memory.  hw.powered and hw.table are what the driver       *)
(* believes (vpu_powered, iface_q_table_vaddr # NULL); hw.refs counts the  *)
(* power references really held (genpds, clocks, interconnect) and         *)
(* hw.regions the queue regions allocated and not freed.                   *)

PowerOn(h)      == [h EXCEPT !.powered = TRUE, !.refs = @ + 1]
PowerOnFail(h)  == [h EXCEPT !.powered = TRUE]
(* Mutant of PowerOff: vpu_powered is not looked at.                       *)
PowerOffTwice(h) == [h EXCEPT !.powered = FALSE, !.refs = @ - 1]

PowerOff(h)     == IF h.powered
                   THEN [h EXCEPT !.powered = FALSE, !.refs = @ - 1]
                   ELSE h
QueuesInit(h)   == [h EXCEPT !.table = TRUE, !.regions = @ + 1]
(* Mutant of QueuesDeinit: the pointer is cleared, the memory is not       *)
(* freed.                                                                  *)
QueuesDeinitKeep(h) == [h EXCEPT !.table = FALSE]

QueuesDeinit(h) == IF h.table
                   THEN [h EXCEPT !.table = FALSE, !.regions = @ - 1]
                   ELSE h

(* What a failed iris_core_init() leaves, by the step that failed.         *)
AfterBootFault(h, f) ==
  CASE f = "queues"   -> [h EXCEPT !.table = FALSE]
    [] f = "sfr"      -> [h EXCEPT !.table = TRUE]
    [] f = "power"    -> QueuesDeinit(PowerOnFail(QueuesInit(h)))
    [] f = "firmware" -> QueuesDeinit(PowerOff(PowerOn(QueuesInit(h))))

AfterWakeFault(h, f) ==
  IF f = "wake_power" THEN PowerOnFail(h) ELSE PowerOff(PowerOn(h))

(* The firmware: fw.cmds holds the clients whose session command it has    *)
(* not answered, fw.sessions those that have a session, and fw.wedged says *)
(* that it refuses every SESSION_INIT until the VPU is power-cycled.       *)
Firmware(state) ==
  [state |-> state, wedged |-> FALSE, sessions |-> {}, cmds |-> {}]

FwRunning == hw.refs > 0 /\ ~core.suspended

(* The firmware serves its commands, and the interrupt thread reads its    *)
(* messages, in order.                                                     *)
FwServes  == FwRunning /\ core.state = "INIT" /\ fw.state \in {"sys_init", "ready"}
FwAnswers == FwServes /\ fw.state = "ready" /\ msgs = <<>> /\ irq = "none"

(* With Timely, the interrupt thread and a woken waiter run within the     *)
(* second for which the driver waits for an answer.                        *)
CaughtUp ==
  /\ irq = "none"
  /\ core.state = "INIT" => msgs = <<>>
  /\ core.done > 0 => \A t \in Threads : pc[t] \notin {"initCheck", "initWait"}

Expires == Timely => CaughtUp

-----------------------------------------------------------------------------
Parked == {"idle", "open", "active"}

Labels ==
  Parked \cup
  {"deinitCheck", "deinit", "init", "initSend", "initCheck", "initWait",
   "wake", "restart", "openInit", "openCheck", "openDone",
   "runPending", "reserve", "sessInit", "sessWait", "sessFail", "release",
   "openFailed", "sessClose", "endWait", "endWaitErr", "endClear",
   "endRequest", "stopped", "leave", "pcSchedule", "sysDrop"}

Goto(t, label)     == pc' = [pc EXCEPT ![t] = label]
Call(t, label, k)  == Goto(t, label) /\ cont' = [cont EXCEPT ![t] = k]
Return(t, r)       == Goto(t, cont[t]) /\ ret' = [ret EXCEPT ![t] = r]
Charge(f)          == /\ f \in Events
                      /\ faults < MaxFaults
                      /\ faults' = faults + 1
Free               == lock = NoThread

Init ==
  /\ lock = NoThread
  /\ core = [state |-> "DEINIT", suspended |-> FALSE, pending |-> FALSE,
              done |-> 0]
  /\ hw = [powered |-> FALSE, refs |-> 0, table |-> FALSE, regions |-> 0]
  /\ fw = Firmware("off")
  /\ msgs = <<>>
  /\ irq = "none"
  /\ work = [sys |-> FALSE, pc |-> FALSE, run |-> "idle"]
  /\ asleep = FALSE
  /\ pc = [t \in Threads |-> "idle"]
  /\ cont = [t \in Threads |-> "idle"]
  /\ ret = [t \in Threads |-> "ok"]
  /\ instances = {}
  /\ opened = {}
  /\ instState = [c \in Clients |-> "NONE"]
  /\ faults = 0

-----------------------------------------------------------------------------
(* iris_core_deinit(): the state is first read without the lock.           *)

DeinitCheck(t) ==
  /\ pc[t] = "deinitCheck"
  /\ Goto(t, IF core.state = "DEINIT" THEN "init" ELSE "deinit")
  /\ UNCHANGED <<lock, core, deviceVars, envVars, cont, ret, instVars, faults>>

Deinit(t) ==
  /\ pc[t] = "deinit"
  /\ Free
  /\ fw' = Firmware("off")
  /\ hw' = QueuesDeinit(PowerOff(hw))
  /\ msgs' = <<>>
  /\ work' = [work EXCEPT !.pc = FALSE]
  /\ core' = [core EXCEPT !.suspended = FALSE, !.state = "DEINIT"]
  /\ Goto(t, "init")
  /\ UNCHANGED <<lock, irq, asleep, cont, ret, instVars, faults>>

(* iris_core_recover() is deinit followed by init; k is the label its      *)
(* caller continues at.                                                    *)
Recover(t, k) == Call(t, "deinitCheck", k)

-----------------------------------------------------------------------------
(* iris_core_init() and iris_wait_for_system_response().                   *)

InitAlready(t) ==
  /\ pc[t] = "init"
  /\ Free
  /\ core.state = "INIT"
  /\ Return(t, "ok")
  /\ UNCHANGED <<lock, core, deviceVars, envVars, cont, instVars, faults>>

InitRefused(t) ==
  /\ pc[t] = "init"
  /\ Free
  /\ core.state = "ERROR"
  /\ core' = [core EXCEPT !.state = "DEINIT"]
  /\ Return(t, "err")
  /\ UNCHANGED <<lock, deviceVars, envVars, cont, instVars, faults>>

InitFails(t) ==
  /\ pc[t] = "init"
  /\ Free
  /\ core.state = "DEINIT"
  /\ \E f \in BootFaults :
       /\ IF f = "queues" /\ hw.regions >= MaxRegions THEN UNCHANGED faults
                                                      ELSE Charge(f)
       /\ hw' = AfterBootFault(hw, f)
       /\ fw' = IF f = "firmware" THEN Firmware("off") ELSE fw
  /\ msgs' = <<>>
  /\ Return(t, "err")
  /\ UNCHANGED <<lock, core, envVars, cont, instVars>>

InitBoot(t) ==
  /\ pc[t] = "init"
  /\ Free
  /\ core.state = "DEINIT"
  /\ hw.regions < MaxRegions
  /\ lock' = t
  /\ core' = [core EXCEPT !.state = "INIT"]
  /\ hw' = PowerOn(QueuesInit(hw))
  /\ fw' = Firmware("booted")
  /\ msgs' = <<>>
  /\ Goto(t, "initSend")
  /\ UNCHANGED <<envVars, cont, ret, instVars, faults>>

(* Mutant of InitSend: core->lock is kept while SYS_INIT is waited for.    *)
InitSendLocked(t) ==
  /\ pc[t] = "initSend"
  /\ core.state = "INIT"
  /\ fw' = [fw EXCEPT !.state = "sys_init"]
  /\ Goto(t, "initCheck")
  /\ UNCHANGED <<lock, core, hw, msgs, envVars, cont, ret, instVars, faults>>

InitSend(t) ==
  /\ pc[t] = "initSend"
  /\ core.state = "INIT"
  /\ fw' = [fw EXCEPT !.state = "sys_init"]
  /\ lock' = NoThread
  /\ Goto(t, "initCheck")
  /\ UNCHANGED <<core, hw, msgs, envVars, cont, ret, instVars, faults>>

(* The interrupt handler set ERROR meanwhile: SYS_INIT is refused.         *)
InitAbort(t) ==
  /\ pc[t] = "initSend"
  /\ core.state # "INIT"
  /\ fw' = Firmware("off")
  /\ hw' = QueuesDeinit(PowerOff(hw))
  /\ msgs' = <<>>
  /\ core' = [core EXCEPT !.state = "DEINIT"]
  /\ lock' = NoThread
  /\ Return(t, "err")
  /\ UNCHANGED <<envVars, cont, instVars, faults>>

InitCheck(t) ==
  /\ pc[t] = "initCheck"
  /\ IF core.state = "ERROR"
     THEN Return(t, "err")
     ELSE Goto(t, "initWait") /\ UNCHANGED ret
  /\ UNCHANGED <<lock, core, deviceVars, envVars, cont, instVars, faults>>

(* Mutant of InitAnswered: the completion is taken before it is there.     *)
InitAnsweredEarly(t) ==
  /\ pc[t] = "initWait"
  /\ core' = [core EXCEPT !.done = @ - 1]
  /\ Return(t, "ok")
  /\ UNCHANGED <<lock, deviceVars, envVars, cont, instVars, faults>>

InitAnswered(t) ==
  /\ pc[t] = "initWait"
  /\ core.done > 0
  /\ core' = [core EXCEPT !.done = @ - 1]
  /\ Return(t, "ok")
  /\ UNCHANGED <<lock, deviceVars, envVars, cont, instVars, faults>>

(* The wait times out for free when no answer can arrive any more.         *)
InitAnswerComing ==
  \/ irq = "init_done"
  \/ /\ core.state = "INIT"
     /\ \/ fw.state = "sys_init" /\ FwRunning
        \/ \E i \in 1 .. Len(msgs) : msgs[i] = "init_done"

InitTimeout(t) ==
  /\ pc[t] = "initWait"
  /\ core.done = 0
  /\ Expires
  /\ IF InitAnswerComing THEN Charge("init_lost") ELSE UNCHANGED faults
  /\ core' = [core EXCEPT !.state = "ERROR"]
  /\ Return(t, "err")
  /\ UNCHANGED <<lock, deviceVars, envVars, cont, instVars>>

CoreCall(t) ==
  \/ DeinitCheck(t) \/ Deinit(t)
  \/ InitAlready(t) \/ InitRefused(t) \/ InitFails(t) \/ InitBoot(t)
  \/ InitSend(t) \/ InitAbort(t) \/ InitCheck(t) \/ InitAnswered(t)
  \/ InitTimeout(t)

-----------------------------------------------------------------------------
(* iris_open(): wake the VPU, make sure the core is initialised, join the  *)
(* list of instances.                                                      *)

(* Mutant of OpenCancel: cancel_delayed_work(), which does not wait.       *)
OpenCancelAsync(c) ==
  /\ pc[c] = "idle"
  /\ work' = [work EXCEPT !.pc = FALSE]
  /\ Goto(c, "wake")
  /\ UNCHANGED <<lock, core, deviceVars, irq, asleep, cont, ret, instVars,
                 faults>>

(* cancel_delayed_work_sync() waits for a running worker.                  *)
OpenCancel(c) ==
  /\ pc[c] = "idle"
  /\ work.run = "idle"
  /\ work' = [work EXCEPT !.pc = FALSE]
  /\ Goto(c, "wake")
  /\ UNCHANGED <<lock, core, deviceVars, irq, asleep, cont, ret, instVars,
                 faults>>

OpenWake(c) ==
  /\ pc[c] = "wake"
  /\ Free
  /\ hw' = IF core.suspended THEN PowerOn(hw) ELSE hw
  /\ core' = [core EXCEPT !.suspended = FALSE]
  /\ Goto(c, "openInit")
  /\ UNCHANGED <<lock, fw, msgs, envVars, cont, ret, instVars, faults>>

OpenWakeFails(c) ==
  /\ pc[c] = "wake"
  /\ Free
  /\ core.suspended
  /\ \E f \in WakeFaults : Charge(f) /\ hw' = AfterWakeFault(hw, f)
  /\ Goto(c, "restart")
  /\ UNCHANGED <<lock, core, fw, msgs, envVars, cont, ret, instVars>>

(* Restart the core; its result is only logged.                            *)
OpenRestart(c) ==
  /\ pc[c] = "restart"
  /\ core' = [core EXCEPT !.pending = FALSE]
  /\ Recover(c, "openInit")
  /\ UNCHANGED <<lock, deviceVars, envVars, ret, instVars, faults>>

OpenInit(c) ==
  /\ pc[c] = "openInit"
  /\ Call(c, "init", "openCheck")
  /\ UNCHANGED <<lock, core, deviceVars, envVars, ret, instVars, faults>>

(* Power-cycle once when the failed init left the core in ERROR.           *)
OpenPowerCycle(c) ==
  /\ pc[c] = "openCheck"
  /\ ret[c] = "err"
  /\ core.state = "ERROR"
  /\ core' = [core EXCEPT !.pending = FALSE]
  /\ Recover(c, "openDone")
  /\ UNCHANGED <<lock, deviceVars, envVars, ret, instVars, faults>>

OpenFails(c) ==
  /\ \/ pc[c] = "openCheck" /\ core.state # "ERROR"
     \/ pc[c] = "openDone"
  /\ ret[c] = "err"
  /\ Goto(c, "idle")
  /\ UNCHANGED <<lock, core, deviceVars, envVars, cont, ret, instVars, faults>>

(* Memory for the instance or its m2m context is not to be had.            *)
OpenNoMemory(c) ==
  /\ pc[c] \in {"openCheck", "openDone"}
  /\ ret[c] = "ok"
  /\ Charge("memory")
  /\ Goto(c, "idle")
  /\ UNCHANGED <<lock, core, deviceVars, envVars, cont, ret, instVars>>

OpenJoin(c) ==
  /\ pc[c] \in {"openCheck", "openDone"}
  /\ ret[c] = "ok"
  /\ Free
  /\ instances' = instances \cup {c}
  /\ instState' = [instState EXCEPT ![c] = "DEINIT"]
  /\ Goto(c, "open")
  /\ UNCHANGED <<lock, core, deviceVars, envVars, cont, ret, opened, faults>>

-----------------------------------------------------------------------------
(* iris_run_pending_core_recovery(), called with the continuation in cont. *)

(* Mutant of RunPending: the flag is cleared while sessions are open.      *)
RunPendingForgets(c) ==
  /\ pc[c] = "runPending"
  /\ Free
  /\ core' = [core EXCEPT !.pending = FALSE]
  /\ IF core.pending /\ opened = {}
     THEN Recover(c, cont[c]) /\ UNCHANGED ret
     ELSE Return(c, ret[c]) /\ UNCHANGED cont
  /\ UNCHANGED <<lock, deviceVars, envVars, instVars, faults>>

RunPending(c) ==
  /\ pc[c] = "runPending"
  /\ Free
  /\ IF core.pending /\ opened = {}
     THEN /\ core' = [core EXCEPT !.pending = FALSE]
          /\ Recover(c, cont[c])
          /\ UNCHANGED ret
     ELSE Return(c, ret[c]) /\ UNCHANGED <<core, cont>>
  /\ UNCHANGED <<lock, deviceVars, envVars, instVars, faults>>

-----------------------------------------------------------------------------
(* iris_hfi_session_open(): entered from queue_setup and start_streaming,  *)
(* which refuse an instance in ERROR.                                      *)

SessionOpen(c) ==
  /\ pc[c] = "open"
  /\ c \notin opened
  /\ instState[c] # "ERROR"
  /\ Call(c, "runPending", "reserve")
  /\ UNCHANGED <<lock, core, deviceVars, envVars, ret, instVars, faults>>

(* Mutant of Reserve: the open sessions are not counted.                   *)
ReserveUnchecked(c) ==
  /\ pc[c] = "reserve"
  /\ Free
  /\ opened' = opened \cup {c}
  /\ Goto(c, "sessInit")
  /\ UNCHANGED <<lock, core, deviceVars, envVars, cont, ret, instances,
                 instState, faults>>

Reserve(c) ==
  /\ pc[c] = "reserve"
  /\ Free
  /\ Cardinality(opened) < MaxSessions
  /\ opened' = opened \cup {c}
  /\ Goto(c, "sessInit")
  /\ UNCHANGED <<lock, core, deviceVars, envVars, cont, ret, instances,
                 instState, faults>>

(* No session left, or (event "load") the frames of the open sessions add  *)
(* up to too many macroblocks.                                             *)
ReserveRefused(c) ==
  /\ pc[c] = "reserve"
  /\ Free
  /\ Cardinality(opened) >= MaxSessions \/ "load" \in Events
  /\ Goto(c, "openFailed")
  /\ UNCHANGED <<lock, core, deviceVars, envVars, cont, ret, instVars, faults>>

(* Queue SESSION_INIT, unless the instance or the core is in ERROR.        *)
SessionInit(c) ==
  /\ pc[c] = "sessInit"
  /\ Free
  /\ IF instState[c] = "DEINIT" /\ core.state = "INIT"
     THEN /\ fw' = [fw EXCEPT !.cmds = @ \cup {c}]
          /\ Goto(c, "sessWait")
     ELSE /\ Goto(c, "sessFail")
          /\ UNCHANGED fw
  /\ UNCHANGED <<lock, core, hw, msgs, envVars, cont, ret, instVars, faults>>

SessionInitDone(c) ==
  /\ pc[c] = "sessWait"
  /\ FwAnswers
  /\ ~fw.wedged
  /\ c \in fw.cmds
  /\ fw' = [fw EXCEPT !.cmds = @ \ {c}, !.sessions = @ \cup {c}]
  /\ IF instState[c] = "ERROR"
     THEN Goto(c, "sessFail") /\ UNCHANGED instState
     ELSE Goto(c, "active") /\ instState' = [instState EXCEPT ![c] = "INIT"]
  /\ UNCHANGED <<lock, core, hw, msgs, envVars, cont, ret, instances, opened,
                 faults>>

(* iris_inst_change_state(inst, IRIS_INST_ERROR) asks for recovery unless  *)
(* the instance is in ERROR already.                                       *)
ToError(c) ==
  /\ instState' = [instState EXCEPT ![c] = "ERROR"]
  /\ core' = [core EXCEPT !.pending = (@ \/ instState[c] # "ERROR")]

(* No answer: the firmware wedges (a fault), is wedged, or never got the   *)
(* command.                                                                *)
Unanswered(c, wedged) ==
  IF FwServes /\ c \in fw.cmds /\ ~wedged
  THEN /\ fw.state = "ready"
       /\ Charge("session")
       /\ fw' = [fw EXCEPT !.cmds = @ \ {c}, !.wedged = TRUE]
  ELSE UNCHANGED faults /\ fw' = [fw EXCEPT !.cmds = @ \ {c}]

SessionInitTimeout(c) ==
  /\ pc[c] = "sessWait"
  /\ Expires
  /\ Unanswered(c, fw.wedged)
  /\ ToError(c)
  /\ Goto(c, "sessFail")
  /\ UNCHANGED <<lock, hw, msgs, envVars, cont, ret, instances, opened>>

SessionFail(c) ==
  /\ pc[c] = "sessFail"
  /\ core' = [core EXCEPT !.pending = TRUE]
  /\ Goto(c, "release")
  /\ UNCHANGED <<lock, deviceVars, envVars, cont, ret, instVars, faults>>

SessionRelease(c) ==
  /\ pc[c] = "release"
  /\ Free
  /\ opened' = opened \ {c}
  /\ Goto(c, "openFailed")
  /\ UNCHANGED <<lock, core, deviceVars, envVars, cont, ret, instances,
                 instState, faults>>

(* queue_setup() returns the failure; start_streaming() puts the instance  *)
(* in ERROR, which asks for recovery whatever the failure was.             *)
SessionOpenFailed(c) ==
  /\ pc[c] = "openFailed"
  /\ ToError(c) \/ UNCHANGED <<core, instState>>
  /\ Goto(c, "open")
  /\ UNCHANGED <<lock, deviceVars, envVars, cont, ret, instances, opened,
                 faults>>

(* HFI_EVENT_SESSION_ERROR with a fatal code, handled under inst->lock.    *)
SessionError(c) ==
  /\ c \in instances \cap fw.sessions
  /\ FwAnswers
  /\ Charge("session")
  /\ fw' = [fw EXCEPT !.wedged = TRUE]
  /\ instState' = [instState EXCEPT ![c] = "ERROR"]
  /\ core' = [core EXCEPT !.pending = TRUE]
  /\ UNCHANGED <<lock, hw, msgs, envVars, callVars, instances, opened>>

-----------------------------------------------------------------------------
(* iris_hfi_session_close(), from the last streamoff (the file stays open) *)
(* or from iris_close().                                                   *)

StreamoffClose(c) ==
  /\ pc[c] = "active"
  /\ instState[c] = "INIT"
  /\ Call(c, "sessClose", "stopped")
  /\ UNCHANGED <<lock, core, deviceVars, envVars, ret, instVars, faults>>

CloseFile(c) ==
  /\ pc[c] \in {"open", "active"}
  /\ Call(c, IF c \in opened THEN "sessClose" ELSE "leave", "leave")
  /\ UNCHANGED <<lock, core, deviceVars, envVars, ret, instVars, faults>>

(* Queue SESSION_END; the label of the wait remembers was_error.           *)
SessionEnd(c) ==
  /\ pc[c] = "sessClose"
  /\ Free
  /\ IF core.state = "INIT"
     THEN /\ fw' = [fw EXCEPT !.cmds = @ \cup {c}]
          /\ Goto(c, IF instState[c] = "ERROR" THEN "endWaitErr"
                                              ELSE "endWait")
          /\ UNCHANGED ret
     ELSE /\ Goto(c, "endClear")
          /\ ret' = [ret EXCEPT ![c] = "err"]
          /\ UNCHANGED fw
  /\ UNCHANGED <<lock, core, hw, msgs, envVars, cont, instVars, faults>>

SessionEndDone(c) ==
  /\ pc[c] \in {"endWait", "endWaitErr"}
  /\ FwAnswers
  /\ c \in fw.cmds
  /\ fw' = [fw EXCEPT !.cmds = @ \ {c}, !.sessions = @ \ {c}]
  /\ ret' = [ret EXCEPT ![c] = IF pc[c] = "endWait" /\ instState[c] = "ERROR"
                               THEN "err" ELSE "ok"]
  /\ instState' = [instState EXCEPT ![c] = IF @ = "ERROR" THEN @ ELSE "DEINIT"]
  /\ Goto(c, "endClear")
  /\ UNCHANGED <<lock, core, hw, msgs, envVars, cont, instances, opened,
                 faults>>

SessionEndTimeout(c) ==
  /\ pc[c] \in {"endWait", "endWaitErr"}
  /\ Expires
  /\ Unanswered(c, fw.wedged)
  /\ ToError(c)
  /\ ret' = [ret EXCEPT ![c] = "err"]
  /\ Goto(c, "endClear")
  /\ UNCHANGED <<lock, hw, msgs, envVars, cont, instances, opened>>

SessionEndClear(c) ==
  /\ pc[c] = "endClear"
  /\ Free
  /\ opened' = opened \ {c}
  /\ Goto(c, "endRequest")
  /\ UNCHANGED <<lock, core, deviceVars, envVars, cont, ret, instances,
                 instState, faults>>

SessionEndRequest(c) ==
  /\ pc[c] = "endRequest"
  /\ core' = [core EXCEPT !.pending = (@ \/ ret[c] = "err")]
  /\ Goto(c, cont[c])
  /\ UNCHANGED <<lock, deviceVars, envVars, cont, ret, instVars, faults>>

(* stop_streaming() puts an instance whose session did not end well in     *)
(* ERROR, which asks for recovery once more.                               *)
StreamoffDone(c) ==
  /\ pc[c] = "stopped"
  /\ IF ret[c] = "err" THEN ToError(c) ELSE UNCHANGED <<core, instState>>
  /\ Goto(c, "open")
  /\ UNCHANGED <<lock, deviceVars, envVars, cont, ret, instances, opened,
                 faults>>

(* Mutant of CloseLeave: the last close runs no pending recovery.          *)
CloseLeaveOnly(c) ==
  /\ pc[c] = "leave"
  /\ Free
  /\ instances' = instances \ {c}
  /\ Goto(c, "pcSchedule")
  /\ UNCHANGED <<lock, core, deviceVars, envVars, cont, ret, opened,
                 instState, faults>>

(* The rest of iris_close(): leave the list, run a pending recovery, arm   *)
(* the idle power collapse.                                                *)
CloseLeave(c) ==
  /\ pc[c] = "leave"
  /\ Free
  /\ instances' = instances \ {c}
  /\ Call(c, "runPending", "pcSchedule")
  /\ UNCHANGED <<lock, core, deviceVars, envVars, ret, opened, instState,
                 faults>>

ClosePcSchedule(c) ==
  /\ pc[c] = "pcSchedule"
  /\ work' = [work EXCEPT !.pc = (@ \/ instances = {})]
  /\ instState' = [instState EXCEPT ![c] = "NONE"]
  /\ Goto(c, "idle")
  /\ UNCHANGED <<lock, core, deviceVars, irq, asleep, cont, ret, instances,
                 opened, faults>>

ClientStep(c) ==
  \/ CoreCall(c)
  \/ OpenCancel(c) \/ OpenWake(c) \/ OpenWakeFails(c) \/ OpenRestart(c)
  \/ OpenInit(c) \/ OpenPowerCycle(c) \/ OpenFails(c)
  \/ OpenNoMemory(c) \/ OpenJoin(c)
  \/ RunPending(c)
  \/ SessionOpen(c) \/ Reserve(c) \/ ReserveRefused(c) \/ SessionInit(c)
  \/ SessionInitDone(c) \/ SessionInitTimeout(c) \/ SessionFail(c)
  \/ SessionRelease(c) \/ SessionOpenFailed(c)
  \/ StreamoffClose(c) \/ CloseFile(c) \/ SessionEnd(c) \/ SessionEndDone(c)
  \/ SessionEndTimeout(c) \/ SessionEndClear(c) \/ SessionEndRequest(c)
  \/ StreamoffDone(c)
  \/ CloseLeave(c) \/ ClosePcSchedule(c)

-----------------------------------------------------------------------------
(* iris_sys_error_handler().                                               *)

SysStart ==
  /\ work.sys
  /\ pc[SysWorker] = "idle"
  /\ work' = [work EXCEPT !.sys = FALSE]
  /\ Recover(SysWorker, "sysDrop")
  /\ UNCHANGED <<lock, core, deviceVars, irq, asleep, ret, instVars, faults>>

SysDrop ==
  /\ pc[SysWorker] = "sysDrop"
  /\ core' = [core EXCEPT !.pending = FALSE]
  /\ Goto(SysWorker, "idle")
  /\ UNCHANGED <<lock, deviceVars, envVars, cont, ret, instVars, faults>>

SysStep == CoreCall(SysWorker) \/ SysStart \/ SysDrop

-----------------------------------------------------------------------------
(* The threaded interrupt handler: iris_hfi_queue_msg_read() under the     *)
(* lock, then the handler of the message without it.                       *)

IrqRead ==
  /\ irq = "none"
  /\ Free
  /\ core.state = "INIT"
  /\ msgs # <<>>
  /\ irq' = Head(msgs)
  /\ msgs' = Tail(msgs)
  /\ UNCHANGED <<lock, core, hw, fw, work, asleep, callVars, instVars, faults>>

IrqInitDone ==
  /\ irq = "init_done"
  /\ core' = [core EXCEPT !.done = IF @ < MaxDone THEN @ + 1 ELSE @]
  /\ irq' = "none"
  /\ UNCHANGED <<lock, deviceVars, work, asleep, callVars, instVars, faults>>

(* Mutant of IrqCoreError: the core is not put in ERROR.                   *)
IrqCoreErrorKept ==
  /\ irq \in {"init_error", "sys_error"}
  /\ irq' = IF irq = "sys_error" THEN "mark" ELSE "none"
  /\ UNCHANGED <<lock, core, deviceVars, work, asleep, callVars, instVars,
                 faults>>

(* A refused SYS_INIT and HFI_EVENT_SYS_ERROR write the state unlocked.    *)
IrqCoreError ==
  /\ irq \in {"init_error", "sys_error"}
  /\ core' = [core EXCEPT !.state = "ERROR"]
  /\ irq' = IF irq = "sys_error" THEN "mark" ELSE "none"
  /\ UNCHANGED <<lock, deviceVars, work, asleep, callVars, instVars, faults>>

(* Put every instance in ERROR and schedule the recovery worker.           *)
IrqMark ==
  /\ irq = "mark"
  /\ Free
  /\ instState' = [c \in Clients |->
                     IF c \in instances THEN "ERROR" ELSE instState[c]]
  /\ core' = [core EXCEPT !.pending =
               @ \/ \E c \in instances : instState[c] # "ERROR"]
  /\ work' = [work EXCEPT !.sys = TRUE]
  /\ irq' = "none"
  /\ UNCHANGED <<lock, deviceVars, asleep, callVars, instances, opened,
                 faults>>

IrqStep == IrqRead \/ IrqInitDone \/ IrqCoreError \/ IrqMark

(* The firmware answers SYS_INIT, refuses it, or dies later.               *)
FwInit ==
  /\ fw.state = "sys_init"
  /\ FwRunning
  /\ \/ /\ fw' = [fw EXCEPT !.state = "ready"]
        /\ msgs' = Append(msgs, "init_done")
        /\ UNCHANGED faults
     \/ /\ Charge("init_error")
        /\ fw' = [fw EXCEPT !.state = "dead"]
        /\ msgs' = Append(msgs, "init_error")
  /\ UNCHANGED <<lock, core, hw, envVars, callVars, instVars>>

FwSysError ==
  /\ fw.state = "ready"
  /\ FwRunning
  /\ Charge("sys_error")
  /\ fw' = [fw EXCEPT !.state = "dead"]
  /\ msgs' = Append(msgs, "sys_error")
  /\ UNCHANGED <<lock, core, hw, envVars, callVars, instVars>>

-----------------------------------------------------------------------------
(* Idle power collapse.  The firmware may always turn out not to be idle;  *)
(* registers read while the VPU is unpowered can hold anything.            *)

MayCollapse ==
  fw.state = "ready" \/ (hw.refs < 1 /\ "unpowered_read" \in Events)

Collapse ==
  /\ MayCollapse
  /\ hw' = PowerOff(hw)
  /\ core' = [core EXCEPT !.suspended = TRUE]

Opening(c) == pc[c] # "idle" /\ instState[c] = "NONE"

PcStart ==
  /\ work.pc
  /\ work.run = "idle"
  /\ Timely => \A c \in Clients : ~Opening(c)
  /\ work' = [work EXCEPT !.pc = FALSE, !.run = "lock"]
  /\ UNCHANGED <<lock, core, deviceVars, irq, asleep, callVars, instVars,
                 faults>>

PcCollapse ==
  /\ work.run = "lock"
  /\ Free
  /\ ~core.suspended
  /\ instances = {}
  /\ Collapse
  /\ work' = [work EXCEPT !.run = "rearm"]
  /\ UNCHANGED <<lock, fw, msgs, irq, asleep, callVars, instVars, faults>>

PcSkip ==
  /\ work.run = "lock"
  /\ Free
  /\ work' = [work EXCEPT !.run = "rearm"]
  /\ UNCHANGED <<lock, core, deviceVars, irq, asleep, callVars, instVars,
                 faults>>

PcRearm ==
  /\ work.run = "rearm"
  /\ work' = [work EXCEPT !.pc = @ \/ (~core.suspended /\ instances = {}),
                          !.run = "idle"]
  /\ UNCHANGED <<lock, core, deviceVars, irq, asleep, callVars, instVars,
                 faults>>

PcStep == PcStart \/ PcCollapse \/ PcSkip \/ PcRearm

-----------------------------------------------------------------------------
(* System sleep: user processes are frozen outside system calls.           *)

Suspend ==
  /\ "sleep" \in Events
  /\ ~asleep
  /\ \A c \in Clients : pc[c] \in Parked
  /\ Free
  /\ asleep' = TRUE
  /\ \/ core.state = "INIT" /\ instances = {} /\ ~core.suspended /\ Collapse
     \/ UNCHANGED <<hw, core>>
  /\ UNCHANGED <<lock, fw, msgs, irq, work, callVars, instVars, faults>>

(* Mutant of Resume: the idle collapse is not scheduled again.             *)
ResumeUnarmed ==
  /\ asleep
  /\ Free
  /\ asleep' = FALSE
  /\ IF core.state = "INIT" /\ core.suspended
     THEN \/ /\ hw' = PowerOn(hw)
             /\ core' = [core EXCEPT !.suspended = FALSE]
             /\ UNCHANGED faults
          \/ /\ \E f \in WakeFaults : Charge(f) /\ hw' = AfterWakeFault(hw, f)
             /\ UNCHANGED core
     ELSE UNCHANGED <<hw, core, faults>>
  /\ UNCHANGED <<lock, fw, msgs, irq, work, callVars, instVars>>

Resume ==
  /\ asleep
  /\ Free
  /\ asleep' = FALSE
  /\ IF core.state = "INIT" /\ core.suspended
     THEN \/ /\ hw' = PowerOn(hw)
             /\ core' = [core EXCEPT !.suspended = FALSE]
             /\ work' = [work EXCEPT !.pc = @ \/ instances = {}]
             /\ UNCHANGED faults
          \/ /\ \E f \in WakeFaults : Charge(f) /\ hw' = AfterWakeFault(hw, f)
             /\ UNCHANGED <<core, work>>
     ELSE UNCHANGED <<hw, core, work, faults>>
  /\ UNCHANGED <<lock, fw, msgs, irq, callVars, instVars>>

-----------------------------------------------------------------------------
Next ==
  \/ \E c \in Clients : ~asleep /\ ClientStep(c)
  \/ SysStep
  \/ IrqStep
  \/ FwInit \/ FwSysError
  \/ \E c \in Clients : SessionError(c)
  \/ PcStep
  \/ Suspend \/ Resume

Spec == Init /\ [][Next]_vars

(* Work items, the interrupt thread and the firmware run; a system call    *)
(* that has begun goes on; a file is closed in the end, at the latest when *)
(* its process exits; the system wakes up again.                           *)
ClientProgress(c) == ~asleep /\ pc[c] \notin Parked /\ ClientStep(c)
ClientClose(c)    == ~asleep /\ CloseFile(c)

FairSpec ==
  /\ Spec
  /\ \A c \in Clients : SF_vars(ClientProgress(c)) /\ SF_vars(ClientClose(c))
  /\ SF_vars(SysStep) /\ SF_vars(PcStep) /\ SF_vars(IrqStep)
  /\ WF_vars(FwInit) /\ WF_vars(Resume)

-----------------------------------------------------------------------------
(* Properties.                                                             *)

SysMessages == {"init_done", "init_error", "sys_error"}

CoreType == [state: {"DEINIT", "INIT", "ERROR"}, suspended: BOOLEAN,
             pending: BOOLEAN, done: 0 .. MaxDone]
HwType   == [powered: BOOLEAN, refs: Int, table: BOOLEAN, regions: Int]
FwType   == [state: {"off", "booted", "sys_init", "ready", "dead"},
             wedged: BOOLEAN, sessions: SUBSET Clients, cmds: SUBSET Clients]
WorkType == [sys: BOOLEAN, pc: BOOLEAN, run: {"idle", "lock", "rearm"}]

(* Every variable keeps its type.                                          *)
TypeOK ==
  /\ lock \in Threads \cup {NoThread}
  /\ core \in CoreType
  /\ hw \in HwType
  /\ fw \in FwType
  /\ msgs \in Seq(SysMessages)
  /\ irq \in SysMessages \cup {"none", "mark"}
  /\ work \in WorkType
  /\ asleep \in BOOLEAN
  /\ pc \in [Threads -> Labels]
  /\ cont \in [Threads -> Labels]
  /\ ret \in [Threads -> {"ok", "err"}]
  /\ instances \in SUBSET Clients
  /\ opened \in SUBSET Clients
  /\ instState \in [Clients -> {"NONE", "DEINIT", "INIT", "ERROR"}]
  /\ faults \in 0 .. MaxFaults

(* iris_vpu_power_on() and iris_vpu_power_off() stay paired over boot,     *)
(* recovery, idle collapse and system sleep, whatever step fails: no       *)
(* genpd or clock reference is leaked or dropped twice.                    *)
PowerBalanced == hw.refs \in 0 .. 1 /\ (hw.refs = 1 => hw.powered)

(* IRIS_CORE_DEINIT means that nothing is held: iris_core_deinit() trusts  *)
(* it to return early, iris_core_init() to boot from scratch.              *)
DeinitHoldsNothing ==
  core.state = "DEINIT" =>
    /\ hw.refs = 0
    /\ hw.regions = 0
    /\ fw.state = "off"
    /\ ~core.suspended

(* iris_hfi_session_open() and _close() keep to max_session_count, and     *)
(* only files on the list of instances hold a session, since               *)
(* iris_run_pending_core_recovery() looks for sessions nowhere else.       *)
AdmissionBound ==
  /\ Cardinality(opened) <= MaxSessions
  /\ opened \subseteq instances

(* A firmware that refuses every SESSION_INIT is never forgotten: recovery *)
(* is pending, under way, or about to be asked for.                        *)
WedgeRemembered ==
  fw.wedged =>
    \/ core.pending
    \/ core.state # "INIT"
    \/ \E t \in Threads : pc[t] \in {"deinitCheck", "deinit"}
    \/ \E c \in Clients : pc[c] \in {"sessFail", "endClear", "endRequest"}

(* The VPU is not collapsed while a file is open, whatever the idle worker *)
(* and the sleep callbacks do.                                             *)
VpuAwake == instances # {} => ~core.suspended

(* An idle, powered core always has its idle collapse scheduled.           *)
IdleArmed ==
  /\ core.state = "INIT"
  /\ instances = {}
  /\ ~core.suspended
  /\ \A t \in Threads : pc[t] = "idle"
  => work.pc \/ work.run # "idle"

(* When the firmware has died on a core that counts as initialised, the    *)
(* message that says so is still on its way through the interrupt thread.  *)
DeathReported ==
  fw.state = "dead" /\ core.state = "INIT" =>
    \/ irq \in {"init_error", "sys_error"}
    \/ \E i \in 1 .. Len(msgs) : msgs[i] \in {"init_error", "sys_error"}

(* iris_run_pending_core_recovery() power-cycles the core only when no     *)
(* session is open.                                                        *)
RecoverOnlyIdle ==
  [][\A c \in Clients :
       /\ pc[c] = "deinit" /\ pc'[c] = "init"
       /\ cont[c] \in {"reserve", "pcSchedule"}
       => opened = {}]_vars

(* A core in ERROR is left by power-cycling it, with nothing held back.    *)
ErrorPowerCycled ==
  [][core.state = "ERROR" /\ core'.state = "DEINIT"
       => hw'.refs = 0 /\ hw'.regions = 0]_vars

(* A recovery that has been asked for is run.                              *)
RecoveryRuns == core.pending ~> ~core.pending

(* No system call waits for ever, and a file is closed in the end.         *)
ClientsFinish == \A c \in Clients : pc[c] # "idle" ~> pc[c] = "idle"

=============================================================================
