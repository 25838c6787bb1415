--------------------------- MODULE IrisCoreProofs ---------------------------
(***************************************************************************)
(* What holds of IrisCore for every number of clients, sessions, faults    *)
(* and events, and whether or not its threads are timely.  The theorems    *)
(* on power - balance, collapse, the memory of a wedged firmware - name    *)
(* the events that are left out: the ones with which they do not hold.     *)
(***************************************************************************)
EXTENDS IrisCore, FiniteSetTheorems, TLAPS

(* Powering and allocating keep the type of hw, failed or not.             *)
LEMMA HwOps ==
  ASSUME NEW h \in HwType
  PROVE  /\ PowerOn(h) \in HwType
         /\ PowerOnFail(h) \in HwType
         /\ PowerOff(h) \in HwType
         /\ QueuesInit(h) \in HwType
         /\ QueuesDeinit(h) \in HwType
  <1>1. \A r \in Int :
          /\ [[h EXCEPT !.powered = TRUE] EXCEPT !.refs = r] \in HwType
          /\ [[h EXCEPT !.powered = FALSE] EXCEPT !.refs = r] \in HwType
          /\ [[h EXCEPT !.table = TRUE] EXCEPT !.regions = r] \in HwType
          /\ [[h EXCEPT !.table = FALSE] EXCEPT !.regions = r] \in HwType
    BY DEF HwType
  <1>2. /\ h.refs + 1 \in Int /\ h.refs - 1 \in Int
        /\ h.regions + 1 \in Int /\ h.regions - 1 \in Int
    BY DEF HwType
  <1>3. PowerOnFail(h) \in HwType
    BY DEF PowerOnFail, HwType
  <1>4. QED
    BY <1>1, <1>2, <1>3 DEF PowerOn, PowerOff, QueuesInit, QueuesDeinit, HwType

(* What a failed boot or wake-up leaves is of the type of hw.              *)
LEMMA HwFaults ==
  ASSUME NEW h \in HwType
  PROVE  /\ \A f \in BootFaults : AfterBootFault(h, f) \in HwType
         /\ \A f \in WakeFaults : AfterWakeFault(h, f) \in HwType
  <1>1. /\ [h EXCEPT !.table = FALSE] \in HwType
        /\ [h EXCEPT !.table = TRUE] \in HwType
    BY DEF HwType
  <1>2. QED
    BY <1>1, HwOps DEF BootFaults, WakeFaults, AfterBootFault, AfterWakeFault

(* A firmware that is off or has just booted is well-formed.               *)
LEMMA FwReset ==
  ASSUME NEW s \in {"off", "booted"}
  PROVE  Firmware(s) \in FwType
  BY DEF Firmware, FwType

(* iris_core_deinit() and iris_core_init() keep every variable's type.     *)
LEMMA CoreCallKeepsType ==
  ASSUME TypeOK, NEW t \in Threads, CoreCall(t)
  PROVE  TypeOK'
  <1> USE DEF Goto, Call, Return, Charge, envVars, instVars, deviceVars
  <1>1. CASE DeinitCheck(t)
    BY <1>1 DEF DeinitCheck, TypeOK, Labels
  <1>2. CASE Deinit(t)
    <2>1. core' \in CoreType /\ work' \in WorkType
      BY <1>2 DEF Deinit, TypeOK, CoreType, WorkType
    <2>2. hw' \in HwType /\ fw' \in FwType
      BY <1>2, HwOps, FwReset DEF Deinit, TypeOK
    <2>3. QED
      BY <1>2, <2>1, <2>2 DEF Deinit, TypeOK, Labels
  <1>3. CASE InitAlready(t)
    BY <1>3 DEF InitAlready, TypeOK, Labels
  <1>4. CASE InitRefused(t)
    <2>1. core' \in CoreType
      BY <1>4, CoreAssumption DEF InitRefused, TypeOK, CoreType
    <2>2. QED
      BY <1>4, <2>1, CoreAssumption DEF InitRefused, TypeOK
  <1>5. CASE InitFails(t)
    <2>1. hw' \in HwType /\ fw' \in FwType
      BY <1>5, HwFaults, FwReset DEF InitFails, TypeOK
    <2>2. faults' \in 0 .. MaxFaults
      BY <1>5, CoreAssumption DEF InitFails, TypeOK
    <2>3. QED
      BY <1>5, <2>1, <2>2 DEF InitFails, TypeOK
  <1>6. CASE InitBoot(t)
    <2>1. core' \in CoreType
      BY <1>6 DEF InitBoot, TypeOK, CoreType
    <2>2. hw' \in HwType /\ fw' \in FwType
      BY <1>6, HwOps, FwReset DEF InitBoot, TypeOK
    <2>3. QED
      BY <1>6, <2>1, <2>2 DEF InitBoot, TypeOK, Labels
  <1>7. CASE InitSend(t)
    <2>1. fw' \in FwType
      BY <1>7 DEF InitSend, TypeOK, FwType
    <2>2. QED
      BY <1>7, <2>1 DEF InitSend, TypeOK, Labels
  <1>8. CASE InitAbort(t)
    <2>1. core' \in CoreType
      BY <1>8 DEF InitAbort, TypeOK, CoreType
    <2>2. hw' \in HwType /\ fw' \in FwType
      BY <1>8, HwOps, FwReset DEF InitAbort, TypeOK
    <2>3. QED
      BY <1>8, <2>1, <2>2 DEF InitAbort, TypeOK, Labels
  <1>9. CASE InitCheck(t)
    BY <1>9 DEF InitCheck, TypeOK, Labels
  <1>10. CASE InitAnswered(t)
    <2>1. core.done - 1 \in 0 .. MaxDone
      BY <1>10, CoreAssumption DEF InitAnswered, TypeOK, CoreType
    <2>2. core' \in CoreType
      BY <1>10, <2>1 DEF InitAnswered, TypeOK, CoreType
    <2>3. QED
      BY <1>10, <2>2 DEF InitAnswered, TypeOK
  <1>11. CASE InitTimeout(t)
    <2>1. core' \in CoreType
      BY <1>11, CoreAssumption DEF InitTimeout, TypeOK, CoreType
    <2>2. QED
      BY <1>11, <2>1, CoreAssumption DEF InitTimeout, TypeOK
  <1>12. QED
    BY <1>1, <1>2, <1>3, <1>4, <1>5, <1>6, <1>7, <1>8, <1>9, <1>10, <1>11 DEF CoreCall

(* A session command that is not answered leaves the firmware well-formed. *)
LEMMA UnansweredKeepsType ==
  ASSUME TypeOK, NEW c \in Clients, NEW w, Unanswered(c, w)
  PROVE  fw' \in FwType /\ faults' \in 0 .. MaxFaults
  <1>1. /\ [fw EXCEPT !.cmds = @ \ {c}, !.wedged = TRUE] \in FwType
        /\ [fw EXCEPT !.cmds = @ \ {c}] \in FwType
    BY DEF TypeOK, FwType
  <1>2. fw' \in FwType
    BY <1>1 DEF Unanswered
  <1>3. faults' \in 0 .. MaxFaults
    BY CoreAssumption DEF Unanswered, Charge, TypeOK
  <1>4. QED
    BY <1>2, <1>3

(* iris_open() keeps every variable's type.                                *)
LEMMA OpenKeepsType ==
  ASSUME TypeOK, NEW c \in Clients,
         OpenCancel(c) \/ OpenWake(c) \/ OpenWakeFails(c) \/ OpenRestart(c)
         \/ OpenInit(c) \/ OpenPowerCycle(c) \/ OpenFails(c) \/
         OpenNoMemory(c) \/ OpenJoin(c) \/ RunPending(c)
  PROVE  TypeOK'
  <1> USE DEF Threads, Goto, Call, Return, Charge, Recover,
             deviceVars, envVars, callVars, instVars
  <1>1. CASE OpenCancel(c)
    <2>1. work' \in WorkType
      BY <1>1 DEF OpenCancel, TypeOK, WorkType
    <2>2. QED
      BY <1>1, <2>1 DEF OpenCancel, TypeOK, Labels, Parked
  <1>2. CASE OpenWake(c)
    <2>1. core' \in CoreType
      BY <1>2 DEF OpenWake, TypeOK, CoreType
    <2>2. hw' \in HwType
      BY <1>2, HwOps DEF OpenWake, TypeOK
    <2>3. QED
      BY <1>2, <2>1, <2>2 DEF OpenWake, TypeOK, Labels, Parked
  <1>3. CASE OpenWakeFails(c)
    <2>1. hw' \in HwType
      BY <1>3, HwOps, HwFaults DEF OpenWakeFails, TypeOK
    <2>2. faults' \in 0 .. MaxFaults
      BY <1>3, CoreAssumption DEF OpenWakeFails, TypeOK
    <2>3. QED
      BY <1>3, <2>1, <2>2 DEF OpenWakeFails, TypeOK, Labels, Parked
  <1>4. CASE OpenRestart(c)
    <2>1. core' \in CoreType
      BY <1>4 DEF OpenRestart, TypeOK, CoreType
    <2>2. QED
      BY <1>4, <2>1 DEF OpenRestart, TypeOK, Labels, Parked
  <1>5. CASE OpenInit(c)
    BY <1>5 DEF OpenInit, TypeOK, Labels, Parked
  <1>6. CASE OpenPowerCycle(c)
    <2>1. core' \in CoreType
      BY <1>6 DEF OpenPowerCycle, TypeOK, CoreType
    <2>2. QED
      BY <1>6, <2>1 DEF OpenPowerCycle, TypeOK, Labels, Parked
  <1>7. CASE OpenFails(c)
    BY <1>7 DEF OpenFails, TypeOK, Labels, Parked
  <1>8. CASE OpenNoMemory(c)
    <2>1. faults' \in 0 .. MaxFaults
      BY <1>8, CoreAssumption DEF OpenNoMemory, TypeOK
    <2>2. QED
      BY <1>8, <2>1 DEF OpenNoMemory, TypeOK, Labels, Parked
  <1>9. CASE OpenJoin(c)
    BY <1>9 DEF OpenJoin, TypeOK, Labels, Parked
  <1>10. CASE RunPending(c)
    <2>1. core' \in CoreType
      BY <1>10 DEF RunPending, TypeOK, CoreType
    <2>2. QED
      BY <1>10, <2>1 DEF RunPending, TypeOK, Labels, Parked
  <1>11. QED
    BY <1>1, <1>2, <1>3, <1>4, <1>5, <1>6, <1>7, <1>8, <1>9, <1>10

(* iris_hfi_session_open() keeps every variable's type.                    *)
LEMMA SessionOpenKeepsType ==
  ASSUME TypeOK, NEW c \in Clients,
         SessionOpen(c) \/ Reserve(c) \/ ReserveRefused(c) \/ SessionInit(c)
         \/ SessionInitDone(c) \/ SessionInitTimeout(c) \/
         SessionFail(c) \/ SessionRelease(c) \/ SessionOpenFailed(c)
  PROVE  TypeOK'
  <1> USE DEF Threads, Goto, Call, Return, Charge, Recover,
             deviceVars, envVars, callVars, instVars
  <1>1. CASE SessionOpen(c)
    BY <1>1 DEF SessionOpen, TypeOK, Labels, Parked
  <1>2. CASE Reserve(c)
    BY <1>2 DEF Reserve, TypeOK, Labels, Parked
  <1>3. CASE ReserveRefused(c)
    BY <1>3 DEF ReserveRefused, TypeOK, Labels, Parked
  <1>4. CASE SessionInit(c)
    <2>1. fw' \in FwType
      BY <1>4 DEF SessionInit, TypeOK, FwType
    <2>2. QED
      BY <1>4, <2>1 DEF SessionInit, TypeOK, Labels, Parked
  <1>5. CASE SessionInitDone(c)
    <2>1. fw' \in FwType
      BY <1>5 DEF SessionInitDone, TypeOK, FwType
    <2>2. QED
      BY <1>5, <2>1 DEF SessionInitDone, TypeOK, Labels, Parked
  <1>6. CASE SessionInitTimeout(c)
    <2>1. fw' \in FwType /\ faults' \in 0 .. MaxFaults
      BY <1>6, UnansweredKeepsType DEF SessionInitTimeout
    <2>2. core' \in CoreType
      BY <1>6 DEF SessionInitTimeout, ToError, TypeOK, CoreType
    <2>3. QED
      BY <1>6, <2>1, <2>2 DEF SessionInitTimeout, ToError, TypeOK, Labels, Parked
  <1>7. CASE SessionFail(c)
    <2>1. core' \in CoreType
      BY <1>7 DEF SessionFail, TypeOK, CoreType
    <2>2. QED
      BY <1>7, <2>1 DEF SessionFail, TypeOK, Labels, Parked
  <1>8. CASE SessionRelease(c)
    BY <1>8 DEF SessionRelease, TypeOK, Labels, Parked
  <1>9. CASE SessionOpenFailed(c)
    <2>1. core' \in CoreType
      BY <1>9 DEF SessionOpenFailed, ToError, TypeOK, CoreType
    <2>2. QED
      BY <1>9, <2>1 DEF SessionOpenFailed, ToError, TypeOK, Labels, Parked
  <1>10. QED
    BY <1>1, <1>2, <1>3, <1>4, <1>5, <1>6, <1>7, <1>8, <1>9

(* iris_hfi_session_close() and iris_close() keep every variable's type.   *)
LEMMA CloseKeepsType ==
  ASSUME TypeOK, NEW c \in Clients,
         StreamoffClose(c) \/ CloseFile(c) \/ SessionEnd(c) \/
         SessionEndDone(c) \/ SessionEndTimeout(c) \/
         SessionEndClear(c) \/ SessionEndRequest(c) \/ StreamoffDone(c) \/
         CloseLeave(c) \/ ClosePcSchedule(c)
  PROVE  TypeOK'
  <1> USE DEF Threads, Goto, Call, Return, Charge, Recover,
             deviceVars, envVars, callVars, instVars
  <1>1. CASE StreamoffClose(c)
    BY <1>1 DEF StreamoffClose, TypeOK, Labels, Parked
  <1>2. CASE CloseFile(c)
    BY <1>2 DEF CloseFile, TypeOK, Labels, Parked
  <1>3. CASE SessionEnd(c)
    <2>1. fw' \in FwType
      BY <1>3 DEF SessionEnd, TypeOK, FwType
    <2>2. QED
      BY <1>3, <2>1 DEF SessionEnd, TypeOK, Labels, Parked
  <1>4. CASE SessionEndDone(c)
    <2>1. fw' \in FwType
      BY <1>4 DEF SessionEndDone, TypeOK, FwType
    <2>2. QED
      BY <1>4, <2>1 DEF SessionEndDone, TypeOK, Labels, Parked
  <1>5. CASE SessionEndTimeout(c)
    <2>1. fw' \in FwType /\ faults' \in 0 .. MaxFaults
      BY <1>5, UnansweredKeepsType DEF SessionEndTimeout
    <2>2. core' \in CoreType
      BY <1>5 DEF SessionEndTimeout, ToError, TypeOK, CoreType
    <2>3. QED
      BY <1>5, <2>1, <2>2 DEF SessionEndTimeout, ToError, TypeOK, Labels, Parked
  <1>6. CASE SessionEndClear(c)
    BY <1>6 DEF SessionEndClear, TypeOK, Labels, Parked
  <1>7. CASE SessionEndRequest(c)
    <2>1. core' \in CoreType
      BY <1>7 DEF SessionEndRequest, TypeOK, CoreType
    <2>2. QED
      BY <1>7, <2>1 DEF SessionEndRequest, TypeOK, Labels, Parked
  <1>8. CASE CloseLeave(c)
    BY <1>8 DEF CloseLeave, TypeOK, Labels, Parked
  <1>9. CASE ClosePcSchedule(c)
    <2>1. work' \in WorkType
      BY <1>9 DEF ClosePcSchedule, TypeOK, WorkType
    <2>2. QED
      BY <1>9, <2>1 DEF ClosePcSchedule, TypeOK, Labels, Parked
  <1>10. CASE StreamoffDone(c)
    <2>1. core' \in CoreType
      BY <1>10 DEF StreamoffDone, ToError, TypeOK, CoreType
    <2>2. QED
      BY <1>10, <2>1 DEF StreamoffDone, ToError, TypeOK, Labels, Parked
  <1>11. QED
    BY <1>1, <1>2, <1>3, <1>4, <1>5, <1>6, <1>7, <1>8, <1>9, <1>10

(* The recovery worker, the interrupt thread and the firmware keep every   *)
(* variable's type.                                                        *)
LEMMA SystemKeepsType ==
  ASSUME TypeOK,
         SysStart \/ SysDrop \/ IrqRead \/ IrqInitDone \/ IrqCoreError \/
         IrqMark \/ FwInit \/ FwSysError
  PROVE  TypeOK'
  <1> USE DEF Threads, Goto, Call, Return, Charge, Recover,
             deviceVars, envVars, callVars, instVars
  <1>1. CASE SysStart
    <2>1. work' \in WorkType
      BY <1>1 DEF SysStart, TypeOK, WorkType
    <2>2. QED
      BY <1>1, <2>1 DEF SysStart, TypeOK, Labels, Parked
  <1>2. CASE SysDrop
    <2>1. core' \in CoreType
      BY <1>2 DEF SysDrop, TypeOK, CoreType
    <2>2. QED
      BY <1>2, <2>1 DEF SysDrop, TypeOK, Labels, Parked
  <1>3. CASE IrqRead
    <2>1. Head(msgs) \in SysMessages /\ Tail(msgs) \in Seq(SysMessages)
      BY <1>3 DEF IrqRead, TypeOK
    <2>2. irq' \in SysMessages /\ msgs' \in Seq(SysMessages)
      BY <1>3, <2>1 DEF IrqRead
    <2>3. QED
      BY <1>3, <2>2 DEF IrqRead, TypeOK
  <1>4. CASE IrqInitDone
    <2>1. core.done \in Int
          /\ (core.done < MaxDone => core.done + 1 \in 0 .. MaxDone)
      BY CoreAssumption DEF TypeOK, CoreType
    <2>2. core' \in CoreType
      BY <1>4, <2>1 DEF IrqInitDone, TypeOK, CoreType
    <2>3. QED
      BY <1>4, <2>2 DEF IrqInitDone, TypeOK
  <1>5. CASE IrqCoreError
    <2>1. core' \in CoreType
      BY <1>5 DEF IrqCoreError, TypeOK, CoreType
    <2>2. QED
      BY <1>5, <2>1 DEF IrqCoreError, TypeOK, Labels, Parked
  <1>6. CASE IrqMark
    <2>1. core' \in CoreType
      BY <1>6 DEF IrqMark, TypeOK, CoreType
    <2>2. work' \in WorkType
      BY <1>6 DEF IrqMark, TypeOK, WorkType
    <2>3. QED
      BY <1>6, <2>1, <2>2 DEF IrqMark, TypeOK, Labels, Parked
  <1>7. CASE FwInit
    <2>1. fw' \in FwType
      BY <1>7 DEF FwInit, TypeOK, FwType
    <2>2. \A m \in SysMessages : Append(msgs, m) \in Seq(SysMessages)
      BY DEF TypeOK
    <2>3. faults' \in 0 .. MaxFaults
      BY <1>7, CoreAssumption DEF FwInit, TypeOK
    <2>4. QED
      BY <1>7, <2>1, <2>2, <2>3 DEF FwInit, TypeOK, SysMessages
  <1>8. CASE FwSysError
    <2>1. fw' \in FwType
      BY <1>8 DEF FwSysError, TypeOK, FwType
    <2>2. faults' \in 0 .. MaxFaults
      BY <1>8, CoreAssumption DEF FwSysError, TypeOK
    <2>3. QED
      BY <1>8, <2>1, <2>2 DEF FwSysError, TypeOK, Labels, Parked, SysMessages
  <1>9. QED
    BY <1>1, <1>2, <1>3, <1>4, <1>5, <1>6, <1>7, <1>8

(* HFI_EVENT_SESSION_ERROR keeps every variable's type.                    *)
LEMMA SessionErrorKeepsType ==
  ASSUME TypeOK, NEW c \in Clients, SessionError(c)
  PROVE  TypeOK'
  <1> USE DEF Charge, callVars, envVars
  <1>1. fw' \in FwType
    BY DEF SessionError, TypeOK, FwType
  <1>2. core' \in CoreType
    BY DEF SessionError, TypeOK, CoreType
  <1>3. faults' \in 0 .. MaxFaults
    BY CoreAssumption DEF SessionError, TypeOK
  <1>4. QED
    BY <1>1, <1>2, <1>3 DEF SessionError, TypeOK

(* Idle collapse and system sleep keep every variable's type.              *)
LEMMA PowerKeepsType ==
  ASSUME TypeOK,
         PcStart \/ PcCollapse \/ PcSkip \/ PcRearm \/ Suspend \/ Resume
  PROVE  TypeOK'
  <1> USE DEF Goto, Call, Return, Charge, Recover,
             deviceVars, envVars, callVars, instVars
  <1>1. CASE PcStart
    <2>1. work' \in WorkType
      BY <1>1 DEF PcStart, TypeOK, WorkType
    <2>2. QED
      BY <1>1, <2>1 DEF PcStart, TypeOK, Labels, Parked
  <1>2. CASE PcCollapse
    <2>1. work' \in WorkType
      BY <1>2 DEF PcCollapse, Collapse, TypeOK, WorkType
    <2>2. core' \in CoreType
      BY <1>2 DEF PcCollapse, Collapse, TypeOK, CoreType
    <2>3. hw' \in HwType
      BY <1>2, HwOps DEF PcCollapse, Collapse, TypeOK
    <2>4. QED
      BY <1>2, <2>1, <2>2, <2>3 DEF PcCollapse, Collapse, TypeOK, Labels, Parked
  <1>3. CASE PcSkip
    <2>1. work' \in WorkType
      BY <1>3 DEF PcSkip, TypeOK, WorkType
    <2>2. QED
      BY <1>3, <2>1 DEF PcSkip, TypeOK, Labels, Parked
  <1>4. CASE PcRearm
    <2>1. work' \in WorkType
      BY <1>4 DEF PcRearm, TypeOK, WorkType
    <2>2. QED
      BY <1>4, <2>1 DEF PcRearm, TypeOK, Labels, Parked
  <1>5. CASE Suspend
    <2>1. core' \in CoreType
      BY <1>5 DEF Suspend, Collapse, TypeOK, CoreType
    <2>2. hw' \in HwType
      BY <1>5, HwOps DEF Suspend, Collapse, TypeOK
    <2>3. QED
      BY <1>5, <2>1, <2>2 DEF Suspend, Collapse, TypeOK, Labels, Parked
  <1>6. CASE Resume
    <2>1. core' \in CoreType
      BY <1>6 DEF Resume, TypeOK, CoreType
    <2>2. hw' \in HwType
      BY <1>6, HwOps, HwFaults DEF Resume, TypeOK
    <2>3. work' \in WorkType
      BY <1>6 DEF Resume, TypeOK, WorkType
    <2>4. faults' \in 0 .. MaxFaults
      BY <1>6, CoreAssumption DEF Resume, TypeOK
    <2>5. QED
      BY <1>6, <2>1, <2>2, <2>3, <2>4 DEF Resume, TypeOK, Labels, Parked
  <1>7. QED
    BY <1>1, <1>2, <1>3, <1>4, <1>5, <1>6

(* Every variable keeps its type, whatever fails and however the threads   *)
(* interleave: core->lock included, no thread loses its place.             *)
THEOREM TypeCorrect == Spec => []TypeOK
  <1>1. Init => TypeOK
    <2> SUFFICES ASSUME Init PROVE TypeOK
      OBVIOUS
    <2>1. core \in CoreType /\ hw \in HwType /\ work \in WorkType
      BY CoreAssumption DEF Init, CoreType, HwType, WorkType
    <2>2. fw \in FwType
      BY FwReset DEF Init
    <2>3. msgs \in Seq(SysMessages)
      BY DEF Init
    <2>4. /\ pc \in [Threads -> Labels] /\ cont \in [Threads -> Labels]
          /\ ret \in [Threads -> {"ok", "err"}]
          /\ instState \in [Clients -> {"NONE", "DEINIT", "INIT", "ERROR"}]
      BY DEF Init, Labels, Parked
    <2>5. faults \in 0 .. MaxFaults
      BY CoreAssumption DEF Init
    <2>6. QED
      BY <2>1, <2>2, <2>3, <2>4, <2>5 DEF Init, TypeOK
  <1>2. TypeOK /\ [Next]_vars => TypeOK'
    <2> SUFFICES ASSUME TypeOK, [Next]_vars
                 PROVE  TypeOK'
      OBVIOUS
    <2>1. ASSUME NEW c \in Clients, ClientStep(c)
          PROVE  TypeOK'
      <3>1. c \in Threads
        BY DEF Threads
      <3>2. QED
        BY <2>1, <3>1, CoreCallKeepsType, OpenKeepsType,
           SessionOpenKeepsType, CloseKeepsType DEF ClientStep
    <2>2. CASE SysStep
      <3>1. SysWorker \in Threads
        BY DEF Threads
      <3>2. QED
        BY <2>2, <3>1, CoreCallKeepsType, SystemKeepsType DEF SysStep
    <2>3. CASE IrqStep \/ FwInit \/ FwSysError
      BY <2>3, SystemKeepsType DEF IrqStep
    <2>4. ASSUME NEW c \in Clients, SessionError(c)
          PROVE  TypeOK'
      BY <2>4, SessionErrorKeepsType
    <2>5. CASE PcStep \/ Suspend \/ Resume
      BY <2>5, PowerKeepsType DEF PcStep
    <2>6. CASE UNCHANGED vars
      BY <2>6 DEF vars, deviceVars, envVars, callVars, instVars, TypeOK
    <2>7. QED
      BY <2>1, <2>2, <2>3, <2>4, <2>5, <2>6 DEF Next
  <1>3. QED
    BY <1>1, <1>2, PTL DEF Spec

-----------------------------------------------------------------------------
(* Where a client can be while it holds a session, and while it is on the  *)
(* list of instances; where a call may return to.  This makes              *)
(* AdmissionBound inductive.                                               *)
InCall  == {"deinitCheck", "deinit", "init", "initSend", "initCheck",
            "initWait", "runPending"}
Ending  == {"sessClose", "endWait", "endWaitErr", "endClear"}
Holding == Ending \cup {"sessInit", "sessWait", "sessFail", "release",
                        "active"}
Joined  == Holding \cup {"open", "reserve", "openFailed", "endRequest",
                         "stopped", "leave"}

SessionLabels ==
  \A c \in Clients :
    /\ pc[c] \in Joined => c \in instances
    /\ pc[c] \in InCall /\ cont[c] = "reserve" => c \in instances
    /\ c \in opened => pc[c] \in Holding
    /\ pc[c] \in InCall =>
         cont[c] \in {"openInit", "openCheck", "openDone", "reserve",
                      "pcSchedule"}
    /\ pc[c] \in Ending \cup {"endRequest"} => cont[c] \in {"stopped", "leave"}

(* iris_core_deinit() and iris_core_init() keep the labels.                *)
LEMMA CoreCallKeepsSessions ==
  ASSUME TypeOK, SessionLabels, NEW t \in Threads, CoreCall(t)
  PROVE  SessionLabels' /\ UNCHANGED <<opened, instances>>
  <1>1. UNCHANGED <<opened, instances>>
    BY DEF CoreCall, DeinitCheck, Deinit, InitAlready, InitRefused, InitFails,
       InitBoot, InitSend, InitAbort, InitCheck, InitAnswered, InitTimeout,
       instVars
  <1>2. UNCHANGED cont
    BY DEF CoreCall, DeinitCheck, Deinit, InitAlready, InitRefused, InitFails,
       InitBoot, InitSend, InitAbort, InitCheck, InitAnswered, InitTimeout
  <1>3. /\ pc[t] \in InCall
        /\ \E l \in InCall \cup {cont[t]} : pc' = [pc EXCEPT ![t] = l]
    BY DEF CoreCall, DeinitCheck, Deinit, InitAlready, InitRefused, InitFails,
       InitBoot, InitSend, InitAbort, InitCheck, InitAnswered, InitTimeout,
       Goto, Return, InCall
  <1>4. QED
    BY <1>1, <1>2, <1>3 DEF TypeOK, SessionLabels, InCall, Ending, Holding,
       Joined, Threads

(* A client's step between calls of iris_core_init() keeps the labels.     *)
LEMMA ClientKeepsSessions ==
  ASSUME TypeOK, SessionLabels, NEW c \in Clients, ClientStep(c),
         ~CoreCall(c)
  PROVE  SessionLabels'
  <1> USE DEF TypeOK, SessionLabels, InCall, Ending, Holding, Joined, Threads,
              Goto, Call, Return, Recover, envVars, callVars, instVars
  <1>1. CASE OpenCancel(c)
    BY <1>1 DEF OpenCancel
  <1>2. CASE OpenWake(c)
    BY <1>2 DEF OpenWake
  <1>3. CASE OpenWakeFails(c)
    BY <1>3 DEF OpenWakeFails
  <1>4. CASE OpenRestart(c)
    BY <1>4 DEF OpenRestart
  <1>5. CASE OpenInit(c)
    BY <1>5 DEF OpenInit
  <1>6. CASE OpenPowerCycle(c)
    BY <1>6 DEF OpenPowerCycle
  <1>7. CASE OpenFails(c)
    BY <1>7 DEF OpenFails
  <1>8. CASE OpenNoMemory(c)
    BY <1>8 DEF OpenNoMemory
  <1>9. CASE OpenJoin(c)
    BY <1>9 DEF OpenJoin
  <1>10. CASE RunPending(c)
    BY <1>10 DEF RunPending
  <1>11. CASE SessionOpen(c)
    BY <1>11 DEF SessionOpen
  <1>12. CASE Reserve(c)
    BY <1>12 DEF Reserve
  <1>13. CASE ReserveRefused(c)
    BY <1>13 DEF ReserveRefused
  <1>14. CASE SessionInit(c)
    BY <1>14 DEF SessionInit
  <1>15. CASE SessionInitDone(c)
    BY <1>15 DEF SessionInitDone
  <1>16. CASE SessionInitTimeout(c)
    BY <1>16 DEF SessionInitTimeout
  <1>17. CASE SessionFail(c)
    BY <1>17 DEF SessionFail
  <1>18. CASE SessionRelease(c)
    BY <1>18 DEF SessionRelease
  <1>19. CASE SessionOpenFailed(c)
    BY <1>19 DEF SessionOpenFailed
  <1>20. CASE StreamoffClose(c)
    BY <1>20 DEF StreamoffClose
  <1>21. CASE CloseFile(c)
    BY <1>21 DEF CloseFile
  <1>22. CASE SessionEnd(c)
    BY <1>22 DEF SessionEnd
  <1>23. CASE SessionEndDone(c)
    BY <1>23 DEF SessionEndDone
  <1>24. CASE SessionEndTimeout(c)
    BY <1>24 DEF SessionEndTimeout
  <1>25. CASE SessionEndClear(c)
    BY <1>25 DEF SessionEndClear
  <1>26. CASE SessionEndRequest(c)
    BY <1>26 DEF SessionEndRequest
  <1>27. CASE CloseLeave(c)
    BY <1>27 DEF CloseLeave
  <1>28. CASE ClosePcSchedule(c)
    BY <1>28 DEF ClosePcSchedule
  <1>29. CASE StreamoffDone(c)
    BY <1>29 DEF StreamoffDone, ToError
  <1>30. QED
    BY <1>1, <1>2, <1>3, <1>4, <1>5, <1>6, <1>7, <1>8, <1>9, <1>10, <1>11,
       <1>12, <1>13, <1>14, <1>15, <1>16, <1>17, <1>18, <1>19, <1>20, <1>21,
       <1>22, <1>23, <1>24, <1>25, <1>26, <1>27, <1>28, <1>29 DEF ClientStep

(* The other threads keep the labels: they do not move the clients.        *)
LEMMA SystemKeepsSessions ==
  ASSUME TypeOK, SessionLabels,
         \/ SysStart \/ SysDrop \/ IrqStep \/ FwInit \/ FwSysError
         \/ PcStep \/ Suspend \/ Resume
         \/ \E c \in Clients : SessionError(c)
         \/ UNCHANGED vars
  PROVE  SessionLabels' /\ UNCHANGED <<opened, instances>>
  <1> USE DEF Goto, Call, Recover, envVars, callVars, instVars
  <1>1. CASE SysStart \/ SysDrop
    <2>1. /\ UNCHANGED <<opened, instances>>
          /\ \A c \in Clients : pc'[c] = pc[c] /\ cont'[c] = cont[c]
      BY <1>1, CoreAssumption DEF SysStart, SysDrop, TypeOK, Threads
    <2>2. QED
      BY <2>1 DEF SessionLabels
  <1>2. CASE ~(SysStart \/ SysDrop)
    <2>1. UNCHANGED <<pc, cont, opened, instances>>
      BY <1>2 DEF IrqStep, IrqRead, IrqInitDone, IrqCoreError, IrqMark,
         FwInit, FwSysError, PcStep, PcStart, PcCollapse, PcSkip, PcRearm,
         Suspend, Resume, SessionError, vars
    <2>2. QED
      BY <2>1 DEF SessionLabels
  <1>3. QED
    BY <1>1, <1>2

(* Only Reserve() hands out a session, and it counts first.                *)
LEMMA SessionsCounted ==
  ASSUME NEW c \in Clients, ClientStep(c), ~CoreCall(c)
  PROVE  \/ opened' \subseteq opened
         \/ Cardinality(opened) < MaxSessions /\ opened' = opened \cup {c}
  <1> USE DEF instVars
  <1>1. CASE Reserve(c)
    BY <1>1 DEF Reserve
  <1>2. CASE SessionRelease(c) \/ SessionEndClear(c)
    BY <1>2 DEF SessionRelease, SessionEndClear
  <1>3. CASE ~(Reserve(c) \/ SessionRelease(c) \/ SessionEndClear(c))
    <2>1. UNCHANGED opened
      BY <1>3 DEF ClientStep, OpenCancel, OpenWake, OpenWakeFails,
         OpenRestart, OpenInit, OpenPowerCycle, OpenFails, OpenNoMemory,
         OpenJoin, RunPending, SessionOpen, ReserveRefused, SessionInit,
         SessionInitDone, SessionInitTimeout, SessionFail, SessionOpenFailed,
         StreamoffClose, CloseFile, SessionEnd, SessionEndDone,
         SessionEndTimeout, SessionEndRequest, StreamoffDone, CloseLeave,
         ClosePcSchedule
    <2>2. QED
      BY <2>1
  <1>4. QED
    BY <1>1, <1>2, <1>3

(* The open sessions never exceed max_session_count, and only files on the *)
(* list of instances have one, for any number of clients and any failure.  *)
THEOREM Admission == Spec => []AdmissionBound
  <1> DEFINE Sound == SessionLabels /\ Cardinality(opened) <= MaxSessions
  <1>1. Init => Sound
    <2>1. Cardinality({}) = 0
      BY FS_EmptySet
    <2>2. Init => SessionLabels
      BY DEF Init, SessionLabels, InCall, Ending, Holding, Joined, Threads
    <2>3. QED
      BY <2>1, <2>2, CoreAssumption DEF Init
  <1>2. TypeOK /\ Sound /\ [Next]_vars => Sound'
    <2> SUFFICES ASSUME TypeOK, Sound, [Next]_vars
                 PROVE  Sound'
      OBVIOUS
    <2>0. IsFiniteSet(opened)
      BY CoreAssumption, FS_Subset DEF TypeOK
    <2>1. ASSUME NEW c \in Clients, ClientStep(c)
          PROVE  Sound'
      <3>1. CASE CoreCall(c)
        BY <3>1, CoreCallKeepsSessions DEF Threads
      <3>2. CASE ~CoreCall(c)
        <4>1. SessionLabels'
          BY <2>1, <3>2, ClientKeepsSessions
        <4>2. CASE opened' \subseteq opened
          <5>1. Cardinality(opened') <= Cardinality(opened)
            BY <2>0, <4>2, FS_Subset
          <5>2. Cardinality(opened) \in Nat /\ Cardinality(opened') \in Nat
            BY <2>0, <4>2, FS_Subset, FS_CardinalityType
          <5>3. QED
            BY <4>1, <5>1, <5>2, CoreAssumption
        <4>3. CASE /\ Cardinality(opened) < MaxSessions
                   /\ opened' = opened \cup {c}
          <5>1. Cardinality(opened) \in Nat
            BY <2>0, FS_CardinalityType
          <5>2. \/ Cardinality(opened') = Cardinality(opened)
                \/ Cardinality(opened') = Cardinality(opened) + 1
            BY <2>0, <4>3, FS_AddElement
          <5>3. QED
            BY <4>1, <4>3, <5>1, <5>2, CoreAssumption
        <4>4. QED
          BY <2>1, <3>2, <4>2, <4>3, SessionsCounted
      <3>3. QED
        BY <3>1, <3>2
    <2>2. CASE CoreCall(SysWorker)
      BY <2>2, CoreCallKeepsSessions DEF Threads
    <2>3. CASE ~(\E c \in Clients : ClientStep(c)) /\ ~CoreCall(SysWorker)
      BY <2>3, SystemKeepsSessions DEF Next, SysStep
    <2>4. QED
      BY <2>1, <2>2, <2>3
  <1>3. TypeOK /\ Sound => AdmissionBound
    <2>1. SessionLabels /\ TypeOK => opened \subseteq instances
      BY DEF SessionLabels, Joined, TypeOK
    <2>2. QED
      BY <2>1 DEF AdmissionBound
  <1>4. QED
    BY <1>1, <1>2, <1>3, TypeCorrect, PTL DEF Spec

-----------------------------------------------------------------------------
(* Steps that neither touch the messages nor revive or kill the firmware.  *)
Unheard ==
  /\ UNCHANGED <<irq, msgs>>
  /\ fw'.state = fw.state
  /\ core'.state = core.state \/ core'.state # "INIT"

(* Such a step keeps a report of death.                                    *)
LEMMA UnheardKeepsReport ==
  ASSUME DeathReported, Unheard
  PROVE  DeathReported'
  BY DEF DeathReported, Unheard

(* No client step between calls of the core disturbs a report of death.    *)
LEMMA ClientUnheard ==
  ASSUME TypeOK, NEW c \in Clients, ClientStep(c), ~CoreCall(c)
  PROVE  Unheard
  <1> USE DEF TypeOK, FwType, CoreType, Unheard, deviceVars, envVars
  <1>1. CASE \/ SessionInitTimeout(c) \/ SessionEndTimeout(c)
             \/ SessionOpenFailed(c) \/ StreamoffDone(c)
    BY <1>1 DEF SessionInitTimeout, SessionEndTimeout, SessionOpenFailed,
       StreamoffDone, Unanswered, ToError
  <1>2. CASE \/ OpenCancel(c) \/ OpenWake(c) \/ OpenWakeFails(c)
             \/ OpenRestart(c) \/ OpenInit(c) \/ OpenPowerCycle(c)
             \/ OpenFails(c) \/ OpenNoMemory(c) \/ OpenJoin(c)
    BY <1>2 DEF OpenCancel, OpenWake, OpenWakeFails, OpenRestart, OpenInit,
       OpenPowerCycle, OpenFails, OpenNoMemory, OpenJoin
  <1>3. CASE \/ RunPending(c) \/ SessionOpen(c) \/ Reserve(c)
             \/ ReserveRefused(c) \/ SessionInit(c) \/ SessionInitDone(c)
             \/ SessionFail(c) \/ SessionRelease(c)
    BY <1>3 DEF RunPending, SessionOpen, Reserve, ReserveRefused,
       SessionInit, SessionInitDone, SessionFail, SessionRelease
  <1>4. CASE \/ StreamoffClose(c) \/ CloseFile(c) \/ SessionEnd(c)
             \/ SessionEndDone(c) \/ SessionEndClear(c)
             \/ SessionEndRequest(c) \/ CloseLeave(c) \/ ClosePcSchedule(c)
    BY <1>4 DEF StreamoffClose, CloseFile, SessionEnd, SessionEndDone,
       SessionEndClear, SessionEndRequest, CloseLeave, ClosePcSchedule
  <1>5. QED
    BY <1>1, <1>2, <1>3, <1>4 DEF ClientStep

(* Whatever clears the queues also takes the core out of INIT or boots a   *)
(* new firmware.                                                           *)
LEMMA CoreCallKeepsReport ==
  ASSUME TypeOK, DeathReported, NEW t \in Threads, CoreCall(t)
  PROVE  DeathReported'
  <1> USE DEF TypeOK, FwType, CoreType
  <1>1. CASE \/ DeinitCheck(t) \/ InitAlready(t) \/ InitRefused(t)
             \/ InitCheck(t) \/ InitAnswered(t) \/ InitTimeout(t)
    <2>1. Unheard
      BY <1>1 DEF DeinitCheck, InitAlready, InitRefused, InitCheck,
         InitAnswered, InitTimeout, Unheard, deviceVars, envVars
    <2>2. QED
      BY <2>1, UnheardKeepsReport
  <1>2. CASE Deinit(t) \/ InitFails(t) \/ InitAbort(t)
    <2>1. core'.state = "DEINIT"
      BY <1>2 DEF Deinit, InitFails, InitAbort
    <2>2. QED
      BY <2>1 DEF DeathReported
  <1>3. CASE InitBoot(t) \/ InitSend(t)
    <2>1. fw'.state \in {"booted", "sys_init"}
      BY <1>3 DEF InitBoot, InitSend, Firmware
    <2>2. QED
      BY <2>1 DEF DeathReported
  <1>4. QED
    BY <1>1, <1>2, <1>3 DEF CoreCall

(* The interrupt thread drops a report only by acting on it.               *)
LEMMA SystemKeepsReport ==
  ASSUME TypeOK, DeathReported,
         \/ SysStart \/ SysDrop \/ IrqStep \/ FwInit \/ FwSysError
         \/ PcStep \/ Suspend \/ Resume
         \/ \E c \in Clients : SessionError(c)
         \/ UNCHANGED vars
  PROVE  DeathReported'
  <1> USE DEF TypeOK, FwType, CoreType, deviceVars, envVars
  <1>1. CASE \/ SysStart \/ SysDrop \/ PcStep \/ Suspend \/ Resume
             \/ UNCHANGED vars \/ \E c \in Clients : SessionError(c)
    <2>1. Unheard
      BY <1>1 DEF SysStart, SysDrop, PcStep, PcStart, PcCollapse, PcSkip,
         PcRearm, Collapse, Suspend, Resume, SessionError, Unheard, vars
    <2>2. QED
      BY <2>1, UnheardKeepsReport
  <1>2. CASE IrqRead
    <2>1. msgs \in Seq(SysMessages) /\ msgs # <<>>
      BY <1>2 DEF IrqRead
    <2>2. /\ Len(Tail(msgs)) = Len(msgs) - 1
          /\ \A i \in 2 .. Len(msgs) : Tail(msgs)[i - 1] = msgs[i]
          /\ Head(msgs) = msgs[1] /\ Len(msgs) \in Nat
      BY <2>1
    <2> SUFFICES ASSUME fw.state = "dead", core.state = "INIT",
                        NEW i \in 1 .. Len(msgs),
                        msgs[i] \in {"init_error", "sys_error"}
                 PROVE  \/ irq' \in {"init_error", "sys_error"}
                        \/ \E j \in 1 .. Len(msgs') :
                             msgs'[j] \in {"init_error", "sys_error"}
      BY <1>2 DEF IrqRead, DeathReported
    <2>3. CASE i = 1
      BY <1>2, <2>2, <2>3 DEF IrqRead
    <2>4. CASE i # 1
      <3>1. i \in 2 .. Len(msgs) /\ i - 1 \in 1 .. Len(Tail(msgs))
        BY <2>2, <2>4
      <3>2. QED
        BY <1>2, <2>2, <3>1 DEF IrqRead
    <2>5. QED
      BY <2>3, <2>4
  <1>3. CASE IrqInitDone \/ IrqMark
    BY <1>3 DEF IrqInitDone, IrqMark, DeathReported
  <1>4. CASE IrqCoreError
    <2>1. core'.state = "ERROR"
      BY <1>4 DEF IrqCoreError
    <2>2. QED
      BY <2>1 DEF DeathReported
  <1>5. CASE FwInit \/ FwSysError
    <2>1. CASE fw'.state = "dead"
      <3>1. \E m \in {"init_error", "sys_error"} : msgs' = Append(msgs, m)
        BY <1>5, <2>1 DEF FwInit, FwSysError
      <3>2. PICK m \in {"init_error", "sys_error"} : msgs' = Append(msgs, m)
        BY <3>1
      <3>3. Len(msgs') = Len(msgs) + 1 /\ msgs'[Len(msgs) + 1] = m
            /\ Len(msgs) \in Nat
        BY <3>2
      <3>4. Len(msgs) + 1 \in 1 .. Len(msgs')
        BY <3>3
      <3>5. QED
        BY <3>3, <3>4 DEF DeathReported
    <2>2. CASE fw'.state # "dead"
      BY <2>2 DEF DeathReported
    <2>3. QED
      BY <2>1, <2>2
  <1>6. QED
    BY <1>1, <1>2, <1>3, <1>4, <1>5 DEF IrqStep

(* The death of the firmware is never lost: while the core still counts as *)
(* initialised, the message that reports it is queued or being handled,    *)
(* through every race of boot, recovery and interrupt handler.             *)
THEOREM Death == Spec => []DeathReported
  <1>1. Init => DeathReported
    BY DEF Init, DeathReported
  <1>2. TypeOK /\ DeathReported /\ [Next]_vars => DeathReported'
    <2> SUFFICES ASSUME TypeOK, DeathReported, [Next]_vars
                 PROVE  DeathReported'
      OBVIOUS
    <2>1. ASSUME NEW t \in Threads, CoreCall(t)
          PROVE  DeathReported'
      BY <2>1, CoreCallKeepsReport
    <2>2. ASSUME NEW c \in Clients, ClientStep(c), ~CoreCall(c)
          PROVE  DeathReported'
      BY <2>2, ClientUnheard, UnheardKeepsReport
    <2>3. CASE ~(\E c \in Clients : ClientStep(c)) /\ ~CoreCall(SysWorker)
      BY <2>3, SystemKeepsReport DEF Next, SysStep
    <2>4. QED
      BY <2>1, <2>2, <2>3 DEF Threads
  <1>3. QED
    BY <1>1, <1>2, TypeCorrect, PTL DEF Spec

-----------------------------------------------------------------------------
(* Balance.  Power and queues are what the driver believes them to be.     *)
Sound(h) ==
  /\ h \in HwType
  /\ h.refs \in 0 .. 1 /\ (h.powered <=> h.refs = 1)
  /\ h.regions \in 0 .. 1 /\ (h.table <=> h.regions = 1)

(* Events after which vpu_powered or the queue pointer no longer tells     *)
(* what is held: a failed power-on leaves the flag set, a failed           *)
(* allocation of the SFR the pointer, and registers read unpowered may     *)
(* collapse a core that is down.                                           *)
Blurring == {"power", "wake_power", "sfr", "unpowered_read"}

(* The queues exist from the boot to the tear-down of the core, and power, *)
(* firmware and collapse only with them; the boot is one locked step.      *)
PowerInv ==
  /\ Sound(hw)
  /\ hw.regions = 0 => hw.refs = 0 /\ fw.state = "off" /\ ~core.suspended
  /\ core.state = "DEINIT" => hw.regions = 0
  /\ core.state = "INIT" => hw.regions = 1
  /\ core.suspended => hw.refs = 0
  /\ lock # NoThread => ~core.suspended
  /\ \A t \in Threads : (pc[t] = "initSend" => lock = t) /\ cont[t] # "initSend"

(* What the calls of the boot and the tear-down make of sound hardware.    *)
LEMMA SoundOps ==
  ASSUME NEW h, Sound(h)
  PROVE  /\ h.refs = 0 => /\ Sound(PowerOn(h)) /\ PowerOn(h).refs = 1
                          /\ PowerOn(h).regions = h.regions
         /\ /\ Sound(PowerOff(h)) /\ PowerOff(h).refs = 0
            /\ PowerOff(h).regions = h.regions
         /\ h.regions = 0 => /\ Sound(QueuesInit(h)) /\ QueuesInit(h).regions = 1
                             /\ QueuesInit(h).refs = h.refs
         /\ /\ Sound(QueuesDeinit(h)) /\ QueuesDeinit(h).regions = 0
            /\ QueuesDeinit(h).refs = h.refs
  <1>1. /\ PowerOn(h) \in HwType /\ PowerOff(h) \in HwType
        /\ QueuesInit(h) \in HwType /\ QueuesDeinit(h) \in HwType
    BY HwOps DEF Sound
  <1>2. h.refs = 0 => /\ Sound(PowerOn(h)) /\ PowerOn(h).refs = 1
                      /\ PowerOn(h).regions = h.regions
    BY <1>1 DEF Sound, HwType, PowerOn
  <1>3. /\ Sound(PowerOff(h)) /\ PowerOff(h).refs = 0
        /\ PowerOff(h).regions = h.regions
    BY <1>1 DEF Sound, HwType, PowerOff
  <1>4. h.regions = 0 => /\ Sound(QueuesInit(h)) /\ QueuesInit(h).regions = 1
                         /\ QueuesInit(h).refs = h.refs
    BY <1>1 DEF Sound, HwType, QueuesInit
  <1>5. /\ Sound(QueuesDeinit(h)) /\ QueuesDeinit(h).regions = 0
        /\ QueuesDeinit(h).refs = h.refs
    BY <1>1 DEF Sound, HwType, QueuesDeinit
  <1>6. QED
    BY <1>2, <1>3, <1>4, <1>5

(* A boot that fails otherwise leaves nothing, a wake-up no power.         *)
LEMMA SoundFaults ==
  ASSUME NEW h, Sound(h), h.refs = 0
  PROVE  /\ h.regions = 0 =>
              \A f \in BootFaults \ Blurring :
                /\ Sound(AfterBootFault(h, f))
                /\ AfterBootFault(h, f).refs = 0 /\ AfterBootFault(h, f).regions = 0
         /\ \A f \in WakeFaults \ Blurring :
                /\ Sound(AfterWakeFault(h, f)) /\ AfterWakeFault(h, f).refs = 0
                /\ AfterWakeFault(h, f).regions = h.regions
  <1>1. ASSUME h.regions = 0, NEW f \in BootFaults \ Blurring
        PROVE  /\ Sound(AfterBootFault(h, f))
               /\ AfterBootFault(h, f).refs = 0 /\ AfterBootFault(h, f).regions = 0
    <2>1. CASE f = "queues"
      <3>1. AfterBootFault(h, f) = [h EXCEPT !.table = FALSE]
        BY <2>1 DEF AfterBootFault
      <3>2. h.table = FALSE
        BY <1>1 DEF Sound, HwType
      <3>3. QED
        BY <1>1, <3>1, <3>2 DEF Sound, HwType
    <2>2. CASE f = "firmware"
      <3> DEFINE a == QueuesInit(h)
                 b == PowerOn(a)
                 c == PowerOff(b)
      <3>1. Sound(a) /\ a.refs = 0
        BY <1>1, SoundOps
      <3>2. Sound(b)
        BY <3>1, SoundOps
      <3>3. Sound(c) /\ c.refs = 0
        BY <3>2, SoundOps
      <3>4. Sound(QueuesDeinit(c)) /\ QueuesDeinit(c).refs = 0
            /\ QueuesDeinit(c).regions = 0
        BY <3>3, SoundOps
      <3>5. QED
        BY <2>2, <3>4 DEF AfterBootFault
    <2>3. QED
      BY <2>1, <2>2 DEF BootFaults, Blurring
  <1>2. ASSUME NEW f \in WakeFaults \ Blurring
        PROVE  /\ Sound(AfterWakeFault(h, f)) /\ AfterWakeFault(h, f).refs = 0
               /\ AfterWakeFault(h, f).regions = h.regions
    <2> DEFINE b == PowerOn(h)
    <2>1. Sound(b) /\ b.regions = h.regions
      BY SoundOps
    <2>2. Sound(PowerOff(b)) /\ PowerOff(b).refs = 0 /\ PowerOff(b).regions = h.regions
      BY <2>1, SoundOps
    <2>3. QED
      BY <2>2 DEF AfterWakeFault, WakeFaults, Blurring
  <1>3. QED
    BY <1>1, <1>2

(* A step that touches neither power nor queues nor the collapse.          *)
PowerSame ==
  /\ UNCHANGED <<hw, lock>>
  /\ core'.suspended = core.suspended
  /\ core'.state \in {core.state, "ERROR"}
  /\ fw'.state = fw.state \/ (fw'.state # "off" /\ fw.state # "off")
  /\ \A t \in Threads : /\ pc'[t] = "initSend" => pc[t] = "initSend"
                       /\ cont'[t] # "initSend"

(* Such a step keeps the balance.                                          *)
LEMMA SameKeepsPower ==
  ASSUME PowerInv, PowerSame
  PROVE  PowerInv'
  BY DEF PowerInv, PowerSame

(* The boot and the tear-down keep the balance, unless a core in ERROR is  *)
(* taken for one that is down.                                             *)
LEMMA CoreCallKeepsPower ==
  ASSUME TypeOK, PowerInv, Events \cap Blurring = {}, NEW t \in Threads, CoreCall(t),
         InitRefused(t) => hw'.refs = 0 /\ hw'.regions = 0
  PROVE  PowerInv'
  <1> USE DEF Goto, Return, envVars, deviceVars
  <1>1. CASE \/ DeinitCheck(t) \/ InitAlready(t) \/ InitCheck(t) \/ InitAnswered(t)
             \/ InitTimeout(t)
    <2>1. PowerSame
      BY <1>1, CoreAssumption DEF DeinitCheck, InitAlready, InitCheck, InitAnswered,
         InitTimeout, PowerSame, PowerInv, TypeOK, CoreType
    <2>2. QED
      BY <2>1, SameKeepsPower
  <1>2. CASE Deinit(t)
    <2>1. Sound(hw') /\ hw'.refs = 0 /\ hw'.regions = 0
      <3>1. Sound(PowerOff(hw)) /\ PowerOff(hw).refs = 0
        BY SoundOps DEF PowerInv
      <3>2. QED
        BY <1>2, <3>1, SoundOps DEF Deinit
    <2>2. fw'.state = "off" /\ ~core'.suspended /\ core'.state = "DEINIT"
      BY <1>2 DEF Deinit, Firmware, TypeOK, CoreType
    <2>3. lock' = lock /\ cont' = cont
          /\ \A s \in Threads : pc'[s] = "initSend" => pc[s] = "initSend"
      BY <1>2 DEF Deinit, TypeOK
    <2>4. QED
      BY <2>1, <2>2, <2>3 DEF PowerInv
  <1>3. CASE InitRefused(t)
    <2>1. UNCHANGED <<hw, fw, lock, cont>> /\ core'.state = "DEINIT"
          /\ core'.suspended = core.suspended /\ hw.regions = 0
          /\ \A s \in Threads : pc'[s] = "initSend" => pc[s] = "initSend"
      BY <1>3 DEF InitRefused, TypeOK, CoreType, PowerInv
    <2>2. QED
      BY <2>1 DEF PowerInv
  <1>4. CASE InitFails(t)
    <2>1. PICK f \in BootFaults :
            /\ f = "queues" \/ f \in Events
            /\ hw' = AfterBootFault(hw, f)
            /\ fw' = IF f = "firmware" THEN Firmware("off") ELSE fw
      BY <1>4 DEF InitFails, Charge
    <2>2. f \in BootFaults \ Blurring /\ core.state = "DEINIT" /\ core' = core
      BY <1>4, <2>1 DEF InitFails, Blurring
    <2>3. Sound(hw') /\ hw'.refs = 0 /\ hw'.regions = 0
      BY <2>1, <2>2, SoundFaults DEF PowerInv
    <2>4. fw'.state = "off"
      BY <2>1, <2>2 DEF PowerInv, Firmware
    <2>5. UNCHANGED <<lock, cont>>
          /\ \A s \in Threads : pc'[s] = "initSend" => pc[s] = "initSend"
      BY <1>4 DEF InitFails, TypeOK, PowerInv
    <2>6. QED
      BY <2>2, <2>3, <2>4, <2>5 DEF PowerInv
  <1>5. CASE InitBoot(t)
    <2>1. hw.regions = 0 /\ hw.refs = 0 /\ ~core.suspended /\ lock = NoThread
      BY <1>5 DEF InitBoot, PowerInv, Free
    <2>2. Sound(hw') /\ hw'.refs = 1 /\ hw'.regions = 1
      <3>1. Sound(QueuesInit(hw)) /\ QueuesInit(hw).refs = 0 /\ QueuesInit(hw).regions = 1
        BY <2>1, SoundOps DEF PowerInv
      <3>2. QED
        BY <1>5, <3>1, SoundOps DEF InitBoot
    <2>3. core'.state = "INIT" /\ ~core'.suspended /\ lock' = t /\ cont' = cont
      BY <1>5, <2>1 DEF InitBoot, TypeOK, CoreType
    <2>4. \A s \in Threads : pc'[s] = "initSend" => s = t
      BY <1>5, <2>1, CoreAssumption DEF InitBoot, TypeOK, PowerInv, Threads
    <2>5. QED
      BY <2>2, <2>3, <2>4 DEF PowerInv
  <1>6. CASE InitSend(t)
    <2>1. UNCHANGED <<core, hw, cont>> /\ lock' = NoThread /\ lock = t /\ core.state = "INIT"
      BY <1>6 DEF InitSend, PowerInv
    <2>2. \A s \in Threads : pc'[s] # "initSend"
      BY <1>6, <2>1 DEF InitSend, TypeOK, PowerInv
    <2>3. QED
      BY <2>1, <2>2 DEF PowerInv
  <1>7. CASE InitAbort(t)
    <2>1. cont' = cont /\ lock' = NoThread /\ lock = t /\ core'.state = "DEINIT"
          /\ core'.suspended = core.suspended /\ fw'.state = "off"
      BY <1>7 DEF InitAbort, PowerInv, TypeOK, CoreType, Firmware
    <2>2. ~core.suspended
      BY <2>1, CoreAssumption DEF PowerInv, Threads
    <2>3. \A s \in Threads : pc'[s] # "initSend"
      BY <1>7, <2>1 DEF InitAbort, TypeOK, PowerInv
    <2>4. Sound(hw') /\ hw'.refs = 0 /\ hw'.regions = 0
      <3>1. Sound(PowerOff(hw)) /\ PowerOff(hw).refs = 0
        BY SoundOps DEF PowerInv
      <3>2. QED
        BY <1>7, <3>1, SoundOps DEF InitAbort
    <2>5. QED
      BY <2>1, <2>2, <2>3, <2>4 DEF PowerInv
  <1>8. QED
    BY <1>1, <1>2, <1>3, <1>4, <1>5, <1>6, <1>7 DEF CoreCall

(* So does a client between calls of the core.                             *)
LEMMA ClientKeepsPower ==
  ASSUME TypeOK, PowerInv, Events \cap Blurring = {}, NEW c \in Clients, ClientStep(c),
         ~CoreCall(c)
  PROVE  PowerInv'
  <1> USE DEF TypeOK, FwType, CoreType, Threads, Goto, Call, Return, Recover, deviceVars,
              envVars, instVars, PowerSame, PowerInv
  <1>1. CASE OpenWake(c) \/ OpenWakeFails(c)
    <2>1. CASE OpenWake(c) /\ core.suspended
      <3>1. hw.refs = 0 /\ hw.regions = 1 /\ hw' = PowerOn(hw)
        BY <2>1 DEF OpenWake, Sound
      <3>2. Sound(hw') /\ hw'.regions = 1
        BY <3>1, SoundOps
      <3>3. core'.state = core.state /\ ~core'.suspended /\ UNCHANGED <<fw, lock, cont>>
            /\ \A s \in Threads : pc'[s] = "initSend" => pc[s] = "initSend"
        BY <2>1 DEF OpenWake
      <3>4. QED
        BY <3>1, <3>2, <3>3
    <2>2. CASE OpenWake(c) /\ ~core.suspended
      <3>1. PowerSame
        BY <2>2 DEF OpenWake
      <3>2. QED
        BY <3>1, SameKeepsPower
    <2>3. CASE OpenWakeFails(c)
      <3>1. PICK f \in WakeFaults : f \in Events /\ hw' = AfterWakeFault(hw, f)
        BY <2>3 DEF OpenWakeFails, Charge
      <3>2. hw.refs = 0 /\ f \in WakeFaults \ Blurring
        BY <2>3, <3>1 DEF OpenWakeFails
      <3>3. Sound(hw') /\ hw'.refs = 0 /\ hw'.regions = hw.regions
        BY <3>1, <3>2, SoundFaults
      <3>4. UNCHANGED <<core, fw, lock, cont>>
            /\ \A s \in Threads : pc'[s] = "initSend" => pc[s] = "initSend"
        BY <2>3 DEF OpenWakeFails
      <3>5. QED
        BY <3>3, <3>4
    <2>4. QED
      BY <1>1, <2>1, <2>2, <2>3
  <1>2. CASE \/ SessionInitTimeout(c) \/ SessionEndTimeout(c)
             \/ SessionOpenFailed(c) \/ StreamoffDone(c)
    <2>1. ASSUME SessionInitTimeout(c)
          PROVE  PowerSame
      <3>1. UNCHANGED <<hw, lock>> /\ core'.suspended = core.suspended
            /\ core'.state \in {core.state, "ERROR"}
        BY <2>1 DEF SessionInitTimeout, Unanswered, ToError
      <3>2. fw'.state = fw.state \/ (fw'.state # "off" /\ fw.state # "off")
        BY <2>1 DEF SessionInitTimeout, Unanswered, ToError
      <3>3. \A t \in Threads : /\ (pc'[t] = "initSend" => pc[t] = "initSend")
                               /\ cont'[t] # "initSend"
        BY <2>1 DEF SessionInitTimeout, Unanswered, ToError
      <3>4. QED
        BY <3>1, <3>2, <3>3
    <2>2. ASSUME SessionEndTimeout(c)
          PROVE  PowerSame
      <3>1. UNCHANGED <<hw, lock>> /\ core'.suspended = core.suspended
            /\ core'.state \in {core.state, "ERROR"}
        BY <2>2 DEF SessionEndTimeout, Unanswered, ToError
      <3>2. fw'.state = fw.state \/ (fw'.state # "off" /\ fw.state # "off")
        BY <2>2 DEF SessionEndTimeout, Unanswered, ToError
      <3>3. \A t \in Threads : /\ (pc'[t] = "initSend" => pc[t] = "initSend")
                               /\ cont'[t] # "initSend"
        BY <2>2 DEF SessionEndTimeout, Unanswered, ToError
      <3>4. QED
        BY <3>1, <3>2, <3>3
    <2>3. SessionOpenFailed(c) => PowerSame
      BY DEF SessionOpenFailed, ToError
    <2>4. StreamoffDone(c) => PowerSame
      BY DEF StreamoffDone, ToError
    <2>5. QED
      BY <1>2, <2>1, <2>2, <2>3, <2>4, SameKeepsPower
  <1>3. CASE \/ OpenCancel(c) \/ OpenRestart(c) \/ OpenInit(c) \/ OpenPowerCycle(c)
             \/ OpenFails(c) \/ OpenNoMemory(c) \/ OpenJoin(c) \/ RunPending(c)
    <2>1. PowerSame
      BY <1>3 DEF OpenCancel, OpenRestart, OpenInit, OpenPowerCycle, OpenFails,
         OpenNoMemory, OpenJoin, RunPending
    <2>2. QED
      BY <2>1, SameKeepsPower
  <1>4. CASE \/ SessionOpen(c) \/ Reserve(c) \/ ReserveRefused(c) \/ SessionInit(c)
             \/ SessionInitDone(c) \/ SessionFail(c) \/ SessionRelease(c)
    <2>1. SessionOpen(c) => PowerSame
      BY DEF SessionOpen
    <2>2. Reserve(c) => PowerSame
      BY DEF Reserve
    <2>3. ReserveRefused(c) => PowerSame
      BY DEF ReserveRefused
    <2>4. SessionInit(c) => PowerSame
      BY DEF SessionInit
    <2>5. SessionInitDone(c) => PowerSame
      BY DEF SessionInitDone
    <2>6. SessionFail(c) => PowerSame
      BY DEF SessionFail
    <2>7. SessionRelease(c) => PowerSame
      BY DEF SessionRelease
    <2>8. QED
      BY <1>4, <2>1, <2>2, <2>3, <2>4, <2>5, <2>6, <2>7, SameKeepsPower
  <1>5. CASE \/ StreamoffClose(c) \/ CloseFile(c) \/ SessionEnd(c) \/ SessionEndDone(c)
             \/ SessionEndClear(c) \/ SessionEndRequest(c) \/ CloseLeave(c)
             \/ ClosePcSchedule(c)
    <2>1. CASE StreamoffClose(c) \/ CloseFile(c) \/ SessionEndClear(c)
               \/ CloseLeave(c) \/ ClosePcSchedule(c)
      <3>1. PowerSame
        BY <2>1 DEF StreamoffClose, CloseFile, SessionEndClear, CloseLeave, ClosePcSchedule
      <3>2. QED
        BY <3>1, SameKeepsPower
    <2>2. CASE SessionEnd(c) \/ SessionEndDone(c)
      <3>1. fw'.state = fw.state
        BY <2>2 DEF SessionEnd, SessionEndDone
      <3>2. PowerSame
        BY <2>2, <3>1 DEF SessionEnd, SessionEndDone
      <3>3. QED
        BY <3>2, SameKeepsPower
    <2>3. CASE SessionEndRequest(c)
      <3>1. cont[c] # "initSend" /\ pc' = [pc EXCEPT ![c] = cont[c]]
        BY <2>3 DEF SessionEndRequest
      <3>2. PowerSame
        BY <2>3, <3>1 DEF SessionEndRequest
      <3>3. QED
        BY <3>2, SameKeepsPower
    <2>4. QED
      BY <1>5, <2>1, <2>2, <2>3
  <1>6. QED
    BY <1>1, <1>2, <1>3, <1>4, <1>5 DEF ClientStep

(* The worker, the interrupt thread, the firmware, idle collapse and the   *)
(* sleep callbacks keep it too.                                            *)
LEMMA SystemKeepsPower ==
  ASSUME TypeOK, PowerInv, Events \cap Blurring = {},
         \/ SysStart \/ SysDrop \/ IrqStep \/ FwInit \/ FwSysError
         \/ PcStep \/ Suspend \/ Resume
         \/ \E c \in Clients : SessionError(c)
         \/ UNCHANGED vars
  PROVE  PowerInv'
  <1> USE DEF TypeOK, FwType, CoreType, Threads, Goto, Call, Return, Recover, deviceVars,
              envVars, callVars, instVars, PowerSame, PowerInv
  <1>1. CASE \/ SysStart \/ SysDrop \/ IrqStep \/ FwInit \/ FwSysError
             \/ PcStart \/ PcSkip \/ PcRearm \/ UNCHANGED vars
             \/ \E c \in Clients : SessionError(c)
    <2>1. PowerSame
      BY <1>1 DEF SysStart, SysDrop, IrqStep, IrqRead, IrqInitDone, IrqCoreError, IrqMark,
         FwInit, FwSysError, PcStart, PcSkip, PcRearm, SessionError, vars
    <2>2. QED
      BY <2>1, SameKeepsPower
  <1>2. CASE PcCollapse \/ (Suspend /\ Collapse)
    <2>1. hw' = PowerOff(hw) /\ core'.state = core.state /\ core'.suspended
          /\ UNCHANGED <<fw, lock, pc, cont>> /\ lock = NoThread /\ fw.state = "ready"
      BY <1>2 DEF PcCollapse, Suspend, Collapse, MayCollapse, Free, Blurring
    <2>2. Sound(hw') /\ hw'.refs = 0 /\ hw'.regions = hw.regions
      BY <2>1, SoundOps
    <2>3. QED
      BY <2>1, <2>2
  <1>3. CASE Suspend /\ ~Collapse
    <2>1. PowerSame
      BY <1>3 DEF Suspend
    <2>2. QED
      BY <2>1, SameKeepsPower
  <1>4. CASE Resume
    <2>1. CASE hw' = PowerOn(hw) /\ core' = [core EXCEPT !.suspended = FALSE]
               /\ core.suspended /\ core.state = "INIT"
      <3>1. Sound(hw') /\ hw'.regions = 1
        BY <2>1, SoundOps
      <3>2. UNCHANGED <<fw, lock, pc, cont>>
        BY <1>4 DEF Resume
      <3>3. QED
        BY <2>1, <3>1, <3>2
    <2>2. CASE core.suspended /\ \E f \in WakeFaults : Charge(f) /\ hw' = AfterWakeFault(hw, f)
                                                       /\ UNCHANGED core
      <3>1. PICK f \in WakeFaults : f \in Events /\ hw' = AfterWakeFault(hw, f)
        BY <2>2 DEF Charge
      <3>2. Sound(hw') /\ hw'.refs = 0 /\ hw'.regions = hw.regions
        BY <2>2, <3>1, SoundFaults
      <3>3. UNCHANGED <<core, fw, lock, pc, cont>>
        BY <1>4, <2>2 DEF Resume
      <3>4. QED
        BY <3>2, <3>3
    <2>3. CASE UNCHANGED <<hw, core>>
      <3>1. PowerSame
        BY <1>4, <2>3 DEF Resume
      <3>2. QED
        BY <3>1, SameKeepsPower
    <2>4. QED
      BY <1>4, <2>1, <2>2, <2>3 DEF Resume
  <1>5. QED
    BY <1>1, <1>2, <1>3, <1>4 DEF PcStep

(* Unless a core in ERROR is taken for one that is down - the one leak of  *)
(* the code, which a run of the model shows - the invariant holds through  *)
(* every other fault, for any number of clients that boot, recover and     *)
(* collapse the core at the same time.                                     *)
LEMMA PowerSound ==
  ASSUME Events \cap Blurring = {}
  PROVE  Spec /\ ErrorPowerCycled => []PowerInv
  <1> DEFINE NoLeak == core.state = "ERROR" /\ core'.state = "DEINIT"
                         => hw'.refs = 0 /\ hw'.regions = 0
  <1>1. Init => PowerInv
    BY CoreAssumption DEF Init, PowerInv, Sound, HwType, Firmware, Threads
  <1>2. TypeOK /\ PowerInv /\ [Next]_vars /\ [NoLeak]_vars => PowerInv'
    <2> SUFFICES ASSUME TypeOK, PowerInv, [Next]_vars, [NoLeak]_vars
                 PROVE  PowerInv'
      OBVIOUS
    <2>1. ASSUME NEW t \in Threads, CoreCall(t)
          PROVE  PowerInv'
      <3>1. InitRefused(t) => hw'.refs = 0 /\ hw'.regions = 0
        BY DEF InitRefused, TypeOK, CoreType, vars
      <3>2. QED
        BY <2>1, <3>1, CoreCallKeepsPower
    <2>2. ASSUME NEW c \in Clients, ClientStep(c), ~CoreCall(c)
          PROVE  PowerInv'
      BY <2>2, ClientKeepsPower
    <2>3. CASE ~(\E c \in Clients : ClientStep(c)) /\ ~CoreCall(SysWorker)
      BY <2>3, SystemKeepsPower DEF Next, SysStep
    <2>4. QED
      BY <2>1, <2>2, <2>3 DEF Threads
  <1>3. QED
    BY <1>1, <1>2, TypeCorrect, PTL DEF Spec, ErrorPowerCycled

(* Unless a core in ERROR is taken for one that is down, power stays       *)
(* paired whatever is booted, recovered or collapsed.                      *)
THEOREM Balanced ==
  ASSUME Events \cap Blurring = {}
  PROVE  Spec /\ ErrorPowerCycled => []PowerBalanced
  <1>1. PowerInv => PowerBalanced
    BY DEF PowerInv, Sound, PowerBalanced
  <1>2. QED
    BY <1>1, PowerSound, PTL

(* And then IRIS_CORE_DEINIT means that nothing is held: no power, no      *)
(* memory, no firmware, no collapsed VPU.                                  *)
THEOREM NothingHeld ==
  ASSUME Events \cap Blurring = {}
  PROVE  Spec /\ ErrorPowerCycled => []DeinitHoldsNothing
  <1>1. PowerInv => DeinitHoldsNothing
    BY DEF PowerInv, Sound, DeinitHoldsNothing
  <1>2. QED
    BY <1>1, PowerSound, PTL
-----------------------------------------------------------------------------
(* Without HFI_EVENT_SYS_ERROR the recovery worker never runs, so that     *)
(* nothing clears recovery_pending but who recovers the core.              *)
Quiet ==
  /\ ~work.sys
  /\ pc[SysWorker] = "idle"
  /\ irq \notin {"sys_error", "mark"}
  /\ msgs \in Seq(SysMessages \ {"sys_error"})

(* The clients leave the worker alone.                                     *)
LEMMA ClientKeepsQuiet ==
  ASSUME TypeOK, Quiet, NEW c \in Clients, ClientStep(c)
  PROVE  Quiet'
  <1> USE CoreAssumption DEF TypeOK, WorkType, Threads, Quiet, deviceVars, envVars
  <1>1. CASE CoreCall(c)
    <2>1. msgs' \in {msgs, <<>>}
      BY <1>1 DEF CoreCall, DeinitCheck, Deinit, InitAlready, InitRefused, InitFails,
         InitBoot, InitSend, InitAbort, InitCheck, InitAnswered, InitTimeout
    <2>2. irq' = irq /\ work'.sys = work.sys /\ pc'[SysWorker] = pc[SysWorker]
      BY <1>1 DEF CoreCall, DeinitCheck, Deinit, InitAlready, InitRefused, InitFails,
         InitBoot, InitSend, InitAbort, InitCheck, InitAnswered, InitTimeout,
         Goto, Return
    <2>3. <<>> \in Seq(SysMessages \ {"sys_error"})
      OBVIOUS
    <2>4. msgs' \in Seq(SysMessages \ {"sys_error"})
      BY <2>1, <2>3
    <2>5. QED
      BY <2>2, <2>4
  <1>2. CASE ~CoreCall(c)
    <2>1. UNCHANGED <<msgs, irq>>
      BY <1>2, ClientUnheard DEF Unheard
    <2>2. work'.sys = work.sys
      BY <1>2 DEF ClientStep, OpenCancel, OpenWake, OpenWakeFails, OpenRestart, OpenInit,
         OpenPowerCycle, OpenFails, OpenNoMemory, OpenJoin, RunPending, SessionOpen,
         Reserve, ReserveRefused, SessionInit, SessionInitDone, SessionInitTimeout,
         SessionFail, SessionRelease, SessionOpenFailed, StreamoffClose, CloseFile,
         SessionEnd, SessionEndDone, SessionEndTimeout, SessionEndClear,
         SessionEndRequest, StreamoffDone, CloseLeave, ClosePcSchedule
    <2>3. \E l : pc' = [pc EXCEPT ![c] = l]
      BY <1>2 DEF ClientStep, OpenCancel, OpenWake, OpenWakeFails, OpenRestart, OpenInit,
         OpenPowerCycle, OpenFails, OpenNoMemory, OpenJoin, RunPending, SessionOpen,
         Reserve, ReserveRefused, SessionInit, SessionInitDone, SessionInitTimeout,
         SessionFail, SessionRelease, SessionOpenFailed, StreamoffClose, CloseFile,
         SessionEnd, SessionEndDone, SessionEndTimeout, SessionEndClear,
         SessionEndRequest, StreamoffDone, CloseLeave, ClosePcSchedule,
         Goto, Call, Return, Recover
    <2>4. QED
      BY <2>1, <2>2, <2>3
  <1>3. QED
    BY <1>1, <1>2

(* So does the firmware that never reports a system error.                 *)
LEMMA SystemKeepsQuiet ==
  ASSUME TypeOK, Quiet, "sys_error" \notin Events,
         \/ IrqStep \/ FwInit \/ FwSysError \/ PcStep \/ Suspend \/ Resume
         \/ \E c \in Clients : SessionError(c)
         \/ UNCHANGED vars
  PROVE  Quiet' /\ UNCHANGED <<pc, cont>>
  <1> USE CoreAssumption DEF TypeOK, WorkType, Quiet, deviceVars, envVars, callVars, Charge
  <1>1. CASE IrqStep
    <2>1. CASE IrqRead
      <3>1. Head(msgs) \in SysMessages \ {"sys_error"}
            /\ Tail(msgs) \in Seq(SysMessages \ {"sys_error"})
        BY <2>1 DEF IrqRead
      <3>2. irq' # "mark" /\ irq' # "sys_error"
        BY <2>1, <3>1 DEF IrqRead, SysMessages
      <3>3. QED
        BY <2>1, <3>1, <3>2 DEF IrqRead
    <2>2. QED
      BY <1>1, <2>1 DEF IrqStep, IrqInitDone, IrqCoreError, IrqMark
  <1>2. CASE FwInit
    <2>1. \A m \in {"init_done", "init_error"} :
            Append(msgs, m) \in Seq(SysMessages \ {"sys_error"})
      BY DEF SysMessages
    <2>2. QED
      BY <1>2, <2>1 DEF FwInit
  <1>3. CASE ~(IrqStep \/ FwInit)
    BY <1>3, ZenonT(40) DEF FwSysError, PcStep, PcStart, PcCollapse, PcSkip, PcRearm, Collapse,
       Suspend, Resume, SessionError, vars
  <1>4. QED
    BY <1>1, <1>2, <1>3

(* Every step is one of a client, or of a system whose worker rests.       *)
LEMMA QuietSteps ==
  ASSUME Quiet, [Next]_vars
  PROVE  \/ \E c \in Clients : ClientStep(c)
         \/ IrqStep \/ FwInit \/ FwSysError \/ PcStep \/ Suspend \/ Resume
         \/ \E c \in Clients : SessionError(c)
         \/ UNCHANGED vars
  <1>1. ~SysStep
    BY DEF Quiet, SysStep, SysStart, SysDrop, CoreCall, DeinitCheck, Deinit, InitAlready,
       InitRefused, InitFails, InitBoot, InitSend, InitAbort, InitCheck, InitAnswered,
       InitTimeout
  <1>2. QED
    BY <1>1 DEF Next

(* The worker rests as long as the firmware reports no system error.       *)
LEMMA StaysQuiet ==
  ASSUME "sys_error" \notin Events
  PROVE  Spec => []Quiet
  <1>1. Init => Quiet
    BY CoreAssumption DEF Init, Quiet, Threads
  <1>2. TypeOK /\ Quiet /\ [Next]_vars => Quiet'
    BY QuietSteps, ClientKeepsQuiet, SystemKeepsQuiet
  <1>3. QED
    BY <1>1, <1>2, TypeCorrect, PTL DEF Spec

-----------------------------------------------------------------------------
(* The memory of a wedged firmware.                                        *)
Recovering(t) == pc[t] \in {"deinitCheck", "deinit"}

(* A client that is about to ask for recovery.                             *)
Asking(c) ==
  pc[c] = "sessFail" \/ (pc[c] \in {"endClear", "endRequest"} /\ ret[c] = "err")

(* WedgeRemembered, with the clients that really are about to ask.         *)
Remembered ==
  fw.wedged =>
    \/ core.pending
    \/ core.state # "INIT"
    \/ \E t \in Threads : Recovering(t)
    \/ \E c \in Clients : Asking(c)

(* Steps that forget nothing.                                              *)
Remembering ==
  /\ fw'.wedged => fw.wedged
  /\ core.pending => core'.pending
  /\ core.state # "INIT" => core'.state # "INIT"
  /\ \A t \in Threads : Recovering(t) => Recovering(t)'
  /\ \A c \in Clients : Asking(c) => Asking(c)'

(* They keep the memory.                                                   *)
LEMMA RememberingKeeps ==
  ASSUME Remembered, Remembering
  PROVE  Remembered'
  BY DEF Remembered, Remembering

(* Whoever leaves the recovery has switched the firmware off, or found the *)
(* core down.                                                              *)
LEMMA CoreCallRemembers ==
  ASSUME TypeOK, Remembered, NEW t \in Threads, CoreCall(t)
  PROVE  Remembered'
  <1> USE DEF TypeOK, FwType, CoreType, Threads, Goto, Return
  <1>1. CASE DeinitCheck(t)
    <2>1. fw' = fw /\ core' = core
      BY <1>1 DEF DeinitCheck, deviceVars
    <2>2. CASE core.state = "DEINIT"
      BY <2>1, <2>2 DEF Remembered
    <2>3. CASE core.state # "DEINIT"
      <3>1. Recovering(t)'
        BY <1>1, <2>3 DEF DeinitCheck, Recovering
      <3>2. QED
        BY <3>1 DEF Remembered
    <2>4. QED
      BY <2>2, <2>3
  <1>2. CASE Deinit(t) \/ InitBoot(t) \/ InitAbort(t)
    <2>1. fw'.wedged = FALSE
      BY <1>2 DEF Deinit, InitBoot, InitAbort, Firmware
    <2>2. QED
      BY <2>1 DEF Remembered
  <1>3. CASE InitRefused(t) \/ InitFails(t) \/ InitTimeout(t)
    <2>1. core'.state # "INIT"
      BY <1>3 DEF InitRefused, InitFails, InitTimeout
    <2>2. QED
      BY <2>1 DEF Remembered
  <1>4. CASE InitAlready(t) \/ InitSend(t) \/ InitCheck(t) \/ InitAnswered(t)
    <2>1. fw'.wedged = fw.wedged /\ core'.pending = core.pending /\ core'.state = core.state
      BY <1>4 DEF InitAlready, InitSend, InitCheck, InitAnswered, deviceVars
    <2>2. \A u \in Threads : Recovering(u) => Recovering(u)'
      BY <1>4 DEF InitAlready, InitSend, InitCheck, InitAnswered, Recovering
    <2>3. \A c \in Clients : Asking(c) => Asking(c)'
      BY <1>4 DEF InitAlready, InitSend, InitCheck, InitAnswered, Asking
    <2>4. QED
      BY <2>1, <2>2, <2>3, RememberingKeeps DEF Remembering
  <1>5. QED
    BY <1>1, <1>2, <1>3, <1>4 DEF CoreCall

(* A client asks for recovery after every failure, and clears the request  *)
(* only as it starts to recover.                                           *)
LEMMA ClientRemembers ==
  ASSUME TypeOK, Remembered, NEW c \in Clients, ClientStep(c), ~CoreCall(c)
  PROVE  Remembered'
  <1> USE DEF TypeOK, FwType, CoreType, Threads, Goto, Call, Return, Recover,
              deviceVars, Recovering, Asking
  <1>1. CASE OpenRestart(c) \/ OpenPowerCycle(c) \/ (RunPending(c) /\ core.pending /\ opened = {})
    <2>1. Recovering(c)'
      BY <1>1 DEF OpenRestart, OpenPowerCycle, RunPending
    <2>2. QED
      BY <2>1 DEF Remembered
  <1>2. CASE SessionFail(c) \/ (SessionEndRequest(c) /\ ret[c] = "err")
    <2>1. core'.pending
      BY <1>2 DEF SessionFail, SessionEndRequest
    <2>2. QED
      BY <2>1 DEF Remembered
  <1>3. CASE SessionInitTimeout(c) \/ SessionEndTimeout(c)
    <2>1. Asking(c)'
      BY <1>3 DEF SessionInitTimeout, SessionEndTimeout
    <2>2. QED
      BY <2>1 DEF Remembered
  <1>4. CASE SessionOpenFailed(c) \/ StreamoffDone(c)
    <2>1. Remembering
      BY <1>4 DEF SessionOpenFailed, StreamoffDone, ToError, Remembering
    <2>2. QED
      BY <2>1, RememberingKeeps
  <1>5. CASE \/ OpenCancel(c) \/ OpenWake(c) \/ OpenWakeFails(c) \/ OpenInit(c)
             \/ OpenFails(c) \/ OpenNoMemory(c) \/ OpenJoin(c)
             \/ (RunPending(c) /\ ~(core.pending /\ opened = {}))
    <2>1. Remembering
      BY <1>5 DEF OpenCancel, OpenWake, OpenWakeFails, OpenInit, OpenFails, OpenNoMemory,
         OpenJoin, RunPending, Remembering
    <2>2. QED
      BY <2>1, RememberingKeeps
  <1>6. CASE \/ SessionOpen(c) \/ Reserve(c) \/ ReserveRefused(c) \/ SessionInit(c)
             \/ SessionInitDone(c) \/ SessionRelease(c)
    <2>1. Remembering
      BY <1>6, ZenonT(40) DEF SessionOpen, Reserve, ReserveRefused, SessionInit, SessionInitDone,
         SessionRelease, Remembering
    <2>2. QED
      BY <2>1, RememberingKeeps
  <1>7. CASE \/ StreamoffClose(c) \/ CloseFile(c) \/ SessionEnd(c) \/ SessionEndDone(c)
             \/ CloseLeave(c) \/ ClosePcSchedule(c)
    <2>1. StreamoffClose(c) => Remembering
      BY DEF StreamoffClose, Remembering
    <2>2. CloseFile(c) => Remembering
      BY DEF CloseFile, Remembering
    <2>3. SessionEnd(c) => Remembering
      BY DEF SessionEnd, Remembering
    <2>4. SessionEndDone(c) => Remembering
      BY DEF SessionEndDone, Remembering
    <2>5. CloseLeave(c) => Remembering
      BY DEF CloseLeave, Remembering
    <2>6. ClosePcSchedule(c) => Remembering
      BY DEF ClosePcSchedule, Remembering
    <2>7. QED
      BY <1>7, <2>1, <2>2, <2>3, <2>4, <2>5, <2>6, RememberingKeeps
  <1>8. CASE SessionEndClear(c) \/ (SessionEndRequest(c) /\ ret[c] # "err")
    <2>1. Remembering
      BY <1>8 DEF SessionEndClear, SessionEndRequest, Remembering
    <2>2. QED
      BY <2>1, RememberingKeeps
  <1>9. QED
    BY <1>1, <1>2, <1>3, <1>4, <1>5, <1>6, <1>7, <1>8 DEF ClientStep

(* The interrupt thread, the firmware and idle collapse forget nothing.    *)
LEMMA SystemRemembers ==
  ASSUME TypeOK, Remembered, UNCHANGED <<pc, cont>>,
         \/ IrqStep \/ FwInit \/ FwSysError \/ PcStep \/ Suspend \/ Resume
         \/ \E c \in Clients : SessionError(c)
         \/ UNCHANGED vars
  PROVE  Remembered'
  <1> USE DEF TypeOK, FwType, CoreType, deviceVars, callVars, Recovering, Asking
  <1>1. CASE \E c \in Clients : SessionError(c)
    <2>1. core'.pending
      BY <1>1 DEF SessionError
    <2>2. QED
      BY <2>1 DEF Remembered
  <1>2. CASE ~(\E c \in Clients : SessionError(c))
    <2>1. ret' = ret
      BY <1>2 DEF IrqStep, IrqRead, IrqInitDone, IrqCoreError, IrqMark, FwInit, FwSysError,
         PcStep, PcStart, PcCollapse, PcSkip, PcRearm, Suspend, Resume, vars
    <2>2. fw'.wedged = fw.wedged
      BY <1>2 DEF IrqStep, IrqRead, IrqInitDone, IrqCoreError, IrqMark, FwInit, FwSysError,
         PcStep, PcStart, PcCollapse, PcSkip, PcRearm, Suspend, Resume, vars
    <2>3. /\ core.pending => core'.pending
          /\ core.state # "INIT" => core'.state # "INIT"
      BY <1>2 DEF IrqStep, IrqRead, IrqInitDone, IrqCoreError, IrqMark, FwInit, FwSysError,
         PcStep, PcStart, PcCollapse, PcSkip, PcRearm, Collapse, Suspend, Resume, vars
    <2>4. QED
      BY <2>1, <2>2, <2>3, RememberingKeeps DEF Remembering
  <1>3. QED
    BY <1>1, <1>2

(* Unless the recovery worker drops a request that is newer than its own   *)
(* recovery, a firmware that refuses every session is never forgotten: the *)
(* memory survives every race of the clients' opens, closes, time-outs and *)
(* recoveries.                                                             *)
THEOREM Wedge ==
  ASSUME "sys_error" \notin Events
  PROVE  Spec => []WedgeRemembered
  <1>1. Init => Remembered
    BY DEF Init, Remembered, Firmware
  <1>2. TypeOK /\ Quiet /\ Remembered /\ [Next]_vars => Remembered'
    <2> SUFFICES ASSUME TypeOK, Quiet, Remembered, [Next]_vars
                 PROVE  Remembered'
      OBVIOUS
    <2>1. ASSUME NEW c \in Clients, ClientStep(c)
          PROVE  Remembered'
      BY <2>1, CoreCallRemembers, ClientRemembers DEF Threads
    <2>2. CASE ~(\E c \in Clients : ClientStep(c))
      BY <2>2, QuietSteps, SystemKeepsQuiet, SystemRemembers
    <2>3. QED
      BY <2>1, <2>2
  <1>3. Remembered => WedgeRemembered
    BY DEF Remembered, WedgeRemembered, Recovering, Asking
  <1>4. QED
    BY <1>1, <1>2, <1>3, TypeCorrect, StaysQuiet, PTL DEF Spec
-----------------------------------------------------------------------------
(* Where a client is tells whether its instance exists and is listed.      *)
OpenReturns == {"openInit", "openCheck", "openDone"}

AtOpen(c) == \/ pc[c] \in {"wake", "restart"} \cup OpenReturns
             \/ pc[c] \in InCall /\ cont[c] \in OpenReturns

AtList(c) == pc[c] \in Joined \/ (pc[c] \in InCall /\ cont[c] = "reserve")

InstLabels ==
  \A c \in Clients :
    /\ instState[c] = "NONE" <=> pc[c] = "idle" \/ AtOpen(c)
    /\ c \in instances <=> AtList(c)
    /\ pc[c] = "runPending" => cont[c] \in {"reserve", "pcSchedule"}

(* iris_core_deinit() and iris_core_init() return to where they belong.    *)
LEMMA CoreCallKeepsInst ==
  ASSUME TypeOK, SessionLabels, InstLabels, NEW t \in Threads, CoreCall(t)
  PROVE  InstLabels'
  <1>1. UNCHANGED <<instState, instances, cont>>
    BY DEF CoreCall, DeinitCheck, Deinit, InitAlready, InitRefused, InitFails,
       InitBoot, InitSend, InitAbort, InitCheck, InitAnswered, InitTimeout,
       instVars
  <1>2. /\ pc[t] \in InCall
        /\ \E l \in (InCall \ {"runPending"}) \cup {cont[t]} : pc' = [pc EXCEPT ![t] = l]
    BY DEF CoreCall, DeinitCheck, Deinit, InitAlready, InitRefused, InitFails,
       InitBoot, InitSend, InitAbort, InitCheck, InitAnswered, InitTimeout,
       Goto, Return, InCall
  <1>3. QED
    BY <1>1, <1>2 DEF TypeOK, SessionLabels, InstLabels, InCall, Ending, Holding,
       Joined, Threads, AtOpen, AtList, OpenReturns

(* Every other step of a client keeps its instance where it belongs.       *)
LEMMA ClientKeepsInst ==
  ASSUME TypeOK, SessionLabels, InstLabels, NEW c \in Clients, ClientStep(c),
         ~CoreCall(c)
  PROVE  InstLabels'
  <1> USE DEF TypeOK, SessionLabels, InstLabels, InCall, Ending, Holding, Joined,
              Threads, AtOpen, AtList, OpenReturns, Goto, Call, Return, Recover,
              envVars, callVars, instVars
  <1>1. CASE OpenCancel(c)
    BY <1>1 DEF OpenCancel
  <1>2. CASE OpenWake(c)
    BY <1>2 DEF OpenWake
  <1>3. CASE OpenWakeFails(c)
    BY <1>3 DEF OpenWakeFails
  <1>4. CASE OpenRestart(c)
    BY <1>4 DEF OpenRestart
  <1>5. CASE OpenInit(c)
    BY <1>5 DEF OpenInit
  <1>6. CASE OpenPowerCycle(c)
    BY <1>6 DEF OpenPowerCycle
  <1>7. CASE OpenFails(c)
    BY <1>7 DEF OpenFails
  <1>8. CASE OpenNoMemory(c)
    BY <1>8 DEF OpenNoMemory
  <1>9. CASE OpenJoin(c)
    BY <1>9 DEF OpenJoin
  <1>10. CASE RunPending(c)
    BY <1>10 DEF RunPending
  <1>11. CASE SessionOpen(c)
    BY <1>11 DEF SessionOpen
  <1>12. CASE Reserve(c)
    BY <1>12 DEF Reserve
  <1>13. CASE ReserveRefused(c)
    BY <1>13 DEF ReserveRefused
  <1>14. CASE SessionInit(c)
    BY <1>14 DEF SessionInit
  <1>15. CASE SessionInitDone(c)
    BY <1>15 DEF SessionInitDone
  <1>16. CASE SessionInitTimeout(c)
    BY <1>16 DEF SessionInitTimeout, ToError
  <1>17. CASE SessionFail(c)
    BY <1>17 DEF SessionFail
  <1>18. CASE SessionRelease(c)
    BY <1>18 DEF SessionRelease
  <1>19. CASE SessionOpenFailed(c)
    BY <1>19 DEF SessionOpenFailed, ToError
  <1>20. CASE StreamoffClose(c)
    BY <1>20 DEF StreamoffClose
  <1>21. CASE CloseFile(c)
    BY <1>21 DEF CloseFile
  <1>22. CASE SessionEnd(c)
    BY <1>22 DEF SessionEnd
  <1>23. CASE SessionEndDone(c)
    BY <1>23 DEF SessionEndDone
  <1>24. CASE SessionEndTimeout(c)
    BY <1>24 DEF SessionEndTimeout, ToError
  <1>25. CASE SessionEndClear(c)
    BY <1>25 DEF SessionEndClear
  <1>26. CASE SessionEndRequest(c)
    BY <1>26 DEF SessionEndRequest
  <1>27. CASE StreamoffDone(c)
    BY <1>27 DEF StreamoffDone, ToError
  <1>28. CASE CloseLeave(c)
    BY <1>28 DEF CloseLeave
  <1>29. CASE ClosePcSchedule(c)
    BY <1>29 DEF ClosePcSchedule
  <1>30. QED
    BY <1>1, <1>2, <1>3, <1>4, <1>5, <1>6, <1>7, <1>8, <1>9, <1>10, <1>11,
       <1>12, <1>13, <1>14, <1>15, <1>16, <1>17, <1>18, <1>19, <1>20, <1>21,
       <1>22, <1>23, <1>24, <1>25, <1>26, <1>27, <1>28, <1>29 DEF ClientStep

(* The other threads put only listed instances in ERROR.                   *)
LEMMA SystemKeepsInst ==
  ASSUME TypeOK, SessionLabels, InstLabels,
         \/ SysStart \/ SysDrop \/ IrqStep \/ FwInit \/ FwSysError
         \/ PcStep \/ Suspend \/ Resume
         \/ \E c \in Clients : SessionError(c)
         \/ UNCHANGED vars
  PROVE  InstLabels'
  <1> USE DEF Goto, Call, Recover, envVars, callVars, instVars
  <1>1. /\ instances' = instances
        /\ \A c \in Clients : pc'[c] = pc[c] /\ cont'[c] = cont[c]
    <2>1. CASE SysStart \/ SysDrop
      BY <2>1, CoreAssumption DEF SysStart, SysDrop, TypeOK, Threads
    <2>2. CASE ~(SysStart \/ SysDrop)
      <3>1. UNCHANGED <<pc, cont, instances>>
        BY <2>2 DEF IrqStep, IrqRead, IrqInitDone, IrqCoreError, IrqMark,
           FwInit, FwSysError, PcStep, PcStart, PcCollapse, PcSkip, PcRearm,
           Suspend, Resume, SessionError, vars
      <3>2. QED
        BY <3>1
    <2>3. QED
      BY <2>1, <2>2
  <1>2. \A c \in Clients : \/ instState'[c] = instState[c]
                           \/ c \in instances /\ instState'[c] = "ERROR"
    <2>1. CASE IrqMark \/ \E c \in Clients : SessionError(c)
      BY <2>1 DEF IrqMark, SessionError, TypeOK
    <2>2. CASE ~(IrqMark \/ \E c \in Clients : SessionError(c))
      <3>1. UNCHANGED instState
        BY <2>2 DEF SysStart, SysDrop, IrqStep, IrqRead, IrqInitDone, IrqCoreError,
           FwInit, FwSysError, PcStep, PcStart, PcCollapse, PcSkip, PcRearm,
           Suspend, Resume, vars
      <3>2. QED
        BY <3>1
    <2>3. QED
      BY <2>1, <2>2
  <1>3. \A c \in instances : pc[c] # "idle" /\ ~AtOpen(c)
    BY DEF InstLabels, AtList, AtOpen, Joined, Holding, Ending, InCall, OpenReturns, TypeOK
  <1>4. /\ \A c \in Clients : AtOpen(c)' = AtOpen(c) /\ AtList(c)' = AtList(c)
        /\ \A c \in instances : instState[c] # "NONE"
    <2>1. \A c \in instances : instState[c] # "NONE"
      BY <1>3 DEF InstLabels, TypeOK
    <2>2. \A c \in Clients : AtOpen(c)' = AtOpen(c) /\ AtList(c)' = AtList(c)
      BY <1>1 DEF AtOpen, AtList
    <2>3. QED
      BY <2>1, <2>2
  <1>5. QED
    BY <1>1, <1>2, <1>4 DEF InstLabels

(* Both kinds of labels hold throughout.                                   *)
LEMMA Labelled == Spec => [](SessionLabels /\ InstLabels)
  <1>1. Init => SessionLabels /\ InstLabels
    BY DEF Init, SessionLabels, InstLabels, InCall, Ending, Holding, Joined, Threads,
       AtOpen, AtList, OpenReturns
  <1>2. TypeOK /\ SessionLabels /\ InstLabels /\ [Next]_vars
          => SessionLabels' /\ InstLabels'
    <2> SUFFICES ASSUME TypeOK, SessionLabels, InstLabels, [Next]_vars
                 PROVE  SessionLabels' /\ InstLabels'
      OBVIOUS
    <2>1. ASSUME NEW t \in Threads, CoreCall(t)
          PROVE  SessionLabels' /\ InstLabels'
      BY <2>1, CoreCallKeepsSessions, CoreCallKeepsInst
    <2>2. ASSUME NEW c \in Clients, ClientStep(c), ~CoreCall(c)
          PROVE  SessionLabels' /\ InstLabels'
      BY <2>2, ClientKeepsSessions, ClientKeepsInst
    <2>3. CASE ~(\E c \in Clients : ClientStep(c)) /\ ~CoreCall(SysWorker)
      BY <2>3, SystemKeepsSessions, SystemKeepsInst DEF Next, SysStep
    <2>4. QED
      BY <2>1, <2>2, <2>3 DEF Threads
  <1>3. QED
    BY <1>1, <1>2, TypeCorrect, PTL DEF Spec
-----------------------------------------------------------------------------
(* No collapse under an open file.                                         *)
AwakeInv ==
  /\ \A c \in Clients : AtOpen(c) => work.run # "lock"
  /\ \A c \in Clients : AtOpen(c) /\ pc[c] # "wake" => ~core.suspended
  /\ instances # {} => ~core.suspended

(* Calls of the core do not collapse it.                                   *)
LEMMA CoreCallKeepsAwake ==
  ASSUME TypeOK, SessionLabels, AwakeInv, NEW t \in Threads, CoreCall(t)
  PROVE  AwakeInv'
  <1>1. /\ instances' = instances /\ work'.run = work.run
        /\ core'.suspended => core.suspended
        /\ cont' = cont
    BY DEF CoreCall, DeinitCheck, Deinit, InitAlready, InitRefused, InitFails,
       InitBoot, InitSend, InitAbort, InitCheck, InitAnswered, InitTimeout,
       instVars, envVars, TypeOK, CoreType, WorkType
  <1>2. /\ pc[t] \in InCall
        /\ \E l \in (InCall \ {"runPending"}) \cup {cont[t]} : pc' = [pc EXCEPT ![t] = l]
    BY DEF CoreCall, DeinitCheck, Deinit, InitAlready, InitRefused, InitFails,
       InitBoot, InitSend, InitAbort, InitCheck, InitAnswered, InitTimeout,
       Goto, Return, InCall
  <1>3. \A c \in Clients : AtOpen(c)' => AtOpen(c) /\ (pc'[c] # "wake" => pc[c] # "wake")
    BY <1>1, <1>2 DEF TypeOK, SessionLabels, AtOpen, InCall, OpenReturns, Threads
  <1>4. QED
    BY <1>1, <1>3 DEF AwakeInv

(* A step of a client, but the waking up, that opens no further.           *)
StaysOut(c) ==
  /\ work'.run = work.run /\ core'.suspended = core.suspended
  /\ instances' \subseteq instances
  /\ \A d \in Clients : AtOpen(d)' => AtOpen(d) /\ (pc[d] = "wake" => pc'[d] = "wake")

(* An opening client wakes the core up before it goes on, and joins an     *)
(* awake one.                                                              *)
LEMMA ClientKeepsAwake ==
  ASSUME TypeOK, SessionLabels, InstLabels, AwakeInv, Events \cap WakeFaults = {},
         NEW c \in Clients, ClientStep(c), ~CoreCall(c)
  PROVE  AwakeInv'
  <1> USE DEF TypeOK, CoreType, WorkType, Threads, Goto, Call, Return, Recover,
              envVars, callVars, instVars
  <1> USE DEF AtOpen, OpenReturns, InCall, Joined, Holding, Ending
  <1>1. CASE OpenCancel(c)
    BY <1>1 DEF OpenCancel, AwakeInv
  <1>2. CASE OpenWake(c)
    BY <1>2 DEF OpenWake, AwakeInv
  <1>3. CASE OpenWakeFails(c)
    BY <1>3 DEF OpenWakeFails, Charge
  <1>4. CASE OpenRestart(c) \/ OpenInit(c) \/ OpenPowerCycle(c)
    BY <1>4 DEF OpenRestart, OpenInit, OpenPowerCycle, AwakeInv
  <1>5. CASE OpenJoin(c)
    BY <1>5 DEF OpenJoin, AwakeInv
  <1>6. CASE OpenFails(c) \/ OpenNoMemory(c)
    <2>1. StaysOut(c)
      BY <1>6 DEF OpenFails, OpenNoMemory, StaysOut
    <2>2. QED
      BY <2>1 DEF StaysOut, AwakeInv
  <1>7. CASE RunPending(c)
    <2>1. cont[c] \in {"reserve", "pcSchedule"}
      BY <1>7 DEF RunPending, InstLabels
    <2>2. StaysOut(c)
      BY <1>7, <2>1 DEF RunPending, StaysOut
    <2>3. QED
      BY <2>2 DEF StaysOut, AwakeInv
  <1>8. CASE \/ SessionOpen(c) \/ Reserve(c) \/ ReserveRefused(c) \/ SessionInit(c)
             \/ SessionInitDone(c) \/ SessionInitTimeout(c) \/ SessionFail(c)
             \/ SessionRelease(c) \/ SessionOpenFailed(c)
    <2>1. StaysOut(c)
      BY <1>8 DEF SessionOpen, Reserve, ReserveRefused, SessionInit, SessionInitDone,
         SessionInitTimeout, SessionFail, SessionRelease, SessionOpenFailed, ToError,
         StaysOut
    <2>2. QED
      BY <2>1 DEF StaysOut, AwakeInv
  <1>9. CASE \/ StreamoffClose(c) \/ CloseFile(c) \/ SessionEnd(c) \/ SessionEndDone(c)
             \/ SessionEndTimeout(c) \/ SessionEndClear(c) \/ StreamoffDone(c)
             \/ CloseLeave(c) \/ ClosePcSchedule(c)
    <2>1. StaysOut(c)
      BY <1>9 DEF StreamoffClose, CloseFile, SessionEnd, SessionEndDone, SessionEndTimeout,
         SessionEndClear, StreamoffDone, CloseLeave, ClosePcSchedule, ToError, StaysOut
    <2>2. QED
      BY <2>1 DEF StaysOut, AwakeInv
  <1>10. CASE SessionEndRequest(c)
    <2>1. cont[c] \in {"stopped", "leave"}
      BY <1>10 DEF SessionEndRequest, SessionLabels
    <2>2. StaysOut(c)
      BY <1>10, <2>1 DEF SessionEndRequest, StaysOut
    <2>3. QED
      BY <2>2 DEF StaysOut, AwakeInv
  <1>11. QED
    BY <1>1, <1>2, <1>3, <1>4, <1>5, <1>6, <1>7, <1>8, <1>9, <1>10 DEF ClientStep

(* A worker that has not passed an opening client does not start, and one  *)
(* that has the lock finds the list; nobody is in a call as the system     *)
(* goes to sleep.                                                          *)
LEMMA SystemKeepsAwake ==
  ASSUME TypeOK, InstLabels, AwakeInv, Timely,
         \/ SysStart \/ SysDrop \/ IrqStep \/ FwInit \/ FwSysError
         \/ PcStep \/ Suspend \/ Resume
         \/ \E c \in Clients : SessionError(c)
         \/ UNCHANGED vars
  PROVE  AwakeInv'
  <1> USE DEF TypeOK, CoreType, WorkType, envVars, callVars, instVars, deviceVars
  <1>1. /\ instances' = instances
        /\ \A c \in Clients : pc'[c] = pc[c] /\ cont'[c] = cont[c]
    <2>1. CASE SysStart \/ SysDrop
      BY <2>1, CoreAssumption DEF SysStart, SysDrop, Threads, Goto, Call, Recover
    <2>2. CASE ~(SysStart \/ SysDrop)
      <3>1. UNCHANGED <<pc, cont, instances>>
        BY <2>2 DEF IrqStep, IrqRead, IrqInitDone, IrqCoreError, IrqMark,
           FwInit, FwSysError, PcStep, PcStart, PcCollapse, PcSkip, PcRearm,
           Suspend, Resume, SessionError, vars
      <3>2. QED
        BY <3>1
    <2>3. QED
      BY <2>1, <2>2
  <1>2. \A c \in Clients : AtOpen(c)' = AtOpen(c)
    BY <1>1 DEF AtOpen
  <1>3. CASE PcStart
    <2>1. \A c \in Clients : ~AtOpen(c)
      BY <1>3 DEF PcStart, Opening, InstLabels, AtOpen, OpenReturns, InCall
    <2>2. QED
      BY <1>1, <1>2, <1>3, <2>1 DEF PcStart, AwakeInv
  <1>4. CASE PcCollapse
    <2>1. (\A c \in Clients : ~AtOpen(c)) /\ instances = {}
      BY <1>4 DEF PcCollapse, AwakeInv
    <2>2. QED
      BY <1>1, <1>2, <2>1 DEF AwakeInv
  <1>5. CASE Suspend /\ core'.suspended /\ ~core.suspended
    <2>1. instances = {}
      BY <1>5 DEF Suspend
    <2>2. \A c \in Clients : ~AtOpen(c)
      BY <1>5 DEF Suspend, Parked, AtOpen, OpenReturns, InCall
    <2>3. QED
      BY <1>1, <1>2, <2>1, <2>2 DEF AwakeInv
  <1>6. CASE ~(PcStart \/ PcCollapse) /\ (core'.suspended => core.suspended)
    <2>1. work'.run = "lock" => work.run = "lock"
      BY <1>6 DEF SysStart, SysDrop, IrqStep, IrqRead, IrqInitDone, IrqCoreError, IrqMark,
         FwInit, FwSysError, PcStep, PcSkip, PcRearm, Suspend, Resume, SessionError, vars
    <2>2. QED
      BY <1>1, <1>2, <1>6, <2>1 DEF AwakeInv
  <1>7. CASE ~(PcCollapse \/ Suspend)
    <2>1. core'.suspended => core.suspended
      BY <1>7 DEF SysStart, SysDrop, IrqStep, IrqRead, IrqInitDone, IrqCoreError, IrqMark,
         FwInit, FwSysError, PcStep, PcStart, PcSkip, PcRearm, Resume, SessionError, vars
    <2>2. QED
      BY <1>3, <1>6, <1>7, <2>1
  <1>8. CASE Suspend
    BY <1>3, <1>4, <1>5, <1>6, <1>8
  <1>9. QED
    BY <1>4, <1>7, <1>8

(* While the worker lags behind no opening file, and no wake-up fails, the *)
(* VPU is never collapsed under an open file: any number of opens, closes, *)
(* recoveries and sleeps race with the idle worker.                        *)
THEOREM Awake ==
  ASSUME Timely, Events \cap WakeFaults = {}
  PROVE  Spec => []VpuAwake
  <1>1. Init => AwakeInv
    BY DEF Init, AwakeInv, AtOpen, OpenReturns, InCall, Threads
  <1>2. TypeOK /\ (SessionLabels /\ InstLabels) /\ AwakeInv /\ [Next]_vars => AwakeInv'
    <2> SUFFICES ASSUME TypeOK, SessionLabels, InstLabels, AwakeInv, [Next]_vars
                 PROVE  AwakeInv'
      OBVIOUS
    <2>1. ASSUME NEW t \in Threads, CoreCall(t)
          PROVE  AwakeInv'
      BY <2>1, CoreCallKeepsAwake
    <2>2. ASSUME NEW c \in Clients, ClientStep(c), ~CoreCall(c)
          PROVE  AwakeInv'
      BY <2>2, ClientKeepsAwake
    <2>3. CASE ~(\E c \in Clients : ClientStep(c)) /\ ~CoreCall(SysWorker)
      BY <2>3, SystemKeepsAwake DEF Next, SysStep
    <2>4. QED
      BY <2>1, <2>2, <2>3 DEF Threads
  <1>3. AwakeInv => VpuAwake
    BY DEF AwakeInv, VpuAwake
  <1>4. QED
    BY <1>1, <1>2, <1>3, TypeCorrect, Labelled, PTL DEF Spec

-----------------------------------------------------------------------------
(* An idle core is going to be collapsed.  A client at one of these labels *)
(* will arm the idle worker, or leave an instance that does.               *)
WillArm(c) ==
  \/ pc[c] \in {"wake", "restart", "openInit", "pcSchedule"} \cup InCall
  \/ pc[c] \in {"openCheck", "openDone"} /\ ret[c] = "ok"

Armed == work.pc \/ work.run # "idle" \/ \E c \in Clients : WillArm(c)

IdleCore == core.state = "INIT" /\ instances = {} /\ ~core.suspended

ArmedInv == IdleCore => Armed

(* Steps that neither make the core idle nor disarm the worker.            *)
StaysArmed ==
  /\ IdleCore' => IdleCore
  /\ work.pc \/ work.run # "idle" => work'.pc \/ work'.run # "idle"
  /\ \A c \in Clients : WillArm(c) => WillArm(c)'

(* They keep an idle core armed.                                           *)
LEMMA StaysArmedKeeps ==
  ASSUME ArmedInv, StaysArmed
  PROVE  ArmedInv'
  BY DEF ArmedInv, Armed, StaysArmed

(* A client that boots the core arms its worker later.                     *)
LEMMA CoreCallKeepsArmed ==
  ASSUME TypeOK, SessionLabels, ArmedInv, NEW c \in Clients, CoreCall(c)
  PROVE  ArmedInv'
  <1> USE DEF TypeOK, CoreType, WorkType, Threads, Goto, Return
  <1>1. CASE Deinit(c) \/ InitRefused(c) \/ InitFails(c) \/ InitAbort(c) \/ InitTimeout(c)
             \/ (InitCheck(c) /\ core.state = "ERROR")
    <2>1. core'.state # "INIT"
      BY <1>1 DEF Deinit, InitRefused, InitFails, InitAbort, InitTimeout, InitCheck
    <2>2. QED
      BY <2>1 DEF ArmedInv, IdleCore
  <1>2. CASE DeinitCheck(c) \/ InitBoot(c) \/ InitSend(c)
             \/ (InitCheck(c) /\ core.state # "ERROR")
    <2>1. WillArm(c)'
      BY <1>2 DEF DeinitCheck, InitBoot, InitSend, InitCheck, WillArm, InCall
    <2>2. QED
      BY <2>1 DEF ArmedInv, Armed
  <1>3. CASE InitAlready(c) \/ InitAnswered(c)
    <2>1. /\ pc'[c] = cont[c] /\ ret'[c] = "ok" /\ instances' = instances
          /\ pc[c] \in InCall
      BY <1>3 DEF InitAlready, InitAnswered, InCall, instVars
    <2>2. CASE cont[c] = "reserve"
      BY <2>1, <2>2 DEF SessionLabels, ArmedInv, IdleCore
    <2>3. CASE cont[c] # "reserve"
      <3>1. WillArm(c)'
        BY <2>1, <2>3 DEF SessionLabels, WillArm
      <3>2. QED
        BY <3>1 DEF ArmedInv, Armed
    <2>4. QED
      BY <2>2, <2>3
  <1>4. QED
    BY <1>1, <1>2, <1>3 DEF CoreCall

(* A file that is opened or closed arms the worker in the end.             *)
LEMMA ClientKeepsArmed ==
  ASSUME TypeOK, SessionLabels, InstLabels, ArmedInv, "memory" \notin Events,
         NEW c \in Clients, ClientStep(c), ~CoreCall(c)
  PROVE  ArmedInv'
  <1> USE DEF TypeOK, CoreType, WorkType, Threads, Goto, Call, Return, Recover
  <1>1. CASE OpenCancel(c) \/ OpenWake(c) \/ OpenWakeFails(c) \/ OpenRestart(c)
             \/ OpenInit(c) \/ OpenPowerCycle(c)
    <2>1. WillArm(c)'
      BY <1>1 DEF OpenCancel, OpenWake, OpenWakeFails, OpenRestart, OpenInit,
         OpenPowerCycle, WillArm, InCall
    <2>2. QED
      BY <2>1 DEF ArmedInv, Armed
  <1>2. CASE OpenFails(c)
    <2>1. StaysArmed
      BY <1>2 DEF OpenFails, StaysArmed, IdleCore, WillArm, envVars, instVars, InCall
    <2>2. QED
      BY <2>1, StaysArmedKeeps
  <1>3. CASE OpenNoMemory(c)
    BY <1>3 DEF OpenNoMemory, Charge
  <1>4. CASE OpenJoin(c)
    <2>1. instances' # {}
      BY <1>4 DEF OpenJoin
    <2>2. QED
      BY <2>1 DEF ArmedInv, IdleCore
  <1>5. CASE RunPending(c)
    <2>1. CASE core.pending /\ opened = {}
      <3>1. WillArm(c)'
        BY <1>5, <2>1 DEF RunPending, WillArm, InCall
      <3>2. QED
        BY <3>1 DEF ArmedInv, Armed
    <2>2. CASE ~(core.pending /\ opened = {}) /\ cont[c] = "pcSchedule"
      <3>1. WillArm(c)'
        BY <1>5, <2>2 DEF RunPending, WillArm
      <3>2. QED
        BY <3>1 DEF ArmedInv, Armed
    <2>3. CASE cont[c] = "reserve"
      <3>1. instances' # {}
        BY <1>5, <2>3 DEF RunPending, SessionLabels, InCall, instVars
      <3>2. QED
        BY <3>1 DEF ArmedInv, IdleCore
    <2>4. QED
      BY <1>5, <2>1, <2>2, <2>3 DEF RunPending, InstLabels
  <1>6. CASE CloseLeave(c)
    <2>1. WillArm(c)'
      BY <1>6 DEF CloseLeave, WillArm, InCall
    <2>2. QED
      BY <2>1 DEF ArmedInv, Armed
  <1>7. CASE ClosePcSchedule(c)
    <2>1. instances' = {} => work'.pc
      BY <1>7 DEF ClosePcSchedule
    <2>2. QED
      BY <2>1 DEF ArmedInv, Armed, IdleCore
  <1>8. CASE \/ SessionOpen(c) \/ Reserve(c) \/ ReserveRefused(c) \/ SessionInit(c)
             \/ SessionInitDone(c) \/ SessionInitTimeout(c) \/ SessionFail(c)
             \/ SessionRelease(c) \/ SessionOpenFailed(c)
             \/ StreamoffClose(c) \/ CloseFile(c) \/ SessionEnd(c) \/ SessionEndDone(c)
             \/ SessionEndTimeout(c) \/ SessionEndClear(c) \/ SessionEndRequest(c)
             \/ StreamoffDone(c)
    <2>1. pc[c] \in Joined
      BY <1>8 DEF SessionOpen, Reserve, ReserveRefused, SessionInit, SessionInitDone,
         SessionInitTimeout, SessionFail, SessionRelease, SessionOpenFailed, StreamoffClose,
         CloseFile, SessionEnd, SessionEndDone, SessionEndTimeout, SessionEndClear,
         SessionEndRequest, StreamoffDone, Joined, Holding, Ending
    <2>2. instances' = instances
      BY <1>8 DEF SessionOpen, Reserve, ReserveRefused, SessionInit, SessionInitDone,
         SessionInitTimeout, SessionFail, SessionRelease, SessionOpenFailed, StreamoffClose,
         CloseFile, SessionEnd, SessionEndDone, SessionEndTimeout, SessionEndClear,
         SessionEndRequest, StreamoffDone, instVars
    <2>3. QED
      BY <2>1, <2>2 DEF SessionLabels, ArmedInv, IdleCore
  <1>9. QED
    BY <1>1, <1>2, <1>3, <1>4, <1>5, <1>6, <1>7, <1>8 DEF ClientStep

(* The worker rearms itself, and so does whoever wakes an idle core up.    *)
LEMMA SystemKeepsArmed ==
  ASSUME TypeOK, ArmedInv, UNCHANGED <<pc, cont>>,
         \/ IrqStep \/ FwInit \/ FwSysError \/ PcStep \/ Suspend \/ Resume
         \/ \E c \in Clients : SessionError(c)
         \/ UNCHANGED vars
  PROVE  ArmedInv'
  <1> USE DEF TypeOK, CoreType, WorkType, envVars, callVars, instVars, deviceVars
  <1>1. ret' = ret /\ instances' = instances
    BY DEF IrqStep, IrqRead, IrqInitDone, IrqCoreError, IrqMark, FwInit, FwSysError,
       PcStep, PcStart, PcCollapse, PcSkip, PcRearm, Suspend, Resume, SessionError, vars
  <1>2. \A c \in Clients : WillArm(c) => WillArm(c)'
    BY <1>1 DEF WillArm
  <1>3. CASE PcStep
    <2>1. CASE PcStart \/ PcCollapse \/ PcSkip
      <3>1. work'.run # "idle"
        BY <2>1 DEF PcStart, PcCollapse, PcSkip
      <3>2. QED
        BY <3>1 DEF ArmedInv, Armed
    <2>2. CASE PcRearm
      <3>1. IdleCore' => work'.pc
        BY <2>2 DEF PcRearm, IdleCore
      <3>2. QED
        BY <3>1 DEF ArmedInv, Armed
    <2>3. QED
      BY <1>3, <2>1, <2>2 DEF PcStep
  <1>4. CASE Resume /\ core'.suspended # core.suspended
    <2>1. instances' = {} => work'.pc
      BY <1>4 DEF Resume
    <2>2. QED
      BY <2>1 DEF ArmedInv, Armed, IdleCore
  <1>5. CASE ~PcStep /\ ~(Resume /\ core'.suspended # core.suspended)
    <2>1. IdleCore' => IdleCore
      BY <1>1, <1>5 DEF IrqStep, IrqRead, IrqInitDone, IrqCoreError, IrqMark, FwInit,
         FwSysError, Suspend, Collapse, Resume, SessionError, vars, IdleCore
    <2>2. work.pc \/ work.run # "idle" => work'.pc \/ work'.run # "idle"
      BY <1>5 DEF IrqStep, IrqRead, IrqInitDone, IrqCoreError, IrqMark, FwInit,
         FwSysError, Suspend, Resume, SessionError, vars
    <2>3. QED
      BY <1>2, <2>1, <2>2, StaysArmedKeeps DEF StaysArmed
  <1>6. QED
    BY <1>3, <1>4, <1>5

(* Unless an open runs out of memory or the recovery worker boots the core *)
(* behind the last close, a core that idles is always going to be          *)
(* collapsed, however opens, closes, recoveries, sleeps and the worker     *)
(* itself interleave.                                                      *)
THEOREM Idle ==
  ASSUME Events \cap {"memory", "sys_error"} = {}
  PROVE  Spec => []IdleArmed
  <1>1. Init => ArmedInv
    BY DEF Init, ArmedInv, IdleCore
  <1>2. TypeOK /\ Quiet /\ (SessionLabels /\ InstLabels) /\ ArmedInv /\ [Next]_vars
          => ArmedInv'
    <2> SUFFICES ASSUME TypeOK, Quiet, SessionLabels, InstLabels, ArmedInv, [Next]_vars
                 PROVE  ArmedInv'
      OBVIOUS
    <2>1. ASSUME NEW c \in Clients, ClientStep(c)
          PROVE  ArmedInv'
      BY <2>1, CoreCallKeepsArmed, ClientKeepsArmed
    <2>2. CASE ~(\E c \in Clients : ClientStep(c))
      BY <2>2, QuietSteps, SystemKeepsQuiet, SystemKeepsArmed
    <2>3. QED
      BY <2>1, <2>2
  <1>3. ArmedInv => IdleArmed
    BY DEF ArmedInv, IdleArmed, IdleCore, Armed, WillArm, InCall, Threads
  <1>4. "sys_error" \notin Events
    OBVIOUS
  <1>5. QED
    BY <1>1, <1>2, <1>3, <1>4, TypeCorrect, Labelled, StaysQuiet, PTL DEF Spec
=============================================================================
