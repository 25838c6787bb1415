------------------------------ MODULE IrisLoad -------------------------------
(***************************************************************************)
(* Decoder instances that share one legacy core: what each of them asks    *)
(* for (formats, frames, rates), whether the core takes it (sessions,      *)
(* macroblocks, the load reserved for CAPTURE, the two video cores), which *)
(* sizes and counts the firmware is told, and which buffers are allocated. *)
(*                                                                         *)
(* An instance has one client thread (ctx_q_lock) and the interrupt        *)
(* thread; inst->lock is dropped for the wait for an answer and nowhere    *)
(* else, so a step is one region under that lock.  The list of instances   *)
(* and what admission reads of them are under core->lock.  The streaming   *)
(* itself is IrisStream.                                                   *)
(***************************************************************************)
EXTENDS IrisInstState, IrisEncBuffer

CONSTANTS
  Instances,  \* open files of the video device
  Frames,     \* frames a client asks for and a stream has
  Used,       \* codecs the clients choose from, a subset of Codecs
  Limits,     \* the platforms: a behaviour runs on one of them
  Fps,        \* rates a client can feed a stream with
  Counts,     \* REQBUFS counts for CAPTURE
  Minimums,   \* buffer minimums the firmware reports
  Careless    \* a client may stream into a CAPTURE queue that is too small,
              \* change the pixel format while OUTPUT streams, and the codec
              \* or the frame while CAPTURE has buffers

(* A platform: session and macroblock limits, the limit of 4K sessions,    *)
(* whether its firmware reports the exact size of a DPB, and bounds on the *)
(* steps of a behaviour on it that are counted in budget.                  *)
LimitFields == {"sessions", "mbpf", "instMbpf", "mbps", "max4K", "reports", "bounds"}
Counted     == {"formats", "frees", "changes", "stops", "windows", "faults"}

ASSUME LoadAssumption ==
  /\ Used \subseteq Codecs
  /\ IsFiniteSet(Instances)
  /\ \A l \in Limits : /\ DOMAIN l = LimitFields /\ l.bounds \in [Counted -> Nat]
                       /\ {l.sessions, l.mbps, l.max4K} \subseteq Nat
  /\ Counts \cup Minimums \subseteq 1 .. MaxFrames
  /\ Frames \subseteq [w : Nat \ {0}, h : Nat \ {0}]
  /\ Fps \subseteq Nat \ {0}
  /\ Careless \in BOOLEAN

VARIABLES
  inst,    \* inst[i], a record, see below
  lim,     \* the platform
  budget   \* counted steps so far

vars == <<inst, lim, budget>>

-----------------------------------------------------------------------------
(* Fields of an instance i.  pc, op and saved: the client thread, the call *)
(* it is in and the locals it keeps over a wait.  src, dst, raw, stride,   *)
(* crop, outSize: the two formats; outMin and capMin the minimum counts of *)
(* CAPTURE for the driver and for vb2.  slot: hfi_session_opened; core:    *)
(* hfi_core_id; resv: the reserved load as fps (0: none).  rate, down,     *)
(* window: frame_rate, its hysteresis, the rate of the window under way.   *)
(* out and cap are the allocated queues, on those that stream.  told: the  *)
(* properties the firmware has been sent, by which STREAMON last.  For the *)
(* properties only: resv.grown, the frame has grown since the reservation; *)
(* raced, the stream changed during STREAMON of CAPTURE.                   *)

NoPool  == [n |-> 0, size |-> 0]
NoLoad  == [fps |-> 0, grown |-> FALSE]
Untold  == [by |-> "none", raw |-> "none", mult |-> 0, count |-> 0, size |-> 0,
            dpbCount |-> 0, dpbSize |-> 0]

Default == Frame(320, 240)

MaxFps     == 480
DefaultFps == 30
Class4K    == 32400        \* IRIS1_4K_MBPF
Max4KMbpf  == 34816        \* IRIS1_MAX_4K_MBPF

Aligned(d) == Frame(Align(d.w, 128), Align(d.h, 32))

Closed ==
  [open |-> FALSE, pc |-> "idle", op |-> "none", saved |-> [dpb |-> 0, count |-> 0],
   state |-> "DEINIT", sub |-> {}, codec |-> "H264",
   src |-> Default, dst |-> Aligned(Default), raw |-> "NV12",
   stride |-> RawStride(Default.w, "NV12"), crop |-> Frame(0, 0),
   outSize |-> OutputSize(Aligned(Default), "NV12"), outMin |-> MinBuffers,
   capMin |-> MinBuffers, fwMin |-> 0, changed |-> FALSE,
   slot |-> FALSE, core |-> 0, resv |-> NoLoad, rejected |-> FALSE,
   rate |-> MaxFps, down |-> 0, window |-> 0, hole |-> FALSE,
   out |-> FALSE, cap |-> NoPool, on |-> {}, fwDpb |-> 0, dpb |-> NoPool,
   told |-> Untold, raced |-> FALSE]

Init ==
  /\ inst = [i \in Instances |-> Closed]
  /\ lim \in Limits
  /\ budget = [k \in Counted |-> 0]

Spend(k) == /\ budget[k] < lim.bounds[k]
            /\ budget' = [budget EXCEPT ![k] = @ + 1]

Load(r) == Mbpf(r.src, r.crop)

Grown(old, new) == old.resv.fps > 0 /\ new.resv.fps > 0 /\ Load(new) > Load(old)

Set(i, r) == /\ inst' = [inst EXCEPT ![i] = [r EXCEPT !.resv.grown = @ \/ Grown(inst[i], r)]]
             /\ UNCHANGED lim
Only(i, r) == Set(i, r) /\ UNCHANGED budget

-----------------------------------------------------------------------------
(* Load of the core.                                                       *)

Others(i)   == Instances \ {i}
Opened(S)   == {j \in S : inst[j].slot}
Reserved(S) == {j \in S : inst[j].resv.fps > 0}

FrameLoad == [j \in Instances |-> Load(inst[j])]
RateLoad  == [j \in Instances |-> Load(inst[j]) * inst[j].resv.fps]

Supported(i) ==
  /\ inst[i].open
  /\ SumFunctionOnSet(FrameLoad, Opened(Others(i))) + Load(inst[i]) <= lim.mbpf
  /\ Load(inst[i]) <= lim.instMbpf
  /\ {inst[i].src.w, inst[i].src.h} \subseteq 96 .. 8192

SlotFree(i) ==
  /\ Cardinality(Opened(Instances)) < lim.sessions
  /\ SumFunctionOnSet(FrameLoad, Opened(Instances)) + Load(inst[i]) <= lim.mbpf

AdmissionFps(r) ==
  IF r.window > 0 THEN Min({r.window, MaxFps})
  ELSE IF Load(r) > Max4KMbpf THEN 30 ELSE 60

Large(S) == {j \in S : Load(inst[j]) >= Class4K}

(* Mutant of CanReserve: a limit that one session may exceed.              *)
CanReserveMore(i, r) ==
  /\ SumFunctionOnSet(RateLoad, Reserved(Instances)) + Load(r) * AdmissionFps(r) <= lim.mbps
  /\ Load(r) >= Class4K => Cardinality(Large(Reserved(Instances))) <= lim.max4K

CanReserve(i, r) ==
  /\ SumFunctionOnSet(RateLoad, Reserved(Instances)) + Load(r) * AdmissionFps(r) <= lim.mbps
  /\ Load(r) >= Class4K => Cardinality(Large(Reserved(Instances))) < lim.max4K

Released(r) == [r EXCEPT !.resv = NoLoad]

(* Mutant of SessionGone: the video core is kept for the next session.     *)
SessionGoneCore(r) ==
  [Released(r) EXCEPT !.slot = FALSE, !.rejected = FALSE]

(* What a failed open and every end of a session give back.                *)
SessionGone(r) ==
  [Released(r) EXCEPT !.slot = FALSE, !.rejected = FALSE, !.core = 0]

-----------------------------------------------------------------------------
(* Formats.                                                                *)

(* The CAPTURE format that follows from a width and height.                *)
Captures(r, d, raw) ==
  [r EXCEPT !.dst = Aligned(d), !.raw = raw, !.stride = RawStride(d.w, raw),
            !.outSize = OutputSize(Aligned(d), raw), !.crop = d]

Clamp(x, lo, hi) == Min({Max({x, lo}), hi})

Idle(i) == inst[i].open /\ inst[i].pc = "idle"

InstInit(i) ==
  /\ ~inst[i].open
  /\ Only(i, [Closed EXCEPT !.open = TRUE])

SFmtOutput(i, codec, d0) ==
  LET d == Frame(Clamp(d0.w, 96, 8192), Clamp(d0.h, 96, 8192))
      n == IF codec = "HEVC" THEN 32 ELSE 16
      r == [inst[i] EXCEPT !.codec = codec, !.src = Frame(Align(d.w, n), Align(d.h, n))]
  IN /\ Idle(i) /\ ~inst[i].out
     /\ Careless \/ inst[i].cap.n = 0
     /\ Spend("formats")
     /\ Set(i, Captures(r, d, r.raw))

(* A streaming OUTPUT queue fixes the frame.                               *)
SFmtCapture(i, raw) ==
  LET r == inst[i]
      d == IF "OUTPUT" \in r.on THEN r.src ELSE r.dst
  IN /\ Idle(i) /\ r.cap.n = 0
     /\ raw # r.raw => "OUTPUT" \notin r.on \/ Careless
     /\ Spend("formats")
     /\ Set(i, [Captures(r, d, raw) EXCEPT !.outMin = OutputMin(r.codec, r.fwMin)])

-----------------------------------------------------------------------------
(* Opening a session: the slot is taken before the answer is waited for.   *)

TakeSlot(i, r, op) == Only(i, [r EXCEPT !.slot = TRUE, !.pc = "opening", !.op = op])

NoCall(r) == [r EXCEPT !.pc = "idle", !.op = "none"]

OpenFailed(i) ==
  /\ inst[i].pc = "opening"
  /\ Spend("faults")
  /\ LET r == NoCall(SessionGone(inst[i]))
     IN Set(i, IF inst[i].op \in Planes THEN Fail(r) ELSE r)

-----------------------------------------------------------------------------
(* REQBUFS.                                                                *)

Setup(p) == IF p = "OUTPUT" THEN "setupOutput" ELSE "setupCapture"

Unallocated(r, p) == IF p = "OUTPUT" THEN [r EXCEPT !.out = FALSE]
                     ELSE [r EXCEPT !.cap = NoPool]

Reserve(r) == [r EXCEPT !.resv.fps = AdmissionFps(r)]

(* The rest of iris_vb2_queue_setup(), the session being open.             *)
QueueSetupRest(i, r, p) ==
  IF p = "OUTPUT"
  THEN Only(i, [r EXCEPT !.hole = @ \/ r.codec = "VP9", !.out = TRUE])
  ELSE IF r.resv.fps = 0 /\ ~CanReserve(i, r)
  THEN Only(i, [r EXCEPT !.rejected = TRUE])
  ELSE \E n \in Counts :
         Only(i, [(IF r.resv.fps = 0 THEN Reserve(r) ELSE r) EXCEPT
                    !.hole = FALSE, !.cap = [n |-> Max({n, r.capMin}), size |-> r.outSize]])

(* REQBUFS frees what the queue has before it asks the driver again.       *)
QueueSetup(i, p) ==
  LET r == Unallocated(inst[i], p)
  IN /\ Idle(i) /\ p \notin r.on /\ r.state # "ERROR"
     /\ p = "CAPTURE" => ~r.rejected
     /\ Supported(i)
     /\ \/ r.slot /\ QueueSetupRest(i, r, p)
        \/ ~r.slot /\ SlotFree(i) /\ TakeSlot(i, r, Setup(p))

(* Mutant of ReleaseHole: asks, as the allocation does, for the codec.     *)
ReleaseHoleVp9(r) == IF r.codec = "VP9" THEN [r EXCEPT !.hole = FALSE] ELSE r

ReleaseHole(r) == [r EXCEPT !.hole = FALSE]

(* REQBUFS(0), and every setup that is refused.                            *)
Free(i, p) ==
  /\ Idle(i) /\ p \notin inst[i].on
  /\ IF p = "OUTPUT" THEN inst[i].out ELSE inst[i].cap.n > 0
  /\ Spend("frees")
  /\ Set(i, Unallocated(inst[i], p))

-----------------------------------------------------------------------------
(* What the firmware is told.                                              *)

Multiple(raw) == IF raw = "P010" THEN 256 ELSE 128

TellFormat(r) ==
  [r EXCEPT !.told.raw = r.raw, !.told.mult = Multiple(r.raw)]

(* STREAMON of OUTPUT sends the whole table: both streams, with the count  *)
(* of the DPBs for the client's stream and the largest for the DPBs.       *)
TellAll(r) ==
  [TellFormat(r) EXCEPT
     !.told.by = "OUTPUT", !.told.count = DpbCount(r.fwMin), !.told.size = r.outSize,
     !.told.dpbCount = MaxFrames, !.told.dpbSize = DpbSize(r.dst, r.raw)]

(* STREAMON of CAPTURE corrects counts and sizes, after the wait.          *)
TellCapture(r) ==
  [r EXCEPT
     !.told.by = "CAPTURE", !.told.count = r.saved.count, !.told.size = r.outSize,
     !.told.dpbCount = r.saved.dpb,
     !.told.dpbSize = IF r.fwDpb > 0 THEN r.fwDpb ELSE DpbSize(r.dst, r.raw)]

(* A report can be a page of padding below the formula.  Only the largest  *)
(* one is kept.                                                            *)
Report(r) == IF lim.reports THEN DpbSize(r.dst, r.raw) - 4096 ELSE 0

PropertyInfo(r) == [r EXCEPT !.fwDpb = Max({@, Report(r)})]

(* Mutant of InternalSizes: the larger of the two sizes, as on the later   *)
(* platforms.                                                              *)
InternalSizesMax(r) ==
  [n |-> DpbCount(r.fwMin), size |-> Max({r.fwDpb, DpbSize(r.dst, r.raw)})]

InternalSizes(r) ==
  [n |-> DpbCount(r.fwMin),
   size |-> IF r.fwDpb > 0 THEN r.fwDpb ELSE DpbSize(r.dst, r.raw)]

-----------------------------------------------------------------------------
(* The choice of a video core.                                             *)

(* A rate nobody has measured counts as the default.                       *)
CoreFps(r) == Max({IF r.rate = MaxFps THEN DefaultFps ELSE r.rate, 1})

CoreLoad(i, c) ==
  SumFunctionOnSet([j \in Instances |-> Load(inst[j]) * CoreFps(inst[j])],
                   {j \in Opened(Others(i)) : inst[j].core = c})

DecideCore(i) ==
  IF inst[i].core # 0 THEN inst[i].core
  ELSE IF Pipes > 1 /\ CoreLoad(i, 1) > CoreLoad(i, 2) THEN 2 ELSE 1

-----------------------------------------------------------------------------
(* STREAMON.                                                               *)

(* Up to the wait for the buffer requirements.                             *)
StartStreaming(i, r, p) ==
  IF p = "OUTPUT"
  THEN TellAll([r EXCEPT !.rate = MaxFps, !.down = 0, !.core = DecideCore(i),
                         !.pc = "requirements", !.op = p])
  ELSE [(IF r.changed THEN TellFormat(r) ELSE r) EXCEPT
          !.changed = FALSE, !.raced = FALSE, !.pc = "requirements", !.op = p,
          !.saved = [dpb |-> DpbCount(r.fwMin), count |-> r.cap.n]]

Allocated(r, p) == IF p = "OUTPUT" THEN r.out ELSE r.cap.n > 0

Enough(r) == r.cap.n >= r.outMin /\ r.cap.size >= r.outSize

StreamOn(i, p) ==
  LET r == inst[i]
  IN /\ Idle(i) /\ p \notin r.on /\ Allocated(r, p) /\ r.state # "ERROR"
     /\ p = "CAPTURE" => Careless \/ Enough(r)
     /\ \/ /\ Supported(i) /\ r.slot
           /\ Only(i, StartStreaming(i, r, p))
        \/ Supported(i) /\ ~r.slot /\ SlotFree(i) /\ TakeSlot(i, r, p)
        \/ /\ ~Supported(i) \/ ~(r.slot \/ SlotFree(i))
           /\ Only(i, Fail(r))

(* SESSION_INIT is answered: the call that opened the session goes on.     *)
OpenAnswered(i) ==
  LET r == NoCall(ChangeState(inst[i], "INIT"))
  IN /\ inst[i].pc = "opening" /\ inst[i].state # "ERROR"
     /\ \/ inst[i].op = "setupOutput"  /\ QueueSetupRest(i, r, "OUTPUT")
        \/ inst[i].op = "setupCapture" /\ QueueSetupRest(i, r, "CAPTURE")
        \/ inst[i].op \in Planes       /\ Only(i, StartStreaming(i, r, inst[i].op))

(* iris_process_streamon_input(): the pause of a change that is under way  *)
(* is taken back and, as the change still is, set again.                   *)
StreamonInput(r) ==
  LET paused == IF r.sub \cap {"DRC", "FIRST_IPSC"} # {} /\ "INPUT_PAUSE" \notin r.sub
                THEN {"INPUT_PAUSE"} ELSE {}
  IN ChangeSub(StateChangeStreamon([r EXCEPT !.window = 0], "OUTPUT"), {}, paused)

StreamonOutput(r) ==
  LET ended == (IF DrcPending(r) THEN {"DRC", "DRC_LAST"} ELSE {})
               \cup (IF r.state = "INPUT_STREAMING" THEN {"INPUT_PAUSE"} ELSE {})
               \cup {"FIRST_IPSC", "OUTPUT_PAUSE"}
  IN ChangeSub(StateChangeStreamon(r, "CAPTURE"), ended, {})

(* After the wait.                                                         *)
RequirementsAnswered(i) ==
  LET r == NoCall(PropertyInfo(inst[i]))
      p == inst[i].op
  IN /\ inst[i].pc = "requirements" /\ inst[i].state # "ERROR"
     /\ Only(i, [(IF p = "OUTPUT"
                  THEN StreamonInput([r EXCEPT !.sub = @ \ {"INPUT_PAUSE"}])
                  ELSE StreamonOutput([TellCapture(r) EXCEPT !.dpb = InternalSizes(r)]))
                 EXCEPT !.on = @ \cup {p}])

(* It times out, or a session error has come before the answer.            *)
RequirementsExpire(i) ==
  /\ inst[i].pc = "requirements"
  /\ \/ inst[i].state = "ERROR" /\ UNCHANGED budget
     \/ inst[i].state # "ERROR" /\ Spend("faults")
  /\ Set(i, NoCall(Fail(inst[i])))

-----------------------------------------------------------------------------
(* STREAMOFF and close().                                                  *)

StreamOff(i, p) ==
  /\ Idle(i) /\ p \in inst[i].on
  /\ Spend("stops")
  /\ Set(i, [inst[i] EXCEPT !.pc = "stopping", !.op = p])

(* When neither queue streams any more the session is ended, and with it   *)
(* the buffers the driver allocated for it.                                *)
StreamoffTail(r) ==
  IF r.state = "INIT"
  THEN [ChangeState(SessionGone(r), "DEINIT") EXCEPT !.sub = {}, !.dpb = NoPool]
  ELSE r

(* In ERROR nothing is asked of the firmware and nothing is changed but    *)
(* the reserved load.                                                      *)
Stopped(i) ==
  LET p == inst[i].op
      r == [NoCall(inst[i]) EXCEPT !.on = @ \ {p}]
      s == StreamoffTail(StateChangeStreamoff(r, p))
  IN /\ inst[i].pc = "stopping"
     /\ Only(i, IF p = "CAPTURE" THEN Released(s) ELSE s)

(* An overdue answer: the load stays reserved.                             *)
StopExpires(i) ==
  /\ inst[i].pc = "stopping"
  /\ Spend("faults")
  /\ Set(i, [Fail(NoCall(inst[i])) EXCEPT !.on = @ \ {inst[i].op}])

Close(i) ==
  /\ Idle(i) /\ inst[i].on = {}
  /\ Spend("stops")
  /\ Set(i, [inst[i] EXCEPT !.pc = "closing"])

(* The rest of the instance is freed; what is listed here is not of it.    *)
CloseEnds(i) ==
  LET r == ReleaseHole([SessionGone(inst[i]) EXCEPT !.dpb = NoPool])
  IN /\ inst[i].pc = "closing"
     /\ Only(i, [Closed EXCEPT !.hole = r.hole, !.dpb = r.dpb, !.slot = r.slot,
                               !.resv = r.resv, !.core = r.core])

-----------------------------------------------------------------------------
(* The stream.                                                             *)

(* A sample of less than a second.                                         *)
QbufSample(i, fps) ==
  /\ Idle(i) /\ "OUTPUT" \in inst[i].on /\ inst[i].window = 0
  /\ Spend("windows")
  /\ Set(i, [inst[i] EXCEPT !.window = fps])

(* Mutant of Target: the rate is not kept within its bounds.              *)
TargetUnbounded(fps) == DivUp(fps * 11, 10)

Target(fps) == Clamp(DivUp(fps * 11, 10), DefaultFps, MaxFps)

(* The second is full: up at once, down after three of them.               *)
QbufWindow(i) ==
  LET r == [inst[i] EXCEPT !.window = 0]
      t == Target(inst[i].window)
  IN /\ Idle(i) /\ "OUTPUT" \in r.on /\ inst[i].window > 0
     /\ Only(i, IF r.rate = MaxFps \/ t >= r.rate \/ r.down >= 2
                THEN [r EXCEPT !.rate = t, !.down = 0]
                ELSE [r EXCEPT !.down = @ + 1])

ReadChangedParams(r, d, deep, n) ==
  LET raw  == IF deep THEN "P010" ELSE r.raw
      dst  == Captures(r, d, raw)
      most == OutputMin(r.codec, n)
  IN [dst EXCEPT !.src = d, !.changed = @ \/ raw # r.raw,
                 !.fwMin = n, !.outMin = most, !.capMin = most]

(* Mutant of StillFits: the sizes are not compared.                        *)
StillFitsFrame(r, x) ==
  /\ r.fwMin = 0 /\ r.state = "STREAMING"
  /\ r.dst = x.dst
  /\ r.cap.n >= x.outMin /\ x.fwMin <= r.dpb.n

(* The first sequence, known when CAPTURE already streams, needs no more   *)
(* than CAPTURE has.                                                       *)
StillFits(r, x) ==
  /\ r.fwMin = 0 /\ r.state = "STREAMING"
  /\ r.dst = x.dst /\ r.outSize >= x.outSize
  /\ r.cap.n >= x.outMin /\ x.fwMin <= r.dpb.n

FirmwareParses(i) ==
  /\ inst[i].slot /\ inst[i].state \in {"INPUT_STREAMING", "STREAMING"}
  /\ "OUTPUT" \in inst[i].on
  /\ inst[i].pc \in {"idle", "requirements", "stopping"}
  /\ "INPUT_PAUSE" \notin inst[i].sub

SeqChanged(i, d, deep, n) ==
  LET r == inst[i]
      x == ReadChangedParams(r, d, deep, n)
  IN /\ FirmwareParses(i) /\ "DRC" \notin r.sub
     /\ Spend("changes")
     /\ Set(i, [(IF StillFits(r, x)
                 THEN ChangeSub(x, {"DRC", "FIRST_IPSC", "INPUT_PAUSE"}, {})
                 ELSE SubChangeDrcLast(SubChangeDrc(ReleaseHole(x))))
                EXCEPT !.raced = @ \/ r.pc = "requirements"])

SessionDies(i) ==
  /\ inst[i].slot /\ inst[i].state # "ERROR"
  /\ Spend("faults")
  /\ Set(i, Fail(inst[i]))

-----------------------------------------------------------------------------
Client(i) ==
  \/ InstInit(i) \/ Close(i) \/ CloseEnds(i)
  \/ \E c \in Used, d \in Frames : SFmtOutput(i, c, d)
  \/ \E raw \in RawFormats : SFmtCapture(i, raw)
  \/ \E p \in Planes : QueueSetup(i, p) \/ Free(i, p) \/ StreamOn(i, p) \/ StreamOff(i, p)
  \/ OpenAnswered(i) \/ OpenFailed(i)
  \/ RequirementsAnswered(i) \/ RequirementsExpire(i)
  \/ Stopped(i) \/ StopExpires(i)
  \/ \E fps \in Fps : QbufSample(i, fps)
  \/ QbufWindow(i)

Firmware(i) ==
  \/ \E d \in Frames, deep \in BOOLEAN, n \in Minimums : SeqChanged(i, d, deep, n)
  \/ SessionDies(i)

Next == \E i \in Instances : Client(i) \/ Firmware(i)

Spec == Init /\ [][Next]_vars

-----------------------------------------------------------------------------
(* Properties.                                                             *)

(* One record per file, of the driver's types: rates and hysteresis stay   *)
(* within their bounds, and a call waits only for what it can wait for.    *)
TypeOK ==
  /\ lim \in Limits
  /\ \A i \in Instances : LET r == inst[i] IN
       /\ r.state \in States /\ r.sub \subseteq SubStates
       /\ r.pc \in {"idle", "opening", "requirements", "stopping", "closing"}
       /\ r.codec \in Codecs /\ r.raw \in RawFormats
       /\ r.rate \in DefaultFps .. MaxFps /\ r.down \in 0 .. 2
       /\ r.resv.fps \in 0 .. MaxFps /\ r.core \in 0 .. 2
       /\ r.cap.n \in 0 .. MaxFrames /\ r.dpb.n \in 0 .. MaxFrames
       /\ r.on \subseteq Planes /\ \A p \in r.on : Allocated(r, p)
       /\ r.pc \in {"opening", "requirements"} => r.slot

(* However the opens, refusals, failures and closes of several files fall, *)
(* the core never has more sessions than it can, and the reserved CAPTURE  *)
(* streams stay within its throughput and its limit of 4K sessions, unless *)
(* a stream has grown after it was admitted, which nothing checks again.   *)
ReservedFits ==
  LET S == Reserved(Instances)
  IN /\ Cardinality(Opened(Instances)) <= lim.sessions
     /\ \/ \E i \in S : inst[i].resv.grown
        \/ /\ SumFunctionOnSet(RateLoad, S) <= lim.mbps
           /\ Cardinality(Large(S)) <= lim.max4K

(* The CAPTURE format a client reads is one the firmware can write: lines  *)
(* are a multiple of what it is told, hold the picture, and all of them    *)
(* and the chroma fit into sizeimage; three functions compute these apart. *)
LayoutAgrees ==
  \A i \in {j \in Instances : inst[j].open} : LET r == inst[i] IN
    /\ r.stride % Multiple(r.raw) = 0
    /\ r.stride >= (IF r.raw = "P010" THEN 2 ELSE 1) * r.crop.w
    /\ r.stride * (r.dst.h + r.dst.h \div 2) <= r.outSize

(* CAPTURE runs and no change of the stream waits for the client.          *)
Running(r) ==
  /\ "CAPTURE" \in r.on /\ r.state = "STREAMING" /\ r.pc = "idle"
  /\ r.sub \cap {"DRC", "FIRST_IPSC"} = {} /\ ~r.raced

(* After STREAMON of CAPTURE the firmware has been told what the host has: *)
(* format, buffers of the client and DPBs, although the lock was dropped   *)
(* between reading them and sending them, and sizes come from three places.*)
ToldAgrees ==
  \A i \in Instances : LET r == inst[i] IN
    Running(r) /\ r.told.by = "CAPTURE" =>
      /\ r.told.raw = r.raw /\ r.told.mult = Multiple(r.raw)
      /\ r.told.count = r.cap.n /\ r.told.size = r.outSize
      /\ r.dpb = [n |-> r.told.dpbCount, size |-> r.told.dpbSize]

(* While CAPTURE runs, its buffers hold the picture and are enough: also   *)
(* when CAPTURE was started before the first sequence was known and the    *)
(* driver decided that the client need not be asked to allocate again.     *)
BuffersFit ==
  \A i \in Instances : LET r == inst[i] IN
    Running(r) => r.cap.size >= r.outSize /\ r.cap.n >= r.outMin

(* A file without a session holds no reservation, no video core and no     *)
(* DPBs, and a closed one no placeholder: on every path that ends one.     *)
ReleasedClean ==
  \A i \in Instances : LET r == inst[i] IN
    /\ ~r.slot => r.resv = NoLoad /\ r.core = 0 /\ r.dpb = NoPool
    /\ ~r.open => ~r.slot /\ ~r.hole

(* Two sessions never share a video core while the other one is free,      *)
(* whatever the order in which they open, start, stop and reopen.          *)
CoresApart ==
  Cardinality(Instances) = 2 /\ Pipes > 1 =>
    \A i, j \in Instances :
      i # j /\ inst[i].core # 0 => inst[i].core # inst[j].core

Samples(d) == (d.w * d.h * 3) \div 2

Smaller(c, d) == c.w <= d.w /\ c.h <= d.h

(* What can be wrong with the sizes of the buffers for a frame d: not      *)
(* aligned, less than for a smaller frame, a DPB too small for a picture,  *)
(* which with ten bits has four bytes for three samples.                   *)
DecoderSound(d, smaller) ==
  /\ Qc08cSize(d) >= Samples(d) /\ Qc10cSize(d) >= (Samples(d) \div 3) * 4
  /\ OutputSize(d, "NV12") >= Samples(d) /\ OutputSize(d, "P010") >= 2 * Samples(d)
  /\ InputSize(Mbs(d), "VP9", 138240) >= Samples(d) \div 4
  /\ \A c \in Codecs : /\ BinSize(c, d) % 256 = 0
                       /\ LineSize(c, d) > 0 /\ PersistSize(c) % 256 = 0
  /\ \A e \in smaller, c \in Codecs, raw \in RawFormats, t \in InternalTypes :
       InternalSize(t, c, e, raw) <= InternalSize(t, c, d, raw)

EncoderSound(d, smaller) ==
  /\ EncScratch2(d) >= 4 * Samples(d) /\ EncVpssSize(d, TRUE) >= Samples(d)
  /\ EncOutputSize(d, FALSE) <= EncOutputSize(d, TRUE)
  /\ \A c \in EncCodecs :
       /\ EncScratch1(c, d) >= EncColMv(c, d) + EncColRc(c, d) + EncArp \div 4
       /\ \A both, rc \in BOOLEAN : EncBin(c, d, both, rc) >= Lcus(c, d)
       /\ \A e \in smaller : /\ EncNonComv(c, e) <= EncNonComv(c, d)
                             /\ EncLine(c, e) <= EncLine(c, d)
                             /\ EncComv(c, e) <= EncComv(c, d)

(* Every frame an instance can have: as asked for or reported, and aligned.*)
AllFrames ==
  LET given == Frames \cup {Default}
  IN given \cup {Aligned(d) : d \in given}
     \cup {Frame(Align(d.w, n), Align(d.h, n)) : d \in given, n \in {16, 32}}

SoundFrames ==
  {d \in AllFrames :
     LET smaller == {e \in AllFrames : Smaller(e, d)}
     IN DecoderSound(d, smaller) /\ EncoderSound(d, smaller)}

(* The sizes of the driver's own buffers are sound for every frame that a  *)
(* client, the alignment of a format or the firmware brings an instance to.*)
SizesSound == \A i \in Instances : {inst[i].src, inst[i].dst} \subseteq SoundFrames
=============================================================================
