----------------------------- MODULE IrisStream -----------------------------
(***************************************************************************)
(* One decoder instance of the iris driver on the legacy VPU5 and its      *)
(* firmware session: the buffers of its two queues, STREAMON, STREAMOFF,   *)
(* the drain (DECODER_CMD STOP), the restart (START), source changes, and  *)
(* the messages of the firmware that the interrupt thread handles.         *)
(*                                                                         *)
(* Threads: the queue thread (QBUF, STREAMON and STREAMOFF, serialised by  *)
(* ctx_q_lock), the command thread (DECODER_CMD, which takes inst->lock    *)
(* only), the interrupt thread and the firmware.  inst->lock is dropped    *)
(* for the wait for an answer and nowhere else, so a step is one region    *)
(* under the lock, from its start or the end of a wait to the next wait.   *)
(***************************************************************************)
EXTENDS IrisInstState, Integers, Sequences, SequencesExt

CONSTANTS
  InBufs,     \* buffers of the OUTPUT queue: compressed data for the decoder
  OutBufs,    \* buffers of the CAPTURE queue: decoded pictures
  None,       \* "no buffer"
  Eos,        \* the synthetic input buffer session_drain() sends
  Codecs,     \* codecs a behaviour chooses from: "H264" and "VP9"
  Events,     \* which of Faults a run allows
  MaxFaults,  \* bound on the faults injected in one behaviour
  MaxOns,     \* bound on the STREAMONs of one behaviour, per codec
  MaxStops,   \* bound on the DECODER_CMD STOPs of one behaviour
  MaxChanges, \* bound on the source changes after the first
  MaxDrops,   \* IRIS1_MAX_CORRUPT_OUTPUT_DROPS
  MaxDone,    \* bound on completions left in inst->completion
  Careless    \* DECODER_CMD may come during a STREAMON or STREAMOFF, and
              \* input between STOP and the restart

(* late: an answer comes after the time-out.  hang: the firmware stops.    *)
(* reject: an answer carries an error.  session_error, unsupported: the    *)
(* firmware reports the error.  empty_input: QBUF of an empty buffer.      *)
(* corrupt: a picture is flagged as corrupt.                               *)
Faults == {"late", "hang", "reject", "session_error", "unsupported",
           "empty_input", "corrupt"}

Bufs == InBufs \cup OutBufs

ASSUME StreamAssumption ==
  /\ IsFiniteSet(InBufs) /\ IsFiniteSet(OutBufs) /\ InBufs \cap OutBufs = {}
  /\ None \notin Bufs /\ Eos \notin Bufs
  /\ Codecs \subseteq {"H264", "VP9"}
  /\ Events \subseteq Faults
  /\ MaxOns \in [Codecs -> Nat] /\ {MaxFaults, MaxStops, MaxChanges, MaxDrops} \subseteq Nat
  /\ MaxDone \in Nat \ {0}
  /\ Careless \in BOOLEAN

VARIABLES
  codec,    \* inst->codec
  s,        \* what inst->lock protects, and the firmware's side of it
  on,       \* planes for which vb2_is_streaming()
  queue,    \* the queue thread: where it waits, on which plane, saved locals
  command,  \* the command thread
  budget    \* STREAMONs, STOPs, source changes and faults so far

vars == <<codec, s, on, queue, command, budget>>

Plane(b)     == IF b \in InBufs THEN "OUTPUT" ELSE "CAPTURE"
PlaneBufs(p) == IF p = "OUTPUT" THEN InBufs ELSE OutBufs

(* Fields of s.  Driver: state, sub; last = last_buffer_dequeued; stopped  *)
(* = v4l2_m2m_has_stopped(); off = streamoff_pending; flushes =            *)
(* flush_responses_pending; known = (fw_min_count # 0); changed =          *)
(* capture_format_changed; held = pending_output; drops =                  *)
(* corrupt_output_drops; resp, flushed = the two completions; own[b] who   *)
(* has the buffer for vb2, attr[b] the BUF_ATTR bits that matter; dpb the  *)
(* DPB pools by attribute.  Firmware: up, run, parsed, paused, inq, outs,  *)
(* pool, msgs.  heldPic is the picture of the held buffer; seen is what    *)
(* userspace has been given (for the properties only).                     *)
Closed ==
  [state |-> "DEINIT", sub |-> {}, last |-> FALSE, stopped |-> FALSE,
   off |-> FALSE, flushes |-> 0, known |-> FALSE, changed |-> FALSE,
   held |-> None, drops |-> 0, resp |-> 0, flushed |-> 0,
   own |-> [b \in Bufs |-> "user"], attr |-> [b \in Bufs |-> "none"],
   dpb |-> [host |-> 0, deferred |-> 0, queued |-> 0],
   up |-> TRUE, run |-> FALSE, parsed |-> FALSE, paused |-> FALSE,
   inq |-> <<>>, outs |-> {}, pool |-> 0, msgs |-> <<>>,
   heldPic |-> "none", seen |-> {}]

Idle == [at |-> "idle", plane |-> "OUTPUT", drc |-> FALSE, drain |-> FALSE,
         rollback |-> FALSE]

Waits == {"props", "load", "start", "config", "release", "flush", "stop",
          "unload", "end"}

-----------------------------------------------------------------------------
(* The firmware.  It serves a command when it is written: its answers      *)
(* queue in msgs, and what it does on its own are actions below.           *)

Send(x, m) == IF x.up THEN [x EXCEPT !.msgs = Append(@, m)] ELSE x

Answer(x, c) == Send(x, [type |-> "answer", cmd |-> c, ok |-> TRUE])

Etb(b)       == [type |-> "etb", buf |-> b, ok |-> TRUE]
Ftb(b, pic, eos, bad) ==
  [type |-> "ftb", buf |-> b, pic |-> pic, eos |-> eos, bad |-> bad]
DpbDone      == [type |-> "dpb"]

(* FLUSH: output buffers and DPBs come back empty, with ALL the input too, *)
(* and then the answer.                                                    *)
FwFlush(x, all) ==
  IF ~x.up THEN x ELSE
  LET empty == [k \in 1..Cardinality(x.outs) |->
                  Ftb(SetToSeq(x.outs)[k], "empty", FALSE, FALSE)]
      dpbs  == [k \in 1..x.pool |-> DpbDone]
      etbs  == IF all THEN [k \in DOMAIN x.inq |-> Etb(x.inq[k])] ELSE <<>>
  IN [x EXCEPT !.msgs = @ \o etbs \o empty \o dpbs
                          \o <<[type |-> "flush", ok |-> TRUE]>>,
               !.outs = {}, !.pool = 0,
               !.inq = IF all THEN <<>> ELSE @]

FwContinue(x) == IF x.up THEN [x EXCEPT !.paused = FALSE] ELSE x
FwStop(x)     == [Answer(x, "stop") EXCEPT !.run = FALSE, !.inq = <<>>,
                    !.outs = {}, !.pool = 0, !.paused = FALSE]
FwEnd(x)      == [Answer(x, "end") EXCEPT !.run = FALSE, !.parsed = FALSE,
                    !.inq = <<>>, !.outs = {}, !.pool = 0, !.paused = FALSE]
FwStart(x)    == [Answer(x, "start") EXCEPT !.run = TRUE]

-----------------------------------------------------------------------------
(* Buffers.                                                                *)

(* iris_queue_buffer(): the firmware gets the buffer.                      *)
QueueBuffer(x, b) ==
  [x EXCEPT !.attr[b] = "queued",
            !.inq  = IF b \in InBufs THEN Append(@, b) ELSE @,
            !.outs = IF b \in OutBufs THEN @ \cup {b} ELSE @]

(* iris_queue_deferred_buffers(): every deferred buffer of the m2m list.   *)
QueueDeferred(x, p) ==
  LET D == {b \in PlaneBufs(p) : x.own[b] = "active" /\ x.attr[b] = "deferred"}
  IN [x EXCEPT !.attr = [b \in Bufs |-> IF b \in D THEN "queued" ELSE @[b]],
               !.inq  = IF p = "OUTPUT" THEN @ \o SetToSeq(D) ELSE @,
               !.outs = IF p = "CAPTURE" THEN @ \cup D ELSE @]

(* v4l2_m2m_buf_done() of all buffers of a plane still on its list.        *)
BuffersDone(x, p, to) ==
  [x EXCEPT !.own = [b \in Bufs |->
     IF b \in PlaneBufs(p) /\ @[b] = "active" THEN to ELSE @[b]]]

(* iris_flush_deferred_buffers(): as iris_vb2_buffer_done(), which hands a *)
(* buffer back as QUEUED while a failed STREAMON of its queue is undone.   *)
FlushDeferred(x, p, rollback) ==
  [x EXCEPT !.own = [b \in Bufs |->
     IF b \in PlaneBufs(p) /\ @[b] = "active" /\ x.attr[b] = "deferred"
     THEN IF rollback THEN "prepared" ELSE "user"
     ELSE @[b]]]

(* What userspace sees of a CAPTURE buffer handed back in state DONE.      *)
Witness(x, what) ==
  x.seen \cup (CASE what = "last" ->
                      {IF "last" \in x.seen THEN "secondLast" ELSE "last"}
                 [] what \in {"shown", "hidden"} ->
                      (IF "last" \in x.seen THEN {"pictureAfterLast"} ELSE {})
                      \cup (IF what = "hidden" THEN {"hiddenShown"} ELSE {})
                 [] OTHER -> {})

(* iris_vb2_buffer_done() of a CAPTURE buffer that is on the list.         *)
DoneCapture(x, b, what) ==
  [x EXCEPT !.own[b] = "user",
            !.seen = Witness(x, what),
            !.last = @ \/ what = "last",
            !.stopped = @ \/ what = "last"]

(* A pool of DPBs is created, queued, returned and destroyed as a whole.   *)
(* Creation keeps what the firmware still has (BUF_ATTR_QUEUED).           *)
CreateDpb(x) == [x EXCEPT !.dpb = [host |-> 1, deferred |-> 0, queued |-> @.queued]]
DestroyDpb(x) == [x EXCEPT !.dpb = [host |-> 0, deferred |-> 0, queued |-> 0]]

SendDpb(x, n) == [x EXCEPT !.dpb.queued = @ + n, !.pool = @ + n]

QueueDpb(x) ==
  IF x.state = "STREAMING"
  THEN SendDpb([x EXCEPT !.dpb.host = 0, !.dpb.deferred = 0],
               x.dpb.host + x.dpb.deferred)
  ELSE [x EXCEPT !.dpb.deferred = @ + x.dpb.host, !.dpb.host = 0]

QueueDeferredDpb(x) ==
  SendDpb([x EXCEPT !.dpb.deferred = 0], x.dpb.deferred)

(* The end of a successful iris_vb2_start_streaming().                     *)
QueueAllDeferred(x, p) ==
  LET y == IF p = "OUTPUT" THEN QueueDeferred(x, "OUTPUT") ELSE x
  IN IF y.state = "STREAMING" THEN QueueDeferred(QueueDeferredDpb(y), "CAPTURE")
     ELSE y

(* Mutant of BufQueue: the drain counts as soon as it is asked for.        *)
BufQueueEarlyLast(x, b, streaming) ==
  IF b \in OutBufs /\ ~x.last /\ (DrcPending(x) \/ "DRAIN" \in x.sub)
  THEN DoneCapture(x, b, "last")
  ELSE LET y == [x EXCEPT !.own[b] = "active"]
       IN IF streaming THEN QueueBuffer(y, b) ELSE [y EXCEPT !.attr[b] = "deferred"]

(* iris_vb2_buf_queue() and iris_vdec_qbuf().                              *)
BufQueue(x, b, streaming) ==
  IF x.state = "ERROR" THEN [x EXCEPT !.own[b] = "user"]
  ELSE IF b \in OutBufs /\ ~x.last /\ (DrcPending(x) \/ DrainPending(x))
  THEN DoneCapture(x, b, "last")
  ELSE LET y == [x EXCEPT !.own[b] = "active"]
       IN IF streaming THEN QueueBuffer(y, b) ELSE [y EXCEPT !.attr[b] = "deferred"]

-----------------------------------------------------------------------------
(* The interrupt thread: one message, under inst->lock.                    *)

(* Mutant of Unmatched: nothing excuses it.                                *)
UnmatchedFatal(x) == Fail(x)

(* An FTB that matches no queued buffer is fatal, except after LAST, after *)
(* the first end of stream, and during a STREAMOFF.                        *)
Unmatched(x) == IF x.off \/ x.last \/ x.stopped THEN x ELSE Fail(x)

(* Mutant of SendFlush: a flush already out is not added to.               *)
SendFlushOnce(x, all) == [FwFlush(x, all) EXCEPT !.flushes = 1]

(* Flush sent by the interrupt thread: nobody waits for it yet.            *)
SendFlush(x, all) == [FwFlush(x, all) EXCEPT !.flushes = @ + 1]

(* The end-of-stream FTB arms the drain before its buffer is looked at.    *)
DrainArm(x) == SubChangeDrainLast(SendFlush([x EXCEPT !.flushed = 0], FALSE))

(* VP9: both frames of a superframe have the timestamp of their input.  A  *)
(* buffer that meets itself as the held one has its own timestamp.         *)
SameTimestamp(x, m) == x.held = m.buf \/ (x.heldPic = "hidden" /\ m.pic = "second")

(* Mutant of SettleHeld: the hidden frame is completed, not recycled.      *)
SettleHeldShow(x, m) ==
  IF x.held = None THEN x
  ELSE [DoneCapture(x, x.held, IF x.heldPic = "hidden" THEN "hidden" ELSE "shown")
          EXCEPT !.held = None]

(* What the next FTB does to the held output: recycled when it carries the *)
(* same timestamp, else completed.  None as the new owner: not on the list *)
(* any more, iris_vb2_buffer_done() fails.                                 *)
SettleHeld(x, m) ==
  IF x.held = None THEN x
  ELSE IF codec = "VP9" /\ m.pic # "empty" /\ SameTimestamp(x, m)
  THEN [QueueBuffer(x, x.held) EXCEPT !.held = None, !.heldPic = "none"]
  ELSE [DoneCapture(x, x.held, IF x.heldPic = "hidden" THEN "hidden" ELSE "shown")
          EXCEPT !.held = None, !.heldPic = "none"]

SettleFails(x, m) ==
  /\ x.held # None /\ x.own[x.held] # "active"
  /\ ~(codec = "VP9" /\ m.pic # "empty" /\ SameTimestamp(x, m))

(* An empty buffer behind the last picture is the one marked LAST.         *)
Terminal(x, m) ==
  m.pic = "empty" /\ ~x.last /\ (DrcPending(x) \/ DrainPending(x))

(* What becomes of the buffer itself, once it is matched.                  *)
FillDone(x, m) ==
  IF codec # "VP9" /\ m.pic # "empty" /\ m.bad /\ x.drops < MaxDrops
  THEN QueueBuffer([x EXCEPT !.drops = @ + 1], m.buf)
  ELSE LET y == [x EXCEPT !.attr[m.buf] = "done",
                          !.drops = IF m.pic = "empty" THEN @ ELSE 0]
       IN IF m.pic # "empty" /\ codec = "VP9"
          THEN [y EXCEPT !.held = m.buf, !.heldPic = m.pic]
          ELSE IF m.pic # "empty" THEN DoneCapture(y, m.buf, IF m.bad THEN "error" ELSE "shown")
          ELSE DoneCapture(y, m.buf, IF Terminal(x, m) THEN "last" ELSE "empty")

(* iris_hfi_gen1_session_ftb_done().  The LAST flag is decided before the  *)
(* held output is settled.                                                 *)
FtbDone(x0, m) ==
  LET x == IF m.eos /\ m.pic = "empty" THEN DrainArm(x0) ELSE x0
  IN IF x.own[m.buf] # "active" \/ x.attr[m.buf] # "queued" THEN Unmatched(x)
     ELSE IF SettleFails(x, m)
     THEN Unmatched([x EXCEPT !.held = None, !.last = @ \/ Terminal(x, m)])
     ELSE FillDone(SettleHeld(x, m), m)

(* Mutant of DpbFtbDone: the pool stays marked as the firmware's.          *)
DpbFtbDoneMarked(x) ==
  IF x.dpb.queued = 0 THEN Unmatched(x) ELSE [x EXCEPT !.dpb.host = @ + 1]

DpbFtbDone(x) ==
  IF x.dpb.queued = 0 THEN Unmatched(x)
  ELSE [x EXCEPT !.dpb.queued = @ - 1, !.dpb.host = @ + 1]

(* iris_hfi_gen1_session_etb_done(); an unsupported stream fails the       *)
(* instance and still returns the buffer.                                  *)
EtbDone(x, m) ==
  IF m.buf = Eos THEN x
  ELSE IF x.own[m.buf] # "active" THEN Fail(x)
  ELSE LET y == IF m.ok THEN x ELSE Fail(x)
       IN IF y.attr[m.buf] # "queued" THEN y
          ELSE [y EXCEPT !.attr[m.buf] = "done", !.own[m.buf] = "user"]

(* Mutant of ArmDrc: the flush is sent but not counted.                    *)
ArmDrcUncounted(x) ==
  IF ~SubChangeDrcOk(x) THEN x
  ELSE LET y == SubChangeDrc(x)
           z == IF y.state # "ERROR" /\ "FIRST_IPSC" \notin y.sub
                THEN FwFlush(y, FALSE) ELSE y
       IN SubChangeDrcLast(z)

ArmDrc(x) ==
  IF ~SubChangeDrcOk(x) THEN x
  ELSE LET y == SubChangeDrc(x)
           z == IF y.state # "ERROR" /\ "FIRST_IPSC" \notin y.sub
                THEN SendFlush(IF y.flushes = 0 THEN [y EXCEPT !.flushed = 0] ELSE y,
                               FALSE)
                ELSE y
       IN SubChangeDrcLast(z)

(* iris_hfi_gen1_event_seq_changed(): kind says whether the CAPTURE        *)
(* allocation fits the new sequence and whether it is the first with ten   *)
(* bits, which changes the CAPTURE format.                                 *)
SeqChanged(x, m) ==
  IF "DRC" \in x.sub THEN x
  ELSE LET y == [x EXCEPT !.known = TRUE, !.changed = @ \/ m.kind = "tenbit"]
       IN IF ~x.known /\ x.state = "STREAMING" /\ m.kind = "fits"
          THEN ChangeSub(FwContinue(y), {"DRC", "FIRST_IPSC", "INPUT_PAUSE"}, {})
          ELSE ArmDrc(y)

(* FLUSH answers are counted and wake their waiter when the last is in;    *)
(* every other answer completes inst->completion.  A STREAMOFF forgives    *)
(* "already stopped"; what else an answer reports is fatal.                *)
FlushDone(x, m) ==
  LET y == [(IF m.ok THEN x ELSE Fail(x)) EXCEPT !.flushes = @ - 1]
  IN IF y.flushes = 0 THEN [y EXCEPT !.flushed = @ + 1] ELSE y

AnswerDone(x, m) ==
  [(IF m.ok THEN x ELSE Fail(x)) EXCEPT !.resp = IF @ < MaxDone THEN @ + 1 ELSE @]

Handle(x, m) ==
  CASE m.type = "etb"    -> EtbDone(x, m)
    [] m.type = "ftb"    -> FtbDone(x, m)
    [] m.type = "dpb"    -> DpbFtbDone(x)
    [] m.type = "seq"    -> SeqChanged(x, m)
    [] m.type = "error"  -> Fail(x)
    [] m.type = "flush"  -> FlushDone(x, m)
    [] OTHER -> AnswerDone(x, m)

Interrupt ==
  /\ s.msgs # <<>>
  /\ s' = Handle([s EXCEPT !.msgs = Tail(@)], Head(s.msgs))
  /\ UNCHANGED <<codec, on, queue, command, budget>>

-----------------------------------------------------------------------------
(* Faults.                                                                 *)

Charge(f) == /\ f \in Events
             /\ budget.faults < MaxFaults
             /\ budget' = [budget EXCEPT !.faults = @ + 1]

(* A wait for a completion: it ends with the completion, or when nothing   *)
(* will come any more, or (fault "late") before the answer is handled.     *)
Completed(w) == IF w = "flush" THEN s.flushed > 0 ELSE s.resp > 0
Taken(x, w)  == IF w = "flush" THEN [x EXCEPT !.flushed = @ - 1]
                ELSE [x EXCEPT !.resp = @ - 1]

Expires(w) ==
  /\ ~Completed(w)
  /\ \/ s.msgs = <<>> /\ UNCHANGED budget
     \/ s.msgs # <<>> /\ Charge("late")

Hang ==
  /\ s.up /\ s.state # "DEINIT" /\ Charge("hang")
  /\ s' = [s EXCEPT !.up = FALSE]
  /\ UNCHANGED <<codec, on, queue, command>>

(* The firmware reports a fatal error of the session, or answers the last  *)
(* command with one, or refuses the stream of its next input.              *)
SessionError ==
  /\ s.up /\ s.run /\ Charge("session_error")
  /\ s' = Send(s, [type |-> "error"])
  /\ UNCHANGED <<codec, on, queue, command>>

Reject ==
  /\ s.msgs # <<>> /\ Last(s.msgs).type \in {"answer", "flush"} /\ Last(s.msgs).ok
  /\ Charge("reject")
  /\ s' = [s EXCEPT !.msgs[Len(s.msgs)].ok = FALSE]
  /\ UNCHANGED <<codec, on, queue, command>>

Unsupported ==
  /\ s.up /\ s.run /\ s.inq # <<>> /\ Head(s.inq) # Eos /\ Charge("unsupported")
  /\ s' = [Send(s, [Etb(Head(s.inq)) EXCEPT !.ok = FALSE]) EXCEPT !.inq = Tail(@)]
  /\ UNCHANGED <<codec, on, queue, command>>

-----------------------------------------------------------------------------
(* The firmware on its own.                                                *)

FwReady == s.up /\ s.run /\ ~s.paused /\ s.inq # <<>>

(* The first input, or a later one, begins a new sequence: the firmware    *)
(* reports it and waits for CONTINUE before it touches that input.         *)
FwSequence ==
  /\ FwReady /\ Head(s.inq) # Eos
  /\ \/ ~s.parsed /\ UNCHANGED budget
     \/ /\ s.parsed /\ budget.changes < MaxChanges
        /\ budget' = [budget EXCEPT !.changes = @ + 1]
  /\ \E k \in {"fits", "resize"} \cup (IF s.changed \/ s.known THEN {} ELSE {"tenbit"}) :
       s' = [Send(s, [type |-> "seq", kind |-> k])
               EXCEPT !.paused = TRUE, !.parsed = TRUE]
  /\ UNCHANGED <<codec, on, queue, command>>

FwPicture ==
  /\ FwReady /\ s.parsed /\ Head(s.inq) # Eos /\ s.pool > 0
  /\ \E b \in s.outs, bad \in BOOLEAN :
       /\ IF bad THEN Charge("corrupt") ELSE UNCHANGED budget
       /\ s' = [s EXCEPT !.inq = Tail(@), !.outs = @ \ {b},
                      !.msgs = @ \o <<Etb(Head(s.inq)), Ftb(b, "single", FALSE, bad)>>]
  /\ UNCHANGED <<codec, on, queue, command>>

(* A VP9 superframe: the hidden frame comes first, with the timestamp of   *)
(* the shown one.                                                          *)
FwSuperframe ==
  /\ codec = "VP9" /\ FwReady /\ s.parsed /\ Head(s.inq) # Eos /\ s.pool > 0
  /\ \E b \in s.outs : \E c \in s.outs \ {b} :
       s' = [s EXCEPT !.inq = Tail(@), !.outs = @ \ {b, c},
                      !.msgs = @ \o <<Etb(Head(s.inq)), Ftb(b, "hidden", FALSE, FALSE),
                                      Ftb(c, "second", FALSE, FALSE)>>]
  /\ UNCHANGED <<codec, on, queue, command, budget>>

FwEndOfStream ==
  /\ FwReady /\ Head(s.inq) = Eos
  /\ \E b \in s.outs :
       s' = [s EXCEPT !.inq = Tail(@), !.outs = @ \ {b},
                      !.msgs = @ \o <<Etb(Eos), Ftb(b, "empty", TRUE, FALSE)>>]
  /\ UNCHANGED <<codec, on, queue, command, budget>>

Firmware == FwSequence \/ FwPicture \/ FwSuperframe \/ FwEndOfStream

-----------------------------------------------------------------------------
(* The queue thread.                                                       *)

At(l)         == queue.at = l
Goto(l)       == queue' = [queue EXCEPT !.at = l]
Rest          == queue' = Idle
Others        == UNCHANGED <<codec, command>>
Alone         == Careless \/ (At("idle") /\ command = "idle")
NewWait(x)    == [x EXCEPT !.resp = 0]   \* reinit_completion(&inst->completion)

(* QBUF.  Before STREAMON vb2 keeps the buffer.  The client of a failed    *)
(* instance only stops its queues.                                         *)
QBuf(b) ==
  /\ At("idle") /\ s.own[b] = "user" /\ s.state # "ERROR"
  /\ Careless \/ b \in OutBufs \/ "DRAIN" \notin s.sub
  /\ s' = IF Plane(b) \in on THEN BufQueue(s, b, TRUE)
          ELSE [s EXCEPT !.own[b] = "prepared"]
  /\ UNCHANGED <<on, queue, budget>> /\ Others

QBufEmpty(b) ==
  /\ At("idle") /\ b \in InBufs /\ "OUTPUT" \in on /\ s.own[b] = "user"
  /\ s.state # "ERROR" /\ Charge("empty_input")
  /\ s' = Fail(s)
  /\ UNCHANGED <<on, queue>> /\ Others

StreamOn(p) ==
  /\ At("idle") /\ Alone /\ p \notin on /\ s.state # "ERROR" /\ budget.ons < MaxOns[codec]
  /\ budget' = [budget EXCEPT !.ons = @ + 1]
  /\ queue' = [Idle EXCEPT !.at = "enqueue", !.plane = p]
  /\ UNCHANGED <<s, on>> /\ Others

(* vb2 hands its buffers over before it calls start_streaming.             *)
Enqueue ==
  /\ At("enqueue")
  /\ \E b \in PlaneBufs(queue.plane) :
       s.own[b] = "prepared" /\ s' = BufQueue(s, b, FALSE)
  /\ UNCHANGED <<on, queue, budget>> /\ Others

(* The error exit of iris_vb2_start_streaming(): vb2 has the buffers again.*)
FailStart(x) == Fail(BuffersDone(x, queue.plane, "prepared"))

(* SESSION_INIT and its failures belong to IrisCore: here it succeeds.     *)
Opened(x) == IF x.state = "DEINIT" THEN ChangeState(x, "INIT") ELSE x

StartStreaming ==
  /\ At("enqueue")
  /\ \A b \in PlaneBufs(queue.plane) : s.own[b] # "prepared"
  /\ IF s.state = "ERROR" THEN s' = FailStart(s) /\ Rest
     ELSE IF queue.plane = "OUTPUT"
     THEN /\ s' = [Answer(NewWait(Opened(s)), "props")
                     EXCEPT !.off = FALSE, !.held = None, !.heldPic = "none",
                            !.drops = 0]
          /\ Goto("props")
     ELSE /\ s' = [Answer(NewWait(Opened(s)), "config")
                     EXCEPT !.off = FALSE, !.changed = FALSE]
          /\ Goto("config")
  /\ UNCHANGED <<on, budget>> /\ Others

(* A STREAMON or START: the next LAST is a new one.                        *)
Restarted(x) == [x EXCEPT !.last = FALSE, !.seen = @ \ {"last"}]

(* iris_process_streamon_input() after iris_hfi_gen1_session_start().      *)
StreamonInput(x) ==
  LET y == ChangeSub(x, {"INPUT_PAUSE"}, {})
      pause == IF y.sub \cap {"DRC", "DRAIN", "FIRST_IPSC"} # {}
               THEN {"INPUT_PAUSE"} ELSE {}
      z == Restarted(StateChangeStreamon(y, "OUTPUT"))
  IN QueueAllDeferred(ChangeSub(z, {}, pause), "OUTPUT")

FinishOn == on' = on \cup {queue.plane} /\ Rest

PropsAnswered ==
  /\ At("props") /\ Completed("props")
  /\ IF "LOAD_RESOURCES" \in s.sub
     THEN s' = StreamonInput(Taken(s, "props")) /\ FinishOn
     ELSE s' = Answer(NewWait(s), "load") /\ Goto("load") /\ UNCHANGED on
  /\ UNCHANGED budget /\ Others

(* Mutant of LoadAnswered: SESSION_START is sent and not waited for.       *)
LoadAnsweredNoWait ==
  /\ At("load") /\ Completed("load")
  /\ s' = StreamonInput(ChangeSub(FwStart(NewWait(s)), {}, {"LOAD_RESOURCES"}))
  /\ FinishOn
  /\ UNCHANGED budget /\ Others

LoadAnswered ==
  /\ At("load") /\ Completed("load")
  /\ s' = FwStart(NewWait(s)) /\ Goto("start")
  /\ UNCHANGED <<on, budget>> /\ Others

StartAnswered ==
  /\ At("start") /\ Completed("start")
  /\ s' = StreamonInput(ChangeSub(Taken(s, "start"), {}, {"LOAD_RESOURCES"}))
  /\ FinishOn
  /\ UNCHANGED budget /\ Others

(* Mutant of StreamonOutput: the pause is cleared, CONTINUE is not sent.   *)
StreamonOutputNoContinue(x, drc, drain) ==
  LET clear == {"DRC", "DRC_LAST", "INPUT_PAUSE"} \cup (x.sub \cap {"FIRST_IPSC", "OUTPUT_PAUSE"})
  IN QueueAllDeferred(QueueDpb(ChangeSub(
       Restarted(StateChangeStreamon(x, "CAPTURE")), clear, {})), "CAPTURE")

(* iris_process_streamon_output() after the input buffers are replaced.    *)
(* drc and drain were read before that wait, INPUT_PAUSE is read after it. *)
StreamonOutput(x, drc, drain) ==
  LET resume == x.state = "INPUT_STREAMING" /\ "INPUT_PAUSE" \in x.sub
      clear == (IF drc THEN {"DRC", "DRC_LAST"}
                ELSE IF drain THEN {"DRAIN", "DRAIN_LAST"} ELSE {})
               \cup (IF resume THEN {"INPUT_PAUSE"} ELSE {})
               \cup (x.sub \cap {"FIRST_IPSC", "OUTPUT_PAUSE"})
      y == IF resume /\ ~drain THEN FwContinue(x) ELSE x
      z == Restarted(StateChangeStreamon(y, "CAPTURE"))
  IN QueueAllDeferred(QueueDpb(ChangeSub(z, clear, {})), "CAPTURE")

ConfigAnswered ==
  /\ At("config") /\ Completed("config")
  /\ LET x == CreateDpb(Taken(s, "config")) IN
     IF "INPUT_PAUSE" \in x.sub
     THEN /\ s' = Answer(x, "release")
          /\ queue' = [queue EXCEPT !.at = "release", !.drc = DrcPending(x),
                                    !.drain = DrainPending(x)]
          /\ UNCHANGED on
     ELSE /\ s' = StreamonOutput(x, DrcPending(x), DrainPending(x))
          /\ FinishOn
  /\ UNCHANGED budget /\ Others

ReleaseAnswered ==
  /\ At("release") /\ Completed("release")
  /\ s' = StreamonOutput(Taken(s, "release"), queue.drc, queue.drain)
  /\ FinishOn
  /\ UNCHANGED budget /\ Others

StreamonExpires ==
  /\ queue.at \in {"props", "load", "start", "config"} /\ Expires(queue.at)
  /\ s' = FailStart(Fail(s)) /\ Rest
  /\ UNCHANGED on /\ Others

-----------------------------------------------------------------------------
(* STREAMOFF, and the same path as the undoing of a failed STREAMON.       *)

(* The end of iris_hfi_gen1_session_stop() for a session that is loaded.   *)
Unloaded(x) ==
  BuffersDone(BuffersDone(ChangeSub(x, {"LOAD_RESOURCES"}, {}), "OUTPUT", "user"),
              "CAPTURE", "user")

(* Mutant of FinishOff: the buffers stay on the m2m list.                  *)
FinishOffListed(x, failed, q) ==
  IF q.rollback
  THEN s' = FailStart(x) /\ UNCHANGED on /\ Rest
  ELSE s' = (IF failed THEN Fail(x) ELSE x) /\ on' = on \ {q.plane} /\ Rest

(* The exit of iris_vb2_stop_streaming(), or of the failed STREAMON.       *)
FinishOff(x, failed, q) ==
  IF q.rollback
  THEN s' = FailStart(x) /\ UNCHANGED on /\ Rest
  ELSE /\ s' = (LET y == BuffersDone(x, q.plane, "user")
                IN IF failed THEN Fail(y) ELSE y)
       /\ on' = on \ {q.plane} /\ Rest

(* iris_session_streamoff() after session_stop().                          *)
StreamoffTail(x, q) ==
  LET y == FlushDeferred(StateChangeStreamoff(x, q.plane), q.plane, q.rollback)
  IN IF y.state = "INIT"
     THEN s' = FwEnd(NewWait(DestroyDpb(y))) /\ Goto("end") /\ UNCHANGED on
     ELSE FinishOff(y, FALSE, q)

(* iris_kill_session(): SESSION_END is sent, its answer is not waited for. *)
KillSession(x) ==
  FinishOff(FlushDeferred(Fail(FwEnd(x)), queue.plane, queue.rollback), TRUE, queue)

(* Mutant of SessionStop: the output is not flushed.                       *)
SessionStopNoFlush(x, q) ==
  IF x.state # "STREAMING" /\ "LOAD_RESOURCES" \in x.sub
  THEN /\ s' = FwStop(NewWait(x))
       /\ queue' = [q EXCEPT !.at = "stop"] /\ UNCHANGED on
  ELSE StreamoffTail(x, q)

(* iris_hfi_gen1_session_stop() up to its first wait.                      *)
SessionStop(x, q) ==
  IF x.state = "STREAMING"
  THEN /\ s' = SendFlush([x EXCEPT !.flushed = 0], q.plane = "OUTPUT")
       /\ queue' = [q EXCEPT !.at = "flush"] /\ UNCHANGED on
  ELSE IF "LOAD_RESOURCES" \in x.sub
  THEN /\ s' = FwStop(NewWait(x))
       /\ queue' = [q EXCEPT !.at = "stop"] /\ UNCHANGED on
  ELSE StreamoffTail(x, q)

(* The early return for a CAPTURE queue of an INIT instance reads the      *)
(* state without the lock; CaptureNeverInit says it is never taken.        *)
StreamOff(p) ==
  /\ At("idle") /\ Alone /\ p \in on
  /\ ~(p = "CAPTURE" /\ s.state = "INIT")
  /\ queue' = [Idle EXCEPT !.at = "off", !.plane = p]
  /\ UNCHANGED <<s, on, budget>> /\ Others

StopStreaming ==
  /\ At("off")
  /\ LET x == IF queue.plane = "CAPTURE"
              THEN [s EXCEPT !.held = None, !.heldPic = "none"] ELSE s
     IN SessionStop([x EXCEPT !.off = TRUE], queue)
  /\ UNCHANGED budget /\ Others

(* The wait for the old input buffers timed out: the whole STREAMON of     *)
(* CAPTURE is undone with a STREAMOFF of an instance already in ERROR.     *)
ReleaseExpires ==
  /\ At("release") /\ Expires("release")
  /\ SessionStop([Fail(s) EXCEPT !.off = TRUE], [queue EXCEPT !.rollback = TRUE])
  /\ Others

FlushAnswered ==
  /\ At("flush") /\ Completed("flush")
  /\ StreamoffTail(Taken(s, "flush"), queue)
  /\ UNCHANGED budget /\ Others

FlushExpires ==
  /\ At("flush") /\ Expires("flush")
  /\ KillSession(Fail(s))
  /\ Others

(* RELEASE_RESOURCES follows STOP whatever became of STOP.                 *)
StopEnds ==
  /\ At("stop")
  /\ \/ Completed("stop") /\ s' = Answer(NewWait(s), "unload") /\ UNCHANGED budget
     \/ Expires("stop") /\ s' = Answer(NewWait(Fail(s)), "unload")
  /\ Goto("unload")
  /\ UNCHANGED on /\ Others

UnloadEnds ==
  /\ At("unload")
  /\ \/ Completed("unload") /\ StreamoffTail(Unloaded(Taken(s, "unload")), queue) /\ UNCHANGED budget
     \/ Expires("unload") /\ KillSession(Unloaded(Fail(s)))
  /\ Others

(* iris_hfi_session_close() clears what belongs to the session whatever    *)
(* the answer; `stopped' belongs to the m2m context and survives.          *)
SessionGone(x) ==
  [x EXCEPT !.sub = {}, !.off = FALSE, !.flushes = 0, !.last = FALSE]

EndAnswered ==
  /\ At("end") /\ Completed("end")
  /\ FinishOff(SessionGone(ChangeState(Taken(s, "end"), "DEINIT")), s.state = "ERROR", queue)
  /\ UNCHANGED budget /\ Others

EndExpires ==
  /\ At("end") /\ Expires("end")
  /\ FinishOff(SessionGone(Fail(s)), TRUE, queue)
  /\ Others

-----------------------------------------------------------------------------
(* The command thread: DECODER_CMD.  A command the code refuses with -EBUSY*)
(* or ignores changes nothing and is left out.                             *)

(* The firmware is told by an input buffer marked EOS.                     *)
DecoderStop ==
  /\ command = "idle" /\ s.state \notin {"DEINIT", "ERROR"} /\ AllowStop(s, on) /\ Alone
  /\ budget.stops < MaxStops /\ budget' = [budget EXCEPT !.stops = @ + 1]
  /\ s' = ChangeSub([s EXCEPT !.inq = IF s.run THEN Append(@, Eos) ELSE @],
                    {}, {"DRAIN"})
  /\ UNCHANGED <<codec, on, queue, command>>

(* iris_vdec_start_cmd() after its wait: CONTINUE for a source change, the *)
(* flags of the pause cleared, everything that waits queued again.         *)
Resume(x) ==
  LET drc == DrcPending(x)
      pauses == x.sub \cap {"INPUT_PAUSE", "OUTPUT_PAUSE"}
      y == IF drc /\ pauses # {} THEN FwContinue(x) ELSE x
      clear == pauses \cup (IF drc THEN {"DRC", "DRC_LAST"} ELSE {"DRAIN", "DRAIN_LAST"})
      z == Restarted(ChangeSub(y, clear, {}))
  IN IF ~drc /\ ~DrainPending(x) THEN Fail(x)
     ELSE IF z.state = "STREAMING"
     THEN QueueDeferred(QueueDeferred(QueueDpb(z), "CAPTURE"), "OUTPUT")
     ELSE z

(* Mutant of DecoderStart: the flush that is still out is not waited for.  *)
DecoderStartNoWait ==
  /\ command = "idle" /\ s.state \notin {"DEINIT", "ERROR"}
  /\ AllowStart(s, on) /\ ~s.changed /\ Alone
  /\ s' = Resume(s) /\ UNCHANGED command
  /\ UNCHANGED <<codec, on, queue, budget>>

DecoderStart ==
  /\ command = "idle" /\ s.state \notin {"DEINIT", "ERROR"}
  /\ AllowStart(s, on) /\ ~s.changed /\ Alone
  /\ IF s.flushes # 0 THEN command' = "flush" /\ UNCHANGED s
     ELSE s' = Resume(s) /\ UNCHANGED command
  /\ UNCHANGED <<codec, on, queue, budget>>

DecoderStartWakes ==
  /\ command = "flush"
  /\ \/ Completed("flush") /\ s' = Resume(Taken(s, "flush")) /\ UNCHANGED budget
     \/ Expires("flush") /\ s' = Fail(s)
  /\ command' = "idle"
  /\ UNCHANGED <<codec, on, queue>>

-----------------------------------------------------------------------------
Init ==
  /\ codec \in Codecs
  /\ s = Closed
  /\ on = {}
  /\ queue = Idle
  /\ command = "idle"
  /\ budget = [ons |-> 0, stops |-> 0, changes |-> 0, faults |-> 0]

Client ==
  \/ \E b \in Bufs : QBuf(b) \/ QBufEmpty(b)
  \/ \E p \in Planes : StreamOn(p) \/ StreamOff(p)
  \/ DecoderStop \/ DecoderStart

(* What the driver does once a call has begun.                             *)
Driver ==
  \/ Enqueue \/ StartStreaming \/ PropsAnswered \/ LoadAnswered \/ StartAnswered
  \/ ConfigAnswered \/ ReleaseAnswered \/ StreamonExpires \/ ReleaseExpires
  \/ StopStreaming \/ FlushAnswered \/ FlushExpires \/ StopEnds \/ UnloadEnds
  \/ EndAnswered \/ EndExpires \/ DecoderStartWakes

Fault == Hang \/ SessionError \/ Reject \/ Unsupported

Next == Client \/ Driver \/ Interrupt \/ Firmware \/ Fault

Spec == Init /\ [][Next]_vars

-----------------------------------------------------------------------------
(* Properties.                                                             *)

(* Every variable keeps its type; flushes never goes below zero, though    *)
(* every FLUSH answer decrements it unconditionally.                       *)
TypeOK ==
  /\ s.state \in States /\ s.sub \subseteq SubStates
  /\ {s.last, s.stopped, s.off, s.known, s.changed, s.up, s.run, s.parsed,
      s.paused} \subseteq BOOLEAN
  /\ s.flushes \in Nat /\ s.held \in OutBufs \cup {None} /\ s.drops \in 0..MaxDrops
  /\ s.resp \in 0..MaxDone /\ s.flushed \in Nat
  /\ s.own \in [Bufs -> {"user", "prepared", "active"}]
  /\ s.attr \in [Bufs -> {"none", "deferred", "queued", "done"}]
  /\ s.dpb \in [host : Nat, deferred : Nat, queued : Nat]
  /\ s.inq \in Seq(InBufs \cup {Eos}) /\ s.outs \subseteq OutBufs /\ s.pool \in Nat
  /\ codec \in Codecs /\ on \subseteq Planes
  /\ queue.at \in Waits \cup {"idle", "enqueue", "off"} /\ queue.plane \in Planes
  /\ command \in {"idle", "flush"}

(* Without a fault no legal order of calls, pictures, source changes and   *)
(* flushes brings the instance into ERROR: the fatal checks for unmatched  *)
(* buffers, illegal states and overdue answers only meet real faults.      *)
Healthy == budget.faults = 0 => s.state # "ERROR"

Working == s.state # "ERROR" /\ s.up

Messages(type) == {k \in DOMAIN s.msgs : s.msgs[k].type = type}

(* flush_responses_pending is the number of FLUSH answers still to come:   *)
(* a drain, a source change and a STREAMOFF may each have one out, and the *)
(* counter is what tells the last answer from the others, also when the    *)
(* instance has failed or has been closed since.                           *)
FlushCounted ==
  s.up => s.flushes = Cardinality(Messages("flush"))

(* iris_vb2_stop_streaming() returns early, returning no buffer, for a     *)
(* CAPTURE queue of an INIT instance, a state it reads without the lock:   *)
(* a CAPTURE queue that streams is never found in INIT.                    *)
CaptureNeverInit == "CAPTURE" \in on /\ queue.at = "idle" => s.state # "INIT"

AtFirmware(b) ==
  \/ b \in s.outs \/ b \in Range(s.inq)
  \/ \E k \in Messages("etb") \cup Messages("ftb") : s.msgs[k].buf = b

(* BUF_ATTR_QUEUED marks exactly the vb2 buffers the firmware has or is    *)
(* giving back, through drains, flushes and source changes; while the      *)
(* session is unloaded or ended the firmware has dropped its own.          *)
Ownership ==
  codec = "H264" /\ Working /\ queue.at \notin {"stop", "unload", "end"} =>
    \A b \in Bufs : AtFirmware(b) <=> s.own[b] = "active" /\ s.attr[b] = "queued"

(* After STREAMOFF of CAPTURE the firmware has no buffer of that queue, as *)
(* vb2 is free to unmap them all, and no output is held back.              *)
NothingKept ==
  "CAPTURE" \notin on /\ queue.at = "idle" /\ s.state # "ERROR" =>
    s.outs = {} /\ s.held = None

(* Between two restarts userspace gets at most one buffer marked LAST, and *)
(* no picture after it: LAST waits for the flush behind the last picture.  *)
LastIsLast == codec = "H264" => s.seen \cap {"pictureAfterLast", "secondLast"} = {}

(* The hidden frame of a VP9 superframe is recycled, never given to        *)
(* userspace: not by the next picture, a drain, a source change or a flush.*)
HiddenNeverShown == "hiddenShown" \notin s.seen

Answering == queue.at \in Waits \ {"flush"}

(* Every answer but FLUSH completes the one inst->completion, whatever it  *)
(* answers: until the instance fails exactly one answer is out or taken,   *)
(* and it is the answer to the command the thread waits for.  A late one   *)
(* never completes the wait of a later command.                            *)
AnswersMatch ==
  Working =>
    /\ Cardinality(Messages("answer")) + s.resp = IF Answering THEN 1 ELSE 0
    /\ \A k \in Messages("answer") : s.msgs[k].cmd = queue.at

(* At most one pool of DPBs exists for an instance, whoever has it: the    *)
(* pool the firmware has at a restart is not allocated a second time.      *)
OnePool == Working => s.dpb.host + s.dpb.deferred + s.dpb.queued <= 1

(* When the session is gone the firmware has nothing and vb2 has all.      *)
ClosedEmpty ==
  s.state = "DEINIT" /\ queue.at = "idle" =>
    /\ s.inq = <<>> /\ s.outs = {} /\ s.pool = 0
    /\ \A b \in Bufs : s.own[b] # "active"

(* A firmware that waits for CONTINUE, its report handled, is known to     *)
(* wait: INPUT_PAUSE is what makes STREAMON or START send that CONTINUE,   *)
(* so clearing the bit without sending it stops the decoder for good.      *)
PauseKnown ==
  Working /\ s.paused /\ Messages("seq") = {} => "INPUT_PAUSE" \in s.sub

Pending(x) == DrcPending(x) \/ DrainPending(x)

(* A STREAMON of CAPTURE, or the end of a drain or of a source change,     *)
(* that leaves the instance streaming leaves the DPB pool with the         *)
(* firmware: without it no picture is ever decoded.                        *)
PoolReturned ==
  [][/\ \/ Pending(s) /\ ~Pending(s')
        \/ /\ queue.plane = "CAPTURE" /\ queue.at \in {"config", "release"}
           /\ queue'.at = "idle"
     /\ s'.state = "STREAMING"
     => s'.pool = 1]_vars
=============================================================================
