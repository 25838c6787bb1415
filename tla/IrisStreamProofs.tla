------------------------- MODULE IrisStreamProofs ---------------------------
(***************************************************************************)
(* What holds of IrisStream for every number of buffers, STREAMONs, drains *)
(* and faults.  Follows: the state of an instance goes with the planes     *)
(* that stream, whatever the interrupt thread does to it meanwhile.        *)
(* Wired: the messages under way are the ones the thread's wait, the       *)
(* count of flushes and the session account for.  Stocked: there is one    *)
(* pool of DPBs, with the host, put off or with the firmware, whenever     *)
(* CAPTURE streams; what comes back of it has its flush answer behind it,  *)
(* so that a restart finds it returned.                                    *)
(***************************************************************************)
EXTENDS IrisStream, FiniteSetTheorems, SequenceTheorems, TLAPS

Fields == {"state", "sub", "last", "stopped", "off", "flushes", "known", "changed",
           "held", "drops", "resp", "flushed", "own", "attr", "dpb", "up", "run",
           "parsed", "paused", "inq", "outs", "pool", "msgs", "heldPic", "seen"}

Sound(x) == DOMAIN x = Fields /\ x.state \in States

(* A step of the record that may do no more to the state than fail it.     *)
Keeps(x, y) == Sound(x) => Sound(y) /\ y.state \in {x.state, "ERROR"}

Running == {"props", "load", "start", "config", "release"}
Halting == {"off", "flush", "stop", "unload", "end"}

(* The state that goes with the planes that stream.                        *)
Fits(state, planes) ==
  /\ planes = {} => state \in {"DEINIT", "INIT"}
  /\ planes = {"OUTPUT"} => state = "INPUT_STREAMING"
  /\ planes = {"CAPTURE"} => state = "OUTPUT_STREAMING"
  /\ planes = Planes => state = "STREAMING"

(* Where the queue thread is, and what it may rely on there.               *)
Placed(state, planes, q) ==
  /\ q.at # "end" => Fits(state, planes)
  /\ q.at = "end" => state = "INIT" /\ planes = {q.plane}
  /\ q.at \in Running => state # "DEINIT"
  /\ q.at \in Halting => q.plane \in planes

Follows ==
  /\ Sound(s)
  /\ on \in SUBSET Planes
  /\ DOMAIN queue = {"at", "plane", "drc", "drain", "rollback"}
  /\ queue.plane \in Planes
  /\ queue.at \in {"props", "load", "start"} => queue.plane = "OUTPUT"
  /\ queue.at \in {"config", "release"} => queue.plane = "CAPTURE"
  /\ queue.at \in Running \cup {"enqueue"} => queue.plane \notin on
  /\ s.state # "ERROR" => Placed(s.state, on, queue)

-----------------------------------------------------------------------------
(* Steps compose.                                                          *)
LEMMA Compose ==
  /\ \A x : Keeps(x, x)
  /\ \A x, y, z : Keeps(x, y) /\ Keeps(y, z) => Keeps(x, z)
  BY DEF Keeps, Sound, States

(* A failed instance stays in ERROR.                                       *)
LEMMA Failing ==
  \A x : Sound(x) => Sound(Fail(x)) /\ Fail(x).state = "ERROR"
  BY DEF Sound, Fields, States, Fail, ChangeState, ChangeStateOk

(* State and sub-state.                                                    *)
LEMMA StateKeeps ==
  ASSUME NEW x
  PROVE  /\ Keeps(x, Fail(x)) /\ Keeps(x, SubChangeDrc(x))
         /\ Keeps(x, SubChangeDrainLast(x)) /\ Keeps(x, SubChangeDrcLast(x))
         /\ \A clear, set : Keeps(x, ChangeSub(x, clear, set))
  <1>1. \A clear, set : Keeps(x, ChangeSub(x, clear, set))
    BY DEF Keeps, Sound, ChangeSub, Fields
  <1>2. Keeps(x, x)
    BY Compose
  <1>3. Keeps(x, Fail(x))
    BY Failing DEF Keeps
  <1>4. Keeps(x, SubChangeDrc(x))
    BY <1>1, <1>2 DEF SubChangeDrc
  <1>5. Keeps(x, SubChangeDrainLast(x)) /\ Keeps(x, SubChangeDrcLast(x))
    BY <1>1, <1>2 DEF SubChangeDrainLast, SubChangeDrcLast
  <1>6. QED
    BY <1>1, <1>3, <1>4, <1>5

(* The firmware's side of a command.                                       *)
LEMMA FwKeeps ==
  ASSUME NEW x
  PROVE  /\ \A m : Keeps(x, Send(x, m))
         /\ \A c : Keeps(x, Answer(x, c))
         /\ \A all : Keeps(x, FwFlush(x, all)) /\ Keeps(x, SendFlush(x, all))
         /\ Keeps(x, FwContinue(x)) /\ Keeps(x, FwStop(x)) /\ Keeps(x, FwEnd(x))
         /\ Keeps(x, FwStart(x))
  <1>1. \A m : Keeps(x, Send(x, m))
    BY DEF Keeps, Sound, Send, Fields
  <1>2. \A c : Keeps(x, Answer(x, c))
    BY <1>1 DEF Answer
  <1>3. ASSUME NEW all
        PROVE  Keeps(x, FwFlush(x, all)) /\ Keeps(x, SendFlush(x, all))
    <2>1. \A a, b, c, d : Keeps(x, [x EXCEPT !.msgs = a, !.outs = b, !.pool = c, !.inq = d])
      BY DEF Keeps, Sound, Fields
    <2>2. Keeps(x, FwFlush(x, all))
      BY <2>1, Compose DEF FwFlush
    <2>3. \A y : Keeps(y, [y EXCEPT !.flushes = @ + 1])
      BY DEF Keeps, Sound, Fields
    <2>4. QED
      BY <2>2, <2>3, Compose DEF SendFlush
  <1>4. Keeps(x, FwContinue(x))
    BY DEF Keeps, Sound, Fields, FwContinue
  <1>5. \A y : /\ Keeps(y, [y EXCEPT !.run = FALSE, !.inq = <<>>, !.outs = {},
                                     !.pool = 0, !.paused = FALSE])
               /\ Keeps(y, [y EXCEPT !.run = FALSE, !.parsed = FALSE, !.inq = <<>>,
                                     !.outs = {}, !.pool = 0, !.paused = FALSE])
               /\ Keeps(y, [y EXCEPT !.run = TRUE])
    BY DEF Keeps, Sound, Fields
  <1>6. Keeps(x, FwStop(x)) /\ Keeps(x, FwEnd(x)) /\ Keeps(x, FwStart(x))
    BY <1>2, <1>5, Compose DEF FwStop, FwEnd, FwStart
  <1>7. QED
    BY <1>1, <1>2, <1>3, <1>4, <1>6

(* Buffers handed over, either way.                                        *)
LEMMA BufferKeeps ==
  ASSUME NEW x
  PROVE  /\ \A b : Keeps(x, QueueBuffer(x, b))
         /\ \A p : Keeps(x, QueueDeferred(x, p))
         /\ \A p, to : Keeps(x, BuffersDone(x, p, to))
         /\ \A p, r : Keeps(x, FlushDeferred(x, p, r))
         /\ \A b, what : Keeps(x, DoneCapture(x, b, what))
  <1>1. \A b : Keeps(x, QueueBuffer(x, b))
    BY DEF Keeps, Sound, Fields, QueueBuffer
  <1>2. \A p : Keeps(x, QueueDeferred(x, p))
    <2>1. \A a, b, c : Keeps(x, [x EXCEPT !.attr = a, !.inq = b, !.outs = c])
      BY DEF Keeps, Sound, Fields
    <2>2. QED
      BY <2>1 DEF QueueDeferred
  <1>3. \A a : Keeps(x, [x EXCEPT !.own = a])
    BY DEF Keeps, Sound, Fields
  <1>4. \A p, to : Keeps(x, BuffersDone(x, p, to))
    BY <1>3 DEF BuffersDone
  <1>5. \A p, r : Keeps(x, FlushDeferred(x, p, r))
    BY <1>3 DEF FlushDeferred
  <1>6. \A b, what : Keeps(x, DoneCapture(x, b, what))
    BY DEF Keeps, Sound, Fields, DoneCapture
  <1>7. QED
    BY <1>1, <1>2, <1>4, <1>5, <1>6

(* The DPB pool, and the end of a STREAMON.                                *)
LEMMA DpbKeeps ==
  ASSUME NEW x
  PROVE  /\ Keeps(x, CreateDpb(x)) /\ Keeps(x, DestroyDpb(x)) /\ Keeps(x, QueueDpb(x))
         /\ \A p : Keeps(x, QueueAllDeferred(x, p))
  <1>1. Keeps(x, CreateDpb(x)) /\ Keeps(x, DestroyDpb(x))
    BY DEF Keeps, Sound, Fields, CreateDpb, DestroyDpb
  <1>2. \A y, n : Keeps(y, SendDpb(y, n))
    BY DEF Keeps, Sound, Fields, SendDpb
  <1>3. \A y : /\ Keeps(y, [y EXCEPT !.dpb.host = 0, !.dpb.deferred = 0])
               /\ Keeps(y, [y EXCEPT !.dpb.deferred = @ + y.dpb.host, !.dpb.host = 0])
               /\ Keeps(y, [y EXCEPT !.dpb.deferred = 0])
    BY DEF Keeps, Sound, Fields
  <1>4. Keeps(x, QueueDpb(x))
    BY <1>2, <1>3, Compose DEF QueueDpb
  <1>5. \A y : Keeps(y, QueueDeferredDpb(y))
    BY <1>2, <1>3, Compose DEF QueueDeferredDpb
  <1>6. ASSUME NEW p
        PROVE  Keeps(x, QueueAllDeferred(x, p))
    <2> DEFINE y == IF p = "OUTPUT" THEN QueueDeferred(x, "OUTPUT") ELSE x
               z == QueueDeferredDpb(y)
    <2>1. QueueAllDeferred(x, p)
            = IF y.state = "STREAMING" THEN QueueDeferred(z, "CAPTURE") ELSE y
      BY DEF QueueAllDeferred
    <2>2. Keeps(x, y) /\ Keeps(y, z) /\ Keeps(z, QueueDeferred(z, "CAPTURE"))
      BY <1>5, BufferKeeps, Compose
    <2> HIDE DEF y, z
    <2>3. QED
      BY <2>1, <2>2, Compose
  <1>7. QED
    BY <1>1, <1>4, <1>6

(* A buffer comes from userspace.                                          *)
LEMMA QueueKeeps ==
  \A x, b, streaming : Keeps(x, BufQueue(x, b, streaming))
  <1> SUFFICES ASSUME NEW x, NEW b, NEW streaming
               PROVE  Keeps(x, BufQueue(x, b, streaming))
    OBVIOUS
  <1> DEFINE y == [x EXCEPT !.own[b] = "active"]
             z == [y EXCEPT !.attr[b] = "deferred"]
             u == [x EXCEPT !.own[b] = "user"]
  <1>1. Keeps(x, y) /\ Keeps(y, z) /\ Keeps(x, u)
    BY DEF Keeps, Sound, Fields
  <1>2. BufQueue(x, b, streaming) \in {u, DoneCapture(x, b, "last"), QueueBuffer(y, b), z}
    BY DEF BufQueue
  <1> HIDE DEF y, z, u
  <1>3. Keeps(y, QueueBuffer(y, b)) /\ Keeps(x, DoneCapture(x, b, "last"))
    BY BufferKeeps
  <1>4. QED
    BY <1>1, <1>2, <1>3, Compose

-----------------------------------------------------------------------------
(* The interrupt thread: no message does more than fail the instance.      *)
LEMMA FrameKeeps ==
  \A x, m : Keeps(x, FtbDone(x, m))
  <1>1. \A x : Keeps(x, Unmatched(x))
    BY StateKeeps, Compose DEF Unmatched
  <1>2. ASSUME NEW x
        PROVE  Keeps(x, DrainArm(x))
    <2> DEFINE y == [x EXCEPT !.flushed = 0]
               z == SendFlush(y, FALSE)
    <2>1. Keeps(x, y)
      BY DEF Keeps, Sound, Fields
    <2>2. DrainArm(x) = SubChangeDrainLast(z)
      BY DEF DrainArm
    <2> HIDE DEF y
    <2>3. Keeps(y, z)
      BY FwKeeps
    <2> HIDE DEF z
    <2>4. Keeps(z, SubChangeDrainLast(z))
      BY StateKeeps
    <2>5. QED
      BY <2>1, <2>2, <2>3, <2>4, Compose
  <1>3. ASSUME NEW x, NEW m
        PROVE  Keeps(x, SettleHeld(x, m))
    <2>1. \A y : /\ Keeps(y, [y EXCEPT !.held = None, !.heldPic = "none"])
      BY DEF Keeps, Sound, Fields
    <2>2. /\ Keeps(x, QueueBuffer(x, x.held))
          /\ \A what : Keeps(x, DoneCapture(x, x.held, what))
      BY BufferKeeps
    <2>3. QED
      BY <2>1, <2>2, Compose DEF SettleHeld
  <1>4. ASSUME NEW x, NEW m
        PROVE  Keeps(x, FillDone(x, m))
    <2> DEFINE y == [x EXCEPT !.attr[m.buf] = "done",
                              !.drops = IF m.pic = "empty" THEN @ ELSE 0]
               z == [x EXCEPT !.drops = @ + 1]
               h == [y EXCEPT !.held = m.buf, !.heldPic = m.pic]
    <2>1. Keeps(x, y) /\ Keeps(x, z) /\ Keeps(y, h)
      BY DEF Keeps, Sound, Fields
    <2>2. \/ FillDone(x, m) = QueueBuffer(z, m.buf)
          \/ FillDone(x, m) = h
          \/ \E what : FillDone(x, m) = DoneCapture(y, m.buf, what)
      BY DEF FillDone
    <2> HIDE DEF y, z, h
    <2>3. Keeps(z, QueueBuffer(z, m.buf)) /\ \A what : Keeps(y, DoneCapture(y, m.buf, what))
      BY BufferKeeps
    <2>4. QED
      BY <2>1, <2>2, <2>3, Compose
  <1>5. ASSUME NEW x0, NEW m
        PROVE  Keeps(x0, FtbDone(x0, m))
    <2> DEFINE x == IF m.eos /\ m.pic = "empty" THEN DrainArm(x0) ELSE x0
               y == [x EXCEPT !.held = None, !.last = @ \/ Terminal(x, m)]
               z == SettleHeld(x, m)
    <2>1. FtbDone(x0, m) \in {Unmatched(x), Unmatched(y), FillDone(z, m)}
      BY DEF FtbDone
    <2>2. Keeps(x0, x)
      BY <1>2, Compose
    <2> HIDE DEF x
    <2>3. Keeps(x, y)
      BY DEF Keeps, Sound, Fields
    <2>4. Keeps(x, z)
      BY <1>3
    <2> HIDE DEF y, z
    <2>5. Keeps(x, Unmatched(x)) /\ Keeps(y, Unmatched(y)) /\ Keeps(z, FillDone(z, m))
      BY <1>1, <1>4
    <2>6. QED
      BY <2>1, <2>2, <2>3, <2>4, <2>5, Compose
  <1>6. QED
    BY <1>5

(* A source change arms itself, or hands the sequence to the client.       *)
LEMMA SequenceKeeps ==
  \A x, m : Keeps(x, SeqChanged(x, m))
  <1>1. ASSUME NEW x
        PROVE  Keeps(x, ArmDrc(x))
    <2> DEFINE y == SubChangeDrc(x)
               u == IF y.flushes = 0 THEN [y EXCEPT !.flushed = 0] ELSE y
               z == IF y.state # "ERROR" /\ "FIRST_IPSC" \notin y.sub
                    THEN SendFlush(u, FALSE) ELSE y
    <2>1. ArmDrc(x) \in {x, SubChangeDrcLast(z)}
      BY DEF ArmDrc
    <2>2. Keeps(x, y)
      BY StateKeeps
    <2> HIDE DEF y
    <2>3. Keeps(y, [y EXCEPT !.flushed = 0])
      BY DEF Keeps, Sound, Fields
    <2>4. Keeps(y, u)
      BY <2>3, Compose
    <2> HIDE DEF u
    <2>5. Keeps(u, SendFlush(u, FALSE))
      BY FwKeeps
    <2>6. Keeps(y, z)
      BY <2>4, <2>5, Compose
    <2> HIDE DEF z
    <2>7. Keeps(z, SubChangeDrcLast(z))
      BY StateKeeps
    <2>8. QED
      BY <2>1, <2>2, <2>6, <2>7, Compose
  <1>2. ASSUME NEW x, NEW m
        PROVE  Keeps(x, SeqChanged(x, m))
    <2> DEFINE y == [x EXCEPT !.known = TRUE, !.changed = @ \/ m.kind = "tenbit"]
               z == FwContinue(y)
               u == ChangeSub(z, {"DRC", "FIRST_IPSC", "INPUT_PAUSE"}, {})
    <2>1. SeqChanged(x, m) \in {x, u, ArmDrc(y)}
      BY DEF SeqChanged
    <2>2. Keeps(x, y)
      BY DEF Keeps, Sound, Fields
    <2> HIDE DEF y
    <2>3. Keeps(y, z) /\ Keeps(y, ArmDrc(y))
      BY <1>1, FwKeeps
    <2> HIDE DEF z
    <2>4. Keeps(z, u)
      BY StateKeeps
    <2> HIDE DEF u
    <2>5. QED
      BY <2>1, <2>2, <2>3, <2>4, Compose
  <1>3. QED
    BY <1>2

(* Every other message.                                                    *)
LEMMA HandleKeeps ==
  \A x, m : Keeps(x, Handle(x, m))
  <1>1. ASSUME NEW x, NEW m
        PROVE  Keeps(x, EtbDone(x, m))
    <2> DEFINE y == IF m.ok THEN x ELSE Fail(x)
               z == [y EXCEPT !.attr[m.buf] = "done", !.own[m.buf] = "user"]
    <2>1. EtbDone(x, m) \in {x, Fail(x), y, z}
      BY DEF EtbDone
    <2>2. Keeps(x, x) /\ Keeps(x, Fail(x)) /\ Keeps(x, y)
      BY StateKeeps, Compose
    <2> HIDE DEF y
    <2>3. Keeps(y, z)
      BY DEF Keeps, Sound, Fields
    <2> HIDE DEF z
    <2>4. QED
      BY <2>1, <2>2, <2>3, Compose
  <1>2. ASSUME NEW x
        PROVE  Keeps(x, DpbFtbDone(x))
    <2>1. Keeps(x, Unmatched(x))
      BY StateKeeps, Compose DEF Unmatched
    <2>2. Keeps(x, [x EXCEPT !.dpb.queued = @ - 1, !.dpb.host = @ + 1])
      BY DEF Keeps, Sound, Fields
    <2>3. QED
      BY <2>1, <2>2 DEF DpbFtbDone
  <1>3. ASSUME NEW x, NEW m
        PROVE  Keeps(x, FlushDone(x, m)) /\ Keeps(x, AnswerDone(x, m))
    <2> DEFINE f == IF m.ok THEN x ELSE Fail(x)
               y == [f EXCEPT !.flushes = @ - 1]
               z == [y EXCEPT !.flushed = @ + 1]
               u == [f EXCEPT !.resp = IF @ < MaxDone THEN @ + 1 ELSE @]
    <2>1. FlushDone(x, m) \in {y, z} /\ AnswerDone(x, m) = u
      BY DEF FlushDone, AnswerDone
    <2>2. Keeps(x, f)
      BY StateKeeps, Compose
    <2> HIDE DEF f
    <2>3. Keeps(f, y) /\ Keeps(y, z) /\ Keeps(f, u)
      BY DEF Keeps, Sound, Fields
    <2> HIDE DEF y, z, u
    <2>4. QED
      BY <2>1, <2>2, <2>3, Compose
  <1>4. ASSUME NEW x, NEW m
        PROVE  Keeps(x, Handle(x, m))
    <2>1. Keeps(x, Fail(x))
      BY StateKeeps
    <2>2. QED
      BY <1>1, <1>2, <1>3, <2>1, FrameKeeps, SequenceKeeps DEF Handle
  <1>5. QED
    BY <1>4

-----------------------------------------------------------------------------
(* STREAMON and STREAMOFF.                                                 *)

(* The two tables only ever ask for a change that is allowed.              *)
LEMMA Targets ==
  ASSUME NEW x, Sound(x), NEW p \in Planes
  PROVE  /\ Sound(StateChangeStreamon(x, p))
         /\ StateChangeStreamon(x, p).state = StreamonTarget(x.state, p)
         /\ Sound(StateChangeStreamoff(x, p))
         /\ StateChangeStreamoff(x, p).state = StreamoffTarget(x.state, p)
  <1>1. \A to \in States :
          x.state \in {"ERROR", to} \/ to = "ERROR" \/ AllowState(x.state, to) =>
            /\ Sound(ChangeState(x, to))
            /\ ChangeState(x, to).state = IF x.state = "ERROR" THEN "ERROR" ELSE to
    BY DEF Sound, Fields, ChangeState, ChangeStateOk
  <1>2. /\ StreamonTarget(x.state, p) \in States
        /\ StreamonTarget(x.state, p) # "ERROR"
             => AllowState(x.state, StreamonTarget(x.state, p))
        /\ x.state = "ERROR" => StreamonTarget(x.state, p) = "ERROR"
    BY DEF Sound, States, Planes, StreamonTarget, AllowState
  <1>3. /\ StreamoffTarget(x.state, p) \in States
        /\ StreamoffTarget(x.state, p) # "ERROR"
             => AllowState(x.state, StreamoffTarget(x.state, p))
        /\ x.state = "ERROR" => StreamoffTarget(x.state, p) = "ERROR"
    BY DEF Sound, States, Planes, StreamoffTarget, AllowState
  <1>4. QED
    BY <1>1, <1>2, <1>3 DEF StateChangeStreamon, StateChangeStreamoff

(* What the tables do to a state that fits.                                *)
LEMMA Table ==
  ASSUME NEW state \in States \ {"ERROR"}, NEW planes \in SUBSET Planes, NEW p \in Planes,
         Fits(state, planes)
  PROVE  /\ p \notin planes /\ state # "DEINIT"
              => Fits(StreamonTarget(state, p), planes \cup {p})
         /\ p \in planes => Fits(StreamoffTarget(state, p), planes \ {p})
         /\ p \in planes /\ StreamoffTarget(state, p) = "INIT" => planes = {p}
  <1>1. planes \in {{}, {"OUTPUT"}, {"CAPTURE"}, {"OUTPUT", "CAPTURE"}}
    BY DEF Planes
  <1>2. CASE planes = {}
    BY <1>2 DEF Fits, Planes, StreamonTarget, StreamoffTarget
  <1>3. CASE planes = {"OUTPUT"}
    BY <1>3 DEF Fits, Planes, StreamonTarget, StreamoffTarget
  <1>4. CASE planes = {"CAPTURE"}
    BY <1>4 DEF Fits, Planes, StreamonTarget, StreamoffTarget
  <1>5. CASE planes = {"OUTPUT", "CAPTURE"}
    BY <1>5 DEF Fits, Planes, StreamonTarget, StreamoffTarget
  <1>6. QED
    BY <1>1, <1>2, <1>3, <1>4, <1>5

(* Both STREAMONs follow the table, whatever they queue on the way.        *)
LEMMA Streamon ==
  ASSUME NEW x, Sound(x)
  PROVE  /\ Sound(StreamonInput(x))
         /\ StreamonInput(x).state \in {"ERROR", StreamonTarget(x.state, "OUTPUT")}
         /\ \A drc, drain :
              /\ Sound(StreamonOutput(x, drc, drain))
              /\ StreamonOutput(x, drc, drain).state
                   \in {"ERROR", StreamonTarget(x.state, "CAPTURE")}
  <1>1. \A y : Keeps(y, Restarted(y))
    BY DEF Keeps, Sound, Fields, Restarted
  <1>2. \A p \in Planes : StreamonTarget("ERROR", p) = "ERROR"
    BY DEF Planes, StreamonTarget
  <1>3. ASSUME NEW y, Keeps(x, y), NEW p \in Planes, NEW z,
               Keeps(StateChangeStreamon(y, p), z)
        PROVE  Sound(z) /\ z.state \in {"ERROR", StreamonTarget(x.state, p)}
    BY <1>2, <1>3, Targets DEF Keeps
  <1>4. Sound(StreamonInput(x))
        /\ StreamonInput(x).state \in {"ERROR", StreamonTarget(x.state, "OUTPUT")}
    <2> DEFINE y == ChangeSub(x, {"INPUT_PAUSE"}, {})
               pause == IF y.sub \cap {"DRC", "DRAIN", "FIRST_IPSC"} # {}
                        THEN {"INPUT_PAUSE"} ELSE {}
               t == StateChangeStreamon(y, "OUTPUT")
               z == Restarted(t)
               u == ChangeSub(z, {}, pause)
    <2>1. StreamonInput(x) = QueueAllDeferred(u, "OUTPUT")
      BY DEF StreamonInput
    <2>2. Keeps(x, y)
      BY StateKeeps
    <2> HIDE DEF y, pause
    <2>3. Keeps(t, z)
      BY <1>1
    <2> HIDE DEF z
    <2>4. Keeps(z, u)
      BY StateKeeps
    <2> HIDE DEF u
    <2>5. Keeps(u, QueueAllDeferred(u, "OUTPUT"))
      BY DpbKeeps
    <2>6. Keeps(t, StreamonInput(x))
      BY <2>1, <2>3, <2>4, <2>5, Compose
    <2>7. QED
      BY <1>3, <2>2, <2>6 DEF Planes
  <1>5. ASSUME NEW drc, NEW drain
        PROVE  /\ Sound(StreamonOutput(x, drc, drain))
               /\ StreamonOutput(x, drc, drain).state
                    \in {"ERROR", StreamonTarget(x.state, "CAPTURE")}
    <2> DEFINE resume == x.state = "INPUT_STREAMING" /\ "INPUT_PAUSE" \in x.sub
               clear == (IF drc THEN {"DRC", "DRC_LAST"}
                         ELSE IF drain THEN {"DRAIN", "DRAIN_LAST"} ELSE {})
                        \cup (IF resume THEN {"INPUT_PAUSE"} ELSE {})
                        \cup (x.sub \cap {"FIRST_IPSC", "OUTPUT_PAUSE"})
               y == IF resume /\ ~drain THEN FwContinue(x) ELSE x
               t == StateChangeStreamon(y, "CAPTURE")
               z == Restarted(t)
               u == ChangeSub(z, clear, {})
               w == QueueDpb(u)
    <2>1. StreamonOutput(x, drc, drain) = QueueAllDeferred(w, "CAPTURE")
      BY DEF StreamonOutput
    <2>2. Keeps(x, y)
      BY FwKeeps, Compose
    <2> HIDE DEF y, clear
    <2>3. Keeps(t, z)
      BY <1>1
    <2> HIDE DEF z
    <2>4. Keeps(z, u)
      BY StateKeeps
    <2> HIDE DEF u
    <2>5. Keeps(u, w)
      BY DpbKeeps
    <2> HIDE DEF w
    <2>6. Keeps(w, QueueAllDeferred(w, "CAPTURE"))
      BY DpbKeeps
    <2>7. Keeps(t, StreamonOutput(x, drc, drain))
      BY <2>1, <2>3, <2>4, <2>5, <2>6, Compose
    <2>8. QED
      BY <1>3, <2>2, <2>7 DEF Planes
  <1>6. QED
    BY <1>4, <1>5

-----------------------------------------------------------------------------
(* The invariant, one kind of step at a time.                              *)

(* A step of another thread may fail the instance and no more.             *)
LEMMA Quiet ==
  ASSUME Follows, Keeps(s, s'), UNCHANGED <<on, queue>>
  PROVE  Follows'
  BY DEF Follows, Keeps

(* The queue thread rests after a failure.                                 *)
LEMMA RestsFailed ==
  ASSUME Follows, Sound(s'), s'.state = "ERROR", on' \in SUBSET Planes, Rest
  PROVE  Follows'
  BY DEF Follows, Rest, Idle, Planes, Running

(* It goes on to a wait, the state as it was.                              *)
LEMMA Goes ==
  ASSUME Follows, Keeps(s, s'), on' = on,
         DOMAIN queue' = DOMAIN queue, queue'.plane = queue.plane,
         \/ queue.at \in {"props", "load"} /\ queue'.at \in {"load", "start"}
         \/ queue.at = "config" /\ queue'.at = "release"
         \/ queue.at = "stop" /\ queue'.at = "unload"
  PROVE  Follows'
  <1>1. Sound(s') /\ s'.state \in {s.state, "ERROR"}
    BY DEF Follows, Keeps
  <1>2. s'.state # "ERROR" => Placed(s'.state, on', queue')
    BY <1>1 DEF Follows, Placed, Running, Halting
  <1>3. QED
    BY <1>1, <1>2 DEF Follows, Running, Halting

(* A STREAMON succeeds.                                                    *)
LEMMA Finishes ==
  ASSUME Follows, NEW x, Keeps(s, x), queue.at \in Running, FinishOn, Sound(s'),
         s'.state \in {"ERROR", StreamonTarget(x.state, queue.plane)}
  PROVE  Follows'
  <1>1. queue' = Idle /\ on' = on \cup {queue.plane} /\ on' \in SUBSET Planes
    BY DEF FinishOn, Rest, Follows
  <1>2. ASSUME s'.state # "ERROR"
        PROVE  Fits(s'.state, on')
    <2>1. s'.state = StreamonTarget(x.state, queue.plane)
      BY <1>2
    <2>2. x.state # "ERROR" /\ x.state = s.state /\ x.state \in States
      BY <1>2, <2>1 DEF Keeps, Sound, StreamonTarget, Follows, Planes
    <2>3. Fits(x.state, on) /\ x.state # "DEINIT" /\ queue.plane \notin on
      BY <2>2 DEF Follows, Placed, Running
    <2>4. on \in SUBSET Planes /\ queue.plane \in Planes /\ x.state \in States \ {"ERROR"}
      BY <2>2 DEF Follows
    <2>5. Fits(StreamonTarget(x.state, queue.plane), on \cup {queue.plane})
      BY <2>3, <2>4, Table
    <2>6. QED
      BY <1>1, <2>1, <2>5
  <1>3. QED
    BY <1>1, <1>2 DEF Follows, Placed, Idle, Running, Halting, Planes

(* The exit of a STREAMOFF, or of a STREAMON that is undone.               *)
LEMMA Exits ==
  ASSUME Follows, NEW x, Sound(x), NEW failed \in BOOLEAN, NEW q, q.plane = queue.plane,
         FinishOff(x, failed, q),
         failed \/ q.rollback \/ x.state = "ERROR" \/ Fits(x.state, on \ {queue.plane})
  PROVE  Follows'
  <1>1. \A to : LET y == BuffersDone(x, queue.plane, to)
                IN /\ Sound(y) /\ y.state \in {x.state, "ERROR"}
                   /\ Sound(Fail(y)) /\ Fail(y).state = "ERROR"
    BY BufferKeeps, Failing DEF Keeps
  <1>2. CASE q.rollback
    <2>1. s' = FailStart(x) /\ on' = on /\ Rest
      BY <1>2 DEF FinishOff
    <2>2. QED
      BY <1>1, <2>1, RestsFailed DEF FailStart, Follows
  <1>3. CASE ~q.rollback
    <2> DEFINE y == BuffersDone(x, queue.plane, "user")
    <2>1. /\ s' = IF failed THEN Fail(y) ELSE y
          /\ on' = on \ {queue.plane} /\ Rest
      BY <1>3 DEF FinishOff
    <2>2. Sound(s') /\ on' \in SUBSET Planes
      BY <1>1, <2>1 DEF Follows
    <2>3. CASE s'.state = "ERROR"
      BY <2>1, <2>2, <2>3, RestsFailed
    <2>4. CASE s'.state # "ERROR"
      <3>1. ~failed /\ s' = y
        BY <1>1, <2>1, <2>4
      <3>2. s'.state = x.state
        BY <1>1, <2>4, <3>1
      <3>3. Fits(s'.state, on')
        BY <1>3, <2>1, <2>4, <3>1, <3>2
      <3>4. QED
        BY <2>1, <2>2, <3>3 DEF Follows, Placed, Rest, Idle, Running, Halting, Planes
    <2>5. QED
      BY <2>3, <2>4
  <1>4. QED
    BY <1>2, <1>3

(* The session is killed.                                                  *)
LEMMA Kills ==
  ASSUME Follows, NEW x, Sound(x), KillSession(x)
  PROVE  Follows'
  <1> DEFINE e == FwEnd(x)
             f == Fail(e)
             y == FlushDeferred(f, queue.plane, queue.rollback)
  <1>1. FinishOff(y, TRUE, queue)
    BY DEF KillSession
  <1>2. Keeps(x, e)
    BY FwKeeps
  <1> HIDE DEF e
  <1>3. Keeps(e, f)
    BY StateKeeps
  <1> HIDE DEF f
  <1>4. Keeps(f, y)
    BY BufferKeeps
  <1>5. Sound(y)
    BY <1>2, <1>3, <1>4 DEF Keeps
  <1> HIDE DEF y
  <1>6. QED
    BY <1>1, <1>5, Exits

(* The rest of a STREAMOFF: the state moves by the table, and the session  *)
(* ends when the last plane stops.                                         *)
LEMMA Tails ==
  ASSUME Follows, NEW x, Sound(x), NEW q, q.plane = queue.plane, StreamoffTail(x, q),
         \/ x.state = "ERROR"
         \/ queue.at \in Halting \ {"end"} /\ Fits(x.state, on) /\ queue.plane \in on
  PROVE  Follows'
  <1> DEFINE t == StateChangeStreamoff(x, q.plane)
             y == FlushDeferred(t, q.plane, q.rollback)
             d == NewWait(DestroyDpb(y))
  <1>1. IF y.state = "INIT"
        THEN s' = FwEnd(d) /\ Goto("end") /\ UNCHANGED on
        ELSE FinishOff(y, FALSE, q)
    BY DEF StreamoffTail
  <1>2. queue.plane \in Planes /\ on \in SUBSET Planes /\ x.state \in States
    BY DEF Follows, Sound
  <1>3. Sound(t) /\ t.state = StreamoffTarget(x.state, queue.plane)
    BY <1>2, Targets
  <1> HIDE DEF t
  <1>4. Sound(y) /\ y.state \in {t.state, "ERROR"}
    BY <1>3, BufferKeeps DEF Keeps
  <1> HIDE DEF y
  <1>5. Keeps(y, d)
    <2>1. Keeps(y, DestroyDpb(y))
      BY DpbKeeps
    <2>2. \A z : Keeps(z, NewWait(z))
      BY DEF Keeps, Sound, Fields, NewWait
    <2>3. QED
      BY <2>1, <2>2, Compose
  <1> HIDE DEF d
  <1>6. CASE x.state = "ERROR"
    <2>1. y.state = "ERROR"
      BY <1>2, <1>3, <1>4, <1>6 DEF StreamoffTarget, Planes
    <2>2. QED
      BY <1>1, <1>4, <2>1, Exits
  <1>7. CASE x.state # "ERROR"
    <2>1. Fits(x.state, on) /\ queue.plane \in on /\ x.state \in States \ {"ERROR"}
      BY <1>2, <1>7
    <2>2. /\ Fits(StreamoffTarget(x.state, queue.plane), on \ {queue.plane})
          /\ StreamoffTarget(x.state, queue.plane) = "INIT" => on = {queue.plane}
      BY <1>2, <2>1, Table
    <2>3. CASE y.state = "INIT"
      <3>1. s' = FwEnd(d) /\ queue' = [queue EXCEPT !.at = "end"] /\ on' = on
        BY <1>1, <2>3 DEF Goto
      <3>2. on = {queue.plane}
        BY <1>3, <1>4, <2>2, <2>3
      <3>3. Sound(s') /\ s'.state \in {"INIT", "ERROR"}
        BY <1>4, <1>5, <2>3, <3>1, FwKeeps DEF Keeps
      <3>4. QED
        BY <3>1, <3>2, <3>3 DEF Follows, Placed, Running, Halting
    <2>4. CASE y.state # "INIT"
      <3>1. FinishOff(y, FALSE, q)
        BY <1>1, <2>4
      <3>2. y.state = "ERROR" \/ Fits(y.state, on \ {queue.plane})
        BY <1>3, <1>4, <2>2
      <3>3. QED
        BY <1>4, <3>1, <3>2, Exits
    <2>5. QED
      BY <2>3, <2>4
  <1>8. QED
    BY <1>6, <1>7

(* session_stop() up to its first wait: q is queue, or queue for an undone *)
(* STREAMON of an instance in ERROR.                                       *)
LEMMA Stops ==
  ASSUME Follows, NEW x, Sound(x), NEW q,
         \/ q = queue /\ queue.at = "off" /\ x.state = s.state
         \/ q = [queue EXCEPT !.rollback = TRUE] /\ x.state = "ERROR",
         SessionStop(x, q)
  PROVE  Follows'
  <1>1. /\ q.plane = queue.plane /\ q.plane \in Planes /\ on \in SUBSET Planes
        /\ DOMAIN q = {"at", "plane", "drc", "drain", "rollback"}
    BY DEF Follows
  <1>2. x.state # "ERROR" =>
          queue.at \in Halting \ {"end"} /\ Fits(x.state, on) /\ queue.plane \in on
    BY DEF Follows, Placed, Halting
  <1>3. ASSUME NEW l \in {"flush", "stop"}, Keeps(x, s'), queue' = [q EXCEPT !.at = l],
               on' = on
        PROVE  Follows'
    <2>1. queue'.at = l /\ queue'.plane = queue.plane /\ DOMAIN queue' = DOMAIN q
      BY <1>1, <1>3
    <2>2. Sound(s') /\ s'.state \in {x.state, "ERROR"}
      BY <1>3 DEF Keeps
    <2>3. QED
      BY <1>1, <1>2, <1>3, <2>1, <2>2 DEF Follows, Placed, Running, Halting
  <1>4. CASE x.state = "STREAMING"
    <2> DEFINE y == [x EXCEPT !.flushed = 0]
    <2>1. /\ s' = SendFlush(y, q.plane = "OUTPUT") /\ queue' = [q EXCEPT !.at = "flush"]
          /\ on' = on
      BY <1>4 DEF SessionStop
    <2>2. Keeps(x, y)
      BY DEF Keeps, Sound, Fields
    <2> HIDE DEF y
    <2>3. Keeps(x, s')
      BY <2>1, <2>2, FwKeeps, Compose
    <2>4. QED
      BY <1>3, <2>1, <2>3
  <1>5. CASE x.state # "STREAMING" /\ "LOAD_RESOURCES" \in x.sub
    <2> DEFINE y == NewWait(x)
    <2>1. /\ s' = FwStop(y) /\ queue' = [q EXCEPT !.at = "stop"] /\ on' = on
      BY <1>5 DEF SessionStop
    <2>2. Keeps(x, y)
      BY DEF Keeps, Sound, Fields, NewWait
    <2> HIDE DEF y
    <2>3. Keeps(x, s')
      BY <2>1, <2>2, FwKeeps, Compose
    <2>4. QED
      BY <1>3, <2>1, <2>3
  <1>6. CASE x.state # "STREAMING" /\ "LOAD_RESOURCES" \notin x.sub
    <2>1. StreamoffTail(x, q)
      BY <1>6 DEF SessionStop
    <2>2. QED
      BY <1>1, <1>2, <2>1, Tails
  <1>7. QED
    BY <1>4, <1>5, <1>6

-----------------------------------------------------------------------------
(* The steps that leave the queue thread where it is.                      *)
LEMMA QuietSteps ==
  ASSUME Follows,
         \/ \E b \in Bufs : QBuf(b) \/ QBufEmpty(b)
         \/ Enqueue \/ Interrupt \/ Firmware \/ Fault
         \/ DecoderStop \/ DecoderStart \/ DecoderStartWakes
  PROVE  Follows'
  <1>1. \A m : Keeps(s, [s EXCEPT !.msgs = m])
    BY DEF Keeps, Sound, Fields
  <1>2. \A x : /\ \A q : Keeps(x, [x EXCEPT !.inq = q])
               /\ \A a, p : Keeps(x, [x EXCEPT !.paused = a, !.parsed = p])
               /\ Keeps(x, Restarted(x))
               /\ \A w : Keeps(x, Taken(x, w))
    BY DEF Keeps, Sound, Fields, Restarted, Taken
  <1>3. ASSUME NEW x
        PROVE  Keeps(x, Resume(x))
    <2> DEFINE drc == DrcPending(x)
               pauses == x.sub \cap {"INPUT_PAUSE", "OUTPUT_PAUSE"}
               y == IF drc /\ pauses # {} THEN FwContinue(x) ELSE x
               clear == pauses \cup (IF drc THEN {"DRC", "DRC_LAST"}
                                     ELSE {"DRAIN", "DRAIN_LAST"})
               c == ChangeSub(y, clear, {})
               z == Restarted(c)
               d == QueueDpb(z)
               u == QueueDeferred(d, "CAPTURE")
               w == QueueDeferred(u, "OUTPUT")
    <2>1. Resume(x) \in {Fail(x), w, z}
      BY DEF Resume
    <2>2. Keeps(x, y)
      BY FwKeeps, Compose
    <2> HIDE DEF y, clear
    <2>3. Keeps(y, c)
      BY StateKeeps
    <2> HIDE DEF c
    <2>4. Keeps(c, z)
      BY <1>2
    <2> HIDE DEF z
    <2>5. Keeps(z, d)
      BY DpbKeeps
    <2> HIDE DEF d
    <2>6. Keeps(d, u)
      BY BufferKeeps
    <2> HIDE DEF u
    <2>7. Keeps(u, w) /\ Keeps(x, Fail(x))
      BY BufferKeeps, StateKeeps
    <2> HIDE DEF w
    <2>8. QED
      BY <2>1, <2>2, <2>3, <2>4, <2>5, <2>6, <2>7, Compose
  <1>4. Keeps(s, s') => Follows' \/ ~(UNCHANGED <<on, queue>>)
    BY Quiet
  <1>5. CASE \E b \in Bufs : QBuf(b)
    <2>1. PICK b \in Bufs : QBuf(b)
      BY <1>5
    <2>2. Keeps(s, [s EXCEPT !.own[b] = "prepared"])
      BY DEF Keeps, Sound, Fields
    <2>3. Keeps(s, s') /\ UNCHANGED <<on, queue>>
      BY <2>1, <2>2, QueueKeeps DEF QBuf
    <2>4. QED
      BY <1>4, <2>3
  <1>6. CASE \E b \in Bufs : QBufEmpty(b)
    <2>1. Keeps(s, s') /\ UNCHANGED <<on, queue>>
      BY <1>6, StateKeeps DEF QBufEmpty
    <2>2. QED
      BY <1>4, <2>1
  <1>7. CASE Enqueue
    <2>1. Keeps(s, s') /\ UNCHANGED <<on, queue>>
      BY <1>7, QueueKeeps DEF Enqueue
    <2>2. QED
      BY <1>4, <2>1
  <1>8. CASE Interrupt
    <2>1. Keeps(s, s') /\ UNCHANGED <<on, queue>>
      BY <1>1, <1>8, HandleKeeps, Compose DEF Interrupt
    <2>2. QED
      BY <1>4, <2>1
  <1>9. CASE Firmware
    <2>1. ASSUME FwSequence
          PROVE  Keeps(s, s')
      <3>1. PICK m : s' = [Send(s, m) EXCEPT !.paused = TRUE, !.parsed = TRUE]
        BY <2>1 DEF FwSequence
      <3>2. Keeps(s, Send(s, m))
        BY FwKeeps
      <3>3. QED
        BY <1>2, <3>1, <3>2, Compose
    <2>2. FwPicture => Keeps(s, s')
      BY DEF Keeps, Sound, Fields, FwPicture
    <2>3. FwSuperframe => Keeps(s, s')
      BY DEF Keeps, Sound, Fields, FwSuperframe
    <2>4. FwEndOfStream => Keeps(s, s')
      BY DEF Keeps, Sound, Fields, FwEndOfStream
    <2>5. UNCHANGED <<on, queue>>
      BY <1>9 DEF Firmware, FwSequence, FwPicture, FwSuperframe, FwEndOfStream
    <2>6. QED
      BY <1>4, <1>9, <2>1, <2>2, <2>3, <2>4, <2>5 DEF Firmware
  <1>10. CASE Fault
    <2>1. Hang => Keeps(s, s')
      BY DEF Hang, Keeps, Sound, Fields
    <2>2. SessionError => Keeps(s, s')
      BY FwKeeps DEF SessionError
    <2>3. Reject => Keeps(s, s')
      BY DEF Reject, Keeps, Sound, Fields
    <2>4. ASSUME Unsupported
          PROVE  Keeps(s, s')
      <3>1. PICK m, q : s' = [Send(s, m) EXCEPT !.inq = q]
        BY <2>4 DEF Unsupported
      <3>2. Keeps(s, Send(s, m))
        BY FwKeeps
      <3>3. QED
        BY <1>2, <3>1, <3>2, Compose
    <2>5. UNCHANGED <<on, queue>>
      BY <1>10 DEF Fault, Hang, SessionError, Reject, Unsupported
    <2>6. QED
      BY <1>4, <1>10, <2>1, <2>2, <2>3, <2>4, <2>5 DEF Fault
  <1>11. CASE DecoderStop
    <2>1. PICK q : s' = ChangeSub([s EXCEPT !.inq = q], {}, {"DRAIN"})
      BY <1>11 DEF DecoderStop
    <2>2. Keeps(s, [s EXCEPT !.inq = q])
      BY <1>2
    <2>3. Keeps(s, s')
      BY <2>1, <2>2, StateKeeps, Compose
    <2>4. UNCHANGED <<on, queue>>
      BY <1>11 DEF DecoderStop
    <2>5. QED
      BY <1>4, <2>3, <2>4
  <1>12. CASE DecoderStart
    <2>1. Keeps(s, s') /\ UNCHANGED <<on, queue>>
      BY <1>3, <1>12, Compose DEF DecoderStart
    <2>2. QED
      BY <1>4, <2>1
  <1>13. CASE DecoderStartWakes
    <2>1. Keeps(s, Fail(s))
      BY StateKeeps
    <2>2. Keeps(s, Resume(Taken(s, "flush")))
      BY <1>2, <1>3, Compose
    <2>3. Keeps(s, s') /\ UNCHANGED <<on, queue>>
      BY <1>13, <2>1, <2>2 DEF DecoderStartWakes
    <2>4. QED
      BY <1>4, <2>3
  <1>14. QED
    BY <1>5, <1>6, <1>7, <1>8, <1>9, <1>10, <1>11, <1>12, <1>13

(* The steps of a STREAMON.                                                *)
LEMMA StreamonSteps ==
  ASSUME Follows,
         \/ \E p \in Planes : StreamOn(p)
         \/ StartStreaming \/ PropsAnswered \/ LoadAnswered \/ StartAnswered
         \/ ConfigAnswered \/ ReleaseAnswered \/ StreamonExpires
  PROVE  Follows'
  <1>1. \A x : /\ Keeps(x, NewWait(x)) /\ \A w : Keeps(x, Taken(x, w))
               /\ Keeps(x, [x EXCEPT !.off = FALSE, !.held = None, !.heldPic = "none",
                                     !.drops = 0])
               /\ Keeps(x, [x EXCEPT !.off = FALSE, !.changed = FALSE])
    BY DEF Keeps, Sound, Fields, NewWait, Taken
  <1>2. Sound(s) /\ on \in SUBSET Planes /\ queue.plane \in Planes
    BY DEF Follows
  <1>3. \A x : Sound(x) => Sound(FailStart(x)) /\ FailStart(x).state = "ERROR"
    BY BufferKeeps, Failing DEF FailStart, Keeps
  <1>4. ASSUME NEW x, Keeps(s, x)
        PROVE  Sound(x)
    BY <1>2, <1>4 DEF Keeps
  <1>5. CASE \E p \in Planes : StreamOn(p)
    <2>1. PICK p \in Planes : StreamOn(p)
      BY <1>5
    <2>2. /\ queue' = [Idle EXCEPT !.at = "enqueue", !.plane = p] /\ UNCHANGED <<s, on>>
          /\ queue.at = "idle" /\ p \notin on
      BY <2>1 DEF StreamOn, At
    <2>3. QED
      BY <2>2 DEF Follows, Placed, Idle, Running, Halting
  <1>6. CASE StartStreaming
    <2> DEFINE y == Opened(s)
               z == NewWait(y)
    <2>1. queue.at = "enqueue" /\ on' = on
      BY <1>6 DEF StartStreaming, At
    <2>2. CASE s.state = "ERROR"
      <3>1. s' = FailStart(s) /\ Rest
        BY <1>6, <2>2 DEF StartStreaming
      <3>2. QED
        BY <1>2, <1>3, <2>1, <3>1, RestsFailed
    <2>3. CASE s.state # "ERROR"
      <3>1. PICK l \in {"props", "config"} :
              /\ s' = IF l = "props"
                      THEN [Answer(z, "props") EXCEPT !.off = FALSE, !.held = None,
                                                      !.heldPic = "none", !.drops = 0]
                      ELSE [Answer(z, "config") EXCEPT !.off = FALSE, !.changed = FALSE]
              /\ queue' = [queue EXCEPT !.at = l]
              /\ l = "props" <=> queue.plane = "OUTPUT"
        BY <1>6, <2>3 DEF StartStreaming, Goto
      <3>2. /\ Sound(y)
            /\ y.state = IF s.state = "DEINIT" THEN "INIT" ELSE s.state
        BY <1>2 DEF Opened, Sound, States, Fields, ChangeState, ChangeStateOk, AllowState
      <3>3. Fits(s.state, on) /\ queue.plane \notin on
        BY <2>1, <2>3 DEF Follows, Placed
      <3>4. Fits(y.state, on) /\ y.state # "DEINIT"
        BY <3>2, <3>3 DEF Fits, Planes
      <3> HIDE DEF y
      <3>5. Keeps(y, z)
        BY <1>1
      <3> HIDE DEF z
      <3>6. Keeps(y, s')
        BY <1>1, <3>1, <3>5, FwKeeps, Compose
      <3>7. Sound(s') /\ s'.state \in {y.state, "ERROR"}
        BY <3>2, <3>6 DEF Keeps
      <3>8. /\ queue'.at = l /\ queue'.plane = queue.plane /\ DOMAIN queue' = DOMAIN queue
            /\ l = "config" => queue.plane = "CAPTURE"
        BY <1>2, <3>1 DEF Follows, Planes
      <3>9. QED
        BY <2>1, <3>1, <3>3, <3>4, <3>7, <3>8 DEF Follows, Placed, Running, Halting
    <2>4. QED
      BY <2>2, <2>3
  <1>7. CASE PropsAnswered
    <2>1. queue.at = "props" /\ queue.plane = "OUTPUT"
      BY <1>7 DEF PropsAnswered, At, Follows
    <2>2. CASE "LOAD_RESOURCES" \in s.sub
      <3> DEFINE x == Taken(s, "props")
      <3>1. s' = StreamonInput(x) /\ FinishOn
        BY <1>7, <2>2 DEF PropsAnswered
      <3>2. Keeps(s, x)
        BY <1>1
      <3> HIDE DEF x
      <3>3. QED
        BY <1>4, <2>1, <3>1, <3>2, Streamon, Finishes DEF Running
    <2>3. CASE "LOAD_RESOURCES" \notin s.sub
      <3>1. s' = Answer(NewWait(s), "load") /\ queue' = [queue EXCEPT !.at = "load"]
            /\ on' = on
        BY <1>7, <2>3 DEF PropsAnswered, Goto
      <3>2. Keeps(s, s')
        BY <1>1, <3>1, FwKeeps, Compose
      <3>3. queue'.at = "load" /\ queue'.plane = queue.plane /\ DOMAIN queue' = DOMAIN queue
        BY <3>1 DEF Follows
      <3>4. QED
        BY <2>1, <3>1, <3>2, <3>3, Goes
    <2>4. QED
      BY <2>2, <2>3
  <1>8. CASE LoadAnswered
    <2>1. /\ s' = FwStart(NewWait(s)) /\ queue' = [queue EXCEPT !.at = "start"]
          /\ on' = on /\ queue.at = "load"
      BY <1>8 DEF LoadAnswered, Goto, At
    <2>2. Keeps(s, s')
      BY <1>1, <2>1, FwKeeps, Compose
    <2>3. queue'.at = "start" /\ queue'.plane = queue.plane /\ DOMAIN queue' = DOMAIN queue
      BY <2>1 DEF Follows
    <2>4. QED
      BY <2>1, <2>2, <2>3, Goes
  <1>9. CASE StartAnswered
    <2> DEFINE x == ChangeSub(Taken(s, "start"), {}, {"LOAD_RESOURCES"})
    <2>1. /\ s' = StreamonInput(x) /\ FinishOn
          /\ queue.at = "start" /\ queue.plane = "OUTPUT"
      BY <1>9 DEF StartAnswered, At, Follows
    <2>2. Keeps(s, x)
      BY <1>1, StateKeeps, Compose
    <2> HIDE DEF x
    <2>3. QED
      BY <1>4, <2>1, <2>2, Streamon, Finishes DEF Running
  <1>10. CASE ConfigAnswered
    <2> DEFINE x == CreateDpb(Taken(s, "config"))
    <2>1. queue.at = "config" /\ queue.plane = "CAPTURE"
      BY <1>10 DEF ConfigAnswered, At, Follows
    <2>2. Keeps(s, x)
      BY <1>1, DpbKeeps, Compose
    <2>3. IF "INPUT_PAUSE" \in x.sub
          THEN /\ s' = Answer(x, "release") /\ on' = on
               /\ queue' = [queue EXCEPT !.at = "release", !.drc = DrcPending(x),
                                         !.drain = DrainPending(x)]
          ELSE s' = StreamonOutput(x, DrcPending(x), DrainPending(x)) /\ FinishOn
      BY <1>10 DEF ConfigAnswered
    <2> HIDE DEF x
    <2>4. CASE "INPUT_PAUSE" \in x.sub
      <3>1. Keeps(s, s')
        BY <2>2, <2>3, <2>4, FwKeeps, Compose
      <3>2. /\ queue'.at = "release" /\ queue'.plane = queue.plane
            /\ DOMAIN queue' = DOMAIN queue /\ on' = on
        BY <2>3, <2>4 DEF Follows
      <3>3. QED
        BY <2>1, <3>1, <3>2, Goes
    <2>5. CASE "INPUT_PAUSE" \notin x.sub
      BY <1>4, <2>1, <2>2, <2>3, <2>5, Streamon, Finishes DEF Running
    <2>6. QED
      BY <2>4, <2>5
  <1>11. CASE ReleaseAnswered
    <2> DEFINE x == Taken(s, "release")
    <2>1. /\ s' = StreamonOutput(x, queue.drc, queue.drain) /\ FinishOn
          /\ queue.at = "release" /\ queue.plane = "CAPTURE"
      BY <1>11 DEF ReleaseAnswered, At, Follows
    <2>2. Keeps(s, x)
      BY <1>1
    <2> HIDE DEF x
    <2>3. QED
      BY <1>4, <2>1, <2>2, Streamon, Finishes DEF Running
  <1>12. CASE StreamonExpires
    <2>1. s' = FailStart(Fail(s)) /\ Rest /\ on' = on
      BY <1>12 DEF StreamonExpires
    <2>2. QED
      BY <1>2, <1>3, <2>1, Failing, RestsFailed
  <1>13. QED
    BY <1>5, <1>6, <1>7, <1>8, <1>9, <1>10, <1>11, <1>12

(* The steps of a STREAMOFF and of a STREAMON that is undone.              *)
LEMMA StreamoffSteps ==
  ASSUME Follows,
         \/ \E p \in Planes : StreamOff(p)
         \/ StopStreaming \/ ReleaseExpires \/ FlushAnswered \/ FlushExpires
         \/ StopEnds \/ UnloadEnds \/ EndAnswered \/ EndExpires
  PROVE  Follows'
  <1>1. \A x : /\ Keeps(x, NewWait(x)) /\ \A w : Keeps(x, Taken(x, w))
               /\ Keeps(x, [x EXCEPT !.held = None, !.heldPic = "none"])
               /\ Keeps(x, SessionGone(x))
    BY DEF Keeps, Sound, Fields, NewWait, Taken, SessionGone
  <1>2. /\ Sound(s) /\ on \in SUBSET Planes /\ queue.plane \in Planes
        /\ Sound(Fail(s)) /\ Fail(s).state = "ERROR"
    BY Failing DEF Follows
  <1>3. \A x : Keeps(x, Unloaded(x))
    <2> SUFFICES ASSUME NEW x PROVE Keeps(x, Unloaded(x))
      OBVIOUS
    <2> DEFINE c == ChangeSub(x, {"LOAD_RESOURCES"}, {})
               d == BuffersDone(c, "OUTPUT", "user")
    <2>1. Unloaded(x) = BuffersDone(d, "CAPTURE", "user")
      BY DEF Unloaded
    <2>2. Keeps(x, c)
      BY StateKeeps
    <2> HIDE DEF c
    <2>3. Keeps(c, d)
      BY BufferKeeps
    <2> HIDE DEF d
    <2>4. Keeps(d, BuffersDone(d, "CAPTURE", "user"))
      BY BufferKeeps
    <2>5. QED
      BY <2>1, <2>2, <2>3, <2>4, Compose
  <1>4. ASSUME NEW x, Keeps(s, x), queue.at \in {"flush", "unload"}
        PROVE  /\ Sound(x)
               /\ \/ x.state = "ERROR"
                  \/ queue.at \in Halting \ {"end"} /\ Fits(x.state, on)
                       /\ queue.plane \in on
    BY <1>4 DEF Follows, Placed, Keeps, Halting
  <1>5. CASE \E p \in Planes : StreamOff(p)
    <2>1. PICK p \in Planes : StreamOff(p)
      BY <1>5
    <2>2. /\ queue' = [Idle EXCEPT !.at = "off", !.plane = p] /\ UNCHANGED <<s, on>>
          /\ queue.at = "idle" /\ p \in on
      BY <2>1 DEF StreamOff, At
    <2>3. QED
      BY <2>2 DEF Follows, Placed, Idle, Running, Halting
  <1>6. CASE StopStreaming
    <2> DEFINE x == IF queue.plane = "CAPTURE"
                    THEN [s EXCEPT !.held = None, !.heldPic = "none"] ELSE s
               y == [x EXCEPT !.off = TRUE]
    <2>1. queue.at = "off" /\ SessionStop(y, queue)
      BY <1>6 DEF StopStreaming, At
    <2>2. Sound(y) /\ y.state = s.state
      BY <1>2 DEF Sound, Fields
    <2> HIDE DEF y
    <2>3. QED
      BY <2>1, <2>2, Stops
  <1>7. CASE ReleaseExpires
    <2> DEFINE y == [Fail(s) EXCEPT !.off = TRUE]
               q == [queue EXCEPT !.rollback = TRUE]
    <2>1. SessionStop(y, q)
      BY <1>7 DEF ReleaseExpires
    <2>2. Sound(y) /\ y.state = "ERROR"
      BY <1>2 DEF Sound, Fields
    <2> HIDE DEF y
    <2>3. QED
      BY <2>1, <2>2, Stops
  <1>8. CASE FlushAnswered
    <2> DEFINE x == Taken(s, "flush")
    <2>1. queue.at = "flush" /\ StreamoffTail(x, queue)
      BY <1>8 DEF FlushAnswered, At
    <2>2. Keeps(s, x)
      BY <1>1
    <2> HIDE DEF x
    <2>3. QED
      BY <1>4, <2>1, <2>2, Tails
  <1>9. CASE FlushExpires
    <2>1. KillSession(Fail(s))
      BY <1>9 DEF FlushExpires
    <2>2. QED
      BY <1>2, <2>1, Kills
  <1>10. CASE StopEnds
    <2>1. /\ queue.at = "stop" /\ queue' = [queue EXCEPT !.at = "unload"] /\ on' = on
          /\ s' \in {Answer(NewWait(s), "unload"), Answer(NewWait(Fail(s)), "unload")}
      BY <1>10 DEF StopEnds, At, Goto
    <2>2. Keeps(s, Fail(s))
      BY StateKeeps
    <2>3. Keeps(s, NewWait(s)) /\ Keeps(s, NewWait(Fail(s)))
      BY <1>1, <2>2, Compose
    <2>4. Keeps(s, s')
      BY <2>1, <2>3, FwKeeps, Compose
    <2>5. queue'.at = "unload" /\ queue'.plane = queue.plane /\ DOMAIN queue' = DOMAIN queue
      BY <2>1 DEF Follows
    <2>6. QED
      BY <2>1, <2>4, <2>5, Goes
  <1>11. CASE UnloadEnds
    <2> DEFINE t == Taken(s, "unload")
               x == Unloaded(t)
               f == Fail(s)
               y == Unloaded(f)
    <2>1. queue.at = "unload" /\ (StreamoffTail(x, queue) \/ KillSession(y))
      BY <1>11 DEF UnloadEnds, At
    <2>2. Keeps(s, t) /\ Keeps(s, f)
      BY <1>1, StateKeeps
    <2> HIDE DEF t, f
    <2>3. Keeps(s, x) /\ Keeps(s, y)
      BY <1>3, <2>2, Compose
    <2> HIDE DEF x, y
    <2>4. QED
      BY <1>4, <2>1, <2>3, Tails, Kills
  <1>12. CASE EndAnswered
    <2> DEFINE t == Taken(s, "end")
               c == ChangeState(t, "DEINIT")
               x == SessionGone(c)
    <2>1. queue.at = "end" /\ FinishOff(x, s.state = "ERROR", queue)
      BY <1>12 DEF EndAnswered, At
    <2>2. Keeps(s, t)
      BY <1>1
    <2> HIDE DEF t
    <2>3. Sound(t) /\ t.state \in {s.state, "ERROR"}
      BY <1>2, <2>2 DEF Keeps
    <2>4. /\ Sound(c)
          /\ t.state = "INIT" => c.state = "DEINIT"
          /\ t.state = "ERROR" => c.state = "ERROR"
      BY <2>3 DEF Sound, Fields, States, ChangeState, ChangeStateOk, AllowState
    <2> HIDE DEF c
    <2>5. Sound(x) /\ x.state \in {c.state, "ERROR"}
      BY <1>1, <2>4 DEF Keeps
    <2> HIDE DEF x
    <2>6. ASSUME s.state # "ERROR", x.state # "ERROR"
          PROVE  Fits(x.state, on \ {queue.plane})
      <3>1. s.state = "INIT" /\ on = {queue.plane}
        BY <2>1, <2>6 DEF Follows, Placed
      <3>2. x.state = "DEINIT" /\ on \ {queue.plane} = {}
        BY <2>3, <2>4, <2>5, <2>6, <3>1
      <3>3. QED
        BY <3>2 DEF Fits, Planes
    <2>7. QED
      BY <2>1, <2>5, <2>6, Exits
  <1>13. CASE EndExpires
    <2> DEFINE x == SessionGone(Fail(s))
    <2>1. FinishOff(x, TRUE, queue)
      BY <1>13 DEF EndExpires
    <2>2. Sound(x)
      BY <1>1, <1>2 DEF Keeps
    <2> HIDE DEF x
    <2>3. QED
      BY <2>1, <2>2, Exits
  <1>14. QED
    BY <1>5, <1>6, <1>7, <1>8, <1>9, <1>10, <1>11, <1>12, <1>13

-----------------------------------------------------------------------------
(* The state of an instance that has not failed is the one that goes with  *)
(* the planes that stream, at every point of every STREAMON and STREAMOFF. *)
THEOREM StateFollows == Spec => []Follows
  <1>1. Init => Follows
    BY DEF Init, Closed, Idle, Follows, Sound, Fields, States, Planes, Placed, Fits,
           Running, Halting
  <1>2. Follows /\ [Next]_vars => Follows'
    <2> SUFFICES ASSUME Follows, [Next]_vars PROVE Follows'
      OBVIOUS
    <2>1. CASE UNCHANGED vars
      BY <2>1, Quiet, Compose DEF vars
    <2>2. CASE Client
      BY <2>2, QuietSteps, StreamonSteps, StreamoffSteps DEF Client
    <2>3. CASE Driver
      BY <2>3, QuietSteps, StreamonSteps, StreamoffSteps DEF Driver
    <2>4. CASE Interrupt \/ Firmware \/ Fault
      BY <2>4, QuietSteps
    <2>5. QED
      BY <2>1, <2>2, <2>3, <2>4 DEF Next
  <1>3. QED
    BY <1>1, <1>2, PTL DEF Spec

(* iris_vb2_stop_streaming() reads the state without the lock and returns  *)
(* early, no buffer handed back, for a CAPTURE queue of an INIT instance:  *)
(* no STREAMOFF of a CAPTURE queue that streams ever takes that return.    *)
THEOREM NeverEarly == Spec => []CaptureNeverInit
  <1>1. Follows => CaptureNeverInit
    <2> SUFFICES ASSUME Follows, "CAPTURE" \in on, queue.at = "idle", s.state = "INIT"
                 PROVE  FALSE
      BY DEF CaptureNeverInit
    <2>1. Fits("INIT", on) /\ on \in SUBSET Planes
      BY DEF Follows, Placed
    <2>2. on = {"CAPTURE"} \/ on = Planes
      BY <2>1 DEF Planes
    <2>3. QED
      BY <2>1, <2>2 DEF Fits
  <1>2. QED
    BY <1>1, StateFollows, PTL

-----------------------------------------------------------------------------
(* Messages are counted by their type.                                     *)
Of(q, T)    == {k \in DOMAIN q : q[k].type = T}
Count(q, T) == Cardinality(Of(q, T))

(* A queue joined to another counts for both.                              *)
LEMMA CountJoined ==
  ASSUME NEW S, NEW p \in Seq(S), NEW q \in Seq(S), NEW T
  PROVE  /\ Count(p, T) \in Nat /\ Count(q, T) \in Nat
         /\ Count(p \o q, T) = Count(p, T) + Count(q, T)
  <1> DEFINE n == Len(p)
             f == [k \in Of(q, T) |-> n + k]
             R == {n + k : k \in Of(q, T)}
  <1>1. n \in Nat /\ DOMAIN p = 1..n /\ Len(q) \in Nat /\ DOMAIN q = 1..Len(q)
    OBVIOUS
  <1>2. IsFiniteSet(Of(p, T)) /\ IsFiniteSet(Of(q, T))
    <2>1. IsFiniteSet(1..n) /\ IsFiniteSet(1..Len(q))
      BY <1>1, FS_Interval
    <2>2. Of(p, T) \in SUBSET (1..n) /\ Of(q, T) \in SUBSET (1..Len(q))
      BY <1>1 DEF Of
    <2>3. QED
      BY <2>1, <2>2, FS_Subset
  <1>3. \A k \in Of(q, T) : k \in 1..Len(q)
    BY <1>1 DEF Of
  <1>4. f \in Bijection(Of(q, T), R)
    BY <1>1, <1>3 DEF Bijection, Injection, Surjection, IsInjective
  <1>5. IsFiniteSet(R) /\ Cardinality(R) = Cardinality(Of(q, T))
    BY <1>2, <1>4, FS_Bijection DEF ExistsBijection
  <1>6. Of(p, T) \cap R = {}
    BY <1>1, <1>3 DEF Of
  <1>7. Of(p \o q, T) = Of(p, T) \cup R
    <2>1. /\ DOMAIN (p \o q) = 1..(n + Len(q))
          /\ \A k \in 1..n : (p \o q)[k] = p[k]
          /\ \A k \in 1..Len(q) : (p \o q)[n + k] = q[k]
      BY <1>1, ConcatProperties
    <2>2. \A k \in 1..(n + Len(q)) : k \in 1..n \/ (k - n \in 1..Len(q) /\ k = n + (k - n))
      BY <1>1
    <2>3. ASSUME NEW k \in Of(p \o q, T) PROVE k \in Of(p, T) \cup R
      <3>1. k \in 1..(n + Len(q)) /\ (p \o q)[k].type = T
        BY <2>1, <2>3 DEF Of
      <3>2. CASE k \in 1..n
        BY <1>1, <2>1, <3>1, <3>2 DEF Of
      <3>3. CASE k \notin 1..n
        <4> DEFINE j == k - n
        <4>1. j \in 1..Len(q) /\ k = n + j
          BY <2>2, <3>1, <3>3
        <4> HIDE DEF j
        <4>2. q[j].type = T
          BY <2>1, <3>1, <4>1
        <4>3. QED
          BY <1>1, <4>1, <4>2 DEF Of
      <3>4. QED
        BY <3>2, <3>3
    <2>4. ASSUME NEW k \in Of(p, T) PROVE k \in Of(p \o q, T)
      <3>1. k \in 1..n /\ p[k].type = T
        BY <1>1, <2>4 DEF Of
      <3>2. k \in 1..(n + Len(q))
        BY <1>1, <3>1
      <3>3. QED
        BY <2>1, <3>1, <3>2 DEF Of
    <2>5. ASSUME NEW k \in R PROVE k \in Of(p \o q, T)
      <3>1. PICK j \in Of(q, T) : k = n + j
        BY <2>5
      <3>2. j \in 1..Len(q) /\ q[j].type = T
        BY <1>1 DEF Of
      <3>3. k \in 1..(n + Len(q)) /\ (p \o q)[k] = q[j]
        BY <1>1, <2>1, <3>1, <3>2
      <3>4. QED
        BY <2>1, <3>2, <3>3 DEF Of
    <2>6. QED
      BY <2>3, <2>4, <2>5
  <1> HIDE DEF R
  <1>8. Cardinality(Of(p, T) \cup R) = Cardinality(Of(p, T)) + Cardinality(R)
    <2>1. Cardinality({}) = 0
      BY FS_EmptySet
    <2>2. /\ Cardinality(Of(p, T)) \in Nat /\ Cardinality(R) \in Nat
          /\ Cardinality(Of(p, T) \cup R)
               = Cardinality(Of(p, T)) + Cardinality(R) - Cardinality(Of(p, T) \cap R)
      BY <1>2, <1>5, FS_Union, FS_CardinalityType
    <2>3. Cardinality(Of(p, T) \cap R) = 0
      BY <1>6, <2>1, Zenon
    <2>4. QED
      BY <2>2, <2>3
  <1>9. Cardinality(Of(p, T)) \in Nat /\ Cardinality(Of(q, T)) \in Nat
    BY <1>2, FS_CardinalityType
  <1>10. QED
    BY <1>5, <1>7, <1>8, <1>9 DEF Count

(* One message counts for its type, none for no type.                      *)
LEMMA CountNone == \A T : Count(<< >>, T) = 0
  <1>1. \A T : Of(<< >>, T) = {}
    BY DEF Of
  <1>2. Cardinality({}) = 0
    BY FS_EmptySet
  <1>3. QED
    BY <1>1, <1>2 DEF Count

(* One message counts for its own type only.                               *)
LEMMA CountOne ==
  ASSUME NEW m, NEW T
  PROVE  Count(<<m>>, T) = IF m.type = T THEN 1 ELSE 0
  <1>1. Of(<<m>>, T) = IF m.type = T THEN {1} ELSE {}
    BY DEF Of
  <1>2. Cardinality({1}) = 1 /\ Cardinality({}) = 0
    BY FS_Singleton, FS_EmptySet
  <1>3. QED
    BY <1>1, <1>2 DEF Count

(* A message added, and the first one taken.                               *)
LEMMA CountSteps ==
  ASSUME NEW S, NEW q \in Seq(S), NEW T
  PROVE  /\ Count(q, T) \in Nat
         /\ \A m \in S :
              Count(Append(q, m), T) = Count(q, T) + (IF m.type = T THEN 1 ELSE 0)
         /\ q # << >> =>
              Count(q, T) = Count(Tail(q), T) + (IF Head(q).type = T THEN 1 ELSE 0)
  <1>1. Count(q, T) \in Nat
    BY CountJoined
  <1>2. ASSUME NEW m \in S
        PROVE  Count(Append(q, m), T) = Count(q, T) + (IF m.type = T THEN 1 ELSE 0)
    <2> DEFINE o == <<m>>
    <2>1. o \in Seq(S) /\ Append(q, m) = q \o o
      BY AppendIsConcat
    <2>2. Count(o, T) = IF m.type = T THEN 1 ELSE 0
      BY CountOne
    <2> HIDE DEF o
    <2>3. Count(q \o o, T) = Count(q, T) + Count(o, T)
      BY <2>1, CountJoined
    <2>4. QED
      BY <2>1, <2>2, <2>3
  <1>3. ASSUME q # << >>
        PROVE  Count(q, T) = Count(Tail(q), T) + (IF Head(q).type = T THEN 1 ELSE 0)
    <2>1. Head(q) \in S /\ Tail(q) \in Seq(S) /\ q = <<Head(q)>> \o Tail(q)
      <3>1. Head(q) \in S /\ Tail(q) \in Seq(S)
        BY <1>3
      <3>2. q = <<Head(q)>> \o Tail(q)
        BY <1>3
      <3>3. QED
        BY <3>1, <3>2
    <2> DEFINE h == Head(q)
               t == Tail(q)
    <2>2. <<h>> \in Seq(S)
      BY <2>1
    <2> HIDE DEF h, t
    <2>3. Count(<<h>> \o t, T) = Count(<<h>>, T) + Count(t, T)
          /\ Count(<<h>>, T) \in Nat /\ Count(t, T) \in Nat
      BY <2>1, <2>2, CountJoined DEF t
    <2>4. Count(<<h>>, T) = IF h.type = T THEN 1 ELSE 0
      BY CountOne
    <2>5. q = <<h>> \o t
      BY <2>1 DEF h, t
    <2>6. Count(q, T) = Count(t, T) + (IF h.type = T THEN 1 ELSE 0)
      BY <2>3, <2>4, <2>5
    <2>7. QED
      BY <2>6 DEF h, t
  <1>4. QED
    BY <1>1, <1>2, <1>3

(* A finite set lists as a sequence of its elements, each once.            *)
LEMMA Listing ==
  ASSUME NEW D, IsFiniteSet(D)
  PROVE  /\ SetToSeq(D) \in Seq(D) /\ Len(SetToSeq(D)) = Cardinality(D)
         /\ Cardinality(D) \in Nat
         /\ \A b \in D : \E k \in 1..Cardinality(D) : SetToSeq(D)[k] = b
         /\ \A j, k \in 1..Cardinality(D) : SetToSeq(D)[j] = SetToSeq(D)[k] => j = k
  <1> DEFINE n == Cardinality(D)
  <1>1. n \in Nat /\ ExistsBijection(1..n, D) /\ IsFiniteSet(1..n) /\ Cardinality(1..n) = n
    BY FS_CardinalityType, FS_Interval
  <1>2. \E f \in [1..n -> D] : IsInjective(f)
    BY <1>1 DEF ExistsBijection, Bijection, Injection
  <1>3. SetToSeq(D) \in [1..n -> D] /\ IsInjective(SetToSeq(D))
    BY <1>2 DEF SetToSeq
  <1>4. SetToSeq(D) \in Seq(D) /\ Len(SetToSeq(D)) = n
    BY <1>1, <1>3
  <1>5. SetToSeq(D) \in Injection(1..n, D)
    BY <1>3 DEF Injection
  <1>6. SetToSeq(D) \in Surjection(1..n, D)
    BY <1>1, <1>5, FS_Injection
  <1>7. \A j, k \in 1..n : SetToSeq(D)[j] = SetToSeq(D)[k] => j = k
    BY <1>3 DEF IsInjective
  <1>8. QED
    BY <1>1, <1>4, <1>6, <1>7 DEF Surjection

-----------------------------------------------------------------------------
(* What the firmware sends.  A calm message makes the driver send nothing. *)
Pictures == {"single", "hidden", "second", "empty"}
Commands == {"props", "load", "start", "config", "release", "stop", "unload", "end"}

CalmMessage ==
  [type : {"etb"}, buf : InBufs \cup {Eos}, ok : BOOLEAN]
  \cup [type : {"ftb"}, buf : OutBufs, pic : Pictures, eos : {FALSE}, bad : BOOLEAN]
  \cup [type : {"dpb"}]
  \cup [type : {"flush"}, ok : BOOLEAN]

Message ==
  CalmMessage
  \cup [type : {"answer"}, cmd : Commands, ok : BOOLEAN]
  \cup [type : {"ftb"}, buf : OutBufs, pic : Pictures, eos : BOOLEAN, bad : BOOLEAN]
  \cup [type : {"seq"}, kind : {"fits", "resize", "tenbit"}]
  \cup [type : {"error"}]

Typed(x) ==
  /\ DOMAIN x = Fields
  /\ x.state \in States /\ x.sub \subseteq SubStates
  /\ x.last \in BOOLEAN /\ x.stopped \in BOOLEAN /\ x.off \in BOOLEAN
  /\ x.known \in BOOLEAN /\ x.changed \in BOOLEAN /\ x.up \in BOOLEAN
  /\ x.run \in BOOLEAN /\ x.parsed \in BOOLEAN /\ x.paused \in BOOLEAN
  /\ x.flushes \in Int /\ x.held \in OutBufs \cup {None} /\ x.drops \in 0..MaxDrops
  /\ x.resp \in 0..MaxDone /\ x.flushed \in Nat
  /\ x.own \in [Bufs -> {"user", "prepared", "active"}]
  /\ x.attr \in [Bufs -> {"none", "deferred", "queued", "done"}]
  /\ x.dpb \in [host : Nat, deferred : Nat, queued : Nat]
  /\ x.inq \in Seq(InBufs \cup {Eos}) /\ x.outs \subseteq OutBufs /\ x.pool \in Nat
  /\ x.msgs \in Seq(Message)

Loaded(x) == "LOAD_RESOURCES" \in x.sub

(* What every step inside a call or a handler respects: it revives no      *)
(* failed instance, neither loads nor unloads the session, completes no    *)
(* wait and takes no buffer over from the client.                          *)
Tame(x, y) ==
  /\ Typed(y)
  /\ x.state = "ERROR" => y.state = "ERROR"
  /\ y.up = x.up /\ y.run = x.run /\ y.resp = x.resp
  /\ Loaded(x) => Loaded(y)
  /\ \A b \in Bufs : y.own[b] = "active" => x.own[b] = "active"

(* It sends nothing, or counts the flushes it sends.                       *)
Still(x, y) == Typed(x) => Tame(x, y) /\ y.msgs = x.msgs /\ y.flushes = x.flushes

Adds(x, y, d) ==
  /\ d \in Seq(CalmMessage) /\ y.msgs = x.msgs \o d
  /\ y.flushes >= x.flushes + Count(d, "flush")
  /\ x.up => y.flushes = x.flushes + Count(d, "flush")

Stirs(x, y) == Typed(x) => Tame(x, y) /\ \E d : Adds(x, y, d)

(* Steps compose.                                                          *)
LEMMA ComposeStill ==
  /\ \A x : Still(x, x)
  /\ \A x, y, z : Still(x, y) /\ Still(y, z) => Still(x, z)
  BY DEF Still, Tame

(* Calm messages are messages.                                             *)
LEMMA CalmSeq == \A d \in Seq(CalmMessage) : d \in Seq(Message)
  <1>1. CalmMessage \subseteq Message
    BY DEF Message
  <1>2. QED
    BY <1>1, SeqMonotonic

(* A step that sends nothing counts as one that sends calmly.              *)
LEMMA StillStirs == \A x, y : Still(x, y) => Stirs(x, y)
  <1> SUFFICES ASSUME NEW x, NEW y, Still(x, y), Typed(x)
               PROVE  Tame(x, y) /\ \E d : Adds(x, y, d)
    BY DEF Stirs
  <1>1. Tame(x, y) /\ y.msgs = x.msgs /\ y.flushes = x.flushes
    BY DEF Still
  <1>2. x.flushes \in Int /\ x.msgs \in Seq(Message)
    BY DEF Typed
  <1>3. << >> \in Seq(CalmMessage) /\ x.msgs \o << >> = x.msgs /\ Count(<< >>, "flush") = 0
    <2>1. x.msgs \o << >> = x.msgs
      BY <1>2, ConcatEmptySeq
    <2>2. QED
      BY <2>1, CountNone
  <1>4. Adds(x, y, << >>)
    BY <1>1, <1>2, <1>3 DEF Adds
  <1>5. QED
    BY <1>1, <1>4

(* What two steps send comes one after the other.                          *)
LEMMA ComposeStirs ==
  ASSUME NEW x, NEW y, NEW z, Stirs(x, y), Stirs(y, z)
  PROVE  Stirs(x, z)
  <1> SUFFICES ASSUME Typed(x) PROVE Tame(x, z) /\ \E d : Adds(x, z, d)
    BY DEF Stirs
  <1>1. PICK d : Tame(x, y) /\ Adds(x, y, d)
    BY DEF Stirs
  <1>2. PICK e : Tame(y, z) /\ Adds(y, z, e)
    BY <1>1 DEF Stirs, Tame
  <1>3. Tame(x, z)
    BY <1>1, <1>2 DEF Tame
  <1>4. /\ d \in Seq(CalmMessage) /\ e \in Seq(CalmMessage) /\ x.msgs \in Seq(Message)
        /\ d \in Seq(Message) /\ e \in Seq(Message)
    BY <1>1, <1>2, CalmSeq DEF Adds, Typed
  <1>5. /\ Count(d, "flush") \in Nat /\ Count(e, "flush") \in Nat
        /\ Count(d \o e, "flush") = Count(d, "flush") + Count(e, "flush")
    BY <1>4, CountJoined
  <1>6. d \o e \in Seq(CalmMessage)
    BY <1>4
  <1>7. z.msgs = x.msgs \o (d \o e)
    <2>1. z.msgs = (x.msgs \o d) \o e
      BY <1>1, <1>2 DEF Adds
    <2>2. \A p, q, r \in Seq(Message) : (p \o q) \o r = p \o (q \o r)
      BY ConcatAssociative
    <2>3. QED
      BY <1>4, <2>1, <2>2, Zenon
  <1>8. x.flushes \in Int /\ y.flushes \in Int /\ z.flushes \in Int /\ y.up = x.up
    BY <1>1, <1>2 DEF Tame, Typed
  <1>9. /\ z.flushes >= x.flushes + Count(d \o e, "flush")
        /\ x.up => z.flushes = x.flushes + Count(d \o e, "flush")
    BY <1>1, <1>2, <1>5, <1>8 DEF Adds
  <1>10. QED
    BY <1>3, <1>6, <1>7, <1>9 DEF Adds

-----------------------------------------------------------------------------
(* State and sub-state, with LOAD_RESOURCES left alone.                    *)
LEMMA StateStill ==
  ASSUME NEW x
  PROVE  /\ Still(x, Fail(x)) /\ Still(x, SubChangeDrc(x))
         /\ Still(x, SubChangeDrainLast(x)) /\ Still(x, SubChangeDrcLast(x))
         /\ \A to \in States : Still(x, ChangeState(x, to))
         /\ \A clear, set \in SUBSET SubStates :
              "LOAD_RESOURCES" \notin clear => Still(x, ChangeSub(x, clear, set))
  <1>1. ASSUME NEW clear \in SUBSET SubStates, NEW set \in SUBSET SubStates,
               "LOAD_RESOURCES" \notin clear
        PROVE  Still(x, ChangeSub(x, clear, set))
    BY <1>1 DEF Still, Tame, Typed, Loaded, ChangeSub, Fields
  <1>2. ASSUME NEW to \in States
        PROVE  Still(x, ChangeState(x, to))
    BY DEF Still, Tame, Typed, Loaded, ChangeState, ChangeStateOk, Fields
  <1>3. Still(x, x)
    BY ComposeStill
  <1>4. Still(x, Fail(x))
    BY <1>2 DEF Fail, States
  <1>5. Drc(x) \in SUBSET SubStates /\ {} \in SUBSET SubStates
        /\ {"DRAIN_LAST", "OUTPUT_PAUSE"} \in SUBSET SubStates
        /\ {"DRC_LAST", "OUTPUT_PAUSE"} \in SUBSET SubStates
    BY DEF Drc, SubStates
  <1>6. Still(x, SubChangeDrc(x))
    BY <1>1, <1>3, <1>5 DEF SubChangeDrc
  <1>7. Still(x, SubChangeDrainLast(x)) /\ Still(x, SubChangeDrcLast(x))
    BY <1>1, <1>3, <1>5 DEF SubChangeDrainLast, SubChangeDrcLast
  <1>8. QED
    BY <1>1, <1>2, <1>4, <1>6, <1>7

(* Buffers handed over, either way.                                        *)
LEMMA BufferStill ==
  ASSUME NEW x
  PROVE  /\ \A b \in Bufs : Still(x, QueueBuffer(x, b))
         /\ \A p \in Planes : Still(x, QueueDeferred(x, p))
         /\ \A p \in Planes, to \in {"user", "prepared"} : Still(x, BuffersDone(x, p, to))
         /\ \A p, r : Still(x, FlushDeferred(x, p, r))
         /\ \A b \in Bufs : \A what : Still(x, DoneCapture(x, b, what))
  <1>1. ASSUME NEW b \in Bufs
        PROVE  Still(x, QueueBuffer(x, b))
    <2> DEFINE q == IF b \in InBufs THEN Append(x.inq, b) ELSE x.inq
               o == IF b \in OutBufs THEN x.outs \cup {b} ELSE x.outs
               a == [x.attr EXCEPT ![b] = "queued"]
    <2>1. Typed(x) => /\ q \in Seq(InBufs \cup {Eos}) /\ o \subseteq OutBufs
                      /\ a \in [Bufs -> {"none", "deferred", "queued", "done"}]
      BY DEF Typed
    <2>2. QueueBuffer(x, b) = [x EXCEPT !.attr = a, !.inq = q, !.outs = o]
      BY DEF QueueBuffer
    <2> HIDE DEF q, o, a
    <2>3. QED
      BY <2>1, <2>2 DEF Still, Tame, Typed, Loaded, Fields
  <1>2. ASSUME NEW p \in Planes
        PROVE  Still(x, QueueDeferred(x, p))
    <2> DEFINE D == {b \in PlaneBufs(p) : x.own[b] = "active" /\ x.attr[b] = "deferred"}
               q == IF p = "OUTPUT" THEN x.inq \o SetToSeq(D) ELSE x.inq
               o == IF p = "CAPTURE" THEN x.outs \cup D ELSE x.outs
               a == [b \in Bufs |-> IF b \in D THEN "queued" ELSE x.attr[b]]
    <2>1. /\ p = "OUTPUT" => D \in SUBSET InBufs
          /\ p = "CAPTURE" => D \in SUBSET OutBufs
      BY DEF PlaneBufs
    <2>2. p = "OUTPUT" => SetToSeq(D) \in Seq(InBufs)
      <3>1. p = "OUTPUT" => IsFiniteSet(D)
        BY <2>1, FS_Subset, StreamAssumption
      <3>2. p = "OUTPUT" => SetToSeq(D) \in Seq(D)
        BY <3>1, Listing
      <3>3. QED
        BY <2>1, <3>2, SeqMonotonic
    <2>3. QueueDeferred(x, p) = [x EXCEPT !.attr = a, !.inq = q, !.outs = o]
      BY DEF QueueDeferred
    <2> HIDE DEF D
    <2>4. Typed(x) => /\ q \in Seq(InBufs \cup {Eos}) /\ o \subseteq OutBufs
                      /\ a \in [Bufs -> {"none", "deferred", "queued", "done"}]
      <3> SUFFICES ASSUME Typed(x)
                   PROVE  /\ q \in Seq(InBufs \cup {Eos}) /\ o \subseteq OutBufs
                          /\ a \in [Bufs -> {"none", "deferred", "queued", "done"}]
        OBVIOUS
      <3>1. x.inq \in Seq(InBufs \cup {Eos}) /\ x.outs \subseteq OutBufs
            /\ x.attr \in [Bufs -> {"none", "deferred", "queued", "done"}]
        BY DEF Typed
      <3>2. p = "OUTPUT" => SetToSeq(D) \in Seq(InBufs \cup {Eos})
        BY <2>2, SeqMonotonic
      <3>3. q \in Seq(InBufs \cup {Eos})
        BY <3>1, <3>2
      <3>4. QED
        BY <2>1, <3>1, <3>3
    <2> HIDE DEF q, o, a
    <2>5. QED
      BY <2>3, <2>4 DEF Still, Tame, Typed, Loaded, Fields
  <1>3. ASSUME NEW a, \A b \in Bufs : a[b] = "active" => x.own[b] = "active",
               Typed(x) => a \in [Bufs -> {"user", "prepared", "active"}]
        PROVE  Still(x, [x EXCEPT !.own = a])
    BY <1>3 DEF Still, Tame, Typed, Loaded, Fields
  <1>4. ASSUME NEW p, NEW to \in {"user", "prepared"}
        PROVE  Still(x, BuffersDone(x, p, to))
    <2> DEFINE a == [b \in Bufs |->
                       IF b \in PlaneBufs(p) /\ x.own[b] = "active" THEN to ELSE x.own[b]]
    <2>1. /\ \A b \in Bufs : a[b] = "active" => x.own[b] = "active"
          /\ Typed(x) => a \in [Bufs -> {"user", "prepared", "active"}]
      BY DEF Typed
    <2>2. BuffersDone(x, p, to) = [x EXCEPT !.own = a]
      BY DEF BuffersDone
    <2> HIDE DEF a
    <2>3. QED
      BY <1>3, <2>1, <2>2
  <1>5. ASSUME NEW p, NEW r
        PROVE  Still(x, FlushDeferred(x, p, r))
    <2> DEFINE a == [b \in Bufs |->
                       IF b \in PlaneBufs(p) /\ x.own[b] = "active" /\ x.attr[b] = "deferred"
                       THEN IF r THEN "prepared" ELSE "user" ELSE x.own[b]]
    <2>1. /\ \A b \in Bufs : a[b] = "active" => x.own[b] = "active"
          /\ Typed(x) => a \in [Bufs -> {"user", "prepared", "active"}]
      BY DEF Typed
    <2>2. FlushDeferred(x, p, r) = [x EXCEPT !.own = a]
      BY DEF FlushDeferred
    <2> HIDE DEF a
    <2>3. QED
      BY <1>3, <2>1, <2>2
  <1>6. ASSUME NEW b \in Bufs, NEW what
        PROVE  Still(x, DoneCapture(x, b, what))
    <2> DEFINE a == [x.own EXCEPT ![b] = "user"]
    <2>1. Typed(x) => /\ \A c \in Bufs : a[c] = "active" => x.own[c] = "active"
                      /\ a \in [Bufs -> {"user", "prepared", "active"}]
      BY DEF Typed
    <2>2. DoneCapture(x, b, what)
            = [x EXCEPT !.own = a, !.seen = Witness(x, what),
                        !.last = @ \/ what = "last", !.stopped = @ \/ what = "last"]
      BY DEF DoneCapture
    <2> HIDE DEF a
    <2>3. QED
      BY <2>1, <2>2 DEF Still, Tame, Typed, Loaded, Fields
  <1>7. QED
    BY <1>1, <1>2, <1>4, <1>5, <1>6

(* The DPB pool, and the end of a STREAMON.                                *)
LEMMA DpbStill ==
  ASSUME NEW x
  PROVE  /\ Still(x, CreateDpb(x)) /\ Still(x, DestroyDpb(x)) /\ Still(x, QueueDpb(x))
         /\ Still(x, QueueDeferredDpb(x)) /\ Still(x, Restarted(x)) /\ Still(x, FwContinue(x))
         /\ \A p \in Planes : Still(x, QueueAllDeferred(x, p))
  <1> DEFINE Pools == [host : Nat, deferred : Nat, queued : Nat]
  <1>0. ASSUME NEW y, NEW d, Typed(y) => d \in Pools
        PROVE  Still(y, [y EXCEPT !.dpb = d])
    BY <1>0 DEF Still, Tame, Typed, Loaded, Fields
  <1>1. ASSUME NEW y, NEW d, NEW n, Typed(y) => d \in Pools /\ n \in Nat
        PROVE  Still(y, [y EXCEPT !.dpb = d, !.pool = n])
    BY <1>1 DEF Still, Tame, Typed, Loaded, Fields
  <1>2. ASSUME NEW y, Typed(y)
        PROVE  /\ y.dpb \in Pools
               /\ y.dpb.host \in Nat /\ y.dpb.deferred \in Nat /\ y.dpb.queued \in Nat
               /\ y.pool \in Nat
    BY <1>2 DEF Typed
  <1>3. Still(x, CreateDpb(x)) /\ Still(x, DestroyDpb(x))
    BY <1>0, <1>2 DEF CreateDpb, DestroyDpb
  <1>4. ASSUME NEW y, NEW n, Typed(y) => n \in Nat
        PROVE  Still(y, SendDpb(y, n))
    <2> DEFINE d == [y.dpb EXCEPT !.queued = @ + n]
               p == y.pool + n
    <2>1. Typed(y) => d \in Pools /\ p \in Nat
      BY <1>2, <1>4
    <2>2. SendDpb(y, n) = [y EXCEPT !.dpb = d, !.pool = p]
      BY DEF SendDpb
    <2> HIDE DEF d, p
    <2>3. Still(y, [y EXCEPT !.dpb = d, !.pool = p])
      BY <1>1, <2>1, Zenon
    <2>4. QED
      BY <2>2, <2>3
  <1>5. ASSUME NEW y
        PROVE  Still(y, QueueDpb(y))
    <2> DEFINE a == [y.dpb EXCEPT !.host = 0, !.deferred = 0]
               c == [y.dpb EXCEPT !.deferred = @ + y.dpb.host, !.host = 0]
               u == [y EXCEPT !.dpb.host = 0, !.dpb.deferred = 0]
               v == [y EXCEPT !.dpb.deferred = @ + y.dpb.host, !.dpb.host = 0]
               n == y.dpb.host + y.dpb.deferred
    <2>1. /\ Typed(y) => a \in Pools
          /\ Typed(y) => c \in Pools
          /\ Typed(y) => n \in Nat
      <3>1. Typed(y) => a \in Pools
        BY <1>2
      <3>2. ASSUME Typed(y) PROVE c \in Pools
        <4> DEFINE r == y.dpb
                   w == r.deferred + r.host
        <4>1. r \in Pools /\ w \in Nat
          BY <1>2, <3>2
        <4>2. c = [r EXCEPT !.deferred = w, !.host = 0]
          OBVIOUS
        <4> HIDE DEF r, w, c
        <4>3. QED
          BY <4>1, <4>2
      <3>3. Typed(y) => n \in Nat
        BY <1>2
      <3>4. QED
        BY <3>1, <3>2, <3>3
    <2>2. Typed(y) => u = [y EXCEPT !.dpb = a] /\ v = [y EXCEPT !.dpb = c]
      BY DEF Typed, Fields
    <2>3. QueueDpb(y) = IF y.state = "STREAMING" THEN SendDpb(u, n) ELSE v
      BY DEF QueueDpb
    <2> HIDE DEF a, c, u, v, n
    <2>4. Still(y, u) /\ Still(y, v)
      <3>1. Still(y, [y EXCEPT !.dpb = a]) /\ Still(y, [y EXCEPT !.dpb = c])
        BY <1>0, <2>1, Zenon
      <3>2. QED
        BY <2>2, <3>1 DEF Still
    <2>5. Typed(y) => Still(u, SendDpb(u, n))
      BY <1>4, <2>1
    <2>6. QED
      BY <2>3, <2>4, <2>5, ComposeStill DEF Still
  <1>6. ASSUME NEW y
        PROVE  Still(y, QueueDeferredDpb(y))
    <2> DEFINE a == [y.dpb EXCEPT !.deferred = 0]
               u == [y EXCEPT !.dpb.deferred = 0]
    <2>1. Typed(y) => a \in Pools
      BY <1>2
    <2>2. u = [y EXCEPT !.dpb = a]
      OBVIOUS
    <2>3. QueueDeferredDpb(y) = SendDpb(u, y.dpb.deferred)
      BY DEF QueueDeferredDpb
    <2> HIDE DEF a, u
    <2>4. Still(y, u)
      BY <1>0, <1>2, <2>1, <2>2 DEF Still
    <2>5. Typed(y) => Still(u, SendDpb(u, y.dpb.deferred))
      BY <1>2, <1>4
    <2>6. QED
      BY <2>3, <2>4, <2>5, ComposeStill DEF Still
  <1>7. ASSUME NEW p \in Planes
        PROVE  Still(x, QueueAllDeferred(x, p))
    <2> DEFINE y == IF p = "OUTPUT" THEN QueueDeferred(x, "OUTPUT") ELSE x
               z == QueueDeferredDpb(y)
    <2>1. QueueAllDeferred(x, p)
            = IF y.state = "STREAMING" THEN QueueDeferred(z, "CAPTURE") ELSE y
      BY DEF QueueAllDeferred
    <2>2. Still(x, y)
      BY BufferStill, ComposeStill DEF Planes
    <2> HIDE DEF y
    <2>3. Still(y, z) /\ Still(z, QueueDeferred(z, "CAPTURE"))
      BY <1>6, BufferStill DEF Planes
    <2> HIDE DEF z
    <2>4. QED
      BY <2>1, <2>2, <2>3, ComposeStill
  <1>8. Still(x, Restarted(x)) /\ Still(x, FwContinue(x))
    <2>1. Still(x, Restarted(x))
      BY DEF Still, Tame, Typed, Loaded, Fields, Restarted
    <2>2. Still(x, [x EXCEPT !.paused = FALSE])
      BY DEF Still, Tame, Typed, Loaded, Fields
    <2>3. QED
      BY <2>1, <2>2, ComposeStill DEF FwContinue
  <1>9. QED
    BY <1>3, <1>5, <1>6, <1>7, <1>8

-----------------------------------------------------------------------------
(* The messages of a type one by one.                                      *)
LEMMA Letters ==
  ASSUME NEW m \in Message
  PROVE  /\ m.type = "etb" => m.buf \in InBufs \cup {Eos} /\ m.ok \in BOOLEAN
         /\ m.type = "ftb" => /\ m.buf \in OutBufs /\ m.pic \in Pictures
                              /\ m.eos \in BOOLEAN /\ m.bad \in BOOLEAN
         /\ m.type = "flush" => m.ok \in BOOLEAN
         /\ m.type \in {"answer", "etb", "ftb", "dpb", "flush", "seq", "error"}
         /\ m \in CalmMessage <=> /\ m.type \in {"etb", "ftb", "dpb", "flush"}
                                  /\ m.type = "ftb" => ~m.eos
  BY DEF Message, CalmMessage

(* No message of a type, none counted.                                     *)
LEMMA CountFree ==
  ASSUME NEW q, NEW T, \A k \in DOMAIN q : q[k].type # T
  PROVE  Count(q, T) = 0
  <1>1. Of(q, T) = {}
    BY DEF Of
  <1>2. QED
    BY <1>1, FS_EmptySet, Zenon DEF Count

(* A flush sent: everything it returns is calm, and it is answered once.   *)
LEMMA FlushStirs ==
  ASSUME NEW x, NEW all \in BOOLEAN
  PROVE  Stirs(x, SendFlush(x, all))
  <1> SUFFICES ASSUME Typed(x)
               PROVE  /\ Tame(x, SendFlush(x, all))
                      /\ \E d : Adds(x, SendFlush(x, all), d)
    BY DEF Stirs
  <1> DEFINE f == FwFlush(x, all)
             g == SendFlush(x, all)
  <1>1. x.flushes \in Int /\ x.msgs \in Seq(Message) /\ x.outs \in SUBSET OutBufs
        /\ x.pool \in Nat /\ x.inq \in Seq(InBufs \cup {Eos})
    BY DEF Typed
  <1>2. CASE ~x.up
    <2>1. g = [x EXCEPT !.flushes = @ + 1]
      BY <1>2 DEF SendFlush, FwFlush
    <2>2. Tame(x, g) /\ g.msgs = x.msgs /\ g.flushes = x.flushes + 1
      BY <2>1 DEF Tame, Typed, Loaded, Fields
    <2>3. x.msgs \o << >> = x.msgs
      BY <1>1, ConcatEmptySeq
    <2>4. Count(<< >>, "flush") = 0
      BY CountNone
    <2>5. << >> \in Seq(CalmMessage)
      OBVIOUS
    <2>6. Adds(x, g, << >>)
      BY <1>1, <1>2, <2>2, <2>3, <2>4, <2>5 DEF Adds
    <2>7. QED
      BY <2>2, <2>6
  <1>3. CASE x.up
    <2> DEFINE n == Cardinality(x.outs)
               b == [k \in 1..n |-> Ftb(SetToSeq(x.outs)[k], "empty", FALSE, FALSE)]
               c == [k \in 1..x.pool |-> DpbDone]
               a == IF all THEN [k \in DOMAIN x.inq |-> Etb(x.inq[k])] ELSE << >>
               e == <<[type |-> "flush", ok |-> TRUE]>>
               d == ((a \o b) \o c) \o e
               q == IF all THEN << >> ELSE x.inq
    <2>1. g = [[x EXCEPT !.msgs = (((@ \o a) \o b) \o c) \o e, !.outs = {}, !.pool = 0,
                         !.inq = q]
                 EXCEPT !.flushes = @ + 1]
      BY <1>3 DEF SendFlush, FwFlush
    <2>2. a \in Seq(CalmMessage) /\ Count(a, "flush") = 0
      <3>1. CASE all
        <4> DEFINE h == [k \in DOMAIN x.inq |-> Etb(x.inq[k])]
        <4>1. \A k \in DOMAIN x.inq : Etb(x.inq[k]) \in CalmMessage
                                      /\ Etb(x.inq[k]).type # "flush"
          <5>1. \A k \in DOMAIN x.inq : x.inq[k] \in InBufs \cup {Eos}
            BY <1>1
          <5>2. \A o \in InBufs \cup {Eos} : Etb(o) \in CalmMessage /\ Etb(o).type # "flush"
            BY DEF Etb, CalmMessage
          <5>3. QED
            BY <5>1, <5>2
        <4>2. DOMAIN x.inq = 1..Len(x.inq) /\ Len(x.inq) \in Nat
          BY <1>1
        <4>3. h \in Seq(CalmMessage) /\ \A k \in DOMAIN h : h[k].type # "flush"
          <5>1. h \in [1..Len(x.inq) -> CalmMessage]
            BY <4>1, <4>2
          <5>2. QED
            BY <4>1, <4>2, <5>1
        <4> HIDE DEF h
        <4>4. Count(h, "flush") = 0
          BY <4>3, CountFree
        <4>5. a = h
          BY <3>1 DEF h
        <4> HIDE DEF a
        <4>6. QED
          BY <4>3, <4>4, <4>5
      <3>2. CASE ~all
        BY <3>2, CountNone
      <3>3. QED
        BY <3>1, <3>2
    <2>3. b \in Seq(CalmMessage) /\ Count(b, "flush") = 0
      <3>1. IsFiniteSet(x.outs)
        BY <1>1, FS_Subset, StreamAssumption
      <3>2. SetToSeq(x.outs) \in Seq(x.outs) /\ Len(SetToSeq(x.outs)) = n /\ n \in Nat
        BY <3>1, Listing
      <3>3. \A k \in 1..n : SetToSeq(x.outs)[k] \in OutBufs
        BY <1>1, <3>2
      <3>4. \A k \in 1..n : b[k] \in CalmMessage /\ b[k].type # "flush"
        BY <3>3 DEF Ftb, CalmMessage, Pictures
      <3>5. b \in [1..n -> CalmMessage]
        BY <3>4
      <3> HIDE DEF b
      <3>6. b \in Seq(CalmMessage) /\ DOMAIN b = 1..n
        BY <3>2, <3>5
      <3>7. QED
        BY <3>4, <3>6, CountFree
    <2>4. c \in Seq(CalmMessage) /\ Count(c, "flush") = 0
      <3>1. \A k \in 1..x.pool : c[k] \in CalmMessage /\ c[k].type # "flush"
        BY DEF DpbDone, CalmMessage
      <3>2. c \in [1..x.pool -> CalmMessage]
        BY <3>1
      <3> HIDE DEF c
      <3>3. c \in Seq(CalmMessage) /\ DOMAIN c = 1..x.pool
        BY <1>1, <3>2
      <3>4. QED
        BY <3>1, <3>3, CountFree
    <2>5. e \in Seq(CalmMessage) /\ Count(e, "flush") = 1
      <3>1. [type |-> "flush", ok |-> TRUE] \in CalmMessage
        BY DEF CalmMessage
      <3>2. Count(<<[type |-> "flush", ok |-> TRUE]>>, "flush") = 1
        <4> DEFINE m == [type |-> "flush", ok |-> TRUE]
        <4>1. m.type = "flush"
          OBVIOUS
        <4> HIDE DEF m
        <4>2. Count(<<m>>, "flush") = 1
          BY <4>1, CountOne
        <4>3. QED
          BY <4>2 DEF m
      <3>3. QED
        BY <3>1, <3>2
    <2>6. q \in Seq(InBufs \cup {Eos})
      BY <1>1
    <2> HIDE DEF a, b, c, e, q
    <2>7. d \in Seq(CalmMessage) /\ Count(d, "flush") = 1
      <3> DEFINE ab == a \o b
                 abc == ab \o c
      <3>1. ab \in Seq(CalmMessage) /\ Count(ab, "flush") = 0
        BY <2>2, <2>3, CountJoined
      <3> HIDE DEF ab
      <3>2. abc \in Seq(CalmMessage) /\ Count(abc, "flush") = 0
        BY <2>4, <3>1, CountJoined
      <3> HIDE DEF abc
      <3>3. abc \o e \in Seq(CalmMessage) /\ Count(abc \o e, "flush") = 1
        BY <2>5, <3>2, CountJoined
      <3>4. QED
        BY <3>3 DEF ab, abc
    <2>8. (((x.msgs \o a) \o b) \o c) \o e = x.msgs \o d
      <3>1. a \in Seq(Message) /\ b \in Seq(Message) /\ c \in Seq(Message)
            /\ e \in Seq(Message)
        BY <2>2, <2>3, <2>4, <2>5, CalmSeq
      <3>2. x.msgs \in Seq(Message)
        BY <1>1
      <3> DEFINE p == x.msgs
                 ab == a \o b
                 abc == ab \o c
                 S == Seq(Message)
      <3>3. p \in S
        BY <3>2
      <3>4. a \in S /\ b \in S
        BY <3>1
      <3>5. c \in S
        BY <3>1
      <3>6. e \in S
        BY <3>1
      <3>7. ab \in S
        BY <3>4
      <3>8. abc \in S
        BY <3>5, <3>7
      <3>9. \A u, v, w \in S : (u \o v) \o w = u \o (v \o w)
        BY ConcatAssociative
      <3> HIDE DEF S, p
      <3>10. (p \o a) \o b = p \o ab
        BY <3>3, <3>4, <3>9, Zenon
      <3> HIDE DEF ab
      <3>11. (p \o ab) \o c = p \o abc
        BY <3>3, <3>5, <3>7, <3>9, Zenon
      <3> HIDE DEF abc
      <3>12. (p \o abc) \o e = p \o (abc \o e)
        BY <3>3, <3>6, <3>8, <3>9, Zenon
      <3>13. (((p \o a) \o b) \o c) \o e = p \o (abc \o e)
        BY <3>10, <3>11, <3>12, Zenon
      <3>14. QED
        BY <3>13, Zenon DEF p, ab, abc
    <2> HIDE DEF d
    <2>9. x.msgs \o d \in Seq(Message)
      BY <1>1, <2>7, CalmSeq, ConcatProperties
    <2>10. g = [x EXCEPT !.msgs = x.msgs \o d, !.outs = {}, !.pool = 0, !.inq = q,
                         !.flushes = @ + 1]
      BY <2>1, <2>8 DEF Typed, Fields
    <2>11. Tame(x, g) /\ g.msgs = x.msgs \o d /\ g.flushes = x.flushes + 1
      <3> DEFINE r == x.msgs \o d
      <3>1. r \in Seq(Message) /\ g = [x EXCEPT !.msgs = r, !.outs = {}, !.pool = 0, !.inq = q,
                                               !.flushes = @ + 1]
        BY <2>9, <2>10
      <3> HIDE DEF r
      <3>2. /\ g.msgs = r /\ g.flushes = x.flushes + 1 /\ g.state = x.state /\ g.up = x.up
            /\ g.run = x.run /\ g.resp = x.resp /\ g.sub = x.sub /\ g.own = x.own
        BY <3>1 DEF Typed, Fields
      <3>3. Typed(g)
        BY <2>6, <3>1 DEF Typed, Fields
      <3>4. QED
        BY <3>2, <3>3 DEF Tame, Loaded, r
    <2>12. Adds(x, g, d)
      BY <1>1, <2>7, <2>11 DEF Adds
    <2>13. QED
      BY <2>11, <2>12
  <1>4. QED
    BY <1>1, <1>2, <1>3 DEF Typed

-----------------------------------------------------------------------------
(* The interrupt thread.  Only the end of stream and a source change send  *)
(* anything, and what they send is a flush.                                *)
LEMMA UnmatchedStill == \A x : Still(x, Unmatched(x))
  BY StateStill, ComposeStill DEF Unmatched

(* The held output is settled, whatever becomes of it.                     *)
LEMMA SettleStill ==
  ASSUME NEW x, NEW m
  PROVE  Still(x, SettleHeld(x, m))
  <1> SUFFICES ASSUME Typed(x) PROVE Still(x, SettleHeld(x, m))
    BY DEF Still
  <1>1. \A y : Still(y, [y EXCEPT !.held = None, !.heldPic = "none"])
    <2> SUFFICES ASSUME NEW y, Typed(y)
                 PROVE  Tame(y, [y EXCEPT !.held = None, !.heldPic = "none"])
                        /\ [y EXCEPT !.held = None, !.heldPic = "none"].msgs = y.msgs
                        /\ [y EXCEPT !.held = None, !.heldPic = "none"].flushes = y.flushes
      BY DEF Still
    <2> DEFINE z == [y EXCEPT !.held = None, !.heldPic = "none"]
    <2>1. /\ z.msgs = y.msgs /\ z.flushes = y.flushes /\ z.state = y.state /\ z.up = y.up
          /\ z.run = y.run /\ z.resp = y.resp /\ z.sub = y.sub /\ z.own = y.own
      BY DEF Typed, Fields
    <2>2. Typed(z)
      BY DEF Typed, Fields
    <2>3. QED
      BY <2>1, <2>2 DEF Tame, Loaded
  <1>2. CASE x.held = None
    BY <1>2, ComposeStill DEF SettleHeld
  <1>3. CASE x.held # None
    <2>1. x.held \in Bufs
      BY <1>3 DEF Typed, Bufs
    <2>2. /\ Still(x, QueueBuffer(x, x.held))
          /\ \A what : Still(x, DoneCapture(x, x.held, what))
      BY <2>1, BufferStill
    <2>3. \E y : Still(x, y) /\ SettleHeld(x, m) = [y EXCEPT !.held = None, !.heldPic = "none"]
      BY <1>3, <2>2 DEF SettleHeld
    <2>4. QED
      BY <1>1, <2>3, ComposeStill
  <1>4. QED
    BY <1>2, <1>3

(* A matched output buffer is handed on.                                   *)
LEMMA FillStill ==
  ASSUME NEW x, NEW m, m.buf \in OutBufs
  PROVE  Still(x, FillDone(x, m))
  <1> DEFINE n == IF m.pic = "empty" THEN x.drops ELSE 0
             a == [x.attr EXCEPT ![m.buf] = "done"]
             y == [x EXCEPT !.attr[m.buf] = "done",
                            !.drops = IF m.pic = "empty" THEN @ ELSE 0]
             z == [x EXCEPT !.drops = @ + 1]
             h == [y EXCEPT !.held = m.buf, !.heldPic = m.pic]
  <1>0. MaxDrops \in Nat
    BY StreamAssumption
  <1>1. Typed(x) => /\ n \in 0..MaxDrops
                    /\ a \in [Bufs -> {"none", "deferred", "queued", "done"}]
    <2>1. Typed(x) => n \in 0..MaxDrops
      BY <1>0 DEF Typed
    <2>2. Typed(x) => a \in [Bufs -> {"none", "deferred", "queued", "done"}]
      BY DEF Typed
    <2>3. QED
      BY <2>1, <2>2
  <1>2. y = [x EXCEPT !.attr = a, !.drops = n]
    OBVIOUS
  <1>3. Typed(x) /\ x.drops < MaxDrops => Still(x, z)
    BY <1>0 DEF Still, Tame, Typed, Loaded, Fields
  <1>4. \/ FillDone(x, m) = QueueBuffer(z, m.buf) /\ x.drops < MaxDrops
        \/ FillDone(x, m) = h
        \/ \E what : FillDone(x, m) = DoneCapture(y, m.buf, what)
    BY DEF FillDone
  <1>5. Still(y, h)
    BY DEF Still, Tame, Typed, Loaded, Fields
  <1> HIDE DEF n, a, y, z, h
  <1>6. Still(x, y)
    BY <1>1, <1>2 DEF Still, Tame, Typed, Loaded, Fields
  <1>7. m.buf \in Bufs
    BY DEF Bufs
  <1>8. Still(z, QueueBuffer(z, m.buf)) /\ \A what : Still(y, DoneCapture(y, m.buf, what))
    BY <1>7, BufferStill
  <1>9. QED
    BY <1>3, <1>4, <1>5, <1>6, <1>8, ComposeStill DEF Still

(* The end of a drain sends a flush.                                       *)
LEMMA DrainStirs == \A x : Stirs(x, DrainArm(x))
  <1> SUFFICES ASSUME NEW x PROVE Stirs(x, DrainArm(x))
    OBVIOUS
  <1> DEFINE y == [x EXCEPT !.flushed = 0]
             z == SendFlush(y, FALSE)
  <1>1. Still(x, y)
    BY DEF Still, Tame, Typed, Loaded, Fields
  <1>2. DrainArm(x) = SubChangeDrainLast(z)
    BY DEF DrainArm
  <1> HIDE DEF y
  <1>3. Stirs(y, z)
    BY FlushStirs
  <1> HIDE DEF z
  <1>4. Still(z, SubChangeDrainLast(z))
    BY StateStill
  <1>5. Stirs(x, z)
    BY <1>1, <1>3, StillStirs, ComposeStirs
  <1>6. QED
    BY <1>2, <1>4, <1>5, StillStirs, ComposeStirs

(* An output buffer comes back.                                            *)
LEMMA FrameStirs ==
  ASSUME NEW x0, NEW m, m.buf \in OutBufs
  PROVE  /\ Stirs(x0, FtbDone(x0, m))
         /\ ~m.eos => Still(x0, FtbDone(x0, m))
  <1> DEFINE x == IF m.eos /\ m.pic = "empty" THEN DrainArm(x0) ELSE x0
             y == [x EXCEPT !.held = None, !.last = @ \/ Terminal(x, m)]
             z == SettleHeld(x, m)
  <1>1. FtbDone(x0, m) \in {Unmatched(x), Unmatched(y), FillDone(z, m)}
    BY DEF FtbDone
  <1>2. Stirs(x0, x) /\ (~m.eos => Still(x0, x))
    BY DrainStirs, StillStirs, ComposeStill
  <1> HIDE DEF x
  <1>3. Still(x, y)
    BY DEF Still, Tame, Typed, Loaded, Fields
  <1>4. Still(x, z)
    BY SettleStill
  <1> HIDE DEF y, z
  <1>5. Still(x, Unmatched(x)) /\ Still(y, Unmatched(y)) /\ Still(z, FillDone(z, m))
    BY UnmatchedStill, FillStill
  <1>6. Still(x, FtbDone(x0, m))
    BY <1>1, <1>3, <1>4, <1>5, ComposeStill
  <1>7. Stirs(x0, FtbDone(x0, m))
    BY <1>2, <1>6, StillStirs, ComposeStirs
  <1>8. QED
    BY <1>2, <1>6, <1>7, ComposeStill

(* A source change sends a flush, or CONTINUE.                             *)
LEMMA SequenceStirs ==
  \A x, m : Stirs(x, SeqChanged(x, m))
  <1>1. ASSUME NEW x
        PROVE  Stirs(x, ArmDrc(x))
    <2> DEFINE y == SubChangeDrc(x)
               u == IF y.flushes = 0 THEN [y EXCEPT !.flushed = 0] ELSE y
               z == IF y.state # "ERROR" /\ "FIRST_IPSC" \notin y.sub
                    THEN SendFlush(u, FALSE) ELSE y
    <2>1. ArmDrc(x) \in {x, SubChangeDrcLast(z)}
      BY DEF ArmDrc
    <2>2. Still(x, y)
      BY StateStill
    <2> HIDE DEF y
    <2>3. Still(y, [y EXCEPT !.flushed = 0])
      BY DEF Still, Tame, Typed, Loaded, Fields
    <2>4. Still(y, u)
      BY <2>3, ComposeStill
    <2> HIDE DEF u
    <2>5. Stirs(u, SendFlush(u, FALSE))
      BY FlushStirs
    <2>6. Stirs(y, SendFlush(u, FALSE)) /\ Stirs(y, y)
      BY <2>4, <2>5, StillStirs, ComposeStirs, ComposeStill
    <2>7. Stirs(y, z)
      BY <2>6
    <2> HIDE DEF z
    <2>8. Still(z, SubChangeDrcLast(z))
      BY StateStill
    <2>9. Stirs(x, z)
      BY <2>2, <2>7, StillStirs, ComposeStirs
    <2>10. Stirs(x, SubChangeDrcLast(z)) /\ Stirs(x, x)
      BY <2>8, <2>9, StillStirs, ComposeStirs, ComposeStill
    <2>11. QED
      BY <2>1, <2>10
  <1>2. ASSUME NEW x, NEW m
        PROVE  Stirs(x, SeqChanged(x, m))
    <2> DEFINE y == [x EXCEPT !.known = TRUE, !.changed = @ \/ m.kind = "tenbit"]
               z == FwContinue(y)
               C == {"DRC", "FIRST_IPSC", "INPUT_PAUSE"}
               u == ChangeSub(z, C, {})
    <2>1. SeqChanged(x, m) \in {x, u, ArmDrc(y)}
      BY DEF SeqChanged
    <2>2. Still(x, y)
      BY DEF Still, Tame, Typed, Loaded, Fields
    <2>3. C \in SUBSET SubStates /\ {} \in SUBSET SubStates /\ "LOAD_RESOURCES" \notin C
      BY DEF SubStates
    <2> HIDE DEF y, C
    <2>4. Still(y, z) /\ Stirs(y, ArmDrc(y))
      BY <1>1, DpbStill
    <2> HIDE DEF z
    <2>5. Still(z, u)
      BY <2>3, StateStill
    <2> HIDE DEF u
    <2>6. Still(x, u) /\ Still(x, x)
      BY <2>2, <2>4, <2>5, ComposeStill
    <2>7. Stirs(x, ArmDrc(y))
      BY <2>2, <2>4, StillStirs, ComposeStirs
    <2>8. QED
      BY <2>1, <2>6, <2>7, StillStirs
  <1>3. QED
    BY <1>2

(* An input buffer comes back.                                             *)
LEMMA EmptyStill ==
  ASSUME NEW x, NEW m, m.buf \in InBufs \cup {Eos}
  PROVE  Still(x, EtbDone(x, m))
  <1> DEFINE y == IF m.ok THEN x ELSE Fail(x)
             z == [y EXCEPT !.attr[m.buf] = "done", !.own[m.buf] = "user"]
  <1>1. EtbDone(x, m) \in {x, Fail(x), y} \/ (m.buf \in InBufs /\ EtbDone(x, m) = z)
    <2>1. m.buf = Eos => EtbDone(x, m) = x
      BY DEF EtbDone
    <2>2. m.buf # Eos /\ x.own[m.buf] # "active" => EtbDone(x, m) = Fail(x)
      BY DEF EtbDone
    <2>3. m.buf # Eos /\ x.own[m.buf] = "active" =>
            EtbDone(x, m) = IF y.attr[m.buf] # "queued" THEN y ELSE z
      BY DEF EtbDone
    <2> HIDE DEF y, z
    <2>4. QED
      BY <2>1, <2>2, <2>3
  <1>2. Still(x, x) /\ Still(x, Fail(x)) /\ Still(x, y)
    BY StateStill, ComposeStill
  <1> HIDE DEF y
  <1>3. ASSUME m.buf \in InBufs
        PROVE  Still(y, z)
    <2> DEFINE a == [y.attr EXCEPT ![m.buf] = "done"]
               o == [y.own EXCEPT ![m.buf] = "user"]
    <2>1. Typed(y) => /\ a \in [Bufs -> {"none", "deferred", "queued", "done"}]
                      /\ o \in [Bufs -> {"user", "prepared", "active"}]
                      /\ \A b \in Bufs : o[b] = "active" => y.own[b] = "active"
      BY <1>3 DEF Typed, Bufs
    <2>2. z = [y EXCEPT !.attr = a, !.own = o]
      OBVIOUS
    <2> HIDE DEF a, o
    <2>3. QED
      BY <2>1, <2>2 DEF Still, Tame, Typed, Loaded, Fields
  <1> HIDE DEF z
  <1>4. QED
    BY <1>1, <1>2, <1>3, ComposeStill

(* A DPB comes back.                                                       *)
LEMMA DpbDoneStill == \A x : Still(x, DpbFtbDone(x))
  <1> SUFFICES ASSUME NEW x, Typed(x) PROVE Still(x, DpbFtbDone(x))
    BY DEF Still
  <1> DEFINE n == x.dpb.queued - 1
             h == x.dpb.host + 1
             d == [x.dpb EXCEPT !.queued = n, !.host = h]
             y == [x EXCEPT !.dpb.queued = @ - 1, !.dpb.host = @ + 1]
  <1>1. CASE x.dpb.queued = 0
    BY <1>1, UnmatchedStill DEF DpbFtbDone
  <1>2. CASE x.dpb.queued # 0
    <2>1. x.dpb \in [host : Nat, deferred : Nat, queued : Nat] /\ n \in Nat /\ h \in Nat
      BY <1>2 DEF Typed
    <2> HIDE DEF n, h
    <2>2. d \in [host : Nat, deferred : Nat, queued : Nat]
      BY <2>1
    <2>3. y = [x EXCEPT !.dpb = d]
      BY DEF n, h, Typed, Fields
    <2>4. DpbFtbDone(x) = y
      BY <1>2 DEF DpbFtbDone
    <2> HIDE DEF d, y
    <2>5. QED
      BY <2>2, <2>3, <2>4 DEF Still, Tame, Typed, Loaded, Fields
  <1>3. QED
    BY <1>1, <1>2

(* A message that is no answer.                                            *)
LEMMA HandleStirs ==
  ASSUME NEW x, NEW m \in Message, m.type \notin {"answer", "flush"}
  PROVE  /\ Stirs(x, Handle(x, m))
         /\ m \in CalmMessage => Still(x, Handle(x, m))
  <1>1. CASE m.type = "etb"
    <2>1. Still(x, EtbDone(x, m))
      BY <1>1, EmptyStill, Letters
    <2>2. QED
      BY <1>1, <2>1, StillStirs DEF Handle
  <1>2. CASE m.type = "ftb"
    <2>1. m.buf \in OutBufs /\ (m \in CalmMessage => ~m.eos)
      BY <1>2, Letters
    <2>2. Handle(x, m) = FtbDone(x, m)
      BY <1>2 DEF Handle
    <2>3. QED
      BY <2>1, <2>2, FrameStirs
  <1>3. CASE m.type = "dpb"
    BY <1>3, DpbDoneStill, StillStirs DEF Handle
  <1>4. CASE m.type = "seq"
    <2>1. m \notin CalmMessage
      BY <1>4, Letters
    <2>2. QED
      BY <1>4, <2>1, SequenceStirs DEF Handle
  <1>5. CASE m.type = "error"
    BY <1>5, StateStill, StillStirs DEF Handle
  <1>6. QED
    BY <1>1, <1>2, <1>3, <1>4, <1>5, Letters

(* An answer, of either kind.                                              *)
LEMMA AnswerTypes ==
  ASSUME NEW x, Typed(x), NEW m
  PROVE  /\ LET y == FlushDone(x, m)
            IN Tame(x, y) /\ y.msgs = x.msgs /\ y.flushes = x.flushes - 1
         /\ LET y == AnswerDone(x, m)
            IN /\ Typed(y) /\ y.msgs = x.msgs /\ y.flushes = x.flushes /\ y.up = x.up
               /\ y.run = x.run /\ y.own = x.own /\ (Loaded(x) => Loaded(y))
               /\ x.state = "ERROR" => y.state = "ERROR"
               /\ y.resp = IF x.resp < MaxDone THEN x.resp + 1 ELSE x.resp
               /\ y.inq = x.inq /\ y.outs = x.outs /\ y.pool = x.pool
  <1> DEFINE f == IF m.ok THEN x ELSE Fail(x)
  <1>1. Still(x, f)
    BY StateStill, ComposeStill
  <1>2. /\ f.own = x.own /\ f.inq = x.inq /\ f.outs = x.outs /\ f.pool = x.pool
    BY DEF Fail, ChangeState, Typed, Fields
  <1>3. FlushDone(x, m) = LET y == [f EXCEPT !.flushes = @ - 1]
                          IN IF y.flushes = 0 THEN [y EXCEPT !.flushed = @ + 1] ELSE y
    BY DEF FlushDone
  <1>4. AnswerDone(x, m) = [f EXCEPT !.resp = IF @ < MaxDone THEN @ + 1 ELSE @]
    BY DEF AnswerDone
  <1> HIDE DEF f
  <1>5. Tame(x, f) /\ f.msgs = x.msgs /\ f.flushes = x.flushes /\ Typed(f)
    BY <1>1 DEF Still, Tame
  <1>6. LET y == FlushDone(x, m)
        IN Tame(x, y) /\ y.msgs = x.msgs /\ y.flushes = x.flushes - 1
    <2> DEFINE y == [f EXCEPT !.flushes = @ - 1]
               z == [y EXCEPT !.flushed = @ + 1]
    <2>1. Tame(f, y) /\ y.msgs = f.msgs /\ y.flushes = f.flushes - 1 /\ Typed(y)
      BY <1>5 DEF Tame, Typed, Loaded, Fields
    <2>2. FlushDone(x, m) \in {y, z}
      BY <1>3
    <2> HIDE DEF y
    <2>3. Tame(y, z) /\ z.msgs = y.msgs /\ z.flushes = y.flushes
      <3> DEFINE k == y.flushed + 1
      <3>0. y.flushed \in Nat
        BY <2>1 DEF Typed
      <3>1. k \in Nat
        BY <3>0
      <3>2. z = [y EXCEPT !.flushed = k]
        OBVIOUS
      <3> HIDE DEF k, z
      <3>3. QED
        BY <2>1, <3>1, <3>2 DEF Tame, Typed, Loaded, Fields
    <2> HIDE DEF z
    <2>4. QED
      BY <1>5, <2>1, <2>2, <2>3 DEF Tame
  <1>7. LET y == AnswerDone(x, m)
        IN /\ Typed(y) /\ y.msgs = x.msgs /\ y.flushes = x.flushes /\ y.up = x.up
           /\ y.run = x.run /\ y.own = x.own /\ (Loaded(x) => Loaded(y))
           /\ x.state = "ERROR" => y.state = "ERROR"
           /\ y.resp = IF x.resp < MaxDone THEN x.resp + 1 ELSE x.resp
           /\ y.inq = x.inq /\ y.outs = x.outs /\ y.pool = x.pool
    <2> DEFINE n == IF f.resp < MaxDone THEN f.resp + 1 ELSE f.resp
               y == [f EXCEPT !.resp = n]
    <2>1. n \in 0..MaxDone /\ n = IF x.resp < MaxDone THEN x.resp + 1 ELSE x.resp
      <3>1. MaxDone \in Nat
        BY StreamAssumption
      <3>2. f.resp \in 0..MaxDone /\ f.resp = x.resp
        BY <1>5 DEF Tame, Typed
      <3>3. QED
        BY <3>1, <3>2
    <2>2. AnswerDone(x, m) = y
      BY <1>4
    <2> HIDE DEF n
    <2>3. /\ Typed(y) /\ y.msgs = f.msgs /\ y.flushes = f.flushes /\ y.up = f.up
          /\ y.run = f.run /\ y.own = f.own /\ (Loaded(f) => Loaded(y))
          /\ y.state = f.state /\ y.resp = n
          /\ y.inq = f.inq /\ y.outs = f.outs /\ y.pool = f.pool
      BY <1>5, <2>1 DEF Typed, Loaded, Fields
    <2> HIDE DEF y
    <2>4. QED
      BY <1>2, <1>5, <2>1, <2>2, <2>3 DEF Tame
  <1>8. QED
    BY <1>6, <1>7

-----------------------------------------------------------------------------
(* What the messages under way say of the waits, and the other way round.  *)
Asking == Waits \ {"flush"}

OnlyAnswers(q) == \A k \in DOMAIN q : q[k].type = "answer"

(* Every FLUSH answer that is still to come has been counted.              *)
Counted(x) ==
  /\ Count(x.msgs, "flush") <= x.flushes
  /\ x.up => x.flushes = Count(x.msgs, "flush")

(* One answer is out or taken, the one that is waited for.                 *)
Answered(x, at) ==
  x.state # "ERROR" =>
    /\ Count(x.msgs, "answer") + x.resp <= IF at \in Asking THEN 1 ELSE 0
    /\ x.up => Count(x.msgs, "answer") + x.resp = IF at \in Asking THEN 1 ELSE 0
    /\ \A k \in DOMAIN x.msgs : x.msgs[k].type = "answer" => x.msgs[k].cmd = at

(* A session that is not loaded does not run and sends answers only; the   *)
(* input queue streams on a loaded session only.                           *)
Unrun(x, at) ==
  x.state # "ERROR" /\ ~Loaded(x) /\ at # "start" => ~x.run /\ OnlyAnswers(x.msgs)

Fed(x) == x.state \in {"INPUT_STREAMING", "STREAMING"} => Loaded(x)

(* Behind the answer to STOP come calm messages only, behind the answer to *)
(* RELEASE_RESOURCES none at all.                                          *)
Stopping(x) ==
  x.state # "ERROR" =>
    /\ x.state # "STREAMING" /\ ~x.run /\ Loaded(x)
    /\ \A k \in DOMAIN x.msgs :
         \/ x.resp > 0
         \/ \E j \in DOMAIN x.msgs : j < k /\ x.msgs[j].type = "answer"
         => x.msgs[k] \in CalmMessage

Unloading(x) ==
  x.state # "ERROR" =>
    /\ x.state # "STREAMING" /\ ~x.run /\ Loaded(x)
    /\ x.resp > 0 => x.msgs = << >>
    /\ \A k \in DOMAIN x.msgs :
         IF x.msgs[k].type = "answer" THEN k = Len(x.msgs) ELSE x.msgs[k] \in CalmMessage

(* A session that is ended, or to be ended, has nothing.                   *)
Empty(x) == ~x.run /\ x.inq = << >> /\ x.outs = {} /\ x.pool = 0 /\ OnlyAnswers(x.msgs)

Line(x, at) ==
  /\ Typed(x) /\ Counted(x) /\ Answered(x, at) /\ Unrun(x, at) /\ Fed(x)
  /\ at = "stop" => Stopping(x)
  /\ at = "unload" => Unloading(x)
  /\ at = "flush" => x.state \in {"STREAMING", "ERROR"}
  /\ at = "end" \/ x.state = "DEINIT" => Empty(x)

(* vb2's buffers are on the list of a queue that streams, or starts to.    *)
Listed(x, planes, q) ==
  \A b \in Bufs : x.own[b] = "active" =>
    Plane(b) \in planes \/ (q.at # "idle" /\ Plane(b) = q.plane)

Ats == Waits \cup {"idle", "enqueue", "off"}

Wired ==
  /\ Line(s, queue.at) /\ Listed(s, on, queue)
  /\ queue.at \in Ats /\ command \in {"idle", "flush"} /\ codec \in Codecs

(* A failed instance is only held to its count of flushes.                 *)
LEMMA LineFailed ==
  ASSUME NEW x, Typed(x), Counted(x), x.state = "ERROR", NEW at, at # "end"
  PROVE  Line(x, at)
  BY DEF Line, Answered, Unrun, Fed, Stopping, Unloading

(* A step that sends nothing keeps the line, as long as it neither fills a *)
(* session that is empty nor streams on one that is not loaded.            *)
LEMMA LineStill ==
  ASSUME NEW x, NEW y, NEW at, Line(x, at), Still(x, y), Fed(y),
         at \in {"stop", "unload", "flush"} => y.state \in {x.state, "ERROR"},
         at = "end" \/ y.state = "DEINIT" =>
           /\ at = "end" \/ x.state = "DEINIT"
           /\ y.inq = x.inq /\ y.outs = x.outs /\ y.pool = x.pool
  PROVE  Line(y, at)
  <1>1. /\ Tame(x, y) /\ y.msgs = x.msgs /\ y.flushes = x.flushes
    BY DEF Line, Still
  <1>2. /\ Typed(y) /\ y.up = x.up /\ y.run = x.run /\ y.resp = x.resp
        /\ (x.state = "ERROR" => y.state = "ERROR") /\ (Loaded(x) => Loaded(y))
    BY <1>1 DEF Tame
  <1>3. Counted(y)
    BY <1>1, <1>2 DEF Line, Counted
  <1>4. Answered(y, at)
    BY <1>1, <1>2 DEF Line, Answered
  <1>5. Unrun(y, at)
    BY <1>1, <1>2 DEF Line, Unrun
  <1>6. at = "stop" => Stopping(y)
    BY <1>1, <1>2 DEF Line, Stopping
  <1>7. at = "unload" => Unloading(y)
    BY <1>1, <1>2 DEF Line, Unloading
  <1>8. at = "flush" => y.state \in {"STREAMING", "ERROR"}
    BY <1>1, <1>2 DEF Line
  <1>9. at = "end" \/ y.state = "DEINIT" => Empty(y)
    BY <1>1, <1>2 DEF Line, Empty
  <1>10. QED
    BY <1>2, <1>3, <1>4, <1>5, <1>6, <1>7, <1>8, <1>9 DEF Line

(* None counted, none there.                                               *)
LEMMA CountZero ==
  ASSUME NEW S, NEW q \in Seq(S), NEW T, Count(q, T) = 0
  PROVE  \A k \in DOMAIN q : q[k].type # T
  <1>1. Len(q) \in Nat /\ DOMAIN q = 1..Len(q)
    OBVIOUS
  <1>2. IsFiniteSet(1..Len(q))
    BY <1>1, FS_Interval
  <1>3. Of(q, T) \in SUBSET (1..Len(q))
    BY <1>1 DEF Of
  <1>4. IsFiniteSet(Of(q, T))
    BY <1>2, <1>3, FS_Subset
  <1>5. Of(q, T) = {}
    BY <1>4, FS_EmptySet DEF Count
  <1>6. QED
    BY <1>5 DEF Of

(* While no thread waits for an answer none is out and none is taken.      *)
LEMMA NoneOut ==
  ASSUME NEW x, NEW at, Line(x, at), at \notin Asking \/ x.resp > 0, x.state # "ERROR"
  PROVE  /\ Count(x.msgs, "answer") = 0
         /\ x.resp = IF at \in Asking THEN 1 ELSE 0
         /\ \A k \in DOMAIN x.msgs : x.msgs[k].type # "answer"
  <1>1. MaxDone \in Nat
    BY StreamAssumption
  <1>2. x.msgs \in Seq(Message) /\ x.resp \in 0..MaxDone
        /\ Count(x.msgs, "answer") + x.resp <= IF at \in Asking THEN 1 ELSE 0
    BY DEF Line, Typed, Answered
  <1>3. Count(x.msgs, "answer") \in Nat
    BY <1>2, CountSteps
  <1>4. Count(x.msgs, "answer") = 0 /\ x.resp = IF at \in Asking THEN 1 ELSE 0
    BY <1>1, <1>2, <1>3
  <1>5. QED
    BY <1>2, <1>4, CountZero

(* The queue thread goes on without an answer to wait for.                 *)
LEMMA LineIdle ==
  ASSUME NEW x, NEW at \in {"idle", "enqueue", "off", "flush"},
         NEW to \in {"idle", "enqueue", "off", "flush"}, Line(x, at),
         to = "flush" => x.state \in {"STREAMING", "ERROR"}
  PROVE  Line(x, to)
  <1>1. at \notin Asking /\ to \notin Asking
    BY DEF Asking, Waits
  <1>2. \A k \in DOMAIN x.msgs : x.state # "ERROR" => x.msgs[k].type # "answer"
    BY <1>1, NoneOut
  <1>3. Answered(x, to)
    BY <1>1, <1>2 DEF Line, Answered
  <1>4. QED
    BY <1>3 DEF Line, Unrun

-----------------------------------------------------------------------------
(* An answer joins the messages under way.                                 *)
Told(x, y, c) ==
  /\ Typed(y)
  /\ y.msgs = IF x.up THEN Append(x.msgs, [type |-> "answer", cmd |-> c, ok |-> TRUE])
              ELSE x.msgs
  /\ y.flushes = x.flushes /\ y.up = x.up /\ y.resp = x.resp
  /\ y.state = x.state /\ y.sub = x.sub /\ y.own = x.own

(* That is what sending an answer does.                                    *)
LEMMA AnswerTold ==
  ASSUME NEW x, Typed(x), NEW c \in Commands
  PROVE  LET y == Answer(x, c)
         IN /\ Told(x, y, c)
            /\ y.run = x.run /\ y.inq = x.inq /\ y.outs = x.outs /\ y.pool = x.pool
  <1> DEFINE m == [type |-> "answer", cmd |-> c, ok |-> TRUE]
             q == Append(x.msgs, m)
  <1>1. m \in Message
    BY DEF Message
  <1>2. Answer(x, c) = IF x.up THEN [x EXCEPT !.msgs = q] ELSE x
    BY DEF Answer, Send
  <1>3. q \in Seq(Message)
    BY <1>1 DEF Typed
  <1>4. CASE x.up
    <2> HIDE DEF q
    <2>1. LET y == [x EXCEPT !.msgs = q]
          IN /\ Typed(y) /\ y.msgs = q /\ y.flushes = x.flushes /\ y.up = x.up
             /\ y.resp = x.resp /\ y.state = x.state /\ y.sub = x.sub /\ y.own = x.own
             /\ y.run = x.run /\ y.inq = x.inq /\ y.outs = x.outs /\ y.pool = x.pool
      BY <1>3 DEF Typed, Fields
    <2>2. QED
      BY <1>2, <1>4, <2>1 DEF Told, q
  <1>5. CASE ~x.up
    BY <1>2, <1>5 DEF Told
  <1>6. QED
    BY <1>4, <1>5

(* What is counted then, and where the answer is.                          *)
LEMMA ToldCounts ==
  ASSUME NEW x, Typed(x), NEW c \in Commands, NEW y, Told(x, y, c)
  PROVE  /\ Count(y.msgs, "flush") = Count(x.msgs, "flush")
         /\ Count(x.msgs, "answer") \in Nat
         /\ Count(y.msgs, "answer") = Count(x.msgs, "answer") + (IF x.up THEN 1 ELSE 0)
         /\ \A k \in DOMAIN y.msgs :
              \/ k \in DOMAIN x.msgs /\ y.msgs[k] = x.msgs[k]
              \/ /\ k = Len(y.msgs) /\ y.msgs[k].type = "answer" /\ y.msgs[k].cmd = c
                 /\ \A j \in DOMAIN x.msgs : j < k
         /\ Len(y.msgs) \in Nat /\ DOMAIN y.msgs = 1..Len(y.msgs)
         /\ \A k \in DOMAIN x.msgs : k \in DOMAIN y.msgs /\ y.msgs[k] = x.msgs[k]
  <1> DEFINE m == [type |-> "answer", cmd |-> c, ok |-> TRUE]
  <1>1. x.msgs \in Seq(Message) /\ y.msgs \in Seq(Message)
    BY DEF Told, Typed
  <1>2. Count(x.msgs, "answer") \in Nat /\ Count(x.msgs, "flush") \in Nat
    BY <1>1, CountSteps
  <1>3. m \in Message /\ m.type = "answer" /\ m.cmd = c
    BY DEF Message
  <1> HIDE DEF m
  <1>4. CASE x.up
    <2>1. y.msgs = Append(x.msgs, m)
      BY <1>4 DEF Told, m
    <2>2. /\ Count(y.msgs, "answer") = Count(x.msgs, "answer") + 1
          /\ Count(y.msgs, "flush") = Count(x.msgs, "flush")
      <3>1. \A T : Count(Append(x.msgs, m), T)
                     = Count(x.msgs, T) + (IF m.type = T THEN 1 ELSE 0)
        BY <1>1, <1>3, CountSteps
      <3>2. QED
        BY <1>2, <1>3, <2>1, <3>1
    <2>3. /\ Len(y.msgs) = Len(x.msgs) + 1 /\ y.msgs[Len(x.msgs) + 1] = m
          /\ \A k \in 1..Len(x.msgs) : y.msgs[k] = x.msgs[k]
          /\ DOMAIN y.msgs = 1..Len(y.msgs) /\ DOMAIN x.msgs = 1..Len(x.msgs)
          /\ Len(x.msgs) \in Nat
      BY <1>1, <1>3, <2>1
    <2>4. Len(y.msgs) = Len(x.msgs) + 1 /\ Len(y.msgs) \in Nat
          /\ \A j \in DOMAIN x.msgs : j < Len(y.msgs)
      BY <2>3
    <2>5. ASSUME NEW k \in DOMAIN y.msgs
          PROVE  \/ k \in DOMAIN x.msgs /\ y.msgs[k] = x.msgs[k]
                 \/ /\ k = Len(y.msgs) /\ y.msgs[k].type = "answer" /\ y.msgs[k].cmd = c
                    /\ \A j \in DOMAIN x.msgs : j < k
      <3>1. CASE k = Len(x.msgs) + 1
        BY <1>3, <2>3, <2>4, <3>1
      <3>2. CASE k # Len(x.msgs) + 1
        BY <2>3, <2>5, <3>2
      <3>3. QED
        BY <3>1, <3>2
    <2>6. \A k \in DOMAIN x.msgs : k \in DOMAIN y.msgs /\ y.msgs[k] = x.msgs[k]
      BY <2>3
    <2>7. QED
      BY <1>2, <1>4, <2>2, <2>3, <2>4, <2>5, <2>6
  <1>5. CASE ~x.up
    <2>1. y.msgs = x.msgs
      BY <1>5 DEF Told
    <2>2. QED
      BY <1>1, <1>2, <1>5, <2>1
  <1>6. QED
    BY <1>4, <1>5, <1>1 DEF Typed

(* The thread has its answer and goes on under the lock.                   *)
LEMMA LineTaken ==
  ASSUME NEW x, NEW at \in Asking \ {"end"}, Line(x, at), x.resp > 0, x.state # "DEINIT",
         NEW y, Typed(y), y.msgs = x.msgs, y.flushes = x.flushes, y.up = x.up,
         y.run = x.run, y.resp \in {0, x.resp - 1}, y.state \in {x.state, "ERROR"},
         Loaded(x) => Loaded(y), at = "start" /\ y.state # "ERROR" => Loaded(y)
  PROVE  Line(y, "idle")
  <1>1. "idle" \notin Asking
    BY DEF Asking, Waits
  <1>2. x.state # "ERROR" =>
          /\ Count(x.msgs, "answer") = 0 /\ x.resp = 1
          /\ \A k \in DOMAIN x.msgs : x.msgs[k].type # "answer"
    BY NoneOut
  <1>3. Counted(y)
    BY DEF Line, Counted
  <1>4. Answered(y, "idle")
    BY <1>1, <1>2 DEF Answered
  <1>5. Unrun(y, "idle")
    BY DEF Line, Unrun
  <1>6. Fed(y)
    BY DEF Line, Fed
  <1>7. y.state # "DEINIT"
    OBVIOUS
  <1>8. QED
    BY <1>3, <1>4, <1>5, <1>6, <1>7 DEF Line

(* The thread asks again.                                                  *)
LEMMA LineAsk ==
  ASSUME NEW x, Line(x, "idle"), x.state # "DEINIT",
         NEW c \in {"props", "load", "start", "config", "release"}, NEW y, Told(x, y, c),
         c # "start" => y.run = x.run
  PROVE  Line(y, c)
  <1>0. c \in Commands /\ c \in Asking /\ "idle" \notin Asking
    BY DEF Commands, Asking, Waits
  <1>1. Typed(x) /\ Typed(y) /\ y.state = x.state /\ y.resp = x.resp /\ y.up = x.up
        /\ y.flushes = x.flushes /\ y.sub = x.sub
    BY DEF Line, Told
  <1>2. x.state # "ERROR" =>
          /\ Count(x.msgs, "answer") = 0 /\ x.resp = 0
          /\ \A k \in DOMAIN x.msgs : x.msgs[k].type # "answer"
    BY <1>0, NoneOut
  <1>3. /\ Count(y.msgs, "flush") = Count(x.msgs, "flush")
        /\ Count(y.msgs, "answer") = Count(x.msgs, "answer") + (IF x.up THEN 1 ELSE 0)
        /\ \A k \in DOMAIN y.msgs :
             \/ k \in DOMAIN x.msgs /\ y.msgs[k] = x.msgs[k]
             \/ y.msgs[k].type = "answer" /\ y.msgs[k].cmd = c
    BY <1>0, <1>1, ToldCounts
  <1>4. Counted(y)
    BY <1>1, <1>3 DEF Line, Counted
  <1>5. Answered(y, c)
    BY <1>0, <1>1, <1>2, <1>3 DEF Answered
  <1>6. Unrun(y, c)
    BY <1>1, <1>3 DEF Line, Unrun, OnlyAnswers, Loaded
  <1>7. Fed(y)
    BY <1>1 DEF Line, Fed, Loaded
  <1>8. QED
    BY <1>1, <1>4, <1>5, <1>6, <1>7 DEF Line

(* reinit_completion() of a thread that does not wait.                     *)
LEMMA LineReset ==
  ASSUME NEW x, NEW at \in {"idle", "enqueue", "off"}, Line(x, at)
  PROVE  Line(NewWait(x), "idle") /\ NewWait(x).resp = 0
  <1> DEFINE y == NewWait(x)
  <1>1. Line(x, "idle") /\ at \notin Asking /\ "idle" \notin Asking
    BY LineIdle DEF Asking, Waits
  <1>2. MaxDone \in Nat
    BY StreamAssumption
  <1>3. /\ Typed(y) /\ y.msgs = x.msgs /\ y.flushes = x.flushes /\ y.up = x.up
        /\ y.run = x.run /\ y.resp = 0 /\ y.state = x.state /\ y.sub = x.sub
        /\ y.inq = x.inq /\ y.outs = x.outs /\ y.pool = x.pool
    BY <1>1, <1>2 DEF Line, Typed, Fields, NewWait
  <1> HIDE DEF y
  <1>4. x.state # "ERROR" => x.resp = 0
    BY <1>1, NoneOut
  <1>5. Counted(y) /\ Unrun(y, "idle") /\ Fed(y) /\ (y.state = "DEINIT" => Empty(y))
    BY <1>1, <1>3 DEF Line, Counted, Unrun, Fed, Empty, Loaded
  <1>6. Answered(y, "idle")
    BY <1>1, <1>3, <1>4 DEF Line, Answered
  <1>7. QED
    BY <1>3, <1>5, <1>6 DEF Line, y

-----------------------------------------------------------------------------
(* STOP is sent to a loaded session that is not streaming any more.        *)
LEMMA LineStop ==
  ASSUME NEW x, Line(x, "idle"), x.state \notin {"STREAMING", "DEINIT"}, Loaded(x)
  PROVE  Line(FwStop(x), "stop")
  <1> DEFINE a == Answer(x, "stop")
             y == FwStop(x)
  <1>0. "stop" \in Commands /\ "stop" \in Asking /\ "idle" \notin Asking
    BY DEF Commands, Asking, Waits
  <1>1. Typed(x)
    BY DEF Line
  <1>2. Told(x, a, "stop")
    BY <1>0, <1>1, AnswerTold
  <1>3. y = [a EXCEPT !.run = FALSE, !.inq = << >>, !.outs = {}, !.pool = 0,
                      !.paused = FALSE]
    BY DEF FwStop
  <1> HIDE DEF a
  <1>4. Told(x, y, "stop") /\ ~y.run
    <2>1. Typed(a) /\ << >> \in Seq(InBufs \cup {Eos})
      BY <1>2 DEF Told
    <2>2. Typed(y)
      BY <1>3, <2>1 DEF Typed, Fields
    <2>3. /\ y.msgs = a.msgs /\ y.flushes = a.flushes /\ y.up = a.up /\ y.resp = a.resp
          /\ y.state = a.state /\ y.sub = a.sub /\ y.own = a.own /\ y.run = FALSE
      BY <1>3, <2>1 DEF Typed, Fields
    <2> HIDE DEF y
    <2>4. QED
      BY <1>2, <2>2, <2>3 DEF Told
  <1> HIDE DEF y
  <1>5. Typed(y) /\ y.state = x.state /\ y.resp = x.resp /\ y.up = x.up
        /\ y.flushes = x.flushes /\ y.sub = x.sub
    BY <1>4 DEF Told
  <1>6. x.state # "ERROR" =>
          /\ Count(x.msgs, "answer") = 0 /\ x.resp = 0
          /\ \A k \in DOMAIN x.msgs : x.msgs[k].type # "answer"
    BY <1>0, NoneOut
  <1>7. /\ Count(y.msgs, "flush") = Count(x.msgs, "flush")
        /\ Count(y.msgs, "answer") = Count(x.msgs, "answer") + (IF x.up THEN 1 ELSE 0)
        /\ \A k \in DOMAIN y.msgs :
             \/ k \in DOMAIN x.msgs /\ y.msgs[k] = x.msgs[k]
             \/ k = Len(y.msgs) /\ y.msgs[k].type = "answer" /\ y.msgs[k].cmd = "stop"
        /\ Len(y.msgs) \in Nat /\ DOMAIN y.msgs = 1..Len(y.msgs)
    BY <1>0, <1>1, <1>4, ToldCounts
  <1>8. Counted(y)
    BY <1>5, <1>7 DEF Line, Counted
  <1>9. Answered(y, "stop")
    BY <1>0, <1>5, <1>6, <1>7 DEF Answered
  <1>10. Unrun(y, "stop") /\ Fed(y) /\ Loaded(y)
    BY <1>5 DEF Line, Fed, Unrun, Loaded
  <1>11. Stopping(y)
    <2>1. ASSUME x.state # "ERROR", NEW j \in DOMAIN y.msgs, NEW k \in DOMAIN y.msgs,
                 j < k
          PROVE  y.msgs[j].type # "answer"
      BY <1>6, <1>7, <2>1
    <2>2. QED
      BY <1>4, <1>5, <1>6, <1>10, <2>1 DEF Stopping
  <1>12. QED
    BY <1>5, <1>8, <1>9, <1>10, <1>11 DEF Line, y

(* RELEASE_RESOURCES follows: what is still on its way comes before it.    *)
LEMMA LineUnload ==
  ASSUME NEW x, Line(x, "stop"), x.resp > 0, x.state # "DEINIT"
  PROVE  Line(Answer(NewWait(x), "unload"), "unload")
  <1> DEFINE w == NewWait(x)
             y == Answer(w, "unload")
  <1>0. "unload" \in Commands /\ "unload" \in Asking /\ "stop" \in Asking
    BY DEF Commands, Asking, Waits
  <1>1. MaxDone \in Nat
    BY StreamAssumption
  <1>2. /\ Typed(w) /\ w.msgs = x.msgs /\ w.flushes = x.flushes /\ w.up = x.up
        /\ w.run = x.run /\ w.resp = 0 /\ w.state = x.state /\ w.sub = x.sub
    BY <1>1 DEF Line, Typed, Fields, NewWait
  <1> HIDE DEF w
  <1>3. Told(w, y, "unload") /\ y.run = w.run
    BY <1>0, <1>2, AnswerTold
  <1> HIDE DEF y
  <1>4. Typed(y) /\ y.state = x.state /\ y.resp = 0 /\ y.up = x.up
        /\ y.flushes = x.flushes /\ y.sub = x.sub /\ y.run = x.run
    BY <1>2, <1>3 DEF Told
  <1>5. x.state # "ERROR" =>
          /\ Count(x.msgs, "answer") = 0
          /\ \A k \in DOMAIN x.msgs : x.msgs[k].type # "answer"
    BY <1>0, NoneOut
  <1>6. /\ Count(y.msgs, "flush") = Count(x.msgs, "flush")
        /\ Count(y.msgs, "answer") = Count(x.msgs, "answer") + (IF x.up THEN 1 ELSE 0)
        /\ \A k \in DOMAIN y.msgs :
             \/ k \in DOMAIN x.msgs /\ y.msgs[k] = x.msgs[k]
             \/ k = Len(y.msgs) /\ y.msgs[k].type = "answer" /\ y.msgs[k].cmd = "unload"
    BY <1>0, <1>2, <1>3, ToldCounts
  <1>7. Counted(y)
    BY <1>2, <1>4, <1>6 DEF Line, Counted
  <1>8. Answered(y, "unload")
    BY <1>0, <1>2, <1>4, <1>5, <1>6 DEF Answered
  <1>9. y.state # "ERROR" => y.state # "STREAMING" /\ ~y.run /\ Loaded(y)
    BY <1>4 DEF Line, Stopping, Loaded
  <1>10. Unrun(y, "unload") /\ Fed(y)
    BY <1>4, <1>9 DEF Line, Unrun, Fed, Loaded
  <1>11. Unloading(y)
    <2>1. x.state # "ERROR" => \A k \in DOMAIN x.msgs : x.msgs[k] \in CalmMessage
      BY DEF Line, Stopping
    <2>2. QED
      BY <1>4, <1>5, <1>6, <1>9, <2>1 DEF Unloading
  <1>12. QED
    BY <1>4, <1>7, <1>8, <1>10, <1>11 DEF Line, y, w

(* SESSION_END: the firmware drops what it has, its answer is all there is.*)
LEMMA EndTold ==
  ASSUME NEW x, Typed(x)
  PROVE  LET y == FwEnd(x)
         IN Told(x, y, "end") /\ ~y.run /\ y.inq = << >> /\ y.outs = {} /\ y.pool = 0
  <1> DEFINE a == Answer(x, "end")
             y == FwEnd(x)
  <1>1. "end" \in Commands
    BY DEF Commands
  <1>2. Told(x, a, "end")
    BY <1>1, AnswerTold
  <1>3. y = [a EXCEPT !.run = FALSE, !.parsed = FALSE, !.inq = << >>, !.outs = {},
                      !.pool = 0, !.paused = FALSE]
    BY DEF FwEnd
  <1> HIDE DEF a, y
  <1>4. Typed(a) /\ << >> \in Seq(InBufs \cup {Eos})
    BY <1>2 DEF Told
  <1>5. Typed(y)
    BY <1>3, <1>4 DEF Typed, Fields
  <1>6. /\ y.msgs = a.msgs /\ y.flushes = a.flushes /\ y.up = a.up /\ y.resp = a.resp
        /\ y.state = a.state /\ y.sub = a.sub /\ y.own = a.own /\ y.run = FALSE
        /\ y.inq = << >> /\ y.outs = {} /\ y.pool = 0
    BY <1>3, <1>4 DEF Typed, Fields
  <1>7. QED
    BY <1>2, <1>5, <1>6 DEF Told, y

(* After SESSION_END its answer is all there is.                           *)
LEMMA LineEnd ==
  ASSUME NEW x, Typed(x), Counted(x), x.state = "INIT", x.msgs = << >>, x.resp = 0
  PROVE  Line(FwEnd(x), "end")
  <1> DEFINE y == FwEnd(x)
  <1>0. "end" \in Commands /\ "end" \in Asking
    BY DEF Commands, Asking, Waits
  <1>1. Told(x, y, "end") /\ ~y.run /\ y.inq = << >> /\ y.outs = {} /\ y.pool = 0
    BY EndTold
  <1> HIDE DEF y
  <1>2. Typed(y) /\ y.state = "INIT" /\ y.resp = 0 /\ y.up = x.up
        /\ y.flushes = x.flushes
    BY <1>1 DEF Told
  <1>3. DOMAIN x.msgs = {} /\ Count(x.msgs, "answer") = 0
    BY CountNone
  <1>4. /\ Count(y.msgs, "flush") = Count(x.msgs, "flush")
        /\ Count(y.msgs, "answer") = Count(x.msgs, "answer") + (IF x.up THEN 1 ELSE 0)
        /\ \A k \in DOMAIN y.msgs :
             \/ k \in DOMAIN x.msgs
             \/ y.msgs[k].type = "answer" /\ y.msgs[k].cmd = "end"
    BY <1>0, <1>1, ToldCounts
  <1>5. Counted(y) /\ Answered(y, "end") /\ Unrun(y, "end") /\ Fed(y) /\ Empty(y)
    BY <1>0, <1>1, <1>2, <1>3, <1>4
       DEF Counted, Answered, Unrun, Fed, Empty, OnlyAnswers
  <1>6. QED
    BY <1>2, <1>5 DEF Line, y

(* The session is gone, with or without its answer.                        *)
LEMMA LineGone ==
  ASSUME NEW x, Line(x, "end"), NEW y, Typed(y), y.msgs = x.msgs, y.flushes = 0,
         y.run = x.run, y.inq = x.inq, y.outs = x.outs, y.pool = x.pool,
         y.state = "ERROR" \/ (y.state = "DEINIT" /\ x.state # "ERROR" /\ x.resp > 0
                               /\ y.resp = x.resp - 1)
  PROVE  Line(y, "idle")
  <1>1. Empty(x) /\ Typed(x) /\ "idle" \notin Asking /\ "end" \in Asking
    BY DEF Line, Asking, Waits
  <1>2. \A k \in DOMAIN y.msgs : y.msgs[k].type # "flush"
    BY <1>1 DEF Empty, OnlyAnswers
  <1>3. Count(y.msgs, "flush") = 0
    BY <1>2, CountFree
  <1>4. Counted(y)
    BY <1>3 DEF Counted
  <1>5. CASE y.state = "ERROR"
    BY <1>4, <1>5, LineFailed
  <1>6. CASE y.state # "ERROR"
    <2>1. /\ Count(x.msgs, "answer") = 0 /\ x.resp = 1
          /\ \A k \in DOMAIN x.msgs : x.msgs[k].type # "answer"
      BY <1>1, <1>6, NoneOut
    <2>2. Answered(y, "idle")
      BY <1>1, <1>6, <2>1 DEF Answered
    <2>3. Empty(y)
      BY <1>1 DEF Empty
    <2>4. Unrun(y, "idle") /\ Fed(y)
      BY <1>6, <2>3 DEF Unrun, Fed, Empty
    <2>5. QED
      BY <1>4, <1>6, <2>2, <2>3, <2>4 DEF Line
  <1>7. QED
    BY <1>5, <1>6

-----------------------------------------------------------------------------
(* A failed instance, whatever its queue thread does next.                 *)
LEMMA LineFails ==
  ASSUME NEW x, Typed(x), Counted(x), NEW at, at # "end"
  PROVE  /\ Line(Fail(x), at) /\ Typed(Fail(x)) /\ Counted(Fail(x))
         /\ Fail(x).state = "ERROR" /\ Fail(x).own = x.own
  <1>1. Still(x, Fail(x))
    BY StateStill
  <1>2. Typed(Fail(x)) /\ Counted(Fail(x))
    BY <1>1 DEF Still, Tame, Counted
  <1>3. Fail(x).state = "ERROR" /\ Fail(x).own = x.own
    BY DEF Typed, Fields, Fail, ChangeState, ChangeStateOk
  <1>4. QED
    BY <1>2, <1>3, LineFailed

(* vb2 takes the buffers of one plane back.                                *)
LEMMA LineBack ==
  ASSUME NEW x, NEW at \in {"idle", "enqueue", "off"}, Line(x, at), NEW p \in Planes,
         NEW to \in {"user", "prepared"}, NEW planes, NEW q,
         \A b \in Bufs : x.own[b] = "active" => Plane(b) \in planes \cup {p}
  PROVE  LET y == BuffersDone(x, p, to)
         IN /\ Line(y, "idle") /\ Listed(y, planes \ {p}, q)
            /\ Line(Fail(y), "idle") /\ Listed(Fail(y), planes \ {p}, q)
  <1> DEFINE y == BuffersDone(x, p, to)
  <1>1. Still(x, y)
    BY BufferStill
  <1>2. y.state = x.state /\ y.sub = x.sub /\ y.inq = x.inq /\ y.outs = x.outs
        /\ y.pool = x.pool
    BY DEF BuffersDone, Line, Typed, Fields
  <1>3. \A b \in Bufs : y.own[b] = IF b \in PlaneBufs(p) /\ x.own[b] = "active" THEN to
                                   ELSE x.own[b]
    BY DEF BuffersDone, Line, Typed, Fields
  <1>4. \A b \in Bufs : b \in PlaneBufs(Plane(b))
    BY DEF Bufs, PlaneBufs, Plane
  <1> HIDE DEF y
  <1>5. Fed(y)
    BY <1>2 DEF Line, Fed, Loaded
  <1>6. Line(x, "idle")
    BY LineIdle
  <1>7. Line(y, "idle")
    BY <1>1, <1>2, <1>5, <1>6, LineStill
  <1>8. Listed(y, planes \ {p}, q)
    <2> SUFFICES ASSUME NEW b \in Bufs, y.own[b] = "active"
                 PROVE  Plane(b) \in planes \ {p}
      BY DEF Listed
    <2>1. x.own[b] = "active" /\ b \notin PlaneBufs(p)
      BY <1>3
    <2>2. QED
      BY <1>4, <2>1
  <1>9. Line(Fail(y), "idle") /\ Fail(y).own = y.own
    BY <1>7, LineFails DEF Line
  <1>10. Listed(Fail(y), planes \ {p}, q)
    BY <1>8, <1>9 DEF Listed
  <1>11. QED
    BY <1>7, <1>8, <1>9, <1>10 DEF y

(* The exit of a STREAMOFF, or of a STREAMON that is undone.               *)
LEMMA WiredExit ==
  ASSUME Wired, queue.at # "idle", queue.plane \in Planes,
         NEW x, NEW at \in {"idle", "enqueue", "off"}, Line(x, at),
         \A b \in Bufs : x.own[b] = "active" => s.own[b] = "active",
         NEW failed \in BOOLEAN, NEW q, q.plane = queue.plane, FinishOff(x, failed, q)
  PROVE  Line(s', queue'.at) /\ Listed(s', on', queue') /\ queue'.at \in Ats
  <1>1. \A b \in Bufs : x.own[b] = "active" => Plane(b) \in on \cup {queue.plane}
    BY DEF Wired, Listed
  <1>2. /\ queue' = Idle /\ queue'.at = "idle" /\ queue'.at \in Ats
        /\ \E to \in {"user", "prepared"} :
             LET y == BuffersDone(x, queue.plane, to) IN s' \in {y, Fail(y)}
        /\ on' = on \/ on' = on \ {queue.plane}
    <2>1. CASE q.rollback
      BY <2>1 DEF FinishOff, FailStart, Rest, Idle, Ats
    <2>2. CASE ~q.rollback
      BY <2>2 DEF FinishOff, Rest, Idle, Ats
    <2>3. QED
      BY <2>1, <2>2
  <1>3. PICK to \in {"user", "prepared"} :
          LET y == BuffersDone(x, queue.plane, to) IN s' \in {y, Fail(y)}
    BY <1>2
  <1> DEFINE y == BuffersDone(x, queue.plane, to)
  <1>4. /\ Line(y, "idle") /\ Listed(y, on \ {queue.plane}, queue')
        /\ Line(Fail(y), "idle") /\ Listed(Fail(y), on \ {queue.plane}, queue')
    BY <1>1, LineBack
  <1>5. s' \in {y, Fail(y)}
    BY <1>3
  <1> HIDE DEF y
  <1>6. Line(s', "idle") /\ Listed(s', on \ {queue.plane}, queue')
    BY <1>4, <1>5
  <1>7. Listed(s', on', queue')
    BY <1>2, <1>6 DEF Listed
  <1>8. QED
    BY <1>2, <1>6, <1>7

(* The session is killed.                                                  *)
LEMMA WiredKill ==
  ASSUME Wired, queue.at # "idle", queue.plane \in Planes,
         NEW x, Typed(x), Counted(x),
         \A b \in Bufs : x.own[b] = "active" => s.own[b] = "active", KillSession(x)
  PROVE  Line(s', queue'.at) /\ Listed(s', on', queue') /\ queue'.at \in Ats
  <1> DEFINE e == FwEnd(x)
             f == Fail(e)
             y == FlushDeferred(f, queue.plane, queue.rollback)
  <1>1. FinishOff(y, TRUE, queue)
    BY DEF KillSession
  <1>2. "end" \in Commands
    BY DEF Commands
  <1>3. Told(x, e, "end")
    BY EndTold
  <1> HIDE DEF e
  <1>4. Typed(e) /\ Counted(e) /\ e.own = x.own
    <2>1. Count(e.msgs, "flush") = Count(x.msgs, "flush")
      BY <1>2, <1>3, ToldCounts
    <2>2. QED
      BY <1>3, <2>1 DEF Told, Counted
  <1>5. Line(f, "idle") /\ f.own = e.own /\ f.state = "ERROR"
    BY <1>4, LineFails
  <1> HIDE DEF f
  <1>6. Still(f, y)
    <2>1. \A p, r : Still(f, FlushDeferred(f, p, r))
      BY BufferStill
    <2>2. QED
      BY <2>1, Zenon
  <1> HIDE DEF y
  <1>7. /\ Typed(y) /\ Counted(y) /\ y.state = "ERROR"
        /\ \A b \in Bufs : y.own[b] = "active" => f.own[b] = "active"
    BY <1>5, <1>6 DEF Line, Still, Tame, Counted
  <1>8. Line(y, "idle")
    BY <1>7, LineFailed
  <1>9. \A b \in Bufs : y.own[b] = "active" => s.own[b] = "active"
    BY <1>4, <1>5, <1>7
  <1>10. QED
    BY <1>1, <1>8, <1>9, WiredExit

-----------------------------------------------------------------------------
(* What a handler sends while a session is loaded keeps the line too.      *)
LEMMA LineStirs ==
  ASSUME NEW x, NEW y, NEW at, Line(x, at), Stirs(x, y), Fed(y), at \notin {"end", "unload"},
         Loaded(x) \/ at = "start" \/ x.state = "ERROR", y.state # "DEINIT",
         at \in {"stop", "flush"} => y.state \in {x.state, "ERROR"}
  PROVE  Line(y, at)
  <1>1. PICK d : Tame(x, y) /\ Adds(x, y, d)
    BY DEF Line, Stirs
  <1>2. /\ Typed(y) /\ y.up = x.up /\ y.run = x.run /\ y.resp = x.resp
        /\ (x.state = "ERROR" => y.state = "ERROR") /\ (Loaded(x) => Loaded(y))
    BY <1>1 DEF Tame
  <1>3. /\ x.msgs \in Seq(Message) /\ d \in Seq(CalmMessage) /\ d \in Seq(Message)
        /\ y.msgs = x.msgs \o d /\ x.flushes \in Int /\ y.flushes \in Int
        /\ y.flushes >= x.flushes + Count(d, "flush")
        /\ x.up => y.flushes = x.flushes + Count(d, "flush")
    BY <1>1, <1>2, CalmSeq DEF Line, Typed, Adds
  <1>4. /\ Count(d, "flush") \in Nat /\ Count(x.msgs, "flush") \in Nat
        /\ Count(y.msgs, "flush") = Count(x.msgs, "flush") + Count(d, "flush")
        /\ Count(y.msgs, "answer") = Count(x.msgs, "answer") + Count(d, "answer")
        /\ Count(x.msgs, "answer") \in Nat
    BY <1>3, CountJoined
  <1>5. \A k \in DOMAIN d : d[k] \in CalmMessage /\ d[k].type # "answer"
    <2>1. \A k \in DOMAIN d : d[k] \in CalmMessage
      BY <1>3
    <2>2. \A m \in CalmMessage : m.type # "answer"
      BY DEF CalmMessage
    <2>3. QED
      BY <2>1, <2>2
  <1>6. Count(d, "answer") = 0
    BY <1>5, CountFree
  <1>7. \A k \in DOMAIN y.msgs :
          \/ k \in DOMAIN x.msgs /\ y.msgs[k] = x.msgs[k]
          \/ /\ y.msgs[k] \in CalmMessage /\ y.msgs[k].type # "answer"
             /\ \A j \in DOMAIN x.msgs : j < k
    <2>1. /\ DOMAIN x.msgs = 1..Len(x.msgs) /\ Len(x.msgs) \in Nat
          /\ DOMAIN d = 1..Len(d) /\ Len(d) \in Nat
          /\ DOMAIN y.msgs = 1..(Len(x.msgs) + Len(d))
          /\ \A k \in 1..Len(x.msgs) : y.msgs[k] = x.msgs[k]
          /\ \A k \in 1..Len(d) : y.msgs[Len(x.msgs) + k] = d[k]
      BY <1>3, ConcatProperties
    <2> SUFFICES ASSUME NEW k \in DOMAIN y.msgs, k \notin DOMAIN x.msgs
                 PROVE  /\ y.msgs[k] \in CalmMessage /\ y.msgs[k].type # "answer"
                        /\ \A j \in DOMAIN x.msgs : j < k
      BY <2>1
    <2> DEFINE i == k - Len(x.msgs)
    <2>2. i \in 1..Len(d) /\ k = Len(x.msgs) + i
      BY <2>1
    <2> HIDE DEF i
    <2>3. y.msgs[k] = d[i]
      BY <2>1, <2>2
    <2>4. QED
      BY <1>5, <2>1, <2>2, <2>3
  <1>8. Counted(y)
    BY <1>2, <1>3, <1>4 DEF Line, Counted
  <1>9. Answered(y, at)
    BY <1>2, <1>4, <1>6, <1>7 DEF Line, Answered
  <1>10. Unrun(y, at)
    BY <1>2 DEF Unrun
  <1>11. at = "stop" => Stopping(y)
    <2> SUFFICES ASSUME at = "stop", y.state # "ERROR"
                 PROVE  Stopping(y)
      BY DEF Stopping
    <2>1. x.state # "ERROR" /\ y.state = x.state /\ Stopping(x)
      BY <1>2 DEF Line
    <2>2. y.state # "STREAMING" /\ ~y.run /\ Loaded(y)
      BY <1>2, <2>1 DEF Stopping
    <2>3. ASSUME NEW k \in DOMAIN y.msgs,
                 \/ y.resp > 0
                 \/ \E j \in DOMAIN y.msgs : j < k /\ y.msgs[j].type = "answer"
          PROVE  y.msgs[k] \in CalmMessage
      <3>1. CASE k \notin DOMAIN x.msgs
        BY <1>7, <3>1
      <3>2. CASE k \in DOMAIN x.msgs
        <4>0. DOMAIN x.msgs = 1..Len(x.msgs) /\ Len(x.msgs) \in Nat
              /\ DOMAIN y.msgs \subseteq Nat
          BY <1>2, <1>3 DEF Typed
        <4>1. y.msgs[k] = x.msgs[k]
          BY <1>7, <3>2, <4>0
        <4>2. ASSUME NEW j \in DOMAIN y.msgs, j < k, y.msgs[j].type = "answer"
              PROVE  j \in DOMAIN x.msgs /\ x.msgs[j].type = "answer"
          BY <1>7, <4>2
        <4>3. x.resp > 0 \/ \E j \in DOMAIN x.msgs : j < k /\ x.msgs[j].type = "answer"
          BY <1>2, <2>3, <4>2
        <4>4. QED
          BY <2>1, <3>2, <4>1, <4>3 DEF Stopping
      <3>3. QED
        BY <3>1, <3>2
    <2>4. QED
      BY <2>2, <2>3 DEF Stopping
  <1>12. at = "flush" => y.state \in {"STREAMING", "ERROR"}
    BY <1>2 DEF Line
  <1>13. QED
    BY <1>2, <1>8, <1>9, <1>10, <1>11, <1>12 DEF Line
-----------------------------------------------------------------------------
(* The last plane that stops leads back to INIT.                           *)
LEMMA LastPlane ==
  ASSUME NEW planes \in SUBSET Planes, NEW p \in planes,
         NEW state \in {"INPUT_STREAMING", "OUTPUT_STREAMING"}, Fits(state, planes)
  PROVE  StreamoffTarget(state, p) = "INIT"
  <1>1. planes \in {{}, {"OUTPUT"}, {"CAPTURE"}, {"OUTPUT", "CAPTURE"}}
    BY DEF Planes
  <1>2. QED
    BY <1>1 DEF Fits, Planes, StreamoffTarget

(* reinit_completion().                                                    *)
LEMMA WaitTyped ==
  ASSUME NEW x, Typed(x)
  PROVE  LET y == NewWait(x)
         IN /\ Typed(y) /\ y.msgs = x.msgs /\ y.flushes = x.flushes /\ y.up = x.up
            /\ y.state = x.state /\ y.own = x.own /\ y.resp = 0
            /\ y.sub = x.sub /\ y.run = x.run
            /\ y.inq = x.inq /\ y.outs = x.outs /\ y.pool = x.pool
  <1>1. MaxDone \in Nat
    BY StreamAssumption
  <1>2. QED
    BY <1>1 DEF Typed, Fields, NewWait

(* The rest of a STREAMOFF.                                                *)
LEMMA WiredTail ==
  ASSUME Wired, Follows, queue.at # "idle",
         NEW x, Typed(x), Counted(x),
         \A b \in Bufs : x.own[b] = "active" => s.own[b] = "active",
         NEW q, q.plane = queue.plane, StreamoffTail(x, q),
         \/ x.state = "ERROR"
         \/ x.state = "STREAMING" /\ Line(x, "off")
         \/ x.msgs = << >> /\ StreamoffTarget(x.state, queue.plane) = "INIT"
  PROVE  Line(s', queue'.at) /\ Listed(s', on', queue') /\ queue'.at \in Ats
  <1> DEFINE t == StateChangeStreamoff(x, queue.plane)
             y == FlushDeferred(t, queue.plane, q.rollback)
             w == DestroyDpb(y)
             d == NewWait(w)
  <1>1. IF y.state = "INIT"
        THEN s' = FwEnd(d) /\ Goto("end") /\ UNCHANGED on
        ELSE FinishOff(y, FALSE, q)
    BY DEF StreamoffTail
  <1>2. queue.plane \in Planes /\ DOMAIN queue = {"at", "plane", "drc", "drain", "rollback"}
    BY DEF Follows
  <1>3. Sound(x) /\ x.state \in States
    BY DEF Typed, Sound
  <1>4. t.state = StreamoffTarget(x.state, queue.plane)
    BY <1>2, <1>3, Targets
  <1>5. Still(x, t)
    <2>1. StreamoffTarget(x.state, queue.plane) \in States
      BY DEF StreamoffTarget, States
    <2>2. QED
      BY <2>1, StateStill DEF StateChangeStreamoff
  <1> HIDE DEF t
  <1>6. Still(t, y)
    <2>1. \A p, r : Still(t, FlushDeferred(t, p, r))
      BY BufferStill
    <2>2. QED
      BY <2>1, Zenon
  <1>7. Typed(t)
    BY <1>5 DEF Still, Tame
  <1>8. y.state = t.state
    BY <1>7 DEF FlushDeferred, Typed, Fields
  <1> HIDE DEF y
  <1>9. Still(x, y)
    BY <1>5, <1>6, ComposeStill
  <1>10. /\ Typed(y) /\ y.msgs = x.msgs /\ y.flushes = x.flushes /\ y.up = x.up
         /\ x.state = "ERROR" => y.state = "ERROR"
         /\ Loaded(x) => Loaded(y)
         /\ \A b \in Bufs : y.own[b] = "active" => s.own[b] = "active"
    BY <1>9 DEF Still, Tame
  <1>11. Counted(y)
    BY <1>10 DEF Counted
  <1>12. CASE y.state = "INIT"
    <2>1. s' = FwEnd(d) /\ queue' = [queue EXCEPT !.at = "end"] /\ on' = on
      BY <1>1, <1>12 DEF Goto
    <2>2. x.msgs = << >>
      <3>1. x.state # "ERROR"
        BY <1>10, <1>12
      <3>2. StreamoffTarget("STREAMING", queue.plane) # "INIT"
        BY DEF StreamoffTarget
      <3>3. QED
        BY <1>4, <1>8, <1>12, <3>1, <3>2
    <2>4. Still(y, w)
      BY DpbStill
    <2>5. w.state = y.state /\ w.own = y.own
      BY <1>10 DEF DestroyDpb, Typed, Fields
    <2> HIDE DEF w
    <2>6. /\ Typed(d) /\ d.msgs = y.msgs /\ d.flushes = y.flushes /\ d.up = y.up
          /\ d.state = y.state /\ d.own = y.own /\ d.resp = 0
      <3>1. Typed(w) /\ w.msgs = y.msgs /\ w.flushes = y.flushes /\ w.up = y.up
        BY <1>10, <2>4 DEF Still, Tame
      <3>2. QED
        BY <2>5, <3>1, WaitTyped
    <2> HIDE DEF d
    <2>7. Counted(d)
      BY <1>11, <2>6 DEF Counted
    <2>8. Line(s', "end")
      BY <1>10, <1>12, <2>1, <2>2, <2>6, <2>7, LineEnd
    <2>9. s'.own = d.own
      BY <2>1, <2>6, EndTold DEF Told
    <2>10. queue'.at = "end" /\ queue'.plane = queue.plane /\ "end" \in Ats
      BY <1>2, <2>1 DEF Ats, Waits
    <2>11. Listed(s', on', queue')
      BY <1>10, <2>1, <2>6, <2>9, <2>10 DEF Listed, Wired
    <2>12. QED
      BY <2>8, <2>10, <2>11
  <1>13. CASE y.state # "INIT"
    <2>1. FinishOff(y, FALSE, q)
      BY <1>1, <1>13
    <2>2. Line(y, "off")
      <3>1. CASE y.state = "ERROR"
        BY <1>10, <1>11, <3>1, LineFailed
      <3>2. CASE y.state # "ERROR"
        <4>1. x.state = "STREAMING" /\ Line(x, "off")
          BY <1>4, <1>8, <1>10, <1>13, <3>2
        <4>2. Fed(y)
          BY <1>10, <4>1 DEF Line, Fed
        <4>3. y.state # "DEINIT"
          BY <1>4, <1>8 DEF StreamoffTarget
        <4>4. QED
          BY <1>9, <4>1, <4>2, <4>3, LineStill
      <3>3. QED
        BY <3>1, <3>2
    <2>3. QED
      BY <1>2, <1>10, <2>1, <2>2, WiredExit
  <1>14. QED
    BY <1>12, <1>13

-----------------------------------------------------------------------------
(* Changes to nothing that counts.                                         *)
LEMMA LineSame ==
  ASSUME NEW x, NEW y, NEW at, Line(x, at), Typed(y), y.msgs = x.msgs,
         y.flushes = x.flushes, y.up = x.up, y.run = x.run, y.resp = x.resp,
         y.state = x.state, y.sub = x.sub, y.inq = x.inq, y.outs = x.outs, y.pool = x.pool
  PROVE  Line(y, at)
  <1>1. Counted(y) /\ Answered(y, at) /\ Unrun(y, at) /\ Fed(y)
    BY DEF Line, Counted, Answered, Unrun, Fed, Loaded
  <1>2. at = "stop" => Stopping(y)
    BY DEF Line, Stopping, Loaded
  <1>3. at = "unload" => Unloading(y)
    BY DEF Line, Unloading, Loaded
  <1>4. at = "end" \/ y.state = "DEINIT" => Empty(y)
    BY DEF Line, Empty
  <1>5. QED
    BY <1>1, <1>2, <1>3, <1>4 DEF Line

(* A thread that has its FLUSH answer.                                     *)
LEMMA LineFlushed ==
  ASSUME NEW x, NEW at, Line(x, at), x.flushed > 0
  PROVE  LET y == Taken(x, "flush") IN Line(y, at) /\ y.own = x.own /\ y.state = x.state
  <1> DEFINE n == x.flushed - 1
             y == [x EXCEPT !.flushed = n]
  <1>1. n \in Nat /\ Typed(x)
    BY DEF Line, Typed
  <1>2. Taken(x, "flush") = y
    BY DEF Taken
  <1> HIDE DEF n
  <1>3. /\ Typed(y) /\ y.msgs = x.msgs /\ y.flushes = x.flushes /\ y.up = x.up
        /\ y.run = x.run /\ y.resp = x.resp /\ y.state = x.state /\ y.sub = x.sub
        /\ y.inq = x.inq /\ y.outs = x.outs /\ y.pool = x.pool /\ y.own = x.own
    BY <1>1 DEF Typed, Fields
  <1> HIDE DEF y
  <1>4. QED
    BY <1>2, <1>3, LineSame

(* The end of an answer: nothing else is on its way.                       *)
LEMMA NoMessages ==
  ASSUME NEW q \in Seq(Message), OnlyAnswers(q), \A k \in DOMAIN q : q[k].type # "answer"
  PROVE  q = << >>
  <1>1. DOMAIN q = {}
    BY DEF OnlyAnswers
  <1>2. QED
    BY <1>1

(* session_stop() up to its first wait.                                    *)
LEMMA WiredStops ==
  ASSUME Wired, Follows, queue.at # "idle", NEW x, Line(x, "off"),
         \A b \in Bufs : x.own[b] = "active" => s.own[b] = "active", NEW q,
         \/ q = queue /\ queue.at = "off" /\ x.state = s.state
         \/ q = [queue EXCEPT !.rollback = TRUE] /\ x.state = "ERROR",
         SessionStop(x, q)
  PROVE  Line(s', queue'.at) /\ Listed(s', on', queue') /\ queue'.at \in Ats
  <1>1. /\ q.plane = queue.plane /\ q.plane \in Planes /\ on \in SUBSET Planes
        /\ DOMAIN q = {"at", "plane", "drc", "drain", "rollback"}
    BY DEF Follows
  <1>2. Typed(x) /\ Counted(x) /\ x.state \in States
    BY DEF Line, Typed
  <1>3. x.state # "ERROR" => x.state = s.state /\ queue.plane \in on /\ Fits(x.state, on)
    BY DEF Follows, Placed, Halting
  <1>4. x.state # "ERROR" => x.state \in {"INPUT_STREAMING", "OUTPUT_STREAMING", "STREAMING"}
    <2>1. on \in {{}, {"OUTPUT"}, {"CAPTURE"}, {"OUTPUT", "CAPTURE"}}
      BY <1>1 DEF Planes
    <2>2. QED
      BY <1>3, <2>1 DEF Fits, Planes
  <1>5. ASSUME NEW l \in {"flush", "stop"}, queue' = [q EXCEPT !.at = l], on' = on,
               \A b \in Bufs : s'.own[b] = "active" => x.own[b] = "active"
        PROVE  Listed(s', on', queue') /\ queue'.at = l /\ l \in Ats
    BY <1>1, <1>5 DEF Listed, Wired, Ats, Waits
  <1>6. CASE x.state = "STREAMING"
    <2> DEFINE y == [x EXCEPT !.flushed = 0]
    <2>1. /\ s' = SendFlush(y, q.plane = "OUTPUT") /\ queue' = [q EXCEPT !.at = "flush"]
          /\ on' = on
      BY <1>6 DEF SessionStop
    <2>2. /\ Typed(y) /\ y.msgs = x.msgs /\ y.flushes = x.flushes /\ y.up = x.up
          /\ y.run = x.run /\ y.resp = x.resp /\ y.state = x.state /\ y.sub = x.sub
          /\ y.inq = x.inq /\ y.outs = x.outs /\ y.pool = x.pool /\ y.own = x.own
      BY <1>2 DEF Typed, Fields
    <2> HIDE DEF y
    <2>3. Line(y, "flush")
      <3>1. Line(y, "off")
        BY <2>2, LineSame
      <3>2. QED
        BY <1>6, <2>2, <3>1, LineIdle
    <2>4. Stirs(y, s')
      BY <2>1, FlushStirs
    <2>5. Sound(s') /\ s'.state \in {y.state, "ERROR"}
      <3>1. Sound(y)
        BY <2>2 DEF Typed, Sound
      <3>2. Keeps(y, s')
        BY <2>1, FwKeeps
      <3>3. QED
        BY <3>1, <3>2 DEF Keeps
    <2>6. /\ Loaded(y) /\ Loaded(s')
          /\ \A b \in Bufs : s'.own[b] = "active" => y.own[b] = "active"
      BY <1>6, <2>2, <2>3, <2>4 DEF Line, Fed, Stirs, Tame
    <2>7. Line(s', "flush")
      <3>1. Fed(s') /\ s'.state # "DEINIT"
        BY <1>6, <2>2, <2>5, <2>6 DEF Fed
      <3>2. QED
        BY <2>3, <2>4, <2>5, <2>6, <3>1, LineStirs
    <2>8. QED
      BY <1>5, <2>1, <2>2, <2>6, <2>7
  <1>7. CASE x.state # "STREAMING" /\ "LOAD_RESOURCES" \in x.sub
    <2> DEFINE y == NewWait(x)
    <2>1. /\ s' = FwStop(y) /\ queue' = [q EXCEPT !.at = "stop"] /\ on' = on
      BY <1>7 DEF SessionStop
    <2>2. Typed(y) /\ y.state = x.state /\ y.sub = x.sub /\ y.own = x.own
      BY <1>2, WaitTyped
    <2>3. Line(y, "idle")
      BY LineReset
    <2> HIDE DEF y
    <2>4. Line(s', "stop")
      BY <1>4, <1>7, <2>1, <2>2, <2>3, LineStop DEF Loaded
    <2>5. s'.own = y.own
      BY <2>1, <2>2 DEF FwStop, Answer, Send, Typed, Fields
    <2>6. QED
      BY <1>5, <2>1, <2>2, <2>4, <2>5
  <1>8. CASE x.state # "STREAMING" /\ "LOAD_RESOURCES" \notin x.sub
    <2>1. StreamoffTail(x, q)
      BY <1>8 DEF SessionStop
    <2>2. ASSUME x.state # "ERROR"
          PROVE  x.msgs = << >> /\ StreamoffTarget(x.state, queue.plane) = "INIT"
      <3>1. OnlyAnswers(x.msgs) /\ x.msgs \in Seq(Message)
        BY <1>8, <2>2 DEF Line, Unrun, Loaded, Typed
      <3>2. \A k \in DOMAIN x.msgs : x.msgs[k].type # "answer"
        <4>1. "off" \notin Asking
          BY DEF Asking, Waits
        <4>2. QED
          BY <2>2, <4>1, NoneOut
      <3>3. x.msgs = << >>
        BY <3>1, <3>2, NoMessages
      <3>4. x.state \in {"INPUT_STREAMING", "OUTPUT_STREAMING"}
        BY <1>4, <1>8, <2>2
      <3>5. QED
        BY <1>1, <1>3, <2>2, <3>3, <3>4, LastPlane
    <2>3. QED
      BY <1>1, <1>2, <2>1, <2>2, WiredTail
  <1>9. QED
    BY <1>6, <1>7, <1>8

-----------------------------------------------------------------------------
(* RELEASE_RESOURCES is over.                                              *)
LEMMA UnloadedTyped ==
  ASSUME NEW x, Typed(x)
  PROVE  LET y == Unloaded(x)
         IN /\ Typed(y) /\ y.msgs = x.msgs /\ y.flushes = x.flushes /\ y.up = x.up
            /\ y.state = x.state
            /\ \A b \in Bufs : y.own[b] = "active" => x.own[b] = "active"
  <1> DEFINE c == ChangeSub(x, {"LOAD_RESOURCES"}, {})
             d == BuffersDone(c, "OUTPUT", "user")
             y == BuffersDone(d, "CAPTURE", "user")
  <1>1. Unloaded(x) = y
    BY DEF Unloaded
  <1>2. /\ Typed(c) /\ c.msgs = x.msgs /\ c.flushes = x.flushes /\ c.up = x.up
        /\ c.state = x.state /\ c.own = x.own
    BY DEF ChangeSub, Typed, Fields
  <1> HIDE DEF c
  <1>3. Still(c, d) /\ d.state = c.state
    BY <1>2, BufferStill DEF BuffersDone, Typed, Fields, Planes
  <1>4. Typed(d)
    BY <1>2, <1>3 DEF Still, Tame
  <1> HIDE DEF d
  <1>5. Still(d, y) /\ y.state = d.state
    BY <1>4, BufferStill DEF BuffersDone, Typed, Fields, Planes
  <1> HIDE DEF y
  <1>6. QED
    BY <1>1, <1>2, <1>3, <1>4, <1>5 DEF Still, Tame

(* RELEASE_RESOURCES is sent.                                              *)
LEMMA UnloadTold ==
  ASSUME NEW x, Typed(x), Counted(x)
  PROVE  LET y == Answer(NewWait(x), "unload")
         IN Typed(y) /\ Counted(y) /\ y.state = x.state /\ y.own = x.own
  <1> DEFINE w == NewWait(x)
             y == Answer(w, "unload")
  <1>1. /\ Typed(w) /\ w.state = x.state /\ w.own = x.own
        /\ w.msgs = x.msgs /\ w.flushes = x.flushes /\ w.up = x.up
    BY WaitTyped
  <1>2. "unload" \in Commands
    BY DEF Commands
  <1> HIDE DEF w
  <1>3. Told(w, y, "unload")
    BY <1>1, <1>2, AnswerTold
  <1> HIDE DEF y
  <1>4. Count(y.msgs, "flush") = Count(w.msgs, "flush")
    BY <1>1, <1>2, <1>3, ToldCounts
  <1>5. Typed(y) /\ Counted(y) /\ y.state = x.state /\ y.own = x.own
    BY <1>1, <1>3, <1>4 DEF Told, Counted
  <1>6. QED
    BY <1>5 DEF y, w

(* The steps of a STREAMOFF and of a STREAMON that is undone.              *)
LEMMA WiredOff ==
  ASSUME Wired, Follows,
         \/ \E p \in Planes : StreamOff(p)
         \/ StopStreaming \/ ReleaseExpires \/ FlushAnswered \/ FlushExpires
         \/ StopEnds \/ UnloadEnds \/ EndAnswered \/ EndExpires
  PROVE  Line(s', queue'.at) /\ Listed(s', on', queue') /\ queue'.at \in Ats
  <1>1. /\ queue.plane \in Planes /\ on \in SUBSET Planes /\ s.state \in States
        /\ DOMAIN queue = {"at", "plane", "drc", "drain", "rollback"}
    BY DEF Follows, Sound
  <1>2. /\ Line(s, queue.at) /\ Listed(s, on, queue) /\ Typed(s) /\ Counted(s)
        /\ \A b \in Bufs : s.own[b] = "active" => s.own[b] = "active"
    BY DEF Wired, Line
  <1>3. s.state # "ERROR" /\ queue.at \in Halting \ {"end"} =>
          /\ s.state \in {"INPUT_STREAMING", "OUTPUT_STREAMING", "STREAMING"}
          /\ Fits(s.state, on) /\ queue.plane \in on
    <2>1. on \in {{}, {"OUTPUT"}, {"CAPTURE"}, {"OUTPUT", "CAPTURE"}}
      BY <1>1 DEF Planes
    <2>2. QED
      BY <1>1, <2>1 DEF Follows, Placed, Fits, Planes, Halting
  <1>4. /\ Line(Fail(s), "off") /\ Typed(Fail(s)) /\ Counted(Fail(s))
        /\ Fail(s).state = "ERROR" /\ Fail(s).own = s.own
    BY <1>2, LineFails
  <1>5. CASE \E p \in Planes : StreamOff(p)
    <2>1. PICK p \in Planes : StreamOff(p)
      BY <1>5
    <2>2. /\ queue'.at = "off" /\ queue'.plane = p /\ s' = s /\ on' = on
          /\ queue.at = "idle" /\ "off" \in Ats
      BY <2>1 DEF StreamOff, At, Idle, Ats
    <2>3. Line(s', "off")
      BY <1>2, <2>2, LineIdle
    <2>4. QED
      BY <1>2, <2>2, <2>3 DEF Listed
  <1>6. CASE StopStreaming
    <2> DEFINE x == IF queue.plane = "CAPTURE"
                    THEN [s EXCEPT !.held = None, !.heldPic = "none"] ELSE s
               y == [x EXCEPT !.off = TRUE]
    <2>1. queue.at = "off" /\ SessionStop(y, queue)
      BY <1>6 DEF StopStreaming, At
    <2>2. Line(x, "off") /\ x.own = s.own /\ x.state = s.state
      <3> DEFINE h == [s EXCEPT !.held = None, !.heldPic = "none"]
      <3>1. /\ Typed(h) /\ h.msgs = s.msgs /\ h.flushes = s.flushes /\ h.up = s.up
            /\ h.run = s.run /\ h.resp = s.resp /\ h.state = s.state /\ h.sub = s.sub
            /\ h.inq = s.inq /\ h.outs = s.outs /\ h.pool = s.pool /\ h.own = s.own
        BY <1>2 DEF Typed, Fields
      <3>2. x \in {h, s}
        OBVIOUS
      <3> HIDE DEF h, x
      <3>3. Line(h, "off") /\ Line(s, "off")
        BY <1>2, <2>1, <3>1, LineSame
      <3>4. QED
        BY <3>1, <3>2, <3>3
    <2> HIDE DEF x
    <2>3. /\ Typed(y) /\ y.msgs = x.msgs /\ y.flushes = x.flushes /\ y.up = x.up
          /\ y.run = x.run /\ y.resp = x.resp /\ y.state = x.state /\ y.sub = x.sub
          /\ y.inq = x.inq /\ y.outs = x.outs /\ y.pool = x.pool /\ y.own = x.own
      BY <2>2 DEF Line, Typed, Fields
    <2> HIDE DEF y
    <2>4. Line(y, "off")
      BY <2>2, <2>3, LineSame
    <2>5. QED
      BY <2>1, <2>2, <2>3, <2>4, WiredStops
  <1>7. CASE ReleaseExpires
    <2> DEFINE f == Fail(s)
               y == [f EXCEPT !.off = TRUE]
               q == [queue EXCEPT !.rollback = TRUE]
    <2>1. SessionStop(y, q) /\ queue.at # "idle"
      BY <1>7 DEF ReleaseExpires, At
    <2> HIDE DEF f
    <2>2. /\ Typed(y) /\ y.msgs = f.msgs /\ y.flushes = f.flushes /\ y.up = f.up
          /\ y.state = f.state /\ y.own = f.own
      BY <1>4 DEF Typed, Fields, f
    <2> HIDE DEF y
    <2>3. Line(y, "off") /\ y.state = "ERROR" /\ y.own = s.own
      <3>1. Counted(y)
        BY <1>4, <2>2 DEF Counted, f
      <3>2. y.state = "ERROR" /\ y.own = s.own
        BY <1>4, <2>2 DEF f
      <3>3. QED
        BY <2>2, <3>1, <3>2, LineFailed
    <2>4. QED
      BY <2>1, <2>3, WiredStops
  <1>8. CASE FlushAnswered
    <2> DEFINE x == Taken(s, "flush")
    <2>1. queue.at = "flush" /\ StreamoffTail(x, queue) /\ s.flushed > 0
      BY <1>8 DEF FlushAnswered, At, Completed
    <2>2. Line(x, "flush") /\ x.own = s.own /\ x.state = s.state
      BY <1>2, <2>1, LineFlushed
    <2> HIDE DEF x
    <2>3. Line(x, "off") /\ Typed(x) /\ Counted(x) /\ x.state \in {"STREAMING", "ERROR"}
      BY <2>2, LineIdle DEF Line
    <2>4. QED
      BY <1>1, <2>1, <2>2, <2>3, WiredTail
  <1>9. CASE FlushExpires
    <2>1. KillSession(Fail(s)) /\ queue.at # "idle"
      BY <1>9 DEF FlushExpires, At
    <2>2. QED
      BY <1>1, <1>4, <2>1, WiredKill
  <1>10. CASE StopEnds
    <2>1. queue.at = "stop" /\ queue' = [queue EXCEPT !.at = "unload"] /\ on' = on
      BY <1>10 DEF StopEnds, At, Goto
    <2>2. queue'.at = "unload" /\ queue'.plane = queue.plane /\ "unload" \in Ats
      BY <1>1, <2>1 DEF Ats, Waits
    <2>3. ASSUME s.resp > 0, s' = Answer(NewWait(s), "unload")
          PROVE  Line(s', "unload") /\ s'.own = s.own
      <3>1. s'.own = s.own
        BY <1>2, <2>3, UnloadTold
      <3>2. CASE s.state = "ERROR"
        <4>1. Line(s', "unload")
          BY <1>2, <2>3, <3>2, UnloadTold, LineFailed
        <4>2. QED
          BY <3>1, <4>1
      <3>3. CASE s.state # "ERROR"
        <4>1. s.state # "DEINIT" /\ Line(s, "stop")
          BY <1>2, <1>3, <2>1, <3>3 DEF Halting
        <4>2. QED
          BY <2>3, <3>1, <4>1, LineUnload
      <3>4. QED
        BY <3>2, <3>3
    <2>4. ASSUME s' = Answer(NewWait(Fail(s)), "unload")
          PROVE  Line(s', "unload") /\ s'.own = s.own
      <3> DEFINE f == Fail(s)
      <3>1. Typed(f) /\ Counted(f) /\ f.own = s.own /\ f.state = "ERROR"
        BY <1>4
      <3>2. s' = Answer(NewWait(f), "unload")
        BY <2>4
      <3> HIDE DEF f
      <3>3. Typed(s') /\ Counted(s') /\ s'.own = s.own /\ s'.state = "ERROR"
        BY <3>1, <3>2, UnloadTold
      <3>4. QED
        BY <3>3, LineFailed
    <2>5. Line(s', "unload") /\ s'.own = s.own
      BY <1>10, <2>3, <2>4 DEF StopEnds, Completed
    <2>6. Listed(s', on', queue')
      BY <1>2, <2>1, <2>2, <2>5 DEF Listed
    <2>7. QED
      BY <2>2, <2>5, <2>6
  <1>11. CASE UnloadEnds
    <2>1. /\ queue.at = "unload"
          /\ \/ s.resp > 0 /\ StreamoffTail(Unloaded(Taken(s, "unload")), queue)
             \/ KillSession(Unloaded(Fail(s)))
      BY <1>11 DEF UnloadEnds, At, Completed
    <2>2. CASE s.resp > 0 /\ StreamoffTail(Unloaded(Taken(s, "unload")), queue)
      <3> DEFINE n == s.resp - 1
                 t == Taken(s, "unload")
                 x == Unloaded(t)
      <3>1. n \in 0..MaxDone
        <4>1. MaxDone \in Nat
          BY StreamAssumption
        <4>2. QED
          BY <1>2, <2>2, <4>1 DEF Typed
      <3>2. t = [s EXCEPT !.resp = n]
        BY DEF Taken
      <3> HIDE DEF n, t
      <3>3. /\ Typed(t) /\ t.msgs = s.msgs /\ t.flushes = s.flushes /\ t.up = s.up
            /\ t.state = s.state /\ t.own = s.own
        BY <1>2, <3>1, <3>2 DEF Typed, Fields
      <3>4. /\ Typed(x) /\ x.msgs = t.msgs /\ x.flushes = t.flushes /\ x.up = t.up
            /\ x.state = t.state
            /\ \A b \in Bufs : x.own[b] = "active" => t.own[b] = "active"
        BY <3>3, UnloadedTyped
      <3>5. StreamoffTail(x, queue)
        BY <2>2 DEF t
      <3> HIDE DEF x
      <3>6. Counted(x)
        BY <1>2, <3>3, <3>4 DEF Counted
      <3>7. ASSUME x.state # "ERROR"
            PROVE  x.msgs = << >> /\ StreamoffTarget(x.state, queue.plane) = "INIT"
        <4>1. s.state # "ERROR" /\ x.state = s.state /\ Unloading(s)
          BY <1>2, <2>1, <3>3, <3>4, <3>7 DEF Line
        <4>2. s.msgs = << >> /\ s.state # "STREAMING"
          BY <2>2, <4>1 DEF Unloading
        <4>3. /\ s.state \in {"INPUT_STREAMING", "OUTPUT_STREAMING"} /\ Fits(s.state, on)
              /\ queue.plane \in on
          BY <1>3, <2>1, <4>1, <4>2 DEF Halting
        <4>4. QED
          BY <1>1, <3>3, <3>4, <4>1, <4>2, <4>3, LastPlane
      <3>8. QED
        BY <1>1, <2>1, <3>3, <3>4, <3>5, <3>6, <3>7, WiredTail
    <2>3. CASE KillSession(Unloaded(Fail(s)))
      <3> DEFINE f == Fail(s)
                 x == Unloaded(f)
      <3>1. Typed(f) /\ Counted(f) /\ f.own = s.own
        BY <1>4
      <3>2. KillSession(x)
        BY <2>3
      <3> HIDE DEF f
      <3>3. /\ Typed(x) /\ x.msgs = f.msgs /\ x.flushes = f.flushes /\ x.up = f.up
            /\ \A b \in Bufs : x.own[b] = "active" => f.own[b] = "active"
        BY <3>1, UnloadedTyped
      <3> HIDE DEF x
      <3>4. Counted(x)
        BY <3>1, <3>3 DEF Counted
      <3>5. QED
        BY <1>1, <2>1, <3>1, <3>2, <3>3, <3>4, WiredKill
    <2>4. QED
      BY <2>1, <2>2, <2>3
  <1>12. CASE EndAnswered
    <2> DEFINE n == s.resp - 1
               t == Taken(s, "end")
               c == ChangeState(t, "DEINIT")
               x == SessionGone(c)
    <2>1. /\ queue.at = "end" /\ FinishOff(x, s.state = "ERROR", queue)
          /\ s.resp > 0
      BY <1>12 DEF EndAnswered, At, Completed
    <2>2. n \in 0..MaxDone
      <3>1. MaxDone \in Nat
        BY StreamAssumption
      <3>2. QED
        BY <1>2, <2>1, <3>1 DEF Typed
    <2>3. t = [s EXCEPT !.resp = n]
      BY DEF Taken
    <2> HIDE DEF t
    <2>4. /\ Typed(t) /\ t.msgs = s.msgs /\ t.up = s.up /\ t.run = s.run /\ t.resp = n
          /\ t.state = s.state /\ t.own = s.own
          /\ t.inq = s.inq /\ t.outs = s.outs /\ t.pool = s.pool
      <3> HIDE DEF n
      <3>1. QED
        BY <1>2, <2>2, <2>3 DEF Typed, Fields
    <2> HIDE DEF n
    <2>5. /\ Typed(c) /\ c.msgs = t.msgs /\ c.up = t.up /\ c.run = t.run /\ c.resp = t.resp
          /\ c.own = t.own /\ c.inq = t.inq /\ c.outs = t.outs /\ c.pool = t.pool
          /\ t.state = "INIT" => c.state = "DEINIT"
          /\ t.state = "ERROR" => c.state = "ERROR"
      BY <2>4 DEF Typed, Fields, States, ChangeState, ChangeStateOk, AllowState
    <2> HIDE DEF c
    <2>6. /\ Typed(x) /\ x.msgs = c.msgs /\ x.up = c.up /\ x.run = c.run /\ x.resp = c.resp
          /\ x.own = c.own /\ x.inq = c.inq /\ x.outs = c.outs /\ x.pool = c.pool
          /\ x.flushes = 0 /\ x.state = c.state
      BY <2>5 DEF Typed, Fields, SessionGone
    <2> HIDE DEF x
    <2>7. s.state \in {"INIT", "ERROR"}
      BY <2>1 DEF Follows, Placed
    <2>8. Line(x, "idle")
      <3>1. x.state = "ERROR" \/ (x.state = "DEINIT" /\ s.state # "ERROR" /\ s.resp > 0
                                   /\ x.resp = s.resp - 1)
        BY <2>1, <2>4, <2>5, <2>6, <2>7 DEF n
      <3>2. QED
        BY <1>2, <2>1, <2>4, <2>5, <2>6, <3>1, LineGone
    <2>9. \A b \in Bufs : x.own[b] = "active" => s.own[b] = "active"
      BY <2>4, <2>5, <2>6
    <2>10. FinishOff(x, s.state = "ERROR", queue) /\ queue.at # "idle"
           /\ (s.state = "ERROR") \in BOOLEAN
      BY <2>1
    <2>11. QED
      BY <1>1, <2>8, <2>9, <2>10, WiredExit
  <1>13. CASE EndExpires
    <2> DEFINE f == Fail(s)
               x == SessionGone(f)
    <2>1. queue.at = "end" /\ FinishOff(x, TRUE, queue)
      BY <1>13 DEF EndExpires, At
    <2>2. /\ Typed(f) /\ f.state = "ERROR" /\ f.own = s.own
          /\ f.msgs = s.msgs /\ f.run = s.run /\ f.inq = s.inq /\ f.outs = s.outs
          /\ f.pool = s.pool
      <3>1. /\ f.msgs = s.msgs /\ f.run = s.run /\ f.inq = s.inq /\ f.outs = s.outs
            /\ f.pool = s.pool
        BY <1>2 DEF Typed, Fields, Fail, ChangeState
      <3>2. QED
        BY <1>4, <3>1
    <2> HIDE DEF f
    <2>3. /\ Typed(x) /\ x.msgs = f.msgs /\ x.run = f.run /\ x.own = f.own
          /\ x.inq = f.inq /\ x.outs = f.outs /\ x.pool = f.pool
          /\ x.flushes = 0 /\ x.state = f.state
      BY <2>2 DEF Typed, Fields, SessionGone
    <2> HIDE DEF x
    <2>4. Line(x, "idle")
      BY <1>2, <2>1, <2>2, <2>3, LineGone
    <2>5. QED
      BY <1>1, <2>1, <2>2, <2>3, <2>4, WiredExit
  <1>14. QED
    BY <1>5, <1>6, <1>7, <1>8, <1>9, <1>10, <1>11, <1>12, <1>13

-----------------------------------------------------------------------------
(* Both STREAMONs are quiet.                                               *)
LEMMA StreamonStill ==
  ASSUME NEW x
  PROVE  /\ Still(x, StreamonInput(x))
         /\ \A drc, drain : Still(x, StreamonOutput(x, drc, drain))
  <1>1. \A y : \A p \in Planes : Still(y, StateChangeStreamon(y, p))
    <2>1. \A state : \A p \in Planes : StreamonTarget(state, p) \in States
      BY DEF StreamonTarget, States
    <2>2. QED
      BY <2>1, StateStill DEF StateChangeStreamon
  <1>2. \A y : Still(y, Restarted(y))
    BY DpbStill
  <1>3. Still(x, StreamonInput(x))
    <2> DEFINE P == {"INPUT_PAUSE"}
               y == ChangeSub(x, P, {})
               pause == IF y.sub \cap {"DRC", "DRAIN", "FIRST_IPSC"} # {}
                        THEN {"INPUT_PAUSE"} ELSE {}
               t == StateChangeStreamon(y, "OUTPUT")
               z == Restarted(t)
               u == ChangeSub(z, {}, pause)
    <2>1. StreamonInput(x) = QueueAllDeferred(u, "OUTPUT")
      BY DEF StreamonInput
    <2>2. /\ P \in SUBSET SubStates /\ {} \in SUBSET SubStates
          /\ pause \in SUBSET SubStates
          /\ "LOAD_RESOURCES" \notin P /\ "LOAD_RESOURCES" \notin {}
      BY DEF SubStates
    <2> HIDE DEF P, pause
    <2>3. Still(x, y)
      BY <2>2, StateStill
    <2> HIDE DEF y
    <2>4. Still(y, t)
      BY <1>1 DEF Planes
    <2> HIDE DEF t
    <2>5. Still(t, z)
      BY <1>2
    <2> HIDE DEF z
    <2>6. Still(z, u)
      BY <2>2, StateStill
    <2> HIDE DEF u
    <2>7. Still(u, QueueAllDeferred(u, "OUTPUT"))
      BY DpbStill DEF Planes
    <2>8. QED
      BY <2>1, <2>3, <2>4, <2>5, <2>6, <2>7, ComposeStill
  <1>4. ASSUME NEW drc, NEW drain
        PROVE  Still(x, StreamonOutput(x, drc, drain))
    <2> DEFINE resume == x.state = "INPUT_STREAMING" /\ "INPUT_PAUSE" \in x.sub
               clear == (IF drc THEN {"DRC", "DRC_LAST"}
                         ELSE IF drain THEN {"DRAIN", "DRAIN_LAST"} ELSE {})
                        \cup (IF resume THEN {"INPUT_PAUSE"} ELSE {})
                        \cup (x.sub \cap {"FIRST_IPSC", "OUTPUT_PAUSE"})
               y == IF resume /\ ~drain THEN FwContinue(x) ELSE x
               t == StateChangeStreamon(y, "CAPTURE")
               z == Restarted(t)
               u == ChangeSub(z, clear, {})
               w == QueueDpb(u)
    <2>1. StreamonOutput(x, drc, drain) = QueueAllDeferred(w, "CAPTURE")
      BY DEF StreamonOutput
    <2>2. /\ clear \in SUBSET SubStates /\ {} \in SUBSET SubStates
          /\ "LOAD_RESOURCES" \notin clear
      BY DEF SubStates
    <2> HIDE DEF clear
    <2>3. Still(x, y)
      BY DpbStill, ComposeStill
    <2> HIDE DEF y
    <2>4. Still(y, t)
      BY <1>1 DEF Planes
    <2> HIDE DEF t
    <2>5. Still(t, z)
      BY <1>2
    <2> HIDE DEF z
    <2>6. Still(z, u)
      BY <2>2, StateStill
    <2> HIDE DEF u
    <2>7. Still(u, w)
      BY DpbStill
    <2> HIDE DEF w
    <2>8. Still(w, QueueAllDeferred(w, "CAPTURE"))
      BY DpbStill DEF Planes
    <2>9. Still(x, z) /\ Still(z, w)
      BY <2>3, <2>4, <2>5, <2>6, <2>7, ComposeStill
    <2>10. QED
      BY <2>1, <2>8, <2>9, ComposeStill
  <1>5. QED
    BY <1>3, <1>4

(* A STREAMON that succeeds streams on a loaded session.                   *)
LEMMA LineOn ==
  ASSUME NEW x, Line(x, "idle"), NEW p \in Planes, NEW y, Still(x, y),
         y.state \in {"ERROR", StreamonTarget(x.state, p)},
         p = "OUTPUT" => Loaded(x) \/ x.state = "ERROR"
  PROVE  Line(y, "idle")
  <1>1. y.state # "DEINIT"
    BY DEF StreamonTarget
  <1>2. y.state # "ERROR" => x.state # "ERROR"
    BY DEF Line, Still, Tame
  <1>3. Loaded(x) => Loaded(y)
    BY DEF Line, Still, Tame
  <1>4. Fed(y)
    <2> SUFFICES ASSUME y.state \in {"INPUT_STREAMING", "STREAMING"}
                 PROVE  Loaded(y)
      BY DEF Fed
    <2>1. x.state # "ERROR" /\ y.state = StreamonTarget(x.state, p)
      BY <1>2
    <2>2. p = "CAPTURE" => x.state = "INPUT_STREAMING"
      BY <2>1 DEF StreamonTarget
    <2>3. Loaded(x)
      BY <2>1, <2>2 DEF Line, Fed, Planes
    <2>4. QED
      BY <1>3, <2>3
  <1>5. QED
    BY <1>1, <1>4, LineStill

(* The completion of a wait for an answer, taken or cleared.               *)
LEMMA WaitTaken ==
  ASSUME NEW x, Typed(x), x.resp > 0, NEW w \in Asking
  PROVE  LET y == Taken(x, w)
         IN /\ Typed(y) /\ y.msgs = x.msgs /\ y.flushes = x.flushes /\ y.up = x.up
            /\ y.run = x.run /\ y.resp = x.resp - 1 /\ y.state = x.state
            /\ y.sub = x.sub /\ y.own = x.own
  <1> DEFINE n == x.resp - 1
             y == Taken(x, w)
  <1>1. MaxDone \in Nat
    BY StreamAssumption
  <1>2. n \in 0..MaxDone
    BY <1>1 DEF Typed
  <1>3. y = [x EXCEPT !.resp = n]
    BY DEF Taken, Asking
  <1> HIDE DEF n, y
  <1>4. /\ Typed(y) /\ y.msgs = x.msgs /\ y.flushes = x.flushes /\ y.up = x.up
        /\ y.run = x.run /\ y.resp = n /\ y.state = x.state
        /\ y.sub = x.sub /\ y.own = x.own
    BY <1>2, <1>3 DEF Typed, Fields
  <1>5. QED
    BY <1>4 DEF n, y

(* A STREAMON starts afresh.                                               *)
LEMMA FreshTyped ==
  ASSUME NEW a, Typed(a), NEW y,
         \/ y = [a EXCEPT !.off = FALSE, !.held = None, !.heldPic = "none", !.drops = 0]
         \/ y = [a EXCEPT !.off = FALSE, !.changed = FALSE]
  PROVE  /\ Typed(y) /\ y.msgs = a.msgs /\ y.flushes = a.flushes /\ y.up = a.up
         /\ y.resp = a.resp /\ y.state = a.state /\ y.sub = a.sub /\ y.own = a.own
         /\ y.run = a.run
  <1>1. MaxDrops \in Nat
    BY StreamAssumption
  <1>2. CASE y = [a EXCEPT !.off = FALSE, !.held = None, !.heldPic = "none", !.drops = 0]
    <2>1. /\ y.msgs = a.msgs /\ y.flushes = a.flushes /\ y.up = a.up
          /\ y.resp = a.resp /\ y.state = a.state /\ y.sub = a.sub /\ y.own = a.own
          /\ y.run = a.run
      BY <1>2 DEF Typed, Fields
    <2>2. Typed(y)
      BY <1>1, <1>2 DEF Typed, Fields
    <2>3. QED
      BY <2>1, <2>2
  <1>3. CASE y = [a EXCEPT !.off = FALSE, !.changed = FALSE]
    <2>1. /\ y.msgs = a.msgs /\ y.flushes = a.flushes /\ y.up = a.up
          /\ y.resp = a.resp /\ y.state = a.state /\ y.sub = a.sub /\ y.own = a.own
          /\ y.run = a.run
      BY <1>3 DEF Typed, Fields
    <2>2. Typed(y)
      BY <1>3 DEF Typed, Fields
    <2>3. QED
      BY <2>1, <2>2
  <1>4. QED
    BY <1>2, <1>3

(* The steps of a STREAMON.                                                *)
LEMMA WiredOn ==
  ASSUME Wired, Follows,
         \/ \E p \in Planes : StreamOn(p)
         \/ StartStreaming \/ PropsAnswered \/ LoadAnswered \/ StartAnswered
         \/ ConfigAnswered \/ ReleaseAnswered \/ StreamonExpires
  PROVE  Line(s', queue'.at) /\ Listed(s', on', queue') /\ queue'.at \in Ats
  <1>1. /\ queue.plane \in Planes /\ on \in SUBSET Planes /\ s.state \in States
        /\ DOMAIN queue = {"at", "plane", "drc", "drain", "rollback"}
    BY DEF Follows, Sound
  <1>2. Line(s, queue.at) /\ Listed(s, on, queue) /\ Typed(s) /\ Counted(s)
    BY DEF Wired, Line
  <1>3. queue.at \in Running => s.state # "DEINIT"
    BY DEF Follows, Placed
  <1>4. queue.at # "idle" =>
          \A b \in Bufs : s.own[b] = "active" => Plane(b) \in on \cup {queue.plane}
    BY <1>2 DEF Listed
  (* The thread asks, and waits for the answer. *)
  <1>5. ASSUME NEW x, Line(x, "idle"), x.state # "DEINIT", queue.at # "idle",
               \A b \in Bufs : x.own[b] = "active" => s.own[b] = "active",
               NEW c \in {"props", "load", "start", "config", "release"}, Told(x, s', c),
               c # "start" => s'.run = x.run, queue'.at = c, queue'.plane = queue.plane,
               on' = on
        PROVE  Line(s', queue'.at) /\ Listed(s', on', queue') /\ queue'.at \in Ats
    <2>1. Line(s', c)
      BY <1>5, LineAsk
    <2>2. s'.own = x.own
      BY <1>5 DEF Told
    <2>3. c # "idle" /\ c \in Ats
      BY <1>5 DEF Ats, Waits
    <2>4. QED
      BY <1>4, <1>5, <2>1, <2>2, <2>3 DEF Listed
  (* The STREAMON succeeds. *)
  <1>6. ASSUME NEW x, Line(x, "idle"), queue.at # "idle",
               \A b \in Bufs : x.own[b] = "active" => s.own[b] = "active",
               Still(x, s'), s'.state \in {"ERROR", StreamonTarget(x.state, queue.plane)},
               queue.plane = "OUTPUT" => Loaded(x) \/ x.state = "ERROR", FinishOn
        PROVE  Line(s', queue'.at) /\ Listed(s', on', queue') /\ queue'.at \in Ats
    <2>1. Line(s', "idle")
      BY <1>1, <1>6, LineOn
    <2>2. queue'.at = "idle" /\ on' = on \cup {queue.plane}
      BY <1>6 DEF FinishOn, Rest, Idle
    <2>3. \A b \in Bufs : s'.own[b] = "active" => x.own[b] = "active"
      BY <1>6 DEF Line, Still, Tame
    <2>4. QED
      BY <1>4, <1>6, <2>1, <2>2, <2>3 DEF Listed, Ats
  (* It fails. *)
  <1>7. ASSUME NEW x, Line(x, "enqueue"), queue.at # "idle", x.own = s.own,
               s' = FailStart(x), Rest, on' = on
        PROVE  Line(s', queue'.at) /\ Listed(s', on', queue') /\ queue'.at \in Ats
    <2> DEFINE y == BuffersDone(x, queue.plane, "prepared")
    <2>1. Line(Fail(y), "idle") /\ Listed(Fail(y), on \ {queue.plane}, queue')
      BY <1>1, <1>4, <1>7, LineBack
    <2>2. s' = Fail(y)
      BY <1>7 DEF FailStart
    <2> HIDE DEF y
    <2>3. queue'.at = "idle"
      BY <1>7 DEF Rest, Idle
    <2>4. QED
      BY <1>7, <2>1, <2>2, <2>3 DEF Listed, Ats
  <1>8. CASE \E p \in Planes : StreamOn(p)
    <2>1. PICK p \in Planes : StreamOn(p)
      BY <1>8
    <2>2. /\ queue'.at = "enqueue" /\ queue'.plane = p /\ s' = s /\ on' = on
          /\ queue.at = "idle"
      BY <2>1 DEF StreamOn, At, Idle
    <2>3. Line(s', "enqueue")
      BY <1>2, <2>2, LineIdle
    <2>4. QED
      BY <1>2, <2>2, <2>3 DEF Listed, Ats
  <1>9. CASE StartStreaming
    <2> DEFINE y == Opened(s)
               z == NewWait(y)
    <2>1. queue.at = "enqueue" /\ on' = on /\ Line(s, "enqueue")
      BY <1>2, <1>9 DEF StartStreaming, At
    <2>2. CASE s.state = "ERROR"
      <3>1. s' = FailStart(s) /\ Rest
        BY <1>9, <2>2 DEF StartStreaming
      <3>2. QED
        BY <1>7, <2>1, <3>1
    <2>3. CASE s.state # "ERROR"
      <3>1. PICK l \in {"props", "config"} :
              /\ s' = IF l = "props"
                      THEN [Answer(z, "props") EXCEPT !.off = FALSE, !.held = None,
                                                      !.heldPic = "none", !.drops = 0]
                      ELSE [Answer(z, "config") EXCEPT !.off = FALSE, !.changed = FALSE]
              /\ queue' = [queue EXCEPT !.at = l]
        BY <1>9, <2>3 DEF StartStreaming, Goto
      <3>2. Still(s, y) /\ y.state = (IF s.state = "DEINIT" THEN "INIT" ELSE s.state)
            /\ y.sub = s.sub
        <4>1. Still(s, y)
          BY StateStill, ComposeStill DEF Opened, States
        <4>2. QED
          BY <1>1, <1>2, <4>1
             DEF Opened, ChangeState, ChangeStateOk, AllowState, Typed, Fields, States
      <3> HIDE DEF y
      <3>3. Line(y, "enqueue")
        <4>1. Fed(y)
          BY <1>2, <3>2 DEF Line, Fed, Loaded
        <4>2. y.state # "DEINIT"
          BY <3>2
        <4>3. QED
          BY <2>1, <3>2, <4>1, <4>2, LineStill
      <3>4. Line(z, "idle")
        BY <3>3, LineReset
      <3>5. /\ Typed(z) /\ z.state = y.state /\ z.own = y.own
            /\ \A b \in Bufs : z.own[b] = "active" => s.own[b] = "active"
        <4>1. Typed(y)
          BY <3>3 DEF Line
        <4>2. Typed(z) /\ z.state = y.state /\ z.own = y.own
          BY <4>1, WaitTyped
        <4>3. QED
          BY <1>2, <3>2, <4>2 DEF Still, Tame
      <3> HIDE DEF z
      <3>6. Told(z, s', l) /\ s'.run = z.run
        <4> DEFINE a == Answer(z, l)
        <4>1. l \in Commands
          BY DEF Commands
        <4>2. Told(z, a, l) /\ a.run = z.run
          BY <3>5, <4>1, AnswerTold
        <4>3. s' = IF l = "props"
                   THEN [a EXCEPT !.off = FALSE, !.held = None, !.heldPic = "none",
                                  !.drops = 0]
                   ELSE [a EXCEPT !.off = FALSE, !.changed = FALSE]
          BY <3>1
        <4> HIDE DEF a
        <4>4. Typed(a)
          BY <4>2 DEF Told
        <4>5. /\ Typed(s') /\ s'.msgs = a.msgs /\ s'.flushes = a.flushes /\ s'.up = a.up
              /\ s'.resp = a.resp /\ s'.state = a.state /\ s'.sub = a.sub
              /\ s'.own = a.own /\ s'.run = a.run
          BY <4>3, <4>4, FreshTyped
        <4>6. QED
          BY <4>2, <4>5 DEF Told
      <3>7. queue'.at = l /\ queue'.plane = queue.plane
        BY <1>1, <3>1
      <3>8. z.state # "DEINIT"
        BY <3>2, <3>5
      <3>9. QED
        BY <1>5, <2>1, <3>4, <3>5, <3>6, <3>7, <3>8
    <2>4. QED
      BY <2>2, <2>3
  <1>10. CASE PropsAnswered
    <2>1. queue.at = "props" /\ queue.plane = "OUTPUT" /\ s.resp > 0 /\ "props" \in Asking
      BY <1>10 DEF PropsAnswered, At, Follows, Completed, Asking, Waits
    <2>2. s.state # "DEINIT"
      BY <1>3, <2>1 DEF Running
    <2>3. CASE "LOAD_RESOURCES" \in s.sub
      <3> DEFINE x == Taken(s, "props")
      <3>1. s' = StreamonInput(x) /\ FinishOn
        BY <1>10, <2>3 DEF PropsAnswered
      <3>2. /\ Typed(x) /\ x.msgs = s.msgs /\ x.flushes = s.flushes /\ x.up = s.up
            /\ x.run = s.run /\ x.resp = s.resp - 1 /\ x.state = s.state
            /\ x.sub = s.sub /\ x.own = s.own
        BY <1>2, <2>1, WaitTaken
      <3> HIDE DEF x
      <3>3. Line(x, "idle")
        BY <1>2, <2>1, <2>2, <3>2, LineTaken DEF Loaded
      <3>4. Sound(x)
        BY <3>2 DEF Typed, Sound
      <3>5. Still(x, s') /\ s'.state \in {"ERROR", StreamonTarget(x.state, "OUTPUT")}
        BY <3>1, <3>4, StreamonStill, Streamon
      <3>6. Loaded(x)
        BY <2>3, <3>2 DEF Loaded
      <3>7. QED
        BY <1>6, <2>1, <3>1, <3>2, <3>3, <3>5, <3>6
    <2>4. CASE "LOAD_RESOURCES" \notin s.sub
      <3> DEFINE w == NewWait(s)
      <3>1. s' = Answer(w, "load") /\ queue' = [queue EXCEPT !.at = "load"] /\ on' = on
        BY <1>10, <2>4 DEF PropsAnswered, Goto
      <3>2. /\ Typed(w) /\ w.msgs = s.msgs /\ w.flushes = s.flushes /\ w.up = s.up
            /\ w.run = s.run /\ w.resp = 0 /\ w.state = s.state
            /\ w.sub = s.sub /\ w.own = s.own
        BY <1>2, WaitTyped
      <3> HIDE DEF w
      <3>3. Line(w, "idle")
        BY <1>2, <2>1, <2>2, <3>2, LineTaken DEF Loaded
      <3>4. Told(w, s', "load") /\ s'.run = w.run
        BY <3>1, <3>2, AnswerTold DEF Commands
      <3>5. queue'.at = "load" /\ queue'.plane = queue.plane
        BY <1>1, <3>1
      <3>6. QED
        BY <1>5, <2>1, <2>2, <3>1, <3>2, <3>3, <3>4, <3>5
    <2>5. QED
      BY <2>3, <2>4
  <1>11. CASE LoadAnswered
    <2> DEFINE w == NewWait(s)
               a == Answer(w, "start")
    <2>1. /\ s' = [a EXCEPT !.run = TRUE] /\ queue' = [queue EXCEPT !.at = "start"]
          /\ on' = on /\ queue.at = "load" /\ s.resp > 0 /\ "load" \in Asking
      BY <1>11 DEF LoadAnswered, Goto, At, Completed, FwStart, Asking, Waits
    <2>2. s.state # "DEINIT"
      BY <1>3, <2>1 DEF Running
    <2>3. /\ Typed(w) /\ w.msgs = s.msgs /\ w.flushes = s.flushes /\ w.up = s.up
          /\ w.run = s.run /\ w.resp = 0 /\ w.state = s.state
          /\ w.sub = s.sub /\ w.own = s.own
      BY <1>2, WaitTyped
    <2> HIDE DEF w
    <2>4. Line(w, "idle")
      BY <1>2, <2>1, <2>2, <2>3, LineTaken DEF Loaded
    <2>5. Told(w, a, "start")
      BY <2>3, AnswerTold DEF Commands
    <2> HIDE DEF a
    <2>6. Typed(a)
      BY <2>5 DEF Told
    <2>7. /\ Typed(s') /\ s'.msgs = a.msgs /\ s'.flushes = a.flushes /\ s'.up = a.up
          /\ s'.resp = a.resp /\ s'.state = a.state /\ s'.sub = a.sub /\ s'.own = a.own
      BY <2>1, <2>6 DEF Typed, Fields
    <2>8. Told(w, s', "start")
      BY <2>5, <2>7 DEF Told
    <2>9. queue'.at = "start" /\ queue'.plane = queue.plane
      BY <1>1, <2>1
    <2>10. QED
      BY <1>5, <2>1, <2>2, <2>3, <2>4, <2>8, <2>9
  <1>12. CASE StartAnswered
    <2> DEFINE t == Taken(s, "start")
               x == ChangeSub(t, {}, {"LOAD_RESOURCES"})
    <2>1. /\ s' = StreamonInput(x) /\ FinishOn /\ s.resp > 0 /\ "start" \in Asking
          /\ queue.at = "start" /\ queue.plane = "OUTPUT"
      BY <1>12 DEF StartAnswered, At, Follows, Completed, Asking, Waits
    <2>2. s.state # "DEINIT"
      BY <1>3, <2>1 DEF Running
    <2>3. /\ Typed(t) /\ t.msgs = s.msgs /\ t.flushes = s.flushes /\ t.up = s.up
          /\ t.run = s.run /\ t.resp = s.resp - 1 /\ t.state = s.state
          /\ t.sub = s.sub /\ t.own = s.own
      BY <1>2, <2>1, WaitTaken
    <2> HIDE DEF t
    <2>4. /\ Typed(x) /\ x.msgs = t.msgs /\ x.flushes = t.flushes /\ x.up = t.up
          /\ x.run = t.run /\ x.resp = t.resp /\ x.state = t.state /\ x.own = t.own
          /\ t.sub \subseteq x.sub
      <3>1. "LOAD_RESOURCES" \in SubStates
        BY DEF SubStates
      <3>2. QED
        BY <2>3, <3>1 DEF ChangeSub, Typed, Fields
    <2>5. t.state # "ERROR" => Loaded(x)
      <3>1. on \in {{}, {"OUTPUT"}, {"CAPTURE"}, {"OUTPUT", "CAPTURE"}}
        BY <1>1 DEF Planes
      <3>2. ASSUME t.state # "ERROR"
            PROVE  t.state \in {"INIT", "OUTPUT_STREAMING"}
        <4>1. /\ Fits(s.state, on) /\ "OUTPUT" \notin on /\ s.state # "DEINIT"
              /\ s.state \in States
          BY <1>1, <2>1, <2>2, <2>3, <3>2 DEF Follows, Placed, Running
        <4>2. QED
          BY <2>3, <3>1, <4>1 DEF Fits
      <3>3. t.state \in {"INIT", "OUTPUT_STREAMING"}
              => x = [t EXCEPT !.sub = (@ \cup {"LOAD_RESOURCES"}) \ {}]
        BY DEF ChangeSub, ChangeSubOk, AllowSub, AllowedSub
      <3> HIDE DEF x
      <3>4. QED
        BY <2>3, <3>2, <3>3 DEF Loaded, Typed, Fields
    <2> HIDE DEF x
    <2>6. Line(x, "idle")
      <3>1. Loaded(s) => Loaded(x)
        BY <2>3, <2>4 DEF Loaded
      <3>2. QED
        BY <1>2, <2>1, <2>2, <2>3, <2>4, <2>5, <3>1, LineTaken
    <2>7. Sound(x)
      BY <2>4 DEF Typed, Sound
    <2>8. Still(x, s') /\ s'.state \in {"ERROR", StreamonTarget(x.state, "OUTPUT")}
      BY <2>1, <2>7, StreamonStill, Streamon
    <2>9. QED
      BY <1>6, <2>1, <2>3, <2>4, <2>5, <2>6, <2>8
  <1>13. CASE ConfigAnswered
    <2> DEFINE t == Taken(s, "config")
               x == CreateDpb(t)
    <2>1. queue.at = "config" /\ queue.plane = "CAPTURE" /\ s.resp > 0 /\ "config" \in Asking
      BY <1>13 DEF ConfigAnswered, At, Follows, Completed, Asking, Waits
    <2>2. s.state # "DEINIT"
      BY <1>3, <2>1 DEF Running
    <2>3. /\ Typed(t) /\ t.msgs = s.msgs /\ t.flushes = s.flushes /\ t.up = s.up
          /\ t.run = s.run /\ t.resp = s.resp - 1 /\ t.state = s.state
          /\ t.sub = s.sub /\ t.own = s.own
      BY <1>2, <2>1, WaitTaken
    <2>4. IF "INPUT_PAUSE" \in x.sub
          THEN /\ s' = Answer(x, "release") /\ on' = on
               /\ queue' = [queue EXCEPT !.at = "release", !.drc = DrcPending(x),
                                         !.drain = DrainPending(x)]
          ELSE s' = StreamonOutput(x, DrcPending(x), DrainPending(x)) /\ FinishOn
      BY <1>13 DEF ConfigAnswered
    <2> HIDE DEF t
    <2>5. Still(t, x) /\ x.state = t.state /\ x.sub = t.sub /\ x.own = t.own
      BY <2>3, DpbStill DEF CreateDpb, Typed, Fields
    <2> HIDE DEF x
    <2>6. Line(x, "idle") /\ Typed(x)
      <3>1. Line(t, "idle")
        BY <1>2, <2>1, <2>2, <2>3, LineTaken DEF Loaded
      <3>2. Fed(x)
        BY <2>5, <3>1 DEF Line, Fed, Loaded
      <3>3. x.state # "DEINIT"
        BY <2>2, <2>3, <2>5
      <3>4. Line(x, "idle")
        BY <2>5, <3>1, <3>2, <3>3, LineStill
      <3>5. QED
        BY <3>4 DEF Line
    <2>7. CASE "INPUT_PAUSE" \in x.sub
      <3>1. /\ queue'.at = "release" /\ queue'.plane = queue.plane /\ on' = on
            /\ s' = Answer(x, "release")
        BY <1>1, <2>4, <2>7
      <3>2. Told(x, s', "release") /\ s'.run = x.run
        BY <2>6, <3>1, AnswerTold DEF Commands
      <3>3. QED
        BY <1>5, <2>1, <2>2, <2>3, <2>5, <2>6, <3>1, <3>2
    <2>8. CASE "INPUT_PAUSE" \notin x.sub
      <3>1. s' = StreamonOutput(x, DrcPending(x), DrainPending(x)) /\ FinishOn
        BY <2>4, <2>8
      <3>2. Sound(x)
        BY <2>6 DEF Typed, Sound
      <3>3. Still(x, s') /\ s'.state \in {"ERROR", StreamonTarget(x.state, "CAPTURE")}
        BY <3>1, <3>2, StreamonStill, Streamon
      <3>4. QED
        BY <1>6, <2>1, <2>3, <2>5, <2>6, <3>1, <3>3
    <2>9. QED
      BY <2>7, <2>8
  <1>14. CASE ReleaseAnswered
    <2> DEFINE x == Taken(s, "release")
    <2>1. /\ s' = StreamonOutput(x, queue.drc, queue.drain) /\ FinishOn /\ s.resp > 0
          /\ queue.at = "release" /\ queue.plane = "CAPTURE" /\ "release" \in Asking
      BY <1>14 DEF ReleaseAnswered, At, Follows, Completed, Asking, Waits
    <2>2. s.state # "DEINIT"
      BY <1>3, <2>1 DEF Running
    <2>3. /\ Typed(x) /\ x.msgs = s.msgs /\ x.flushes = s.flushes /\ x.up = s.up
          /\ x.run = s.run /\ x.resp = s.resp - 1 /\ x.state = s.state
          /\ x.sub = s.sub /\ x.own = s.own
      BY <1>2, <2>1, WaitTaken
    <2> HIDE DEF x
    <2>4. Line(x, "idle")
      BY <1>2, <2>1, <2>2, <2>3, LineTaken DEF Loaded
    <2>5. Sound(x)
      BY <2>3 DEF Typed, Sound
    <2>6. Still(x, s') /\ s'.state \in {"ERROR", StreamonTarget(x.state, "CAPTURE")}
      BY <2>1, <2>5, StreamonStill, Streamon
    <2>7. QED
      BY <1>6, <2>1, <2>3, <2>4, <2>6
  <1>15. CASE StreamonExpires
    <2>1. s' = FailStart(Fail(s)) /\ Rest /\ on' = on /\ queue.at # "idle"
      BY <1>15 DEF StreamonExpires
    <2>2. Line(Fail(s), "enqueue") /\ Fail(s).own = s.own
      BY <1>2, LineFails
    <2>3. QED
      BY <1>7, <2>1, <2>2
  <1>16. QED
    BY <1>8, <1>9, <1>10, <1>11, <1>12, <1>13, <1>14, <1>15

-----------------------------------------------------------------------------
(* A buffer comes from the client.                                         *)
LEMMA LineQueue ==
  ASSUME NEW x, NEW at \in {"idle", "enqueue"}, Line(x, at), NEW b \in Bufs,
         NEW streaming \in BOOLEAN, streaming => x.state # "DEINIT"
  PROVE  LET y == BufQueue(x, b, streaming)
         IN /\ Line(y, at)
            /\ \A c \in Bufs : y.own[c] = "active" => x.own[c] = "active" \/ c = b
  <1> DEFINE u == [x EXCEPT !.own[b] = "user"]
             d == DoneCapture(x, b, "last")
             y == [x EXCEPT !.own[b] = "active"]
             z == [y EXCEPT !.attr[b] = "deferred"]
             r == QueueBuffer(y, b)
  <1>1. /\ x.state = "ERROR" => BufQueue(x, b, streaming) = u
        /\ \/ BufQueue(x, b, streaming) \in {u, d}
           \/ streaming /\ BufQueue(x, b, streaming) = r
           \/ BufQueue(x, b, streaming) = z
    BY DEF BufQueue
  <1>2. Typed(x)
    BY DEF Line
  <1>3. /\ Line(u, at)
        /\ \A c \in Bufs : u.own[c] = "active" => x.own[c] = "active"
    <2>1. /\ u.msgs = x.msgs /\ u.flushes = x.flushes /\ u.up = x.up /\ u.run = x.run
          /\ u.resp = x.resp /\ u.state = x.state /\ u.sub = x.sub /\ u.inq = x.inq
          /\ u.outs = x.outs /\ u.pool = x.pool
          /\ \A c \in Bufs : u.own[c] = "active" => x.own[c] = "active"
      BY <1>2 DEF Typed, Fields
    <2>2. Typed(u)
      BY <1>2 DEF Typed, Fields
    <2> HIDE DEF u
    <2>3. QED
      BY <2>1, <2>2, LineSame
  <1>4. /\ Line(d, at)
        /\ \A c \in Bufs : d.own[c] = "active" => x.own[c] = "active"
    <2>1. Still(x, d)
      BY BufferStill
    <2>2. d.state = x.state /\ d.sub = x.sub /\ d.inq = x.inq /\ d.outs = x.outs
          /\ d.pool = x.pool
      BY <1>2 DEF Typed, Fields, DoneCapture
    <2> HIDE DEF d
    <2>3. Fed(d)
      BY <2>2 DEF Line, Fed, Loaded
    <2>4. Line(d, at)
      BY <2>1, <2>2, <2>3, LineStill
    <2>5. QED
      BY <1>2, <2>1, <2>4 DEF Still, Tame
  <1>5. /\ Line(y, at) /\ y.state = x.state /\ y.sub = x.sub
        /\ \A c \in Bufs : y.own[c] = "active" => x.own[c] = "active" \/ c = b
    <2>1. /\ y.msgs = x.msgs /\ y.flushes = x.flushes /\ y.up = x.up /\ y.run = x.run
          /\ y.resp = x.resp /\ y.state = x.state /\ y.sub = x.sub /\ y.inq = x.inq
          /\ y.outs = x.outs /\ y.pool = x.pool
          /\ \A c \in Bufs : y.own[c] = "active" => x.own[c] = "active" \/ c = b
      BY <1>2 DEF Typed, Fields
    <2>2. Typed(y)
      BY <1>2 DEF Typed, Fields
    <2> HIDE DEF y
    <2>3. QED
      BY <2>1, <2>2, LineSame
  <1> HIDE DEF y, u, d
  <1>6. Line(z, at) /\ z.own = y.own
    <2>1. Typed(y)
      BY <1>5 DEF Line
    <2>2. /\ z.msgs = y.msgs /\ z.flushes = y.flushes /\ z.up = y.up /\ z.run = y.run
          /\ z.resp = y.resp /\ z.state = y.state /\ z.sub = y.sub /\ z.inq = y.inq
          /\ z.outs = y.outs /\ z.pool = y.pool /\ z.own = y.own
      BY <2>1 DEF Typed, Fields
    <2>3. Typed(z)
      BY <2>1 DEF Typed, Fields
    <2> HIDE DEF z
    <2>4. QED
      BY <1>5, <2>2, <2>3, LineSame
  <1>7. streaming => Line(r, at) /\ r.own = y.own
    <2>1. Still(y, r)
      BY BufferStill
    <2>2. r.state = y.state /\ r.sub = y.sub /\ r.own = y.own
      BY <1>5 DEF Line, Typed, Fields, QueueBuffer
    <2> HIDE DEF r
    <2>3. Fed(r)
      BY <1>5, <2>2 DEF Line, Fed, Loaded
    <2>4. streaming => r.state # "DEINIT"
      BY <1>5, <2>2
    <2>5. QED
      BY <1>5, <2>1, <2>2, <2>3, <2>4, LineStill
  <1> HIDE DEF z, r
  <1>8. QED
    BY <1>1, <1>3, <1>4, <1>5, <1>6, <1>7

(* The restart after a drain or a source change.                           *)
LEMMA ResumeStill ==
  ASSUME NEW x, Typed(x)
  PROVE  LET y == Resume(x)
         IN /\ Still(x, y) /\ y.state \in {x.state, "ERROR"}
            /\ x.state # "STREAMING" =>
                 y.inq = x.inq /\ y.outs = x.outs /\ y.pool = x.pool
  <1> DEFINE drc == DrcPending(x)
             pauses == x.sub \cap {"INPUT_PAUSE", "OUTPUT_PAUSE"}
             clear == pauses \cup (IF drc THEN {"DRC", "DRC_LAST"} ELSE {"DRAIN", "DRAIN_LAST"})
             y == IF drc /\ pauses # {} THEN FwContinue(x) ELSE x
             v == ChangeSub(y, clear, {})
             z == Restarted(v)
             q == QueueDpb(z)
             c == QueueDeferred(q, "CAPTURE")
             w == QueueDeferred(c, "OUTPUT")
  <1>1. /\ Resume(x) \in {Fail(x), w, z}
        /\ z.state # "STREAMING" => Resume(x) \in {Fail(x), z}
    BY DEF Resume
  <1>2. clear \in SUBSET SubStates /\ "LOAD_RESOURCES" \notin clear /\ {} \in SUBSET SubStates
    BY DEF Typed, SubStates
  <1> HIDE DEF clear
  <1>3. Still(x, y) /\ y.state = x.state /\ y.inq = x.inq /\ y.outs = x.outs /\ y.pool = x.pool
    <2>1. Still(x, y)
      BY DpbStill, ComposeStill
    <2>2. QED
      BY <2>1 DEF FwContinue, Typed, Fields
  <1> HIDE DEF y
  <1>4. Still(y, v) /\ v.state = y.state /\ v.inq = y.inq /\ v.outs = y.outs /\ v.pool = y.pool
    <2>1. Still(y, v)
      BY <1>2, StateStill
    <2>2. Typed(y)
      BY <1>3 DEF Still, Tame
    <2>3. QED
      BY <2>1, <2>2 DEF ChangeSub, Typed, Fields
  <1> HIDE DEF v
  <1>5. Still(v, z) /\ z.state = v.state /\ z.inq = v.inq /\ z.outs = v.outs /\ z.pool = v.pool
    <2>1. Still(v, z)
      BY DpbStill
    <2>2. Typed(v)
      BY <1>3, <1>4 DEF Still, Tame
    <2>3. QED
      BY <2>1, <2>2 DEF Restarted, Typed, Fields
  <1> HIDE DEF z
  <1>6. Still(x, z)
    BY <1>3, <1>4, <1>5, ComposeStill
  <1>7. Still(z, q) /\ Still(q, c) /\ Still(c, w)
    BY DpbStill, BufferStill DEF Planes
  <1>8. Keeps(z, q) /\ Keeps(q, c) /\ Keeps(c, w)
    BY DpbKeeps, BufferKeeps
  <1> HIDE DEF q, c, w
  <1>9. Still(x, w) /\ Keeps(z, w)
    BY <1>6, <1>7, <1>8, ComposeStill, Compose
  <1>10. w.state \in {z.state, "ERROR"}
    <2>1. Sound(z)
      BY <1>6 DEF Still, Tame, Typed, Sound
    <2>2. QED
      BY <1>9, <2>1 DEF Keeps
  <1>11. Still(x, Fail(x)) /\ Fail(x).state = "ERROR" /\ Fail(x).inq = x.inq
         /\ Fail(x).outs = x.outs /\ Fail(x).pool = x.pool
    <2>1. Still(x, Fail(x))
      BY StateStill
    <2>2. QED
      BY <2>1 DEF Fail, ChangeState, ChangeStateOk, Typed, Fields
  <1>12. QED
    BY <1>1, <1>3, <1>4, <1>5, <1>6, <1>9, <1>10, <1>11

(* An instance fails, wherever its queue thread is.                        *)
LEMMA LineFail ==
  ASSUME NEW x, NEW at, Line(x, at)
  PROVE  Line(Fail(x), at) /\ Fail(x).own = x.own
  <1>1. Typed(x)
    BY DEF Line
  <1>2. /\ Still(x, Fail(x)) /\ Fail(x).state = "ERROR" /\ Fail(x).inq = x.inq
        /\ Fail(x).outs = x.outs /\ Fail(x).pool = x.pool /\ Fail(x).own = x.own
    <2>1. Still(x, Fail(x))
      BY StateStill
    <2>2. QED
      BY <1>1, <2>1 DEF Fail, ChangeState, ChangeStateOk, Typed, Fields
  <1>3. Fed(Fail(x))
    BY <1>2 DEF Fed
  <1>4. QED
    BY <1>2, <1>3, LineStill

(* The steps of the client and of DECODER_CMD.                             *)
LEMMA WiredClient ==
  ASSUME Wired, Follows,
         \/ \E b \in Bufs : QBuf(b) \/ QBufEmpty(b)
         \/ Enqueue \/ DecoderStop \/ DecoderStart \/ DecoderStartWakes
  PROVE  Line(s', queue'.at) /\ Listed(s', on', queue') /\ queue'.at \in Ats
  <1>1. Line(s, queue.at) /\ Listed(s, on, queue) /\ queue.at \in Ats /\ Typed(s)
    BY DEF Wired, Line
  <1>2. /\ on' = on /\ queue' = queue
    BY DEF QBuf, QBufEmpty, Enqueue, DecoderStop, DecoderStart, DecoderStartWakes
  (* No buffer more is on a list. *)
  <1>3. ASSUME Line(s', queue.at),
               \A c \in Bufs : s'.own[c] = "active" => s.own[c] = "active"
        PROVE  Line(s', queue'.at) /\ Listed(s', on', queue') /\ queue'.at \in Ats
    BY <1>1, <1>2, <1>3 DEF Listed
  (* One more is. *)
  <1>4. ASSUME NEW b \in Bufs, Line(s', queue.at),
               \A c \in Bufs : s'.own[c] = "active" => s.own[c] = "active" \/ c = b,
               Plane(b) \in on \/ (queue.at # "idle" /\ Plane(b) = queue.plane)
        PROVE  Line(s', queue'.at) /\ Listed(s', on', queue') /\ queue'.at \in Ats
    BY <1>1, <1>2, <1>4 DEF Listed
  <1>5. CASE \E b \in Bufs : QBuf(b) \/ QBufEmpty(b)
    <2>1. PICK b \in Bufs : QBuf(b) \/ QBufEmpty(b)
      BY <1>5
    <2>2. queue.at = "idle" /\ s.state # "ERROR"
      BY <2>1 DEF QBuf, QBufEmpty, At
    <2>3. CASE QBuf(b) /\ Plane(b) \in on
      <3>1. s' = BufQueue(s, b, TRUE)
        BY <2>3 DEF QBuf
      <3>2. s.state # "DEINIT"
        <4>1. Fits(s.state, on) /\ on \in SUBSET Planes
          BY <2>2 DEF Follows, Placed
        <4>2. on \in {{"OUTPUT"}, {"CAPTURE"}, Planes}
          BY <2>3, <4>1 DEF Planes
        <4>3. QED
          BY <4>1, <4>2 DEF Fits
      <3>3. QED
        BY <1>1, <1>4, <2>2, <2>3, <3>1, <3>2, LineQueue
    <2>4. CASE QBuf(b) /\ Plane(b) \notin on
      <3>1. s' = [s EXCEPT !.own[b] = "prepared"]
        BY <2>4 DEF QBuf
      <3>2. /\ s'.msgs = s.msgs /\ s'.flushes = s.flushes /\ s'.up = s.up /\ s'.run = s.run
            /\ s'.resp = s.resp /\ s'.state = s.state /\ s'.sub = s.sub /\ s'.inq = s.inq
            /\ s'.outs = s.outs /\ s'.pool = s.pool
            /\ \A c \in Bufs : s'.own[c] = "active" => s.own[c] = "active"
        BY <1>1, <3>1 DEF Typed, Fields
      <3>3. Typed(s')
        BY <1>1, <3>1 DEF Typed, Fields
      <3>4. QED
        BY <1>1, <1>3, <3>2, <3>3, LineSame
    <2>5. CASE QBufEmpty(b)
      <3>1. s' = Fail(s)
        BY <2>5 DEF QBufEmpty
      <3>2. QED
        BY <1>1, <1>3, <3>1, LineFail
    <2>6. QED
      BY <2>1, <2>3, <2>4, <2>5
  <1>6. CASE Enqueue
    <2>1. queue.at = "enqueue"
      BY <1>6 DEF Enqueue, At
    <2>2. PICK b \in PlaneBufs(queue.plane) : s' = BufQueue(s, b, FALSE)
      BY <1>6 DEF Enqueue
    <2>3. b \in Bufs /\ Plane(b) = queue.plane
      <3>1. queue.plane \in {"OUTPUT", "CAPTURE"}
        BY DEF Follows, Planes
      <3>2. InBufs \cap OutBufs = {}
        BY StreamAssumption
      <3>3. QED
        BY <3>1, <3>2 DEF Plane, PlaneBufs, Bufs
    <2>4. QED
      BY <1>1, <1>4, <2>1, <2>2, <2>3, LineQueue
  <1>7. CASE DecoderStop
    <2> DEFINE i == IF s.run THEN Append(s.inq, Eos) ELSE s.inq
               x == [s EXCEPT !.inq = i]
               y == ChangeSub(x, {}, {"DRAIN"})
    <2>1. s' = y /\ s.state # "DEINIT"
      BY <1>7 DEF DecoderStop
    <2>2. i \in Seq(InBufs \cup {Eos})
      BY <1>1 DEF Typed
    <2>3. s.run \/ i = s.inq
      OBVIOUS
    <2> HIDE DEF i
    <2>4. /\ x.state = s.state /\ x.sub = s.sub /\ x.inq = i /\ x.outs = s.outs
          /\ x.pool = s.pool
      BY <1>1 DEF Typed, Fields
    <2>5. Still(s, x)
      BY <2>2 DEF Still, Tame, Typed, Fields, Loaded
    <2> HIDE DEF x
    <2>6. Still(x, y)
      <3>1. {} \in SUBSET SubStates /\ {"DRAIN"} \in SUBSET SubStates
        BY DEF SubStates
      <3>2. QED
        BY <3>1, StateStill
    <2>7. y.state = x.state /\ y.inq = x.inq /\ y.outs = x.outs /\ y.pool = x.pool
      <3>1. Typed(x)
        BY <1>1, <2>5 DEF Still, Tame
      <3>2. QED
        BY <3>1 DEF ChangeSub, Typed, Fields
    <2> HIDE DEF y
    <2>8. Still(s, y)
      BY <2>5, <2>6, ComposeStill
    <2>9. Fed(y)
      BY <1>1, <2>4, <2>7, <2>8 DEF Line, Still, Tame, Fed
    <2>10. queue.at = "end" => y.inq = s.inq
      BY <1>1, <2>3, <2>4, <2>7 DEF Line, Empty
    <2>11. Line(y, queue.at)
      BY <1>1, <2>1, <2>4, <2>7, <2>8, <2>9, <2>10, LineStill
    <2>12. QED
      BY <1>1, <1>3, <2>1, <2>8, <2>11 DEF Still, Tame
  (* The restart of an instance that has its flush, or needs none. *)
  <1>8. ASSUME NEW x, Line(x, queue.at), x.state = s.state, x.own = s.own, s' = Resume(x)
        PROVE  Line(s', queue'.at) /\ Listed(s', on', queue') /\ queue'.at \in Ats
    <2> DEFINE y == Resume(x)
    <2>1. Typed(x)
      BY <1>8 DEF Line
    <2>2. /\ Still(x, y) /\ y.state \in {x.state, "ERROR"}
          /\ x.state # "STREAMING" =>
               y.inq = x.inq /\ y.outs = x.outs /\ y.pool = x.pool
      BY <2>1, ResumeStill
    <2> HIDE DEF y
    <2>3. Fed(y)
      BY <1>8, <2>1, <2>2 DEF Line, Still, Tame, Fed
    <2>4. queue.at = "end" => x.state # "STREAMING"
      BY <1>8 DEF Follows, Placed
    <2>5. Line(y, queue.at)
      BY <1>8, <2>2, <2>3, <2>4, LineStill
    <2>6. \A c \in Bufs : y.own[c] = "active" => s.own[c] = "active"
      BY <1>8, <2>1, <2>2 DEF Still, Tame
    <2>7. s' = y
      BY <1>8 DEF y
    <2>8. QED
      BY <1>3, <2>5, <2>6, <2>7
  <1>9. CASE DecoderStart
    <2>1. s' = s \/ s' = Resume(s)
      BY <1>9 DEF DecoderStart
    <2>2. QED
      BY <1>1, <1>3, <1>8, <2>1
  <1>10. CASE DecoderStartWakes
    <2>1. s' = Fail(s) \/ (s.flushed > 0 /\ s' = Resume(Taken(s, "flush")))
      BY <1>10 DEF DecoderStartWakes, Completed
    <2>2. CASE s' = Fail(s)
      BY <1>1, <1>3, <2>2, LineFail
    <2>3. CASE s.flushed > 0 /\ s' = Resume(Taken(s, "flush"))
      <3> DEFINE x == Taken(s, "flush")
      <3>1. Line(x, queue.at) /\ x.own = s.own /\ x.state = s.state
        BY <1>1, <2>3, LineFlushed
      <3> HIDE DEF x
      <3>2. s' = Resume(x)
        BY <2>3 DEF x
      <3>3. QED
        BY <1>8, <3>1, <3>2
    <2>4. QED
      BY <2>1, <2>2, <2>3
  <1>11. QED
    BY <1>5, <1>6, <1>7, <1>9, <1>10

-----------------------------------------------------------------------------
(* The interrupt thread takes the next message.                            *)
LEMMA NextMessage ==
  ASSUME NEW x, Typed(x), x.msgs # << >>
  PROVE  LET h == Head(x.msgs)
             t == Tail(x.msgs)
         IN /\ h \in Message /\ t \in Seq(Message) /\ h = x.msgs[1] /\ 1 \in DOMAIN x.msgs
            /\ Len(t) \in Nat /\ Len(x.msgs) = Len(t) + 1 /\ DOMAIN t = 1..Len(t)
            /\ \A k \in DOMAIN t : k \in Nat /\ k + 1 \in DOMAIN x.msgs /\ t[k] = x.msgs[k + 1]
            /\ \A T : Count(x.msgs, T) = Count(t, T) + (IF h.type = T THEN 1 ELSE 0)
            /\ \A T : Count(t, T) \in Nat
  <1> DEFINE q == x.msgs
             h == Head(q)
             t == Tail(q)
  <1>1. q \in Seq(Message) /\ q # << >>
    BY DEF Typed
  <1> HIDE DEF q
  <1>2. h \in Message /\ t \in Seq(Message) /\ h = q[1] /\ Len(q) = Len(t) + 1
        /\ Len(t) \in Nat /\ DOMAIN t = 1..Len(t) /\ DOMAIN q = 1..Len(q)
    BY <1>1
  <1>3. \A k \in 1..Len(t) : t[k] = q[k + 1]
    BY <1>1, <1>2
  <1>4. 1 \in DOMAIN q /\ \A k \in DOMAIN t : k \in Nat /\ k + 1 \in DOMAIN q
    BY <1>2
  <1>5. \A T : Count(q, T) = Count(t, T) + (IF h.type = T THEN 1 ELSE 0)
    BY <1>1, CountSteps
  <1> HIDE DEF h, t
  <1>6. \A T : Count(t, T) \in Nat
    BY <1>2, CountSteps
  <1>7. QED
    BY <1>2, <1>3, <1>4, <1>5, <1>6 DEF q, h, t

(* No answer comes first: the session is there, and stays.                 *)
LEMMA LineRead ==
  ASSUME NEW x, NEW at, Line(x, at), x.msgs # << >>, Head(x.msgs).type # "answer",
         NEW y, Typed(y), y.msgs = Tail(x.msgs), y.up = x.up, y.run = x.run, y.resp = x.resp,
         y.flushes = x.flushes - (IF Head(x.msgs).type = "flush" THEN 1 ELSE 0),
         y.state \in {x.state, "ERROR"}, x.state = "ERROR" => y.state = "ERROR",
         Loaded(x) => Loaded(y)
  PROVE  /\ Line(y, at) /\ at # "end" /\ x.state # "DEINIT"
         /\ x.state = "ERROR" \/ Loaded(x) \/ at = "start"
  <1> DEFINE h == Head(x.msgs)
             t == Tail(x.msgs)
  <1>1. Typed(x)
    BY DEF Line
  <1>2. /\ h \in Message /\ t \in Seq(Message) /\ h = x.msgs[1] /\ 1 \in DOMAIN x.msgs
        /\ Len(t) \in Nat /\ Len(x.msgs) = Len(t) + 1 /\ DOMAIN t = 1..Len(t)
        /\ \A k \in DOMAIN t : k \in Nat /\ k + 1 \in DOMAIN x.msgs /\ t[k] = x.msgs[k + 1]
        /\ \A T : Count(x.msgs, T) = Count(t, T) + (IF h.type = T THEN 1 ELSE 0)
        /\ \A T : Count(t, T) \in Nat
    BY <1>1, NextMessage
  <1> HIDE DEF h, t
  <1>3. y.msgs = t /\ h.type # "answer"
        /\ y.flushes = x.flushes - (IF h.type = "flush" THEN 1 ELSE 0)
    BY DEF h, t
  <1>4. ~OnlyAnswers(x.msgs)
    BY <1>2, <1>3 DEF OnlyAnswers
  <1>5. at # "end" /\ x.state # "DEINIT" /\ y.state # "DEINIT"
        /\ (x.state = "ERROR" \/ Loaded(x) \/ at = "start")
    BY <1>4 DEF Line, Empty, Unrun
  <1>6. Count(x.msgs, "flush") \in Int /\ Count(t, "flush") \in Int /\ x.flushes \in Int
        /\ Count(x.msgs, "flush") = Count(t, "flush") + (IF h.type = "flush" THEN 1 ELSE 0)
        /\ Count(x.msgs, "answer") = Count(t, "answer")
    <2>1. x.flushes \in Int
      BY <1>1 DEF Typed
    <2>2. Count(t, "flush") \in Nat /\ Count(t, "answer") \in Nat
          /\ Count(x.msgs, "flush") = Count(t, "flush") + (IF h.type = "flush" THEN 1 ELSE 0)
          /\ Count(x.msgs, "answer") = Count(t, "answer") + (IF h.type = "answer" THEN 1 ELSE 0)
      BY <1>2
    <2>3. QED
      BY <1>3, <2>1, <2>2
  <1>7. Counted(y)
    BY <1>3, <1>6 DEF Line, Counted
  <1>8. Answered(y, at)
    BY <1>2, <1>3, <1>6 DEF Line, Answered
  <1>9. Unrun(y, at) /\ Fed(y)
    BY <1>5 DEF Unrun, Line, Fed
  <1>10. at = "stop" => Stopping(y)
    <2> SUFFICES ASSUME Stopping(x), y.state # "ERROR", at = "stop"
                 PROVE  Stopping(y)
      BY DEF Line, Stopping
    <2>1. y.state # "STREAMING" /\ ~y.run /\ Loaded(y)
      BY DEF Stopping
    <2>2. ASSUME NEW k \in DOMAIN t,
                 y.resp > 0 \/ \E j \in DOMAIN t : j < k /\ t[j].type = "answer"
          PROVE  t[k] \in CalmMessage
      <3>1. k \in Nat /\ k + 1 \in DOMAIN x.msgs /\ t[k] = x.msgs[k + 1]
        BY <1>2
      <3>2. CASE x.resp > 0
        BY <3>1, <3>2 DEF Stopping
      <3>3. CASE \E j \in DOMAIN t : j < k /\ t[j].type = "answer"
        <4>1. PICK j \in DOMAIN t : j < k /\ t[j].type = "answer"
          BY <3>3
        <4>2. j \in Nat /\ j + 1 \in DOMAIN x.msgs /\ x.msgs[j + 1].type = "answer"
          BY <1>2, <4>1
        <4>3. j + 1 < k + 1
          BY <3>1, <4>1, <4>2
        <4>4. QED
          BY <3>1, <4>2, <4>3 DEF Stopping
      <3>4. QED
        BY <2>2, <3>2, <3>3
    <2>3. QED
      BY <1>3, <2>1, <2>2 DEF Stopping
  <1>11. at = "unload" => Unloading(y)
    <2> SUFFICES ASSUME Unloading(x), y.state # "ERROR", at = "unload"
                 PROVE  Unloading(y)
      BY DEF Line, Unloading
    <2>1. y.state # "STREAMING" /\ ~y.run /\ Loaded(y) /\ ~(x.resp > 0)
      BY DEF Unloading
    <2>2. ASSUME NEW k \in DOMAIN t
          PROVE  IF t[k].type = "answer" THEN k = Len(t) ELSE t[k] \in CalmMessage
      <3>1. k \in Nat /\ k + 1 \in DOMAIN x.msgs /\ t[k] = x.msgs[k + 1]
        BY <1>2
      <3>2. IF t[k].type = "answer" THEN k + 1 = Len(x.msgs) ELSE t[k] \in CalmMessage
        BY <3>1 DEF Unloading
      <3>3. QED
        BY <1>2, <3>1, <3>2
    <2>3. QED
      BY <1>3, <2>1, <2>2 DEF Unloading
  <1>12. at = "flush" => y.state \in {"STREAMING", "ERROR"}
    BY DEF Line
  <1>13. QED
    BY <1>5, <1>7, <1>8, <1>9, <1>10, <1>11, <1>12 DEF Line

(* The answer comes.                                                       *)
LEMMA LineAnswer ==
  ASSUME NEW x, NEW at, Line(x, at), x.msgs # << >>, Head(x.msgs).type = "answer",
         NEW y, Typed(y), y.msgs = Tail(x.msgs), y.up = x.up, y.run = x.run,
         y.resp = IF x.resp < MaxDone THEN x.resp + 1 ELSE x.resp,
         y.flushes = x.flushes, y.state \in {x.state, "ERROR"},
         x.state = "ERROR" => y.state = "ERROR", Loaded(x) => Loaded(y),
         y.inq = x.inq, y.outs = x.outs, y.pool = x.pool
  PROVE  Line(y, at)
  <1> DEFINE h == Head(x.msgs)
             t == Tail(x.msgs)
  <1>1. Typed(x)
    BY DEF Line
  <1>2. /\ h \in Message /\ t \in Seq(Message) /\ h = x.msgs[1] /\ 1 \in DOMAIN x.msgs
        /\ Len(t) \in Nat /\ Len(x.msgs) = Len(t) + 1 /\ DOMAIN t = 1..Len(t)
        /\ \A k \in DOMAIN t : k \in Nat /\ k + 1 \in DOMAIN x.msgs /\ t[k] = x.msgs[k + 1]
        /\ \A T : Count(x.msgs, T) = Count(t, T) + (IF h.type = T THEN 1 ELSE 0)
        /\ \A T : Count(t, T) \in Nat
    BY <1>1, NextMessage
  <1> HIDE DEF h, t
  <1>3. y.msgs = t /\ h.type = "answer"
    BY DEF h, t
  <1>4. /\ Count(x.msgs, "flush") = Count(t, "flush") /\ Count(t, "flush") \in Nat
        /\ Count(x.msgs, "answer") = Count(t, "answer") + 1 /\ Count(t, "answer") \in Nat
    BY <1>2, <1>3
  <1>5. Counted(y)
    BY <1>3, <1>4 DEF Line, Counted
  <1>6. Answered(y, at)
    <2> SUFFICES ASSUME x.state # "ERROR" PROVE Answered(y, at)
      BY DEF Answered
    <2>1. MaxDone \in Nat \ {0} /\ x.resp \in 0..MaxDone
      BY <1>1, StreamAssumption DEF Typed
    <2>2. Count(t, "answer") = 0 /\ x.resp = 0 /\ at \in Asking
      BY <1>4, <2>1 DEF Line, Answered
    <2>3. \A k \in DOMAIN t : t[k].type # "answer"
      BY <1>2, <2>2, CountZero
    <2>4. y.resp = 1
      BY <2>1, <2>2
    <2>5. Count(y.msgs, "answer") = 0 /\ \A k \in DOMAIN y.msgs : y.msgs[k].type # "answer"
      BY <1>3, <2>2, <2>3
    <2>6. QED
      BY <2>2, <2>4, <2>5 DEF Answered
  <1>7. Unrun(y, at)
    BY <1>2, <1>3 DEF Line, Unrun, OnlyAnswers
  <1>8. Fed(y)
    BY DEF Line, Fed
  <1>9. at = "stop" => Stopping(y)
    <2> SUFFICES ASSUME Stopping(x), y.state # "ERROR"
                 PROVE  Stopping(y)
      BY DEF Line, Stopping
    <2>1. y.state # "STREAMING" /\ ~y.run /\ Loaded(y)
      BY DEF Stopping
    <2>2. ASSUME NEW k \in DOMAIN t
          PROVE  t[k] \in CalmMessage
      <3>1. k \in Nat /\ k + 1 \in DOMAIN x.msgs /\ t[k] = x.msgs[k + 1] /\ k \in 1..Len(t)
        BY <1>2
      <3>2. 1 < k + 1 /\ x.msgs[1].type = "answer"
        BY <1>2, <1>3, <3>1
      <3>3. QED
        BY <1>2, <3>1, <3>2 DEF Stopping
    <2>3. QED
      BY <1>3, <2>1, <2>2 DEF Stopping
  <1>10. at = "unload" => Unloading(y)
    <2> SUFFICES ASSUME Unloading(x), y.state # "ERROR"
                 PROVE  Unloading(y)
      BY DEF Line, Unloading
    <2>1. y.state # "STREAMING" /\ ~y.run /\ Loaded(y)
      BY DEF Unloading
    <2>2. 1 = Len(x.msgs)
      BY <1>2, <1>3 DEF Unloading
    <2>3. Len(t) = 0
      BY <1>2, <2>2
    <2>4. t = << >>
      BY <1>2, <2>3
    <2>5. y.msgs = << >> /\ \A k \in DOMAIN y.msgs : FALSE
      <3>1. \A k \in DOMAIN t : FALSE
        BY <1>2, <2>3
      <3>2. QED
        BY <1>3, <2>4, <3>1, Zenon
    <2>6. QED
      BY <2>1, <2>5 DEF Unloading
  <1>11. at = "flush" => y.state \in {"STREAMING", "ERROR"}
    BY DEF Line
  <1>12. at = "end" \/ y.state = "DEINIT" => Empty(y)
    <2>1. at = "end" \/ y.state = "DEINIT" => Empty(x)
      BY DEF Line
    <2>2. OnlyAnswers(x.msgs) => OnlyAnswers(t)
      BY <1>2 DEF OnlyAnswers
    <2>3. QED
      BY <1>3, <2>1, <2>2 DEF Empty
  <1>13. QED
    BY <1>5, <1>6, <1>7, <1>8, <1>9, <1>10, <1>11, <1>12 DEF Line

(* One message handled.                                                    *)
LEMMA WiredInterrupt ==
  ASSUME Wired, Follows, Interrupt
  PROVE  Line(s', queue'.at) /\ Listed(s', on', queue') /\ queue'.at \in Ats
  <1> DEFINE at == queue.at
             m == Head(s.msgs)
             t == Tail(s.msgs)
             x == [s EXCEPT !.msgs = t]
             y == Handle(x, m)
  <1>1. Line(s, at) /\ Listed(s, on, queue) /\ at \in Ats /\ Typed(s)
    BY DEF Wired, Line
  <1>2. /\ on' = on /\ queue' = queue /\ s' = y /\ s.msgs # << >>
    BY DEF Interrupt
  <1>3. m \in Message /\ t \in Seq(Message)
        /\ (m.type # "answer" => m = s.msgs[1] /\ 1 \in DOMAIN s.msgs)
    BY <1>1, <1>2, NextMessage
  <1>4. m.type \in {"answer", "etb", "ftb", "dpb", "flush", "seq", "error"}
    BY <1>3, Letters
  <1>5. Keeps(x, y)
    BY HandleKeeps
  <1> HIDE DEF m, t
  <1>6. Typed(x) /\ Sound(x)
    <2>1. Typed(x)
      BY <1>1, <1>3 DEF Typed, Fields
    <2>2. QED
      BY <2>1 DEF Typed, Sound
  <1>7. /\ x.msgs = t /\ x.flushes = s.flushes /\ x.up = s.up /\ x.run = s.run
        /\ x.resp = s.resp /\ x.state = s.state /\ x.sub = s.sub /\ x.own = s.own
        /\ x.inq = s.inq /\ x.outs = s.outs /\ x.pool = s.pool
    BY <1>1 DEF Typed, Fields
  <1> HIDE DEF x
  <1>8. y.state \in {x.state, "ERROR"}
    BY <1>5, <1>6 DEF Keeps
  <1>9. Loaded(s) <=> Loaded(x)
    BY <1>7 DEF Loaded
  <1>10. Line(y, at) /\ \A b \in Bufs : y.own[b] = "active" => s.own[b] = "active"
    <2>1. CASE m.type = "answer"
      <3> DEFINE z == AnswerDone(x, m)
      <3>1. y = z
        BY <2>1 DEF Handle
      <3>2. /\ Typed(z) /\ z.msgs = x.msgs /\ z.flushes = x.flushes /\ z.up = x.up
            /\ z.run = x.run /\ z.own = x.own /\ (Loaded(x) => Loaded(z))
            /\ x.state = "ERROR" => z.state = "ERROR"
            /\ z.resp = IF x.resp < MaxDone THEN x.resp + 1 ELSE x.resp
            /\ z.inq = x.inq /\ z.outs = x.outs /\ z.pool = x.pool
        BY <1>6, AnswerTypes
      <3> HIDE DEF z, y
      <3>3. z.state \in {s.state, "ERROR"}
        BY <1>7, <1>8, <3>1
      <3>4. Line(z, at)
        BY <1>1, <1>2, <1>7, <1>9, <2>1, <3>2, <3>3, LineAnswer DEF m, t
      <3>5. QED
        BY <1>7, <3>1, <3>2, <3>4
    <2>2. CASE m.type = "flush"
      <3> DEFINE z == FlushDone(x, m)
      <3>1. y = z
        BY <2>2 DEF Handle
      <3>2. Tame(x, z) /\ z.msgs = x.msgs /\ z.flushes = x.flushes - 1
        BY <1>6, AnswerTypes
      <3> HIDE DEF z, y
      <3>3. /\ Typed(z) /\ z.up = x.up /\ z.run = x.run /\ z.resp = x.resp
            /\ (Loaded(x) => Loaded(z)) /\ (x.state = "ERROR" => z.state = "ERROR")
            /\ \A b \in Bufs : z.own[b] = "active" => x.own[b] = "active"
        BY <3>2 DEF Tame
      <3>4. z.state \in {s.state, "ERROR"} /\ z.msgs = Tail(s.msgs)
        BY <1>7, <1>8, <3>1, <3>2 DEF t
      <3>5. Head(s.msgs).type = "flush"
        BY <2>2 DEF m
      <3>6. Line(z, at)
        BY <1>1, <1>2, <1>7, <1>9, <3>2, <3>3, <3>4, <3>5, LineRead
      <3>7. QED
        BY <1>7, <3>1, <3>3, <3>6
    <2>3. CASE m.type \notin {"answer", "flush"}
      <3>1. Stirs(x, y) /\ (m \in CalmMessage => Still(x, y))
        BY <1>3, <2>3, HandleStirs
      <3> HIDE DEF y
      <3>2. Head(s.msgs).type # "answer" /\ Head(s.msgs).type # "flush" /\ x.msgs = Tail(s.msgs)
            /\ s.flushes \in Int
        BY <1>1, <1>7, <2>3 DEF m, t, Typed
      <3>3. /\ Line(x, at) /\ at # "end" /\ s.state # "DEINIT"
            /\ s.state = "ERROR" \/ Loaded(s) \/ at = "start"
        BY <1>1, <1>2, <1>6, <1>7, <1>9, <3>2, LineRead
      <3>4. Tame(x, y)
        BY <1>6, <3>1 DEF Stirs
      <3>5. Fed(y) /\ y.state # "DEINIT"
            /\ \A b \in Bufs : y.own[b] = "active" => s.own[b] = "active"
        BY <1>7, <1>8, <3>3, <3>4 DEF Tame, Line, Fed
      <3>6. CASE at # "unload"
        BY <1>7, <1>8, <1>9, <3>1, <3>3, <3>5, <3>6, LineStirs
      <3>7. CASE at = "unload" /\ s.state = "ERROR"
        <4>1. Line(x, "idle")
          BY <1>6, <1>7, <3>3, <3>7, LineFailed DEF Line
        <4>2. Line(y, "idle")
          BY <1>7, <3>1, <3>5, <3>7, <4>1, LineStirs
        <4>3. y.state = "ERROR"
          BY <1>7, <3>4, <3>7 DEF Tame
        <4>4. QED
          BY <3>5, <3>7, <4>2, <4>3, LineFailed DEF Line
      <3>8. CASE at = "unload" /\ s.state # "ERROR"
        <4>1. m \in CalmMessage
          BY <1>1, <1>3, <2>3, <3>8 DEF Line, Unloading
        <4>2. QED
          BY <1>8, <3>1, <3>3, <3>5, <3>8, <4>1, LineStill
      <3>9. QED
        BY <3>6, <3>7, <3>8
    <2>4. QED
      BY <2>1, <2>2, <2>3
  <1>11. QED
    BY <1>1, <1>2, <1>10 DEF Listed

-----------------------------------------------------------------------------
(* The firmware sends on its own while the session runs.                   *)
LEMMA LineSends ==
  ASSUME NEW x, NEW at, Line(x, at), x.run, NEW d \in Seq(Message),
         \A k \in DOMAIN d : d[k].type \notin {"answer", "flush"},
         NEW y, Typed(y), y.msgs = x.msgs \o d, y.flushes = x.flushes, y.up = x.up,
         y.run = x.run, y.resp = x.resp, y.state = x.state, y.sub = x.sub
  PROVE  Line(y, at)
  <1>1. Typed(x) /\ x.msgs \in Seq(Message)
    BY DEF Line, Typed
  <1>2. Count(d, "answer") = 0 /\ Count(d, "flush") = 0
    BY CountFree
  <1>3. /\ Count(x.msgs, "answer") \in Nat /\ Count(x.msgs, "flush") \in Nat
        /\ Count(x.msgs \o d, "answer") = Count(x.msgs, "answer") + Count(d, "answer")
        /\ Count(x.msgs \o d, "flush") = Count(x.msgs, "flush") + Count(d, "flush")
    BY <1>1, CountJoined
  <1>4. /\ Count(y.msgs, "answer") = Count(x.msgs, "answer")
        /\ Count(y.msgs, "flush") = Count(x.msgs, "flush")
    BY <1>2, <1>3
  <1>5. ASSUME NEW k \in DOMAIN y.msgs, y.msgs[k].type = "answer"
        PROVE  k \in DOMAIN x.msgs /\ y.msgs[k] = x.msgs[k]
    <2> DEFINE p == x.msgs
               n == Len(p)
    <2>1. p \in Seq(Message) /\ d \in Seq(Message) /\ y.msgs = p \o d
      BY <1>1
    <2> HIDE DEF p
    <2>2. /\ DOMAIN (p \o d) = 1..(n + Len(d)) /\ n \in Nat /\ Len(d) \in Nat
          /\ \A j \in 1..n : (p \o d)[j] = p[j]
          /\ \A j \in 1..Len(d) : (p \o d)[n + j] = d[j]
          /\ DOMAIN p = 1..n /\ DOMAIN d = 1..Len(d)
      BY <2>1, ConcatProperties
    <2>3. CASE k \in 1..n
      <3>1. k \in DOMAIN p /\ y.msgs[k] = p[k]
        BY <2>1, <2>2, <2>3
      <3>2. QED
        BY <3>1 DEF p
    <2>4. CASE k \notin 1..n
      <3> DEFINE j == k - n
      <3>1. j \in 1..Len(d) /\ k = n + j
        BY <1>5, <2>1, <2>2, <2>4
      <3> HIDE DEF j
      <3>2. y.msgs[k] = d[j]
        BY <2>1, <2>2, <3>1
      <3>3. QED
        BY <1>5, <2>2, <3>1, <3>2
    <2>5. QED
      BY <2>3, <2>4
  <1>6. Counted(y)
    BY <1>4 DEF Line, Counted
  <1>7. Answered(y, at)
    <2>1. x.state # "ERROR" =>
            \A k \in DOMAIN y.msgs : y.msgs[k].type = "answer" => y.msgs[k].cmd = at
      BY <1>5 DEF Line, Answered
    <2>2. QED
      BY <1>4, <2>1 DEF Line, Answered
  <1>8. x.state # "ERROR" => at \notin {"stop", "unload"} /\ (Loaded(x) \/ at = "start")
    BY DEF Line, Stopping, Unloading, Unrun
  <1>9. at # "end" /\ x.state # "DEINIT"
    BY DEF Line, Empty
  <1>10. Unrun(y, at) /\ Fed(y)
    BY <1>8 DEF Line, Unrun, Fed, Loaded
  <1>11. (at = "stop" => Stopping(y)) /\ (at = "unload" => Unloading(y))
    BY <1>8 DEF Stopping, Unloading
  <1>12. at = "flush" => y.state \in {"STREAMING", "ERROR"}
    BY DEF Line
  <1>13. QED
    BY <1>6, <1>7, <1>9, <1>10, <1>11, <1>12 DEF Line

(* An answer turns out to carry an error.                                  *)
LEMMA LineRejects ==
  ASSUME NEW x, NEW at, Line(x, at), x.msgs # << >>,
         x.msgs[Len(x.msgs)].type \in {"answer", "flush"}
  PROVE  LET y == [x EXCEPT !.msgs[Len(x.msgs)].ok = FALSE]
         IN Line(y, at) /\ y.own = x.own
  <1> DEFINE q == x.msgs
             n == Len(q)
             m == q[n]
             e == [m EXCEPT !.ok = FALSE]
             r == [q EXCEPT ![n] = e]
             y == [x EXCEPT !.msgs[Len(x.msgs)].ok = FALSE]
  <1>1. Typed(x) /\ q \in Seq(Message) /\ q # << >>
    BY DEF Line, Typed
  <1>2. y = [x EXCEPT !.msgs = r]
    BY <1>1 DEF Typed, Fields
  <1> HIDE DEF y
  <1>3. n \in Nat \ {0} /\ DOMAIN q = 1..n /\ n \in 1..n /\ m \in Message
    BY <1>1
  <1>4. m.type \in {"answer", "flush"}
    OBVIOUS
  <1> HIDE DEF q, n, m
  <1>5. e \in Message /\ e.type = m.type /\ (m.type = "answer" => e.cmd = m.cmd)
        /\ (m.type = "flush" => e \in CalmMessage)
    BY <1>3, <1>4 DEF Message, CalmMessage
  <1> HIDE DEF e
  <1>6. r \in Seq(Message) /\ DOMAIN r = 1..n /\ Len(r) = n
        /\ \A k \in 1..n : r[k] = IF k = n THEN e ELSE q[k]
    BY <1>1, <1>3, <1>5 DEF n
  <1>7. \A k \in 1..n : /\ r[k].type = q[k].type
                        /\ r[k].type = "answer" => r[k].cmd = q[k].cmd
                        /\ q[k] \in CalmMessage => r[k] \in CalmMessage
    <2> TAKE k \in 1..n
    <2>1. CASE k = n
      <3>1. m \in CalmMessage => m.type = "flush"
        BY <1>3, <1>4, Letters
      <3>2. QED
        BY <1>5, <1>6, <2>1, <3>1 DEF m
    <2>2. CASE k # n
      BY <1>6, <2>2
    <2>3. QED
      BY <2>1, <2>2
  <1> HIDE DEF r
  <1>8. \A T : Count(r, T) = Count(q, T)
    <2>1. \A T : Of(r, T) = Of(q, T)
      BY <1>3, <1>6, <1>7 DEF Of
    <2>2. QED
      BY <2>1 DEF Count
  <1>9. /\ y.msgs = r /\ y.flushes = x.flushes /\ y.up = x.up /\ y.run = x.run
        /\ y.resp = x.resp /\ y.state = x.state /\ y.sub = x.sub /\ y.own = x.own
        /\ y.inq = x.inq /\ y.outs = x.outs /\ y.pool = x.pool
    BY <1>1, <1>2 DEF Typed, Fields
  <1>10. Typed(y)
    BY <1>1, <1>2, <1>6 DEF Typed, Fields
  <1>11. x.msgs = q /\ Line(x, at)
    BY DEF q
  <1>12. Counted(y)
    BY <1>8, <1>9, <1>11 DEF Line, Counted
  <1>13. Answered(y, at)
    <2>1. x.state # "ERROR" =>
            \A k \in DOMAIN r : r[k].type = "answer" => r[k].cmd = at
      BY <1>3, <1>6, <1>7, <1>11 DEF Line, Answered
    <2>2. QED
      BY <1>8, <1>9, <1>11, <2>1 DEF Line, Answered
  <1>14. OnlyAnswers(q) => OnlyAnswers(r)
    BY <1>3, <1>6, <1>7 DEF OnlyAnswers
  <1>15. Unrun(y, at) /\ Fed(y)
    BY <1>9, <1>11, <1>14 DEF Line, Unrun, Fed, Loaded
  <1>16. at = "stop" => Stopping(y)
    BY <1>3, <1>6, <1>7, <1>9, <1>11 DEF Line, Stopping, Loaded
  <1>17. at = "unload" => Unloading(y)
    <2> SUFFICES ASSUME Unloading(x), x.state # "ERROR" PROVE Unloading(y)
      BY <1>9, <1>11 DEF Line, Unloading
    <2>1. x.resp > 0 => q = << >>
      BY <1>11 DEF Unloading
    <2>2. \A k \in DOMAIN r : IF r[k].type = "answer" THEN k = Len(r) ELSE r[k] \in CalmMessage
      BY <1>3, <1>6, <1>7, <1>11 DEF Unloading, n
    <2>3. QED
      BY <1>1, <1>9, <2>1, <2>2 DEF Unloading, Loaded
  <1>18. at = "end" \/ y.state = "DEINIT" => Empty(y)
    BY <1>9, <1>11, <1>14 DEF Line, Empty
  <1>19. at = "flush" => y.state \in {"STREAMING", "ERROR"}
    BY <1>9, <1>11 DEF Line
  <1>20. Line(y, at)
    BY <1>10, <1>12, <1>13, <1>15, <1>16, <1>17, <1>18, <1>19 DEF Line
  <1>21. QED
    BY <1>9, <1>20 DEF y

(* The messages the firmware sends on its own.                             *)
LEMMA OwnMessages ==
  /\ \A b \in InBufs \cup {Eos}, ok \in BOOLEAN :
       [type |-> "etb", buf |-> b, ok |-> ok] \in Message
  /\ \A b \in OutBufs : \A pic \in Pictures : \A eos, bad \in BOOLEAN :
       Ftb(b, pic, eos, bad) \in Message
  /\ \A k \in {"fits", "resize", "tenbit"} : [type |-> "seq", kind |-> k] \in Message
  /\ [type |-> "error"] \in Message
  <1>1. \A b \in InBufs \cup {Eos}, ok \in BOOLEAN :
          [type |-> "etb", buf |-> b, ok |-> ok] \in Message
    BY DEF Message, CalmMessage
  <1>2. \A b \in OutBufs : \A pic \in Pictures : \A eos, bad \in BOOLEAN :
          Ftb(b, pic, eos, bad) \in Message
    BY DEF Message, Ftb
  <1>3. /\ \A k \in {"fits", "resize", "tenbit"} : [type |-> "seq", kind |-> k] \in Message
        /\ [type |-> "error"] \in Message
    BY DEF Message
  <1>4. QED
    BY <1>1, <1>2, <1>3

(* A decoded picture takes its input and its output buffers along.         *)
Used(x, o, d) == [x EXCEPT !.inq = Tail(@), !.outs = @ \ o, !.msgs = @ \o d]

(* Nothing else of the session changes then.                               *)
LEMMA UsedTyped ==
  ASSUME NEW x, Typed(x), x.inq # << >>, NEW o, NEW d \in Seq(Message)
  PROVE  LET y == Used(x, o, d)
         IN /\ Typed(y) /\ y.msgs = x.msgs \o d /\ y.flushes = x.flushes /\ y.up = x.up
            /\ y.run = x.run /\ y.resp = x.resp /\ y.state = x.state /\ y.sub = x.sub
            /\ y.own = x.own
  <1> DEFINE a == Tail(x.inq)
             u == x.outs \ o
             q == x.msgs \o d
             y == Used(x, o, d)
  <1>1. x.inq \in Seq(InBufs \cup {Eos}) /\ x.outs \subseteq OutBufs /\ x.msgs \in Seq(Message)
    BY DEF Typed
  <1>2. a \in Seq(InBufs \cup {Eos}) /\ u \subseteq OutBufs
    BY <1>1
  <1>3. q \in Seq(Message)
    BY <1>1, ConcatProperties
  <1>4. y = [x EXCEPT !.inq = a, !.outs = u, !.msgs = q]
    BY DEF Used
  <1> HIDE DEF a, u, q, y
  <1>5. /\ y.msgs = q /\ y.flushes = x.flushes /\ y.up = x.up
        /\ y.run = x.run /\ y.resp = x.resp /\ y.state = x.state /\ y.sub = x.sub
        /\ y.own = x.own
    BY <1>4 DEF Typed, Fields
  <1>6. Typed(y)
    BY <1>2, <1>3, <1>4 DEF Typed, Fields
  <1>7. QED
    BY <1>5, <1>6 DEF q, y

(* One message more, which the firmware may send in a state of its own.    *)
LEMMA SendTyped ==
  ASSUME NEW x, Typed(x), x.up, NEW m \in Message
  PROVE  LET y == Send(x, m)
         IN /\ Typed(y) /\ y.msgs = x.msgs \o <<m>> /\ y.flushes = x.flushes /\ y.up = x.up
            /\ y.run = x.run /\ y.resp = x.resp /\ y.state = x.state /\ y.sub = x.sub
            /\ y.own = x.own /\ y.inq = x.inq
  <1> DEFINE q == Append(x.msgs, m)
             y == Send(x, m)
  <1>1. x.msgs \in Seq(Message)
    BY DEF Typed
  <1>2. q \in Seq(Message) /\ q = x.msgs \o <<m>>
    BY <1>1, AppendIsConcat
  <1>3. y = [x EXCEPT !.msgs = q]
    BY DEF Send
  <1> HIDE DEF q, y
  <1>4. /\ y.msgs = q /\ y.flushes = x.flushes /\ y.up = x.up
        /\ y.run = x.run /\ y.resp = x.resp /\ y.state = x.state /\ y.sub = x.sub
        /\ y.own = x.own /\ y.inq = x.inq
    BY <1>3 DEF Typed, Fields
  <1>5. Typed(y)
    BY <1>2, <1>3 DEF Typed, Fields
  <1>6. QED
    BY <1>2, <1>4, <1>5 DEF y

(* The steps of the firmware, and the faults.                              *)
LEMMA WiredFirmware ==
  ASSUME Wired, Follows, Firmware \/ Fault
  PROVE  Line(s', queue'.at) /\ Listed(s', on', queue') /\ queue'.at \in Ats
  <1>1. Line(s, queue.at) /\ Listed(s, on, queue) /\ queue.at \in Ats /\ Typed(s)
    BY DEF Wired, Line
  <1>2. on' = on /\ queue' = queue
    BY DEF Firmware, FwSequence, FwPicture, FwSuperframe, FwEndOfStream, Fault, Hang,
           SessionError, Reject, Unsupported
  <1>3. ASSUME Line(s', queue.at), s'.own = s.own
        PROVE  Line(s', queue'.at) /\ Listed(s', on', queue') /\ queue'.at \in Ats
    BY <1>1, <1>2, <1>3 DEF Listed
  <1>4. ASSUME s.run, NEW d \in Seq(Message),
               \A k \in DOMAIN d : d[k].type \notin {"answer", "flush"},
               Typed(s'), s'.msgs = s.msgs \o d, s'.flushes = s.flushes, s'.up = s.up,
               s'.run = s.run, s'.resp = s.resp, s'.state = s.state, s'.sub = s.sub,
               s'.own = s.own
        PROVE  Line(s', queue'.at) /\ Listed(s', on', queue') /\ queue'.at \in Ats
    <2>1. Line(s', queue.at)
      BY <1>1, <1>4, LineSends
    <2>2. QED
      BY <1>3, <1>4, <2>1
  <1>5. s.inq # << >> => /\ Head(s.inq) \in InBufs \cup {Eos}
                         /\ Tail(s.inq) \in Seq(InBufs \cup {Eos})
    BY <1>1 DEF Typed
  <1>6. s.outs \subseteq OutBufs
    BY <1>1 DEF Typed
  <1>7. CASE SessionError
    <2> DEFINE m == [type |-> "error"]
               d == <<m>>
    <2>1. s.up /\ s.run /\ s' = Send(s, m)
      BY <1>7 DEF SessionError
    <2>2. m \in Message /\ m.type = "error"
      BY OwnMessages
    <2> HIDE DEF m
    <2>3. d \in Seq(Message) /\ \A k \in DOMAIN d : d[k].type \notin {"answer", "flush"}
      BY <2>2
    <2>4. /\ Typed(s') /\ s'.msgs = s.msgs \o d /\ s'.flushes = s.flushes /\ s'.up = s.up
          /\ s'.run = s.run /\ s'.resp = s.resp /\ s'.state = s.state /\ s'.sub = s.sub
          /\ s'.own = s.own
      BY <1>1, <2>1, <2>2, SendTyped
    <2> HIDE DEF d
    <2>5. QED
      BY <1>4, <2>1, <2>3, <2>4
  <1>8. CASE Unsupported
    <2> DEFINE m == [Etb(Head(s.inq)) EXCEPT !.ok = FALSE]
               d == <<m>>
               a == Tail(s.inq)
               y == Send(s, m)
    <2>1. s.up /\ s.run /\ s.inq # << >> /\ s' = [y EXCEPT !.inq = Tail(@)]
      BY <1>8 DEF Unsupported
    <2>2. m \in Message /\ m.type = "etb"
      <3> DEFINE e == Etb(Head(s.inq))
                 E == [type : {"etb"}, buf : InBufs \cup {Eos}, ok : BOOLEAN]
      <3>1. e \in E
        BY <1>5, <2>1 DEF Etb
      <3> HIDE DEF e
      <3>2. [e EXCEPT !.ok = FALSE] \in E /\ [e EXCEPT !.ok = FALSE].type = "etb"
        BY <3>1
      <3>3. E \subseteq Message
        BY DEF Message, CalmMessage
      <3>4. QED
        BY <3>2, <3>3 DEF e
    <2> HIDE DEF m
    <2>3. d \in Seq(Message) /\ \A k \in DOMAIN d : d[k].type \notin {"answer", "flush"}
      BY <2>2
    <2>4. /\ Typed(y) /\ y.msgs = s.msgs \o d /\ y.flushes = s.flushes /\ y.up = s.up
          /\ y.run = s.run /\ y.resp = s.resp /\ y.state = s.state /\ y.sub = s.sub
          /\ y.own = s.own /\ y.inq = s.inq
      BY <1>1, <2>1, <2>2, SendTyped
    <2>5. s' = [y EXCEPT !.inq = a] /\ a \in Seq(InBufs \cup {Eos})
      BY <1>5, <2>1, <2>4
    <2> HIDE DEF a, y
    <2>6. /\ s'.msgs = y.msgs /\ s'.flushes = y.flushes /\ s'.up = y.up
          /\ s'.run = y.run /\ s'.resp = y.resp /\ s'.state = y.state /\ s'.sub = y.sub
          /\ s'.own = y.own
      BY <2>4, <2>5 DEF Typed, Fields
    <2>7. Typed(s')
      BY <2>4, <2>5 DEF Typed, Fields
    <2> HIDE DEF d
    <2>8. /\ s'.msgs = s.msgs \o d /\ s'.flushes = s.flushes /\ s'.up = s.up
          /\ s'.run = s.run /\ s'.resp = s.resp /\ s'.state = s.state /\ s'.sub = s.sub
          /\ s'.own = s.own
      BY <2>4, <2>6
    <2>9. QED
      BY <1>4, <2>1, <2>3, <2>7, <2>8
  <1>9. CASE FwSequence
    <2>1. PICK k \in {"fits", "resize", "tenbit"} :
            s' = [Send(s, [type |-> "seq", kind |-> k])
                    EXCEPT !.paused = TRUE, !.parsed = TRUE]
      BY <1>9 DEF FwSequence
    <2> DEFINE m == [type |-> "seq", kind |-> k]
               d == <<m>>
               y == Send(s, m)
    <2>2. s.up /\ s.run
      BY <1>9 DEF FwSequence, FwReady
    <2>3. m \in Message /\ m.type = "seq"
      BY OwnMessages
    <2>4. s' = [y EXCEPT !.paused = TRUE, !.parsed = TRUE]
      BY <2>1
    <2> HIDE DEF m
    <2>5. d \in Seq(Message) /\ \A j \in DOMAIN d : d[j].type \notin {"answer", "flush"}
      BY <2>3
    <2>6. /\ Typed(y) /\ y.msgs = s.msgs \o d /\ y.flushes = s.flushes /\ y.up = s.up
          /\ y.run = s.run /\ y.resp = s.resp /\ y.state = s.state /\ y.sub = s.sub
          /\ y.own = s.own
      BY <1>1, <2>2, <2>3, SendTyped
    <2> HIDE DEF y
    <2>7. /\ s'.msgs = y.msgs /\ s'.flushes = y.flushes /\ s'.up = y.up
          /\ s'.run = y.run /\ s'.resp = y.resp /\ s'.state = y.state /\ s'.sub = y.sub
          /\ s'.own = y.own
      BY <2>4, <2>6 DEF Typed, Fields
    <2>8. Typed(s')
      BY <2>4, <2>6 DEF Typed, Fields
    <2> HIDE DEF d
    <2>9. /\ s'.msgs = s.msgs \o d /\ s'.flushes = s.flushes /\ s'.up = s.up
          /\ s'.run = s.run /\ s'.resp = s.resp /\ s'.state = s.state /\ s'.sub = s.sub
          /\ s'.own = s.own
      BY <2>6, <2>7
    <2>10. QED
      BY <1>4, <2>2, <2>5, <2>8, <2>9
  (* What an access unit returns: its input, and one output or two. *)
  <1>10. ASSUME NEW o, NEW d \in Seq(Message), s.run, s.inq # << >>,
                \A k \in DOMAIN d : d[k].type \in {"etb", "ftb"},
                s' = [s EXCEPT !.inq = Tail(@), !.outs = @ \ o, !.msgs = @ \o d]
         PROVE  Line(s', queue'.at) /\ Listed(s', on', queue') /\ queue'.at \in Ats
    <2>1. /\ Typed(s') /\ s'.msgs = s.msgs \o d /\ s'.flushes = s.flushes /\ s'.up = s.up
          /\ s'.run = s.run /\ s'.resp = s.resp /\ s'.state = s.state /\ s'.sub = s.sub
          /\ s'.own = s.own
      <3>1. Typed(s) /\ s.inq # << >> /\ d \in Seq(Message)
        BY <1>1, <1>10
      <3>2. s' = Used(s, o, d)
        BY <1>10 DEF Used
      <3>3. QED
        BY <3>1, <3>2, UsedTyped
    <2>2. \A k \in DOMAIN d : d[k].type \notin {"answer", "flush"}
      BY <1>10
    <2>3. QED
      BY <1>4, <1>10, <2>1, <2>2
  <1>11. \A b \in InBufs \cup {Eos} : Etb(b) \in Message /\ Etb(b).type = "etb"
    BY OwnMessages DEF Etb
  <1>12. \A b \in OutBufs : \A pic \in Pictures : \A eos, bad \in BOOLEAN :
           Ftb(b, pic, eos, bad) \in Message /\ Ftb(b, pic, eos, bad).type = "ftb"
    BY OwnMessages DEF Ftb
  <1>13. ASSUME NEW e, NEW f, e \in Message, f \in Message, e.type = "etb", f.type = "ftb"
         PROVE  /\ <<e, f>> \in Seq(Message)
                /\ \A k \in DOMAIN <<e, f>> : <<e, f>>[k].type \in {"etb", "ftb"}
    BY <1>13
  <1>14. CASE FwPicture
    <2>1. s.run /\ s.inq # << >>
      BY <1>14 DEF FwPicture, FwReady
    <2>2. PICK b \in s.outs, bad \in BOOLEAN :
            s' = [s EXCEPT !.inq = Tail(@), !.outs = @ \ {b},
                           !.msgs = @ \o <<Etb(Head(s.inq)), Ftb(b, "single", FALSE, bad)>>]
      BY <1>14 DEF FwPicture
    <2> DEFINE e == Etb(Head(s.inq))
               f == Ftb(b, "single", FALSE, bad)
               d == <<e, f>>
               o == {b}
    <2>3. e \in Message /\ f \in Message /\ e.type = "etb" /\ f.type = "ftb"
      BY <1>5, <1>6, <1>11, <1>12, <2>1 DEF Pictures
    <2>4. s' = [s EXCEPT !.inq = Tail(@), !.outs = @ \ o, !.msgs = @ \o d]
      BY <2>2
    <2> HIDE DEF e, f, o
    <2>5. d \in Seq(Message) /\ \A k \in DOMAIN d : d[k].type \in {"etb", "ftb"}
      BY <1>13, <2>3
    <2> HIDE DEF d
    <2>6. QED
      BY <1>10, <2>1, <2>4, <2>5
  <1>15. CASE FwEndOfStream
    <2>1. s.run /\ s.inq # << >>
      BY <1>15 DEF FwEndOfStream, FwReady
    <2>2. PICK b \in s.outs :
            s' = [s EXCEPT !.inq = Tail(@), !.outs = @ \ {b},
                           !.msgs = @ \o <<Etb(Eos), Ftb(b, "empty", TRUE, FALSE)>>]
      BY <1>15 DEF FwEndOfStream
    <2> DEFINE e == Etb(Eos)
               f == Ftb(b, "empty", TRUE, FALSE)
               d == <<e, f>>
               o == {b}
    <2>3. e \in Message /\ f \in Message /\ e.type = "etb" /\ f.type = "ftb"
      BY <1>6, <1>11, <1>12 DEF Pictures
    <2>4. s' = [s EXCEPT !.inq = Tail(@), !.outs = @ \ o, !.msgs = @ \o d]
      BY <2>2
    <2> HIDE DEF e, f, o
    <2>5. d \in Seq(Message) /\ \A k \in DOMAIN d : d[k].type \in {"etb", "ftb"}
      BY <1>13, <2>3
    <2> HIDE DEF d
    <2>6. QED
      BY <1>10, <2>1, <2>4, <2>5
  <1>16. CASE FwSuperframe
    <2>1. s.run /\ s.inq # << >>
      BY <1>16 DEF FwSuperframe, FwReady
    <2>2. PICK b \in s.outs : \E c \in s.outs \ {b} :
            s' = [s EXCEPT !.inq = Tail(@), !.outs = @ \ {b, c},
                           !.msgs = @ \o <<Etb(Head(s.inq)), Ftb(b, "hidden", FALSE, FALSE),
                                           Ftb(c, "second", FALSE, FALSE)>>]
      BY <1>16 DEF FwSuperframe
    <2>3. PICK c \in s.outs \ {b} :
            s' = [s EXCEPT !.inq = Tail(@), !.outs = @ \ {b, c},
                           !.msgs = @ \o <<Etb(Head(s.inq)), Ftb(b, "hidden", FALSE, FALSE),
                                           Ftb(c, "second", FALSE, FALSE)>>]
      BY <2>2
    <2> DEFINE e == Etb(Head(s.inq))
               f == Ftb(b, "hidden", FALSE, FALSE)
               g == Ftb(c, "second", FALSE, FALSE)
               d == <<e, f, g>>
               o == {b, c}
    <2>4. e \in Message /\ f \in Message /\ e.type = "etb" /\ f.type = "ftb"
      BY <1>5, <1>6, <1>11, <1>12, <2>1 DEF Pictures
    <2>5. g \in Message /\ g.type = "ftb"
      BY <1>6, <1>12 DEF Pictures
    <2>6. s' = [s EXCEPT !.inq = Tail(@), !.outs = @ \ o, !.msgs = @ \o d]
      BY <2>3
    <2> HIDE DEF e, f, g, o
    <2>7. d \in Seq(Message) /\ \A k \in DOMAIN d : d[k].type \in {"etb", "ftb"}
      BY <2>4, <2>5
    <2> HIDE DEF d
    <2>8. QED
      BY <1>10, <2>1, <2>6, <2>7
  <1>17. CASE Hang
    <2>1. s' = [s EXCEPT !.up = FALSE]
      BY <1>17 DEF Hang
    <2>2. /\ s'.msgs = s.msgs /\ s'.flushes = s.flushes /\ ~s'.up /\ s'.run = s.run
          /\ s'.resp = s.resp /\ s'.state = s.state /\ s'.sub = s.sub /\ s'.own = s.own
          /\ s'.inq = s.inq /\ s'.outs = s.outs /\ s'.pool = s.pool
      BY <1>1, <2>1 DEF Typed, Fields
    <2>3. Typed(s')
      BY <1>1, <2>1 DEF Typed, Fields
    <2>4. Counted(s') /\ Answered(s', queue.at)
      BY <1>1, <2>2 DEF Line, Counted, Answered
    <2>5. Unrun(s', queue.at) /\ Fed(s')
          /\ (queue.at = "stop" => Stopping(s')) /\ (queue.at = "unload" => Unloading(s'))
          /\ (queue.at = "end" \/ s'.state = "DEINIT" => Empty(s'))
      BY <1>1, <2>2 DEF Line, Unrun, Fed, Loaded, Stopping, Unloading, Empty
    <2>6. Line(s', queue.at)
      BY <1>1, <2>2, <2>3, <2>4, <2>5 DEF Line
    <2>7. QED
      BY <1>3, <2>2, <2>6
  <1>18. CASE Reject
    <2>1. /\ s.msgs # << >> /\ s.msgs[Len(s.msgs)].type \in {"answer", "flush"}
          /\ s' = [s EXCEPT !.msgs[Len(s.msgs)].ok = FALSE]
      BY <1>18 DEF Reject, Last
    <2>2. QED
      BY <1>1, <1>3, <2>1, LineRejects
  <1>19. QED
    BY <1>7, <1>8, <1>9, <1>14, <1>15, <1>16, <1>17, <1>18 DEF Firmware, Fault

-----------------------------------------------------------------------------
(* The messages under way, the waits and the buffers of an instance keep   *)
(* to the line at every point of every call and message.                   *)
LEMMA WiredNext ==
  ASSUME Wired, Follows, [Next]_vars
  PROVE  Wired'
  <1>1. Line(s', queue'.at) /\ Listed(s', on', queue') /\ queue'.at \in Ats
    <2>1. CASE UNCHANGED vars
      BY <2>1 DEF vars, Wired
    <2>2. CASE Client
      BY <2>2, WiredClient, WiredOn, WiredOff DEF Client
    <2>3. CASE Driver
      BY <2>3, WiredClient, WiredOn, WiredOff DEF Driver
    <2>4. CASE Interrupt \/ Firmware \/ Fault
      BY <2>4, WiredInterrupt, WiredFirmware
    <2>5. QED
      BY <2>1, <2>2, <2>3, <2>4 DEF Next
  <1>2. codec' = codec
    <2>1. CASE UNCHANGED vars
      BY <2>1 DEF vars
    <2>2. CASE Client
      BY <2>2 DEF Client, QBuf, QBufEmpty, StreamOn, StreamOff, DecoderStop, DecoderStart,
                  Others
    <2>3. CASE Driver
      BY <2>3 DEF Driver, Enqueue, StartStreaming, PropsAnswered, LoadAnswered,
                  StartAnswered, ConfigAnswered, ReleaseAnswered, StreamonExpires,
                  ReleaseExpires, StopStreaming, FlushAnswered, FlushExpires, StopEnds,
                  UnloadEnds, EndAnswered, EndExpires, DecoderStartWakes, Others
    <2>4. CASE Interrupt \/ Firmware \/ Fault
      BY <2>4 DEF Interrupt, Firmware, FwSequence, FwPicture, FwSuperframe, FwEndOfStream,
                  Fault, Hang, SessionError, Reject, Unsupported
    <2>5. QED
      BY <2>1, <2>2, <2>3, <2>4 DEF Next
  <1>3. command' \in {"idle", "flush"}
    <2>1. CASE UNCHANGED vars
      BY <2>1 DEF vars, Wired
    <2>2. CASE Client
      BY <2>2 DEF Client, QBuf, QBufEmpty, StreamOn, StreamOff, DecoderStop, DecoderStart,
                  Others, Wired
    <2>3. CASE Driver
      BY <2>3 DEF Driver, Enqueue, StartStreaming, PropsAnswered, LoadAnswered,
                  StartAnswered, ConfigAnswered, ReleaseAnswered, StreamonExpires,
                  ReleaseExpires, StopStreaming, FlushAnswered, FlushExpires, StopEnds,
                  UnloadEnds, EndAnswered, EndExpires, DecoderStartWakes, Others, Wired
    <2>4. CASE Interrupt \/ Firmware \/ Fault
      BY <2>4 DEF Interrupt, Firmware, FwSequence, FwPicture, FwSuperframe, FwEndOfStream,
                  Fault, Hang, SessionError, Reject, Unsupported, Wired
    <2>5. QED
      BY <2>1, <2>2, <2>3, <2>4 DEF Next
  <1>4. QED
    BY <1>1, <1>2, <1>3 DEF Wired

(* It holds of a device that was just opened.                              *)
LEMMA WiredInit == Init => Wired
  <1> SUFFICES ASSUME Init PROVE Wired
    OBVIOUS
  <1>1. s = Closed /\ on = {} /\ queue = Idle /\ command = "idle" /\ codec \in Codecs
    BY DEF Init
  <1>2. MaxDrops \in Nat /\ MaxDone \in Nat
    BY StreamAssumption
  <1>3. << >> \in Seq(Message) /\ << >> \in Seq(InBufs \cup {Eos})
    OBVIOUS
  <1>4. /\ s.state = "DEINIT" /\ s.sub = {} /\ s.flushes = 0 /\ s.resp = 0
        /\ ~s.run /\ s.inq = << >> /\ s.outs = {} /\ s.pool = 0 /\ s.msgs = << >>
        /\ s.own = [b \in Bufs |-> "user"]
    BY <1>1 DEF Closed
  <1>5. Typed(s)
    <2>1. DOMAIN s = Fields
      BY <1>1 DEF Closed, Fields
    <2>2. /\ s.attr = [b \in Bufs |-> "none"] /\ s.held = None /\ s.drops = 0 /\ s.flushed = 0
          /\ s.dpb = [host |-> 0, deferred |-> 0, queued |-> 0]
          /\ s.last = FALSE /\ s.stopped = FALSE /\ s.off = FALSE /\ s.known = FALSE
          /\ s.changed = FALSE /\ s.up = TRUE /\ s.run = FALSE /\ s.parsed = FALSE
          /\ s.paused = FALSE
      BY <1>1 DEF Closed
    <2>3. /\ s.own \in [Bufs -> {"user", "prepared", "active"}]
          /\ s.attr \in [Bufs -> {"none", "deferred", "queued", "done"}]
      BY <1>4, <2>2
    <2>4. s.dpb \in [host : Nat, deferred : Nat, queued : Nat]
      BY <2>2
    <2>5. s.drops \in 0..MaxDrops /\ s.resp \in 0..MaxDone
      BY <1>2, <1>4, <2>2
    <2>6. s.inq \in Seq(InBufs \cup {Eos}) /\ s.msgs \in Seq(Message)
      BY <1>3, <1>4
    <2>7. /\ s.state \in States /\ s.sub \subseteq SubStates /\ s.flushes \in Int
          /\ s.held \in OutBufs \cup {None} /\ s.flushed \in Nat
          /\ s.outs \subseteq OutBufs /\ s.pool \in Nat
      BY <1>4, <2>2 DEF States
    <2>8. /\ s.last \in BOOLEAN /\ s.stopped \in BOOLEAN /\ s.off \in BOOLEAN
          /\ s.known \in BOOLEAN /\ s.changed \in BOOLEAN /\ s.up \in BOOLEAN
          /\ s.run \in BOOLEAN /\ s.parsed \in BOOLEAN /\ s.paused \in BOOLEAN
      BY <2>2
    <2>9. QED
      BY <2>1, <2>3, <2>4, <2>5, <2>6, <2>7, <2>8 DEF Typed
  <1>6. Counted(s) /\ Answered(s, "idle")
    <2>1. Count(s.msgs, "flush") = 0 /\ Count(s.msgs, "answer") = 0
      BY <1>4, CountNone
    <2>2. \A k \in DOMAIN s.msgs : FALSE
      BY <1>4
    <2>3. Counted(s)
      BY <1>4, <2>1 DEF Counted
    <2>4. "idle" \notin Asking
      BY DEF Asking, Waits
    <2>5. QED
      BY <1>4, <2>1, <2>2, <2>3, <2>4 DEF Answered
  <1>7. Empty(s) /\ Unrun(s, "idle") /\ Fed(s)
    <2>1. \A k \in DOMAIN s.msgs : FALSE
      BY <1>4
    <2>2. QED
      BY <1>4, <2>1 DEF Empty, Unrun, Fed, OnlyAnswers
  <1>8. Line(s, "idle")
    BY <1>4, <1>5, <1>6, <1>7 DEF Line
  <1>9. Listed(s, on, queue)
    BY <1>4 DEF Listed
  <1>10. QED
    BY <1>1, <1>8, <1>9 DEF Wired, Idle, Ats

(* And for good.                                                           *)
LEMMA WiredAlways == Spec => []Wired
  <1>1. Init => Wired
    BY WiredInit
  <1>2. Wired /\ Follows /\ [Next]_vars => Wired'
    BY WiredNext
  <1>3. QED
    BY <1>1, <1>2, StateFollows, PTL DEF Spec

(* Every variable keeps its type: flush_responses_pending is decremented   *)
(* by every FLUSH answer without a test and never goes below zero.         *)
THEOREM TypeCorrect == Spec => []TypeOK
  <1>1. Wired /\ Follows => TypeOK
    <2> SUFFICES ASSUME Wired, Follows PROVE TypeOK
      OBVIOUS
    <2>1. Typed(s) /\ Counted(s) /\ s.msgs \in Seq(Message)
      BY DEF Wired, Line, Typed
    <2>2. s.flushes \in Nat
      <3>1. Count(s.msgs, "flush") \in Nat
        BY <2>1, CountSteps
      <3>2. QED
        BY <2>1, <3>1 DEF Typed, Counted
    <2>3. codec \in Codecs /\ on \subseteq Planes /\ queue.plane \in Planes
          /\ queue.at \in Waits \cup {"idle", "enqueue", "off"} /\ command \in {"idle", "flush"}
      BY DEF Wired, Follows, Ats
    <2>4. QED
      BY <2>1, <2>2, <2>3 DEF Typed, TypeOK
  <1>2. QED
    BY <1>1, WiredAlways, StateFollows, PTL

(* flush_responses_pending is the number of FLUSH answers still to come,   *)
(* whoever asked for the flushes: a drain, a source change, a STREAMOFF.   *)
THEOREM FlushesCounted == Spec => []FlushCounted
  <1>1. Wired => FlushCounted
    BY DEF Wired, Line, Counted, FlushCounted, Count, Of, Messages
  <1>2. QED
    BY <1>1, WiredAlways, PTL

(* Until the instance fails, exactly one answer is out or taken while a    *)
(* thread waits for one, and it is the answer to the command it sent: a    *)
(* late answer never completes the wait of a later command.                *)
THEOREM AnswersPair == Spec => []AnswersMatch
  <1>1. Wired => AnswersMatch
    BY DEF Wired, Line, Answered, AnswersMatch, Working, Answering, Asking, Count, Of,
           Messages
  <1>2. QED
    BY <1>1, WiredAlways, PTL

(* A session that is closed has left nothing behind: the firmware has no   *)
(* buffer of it, and no buffer is on a list of vb2.                        *)
THEOREM Closes == Spec => []ClosedEmpty
  <1>1. Wired /\ Follows => ClosedEmpty
    <2> SUFFICES ASSUME Wired, Follows, s.state = "DEINIT", queue.at = "idle"
                 PROVE  /\ s.inq = <<>> /\ s.outs = {} /\ s.pool = 0
                        /\ \A b \in Bufs : s.own[b] # "active"
      BY DEF ClosedEmpty
    <2>1. Empty(s)
      BY DEF Wired, Line
    <2>2. on = {}
      <3>1. Fits("DEINIT", on) /\ on \in SUBSET Planes
        BY DEF Follows, Placed
      <3>2. on \in {{}, {"OUTPUT"}, {"CAPTURE"}, Planes}
        BY <3>1 DEF Planes
      <3>3. QED
        BY <3>1, <3>2 DEF Fits
    <2>3. QED
      BY <2>1, <2>2 DEF Empty, Wired, Listed
  <1>2. QED
    BY <1>1, WiredAlways, StateFollows, PTL

-----------------------------------------------------------------------------
(* The pool of DPBs.  While the session serves: what the host counts as    *)
(* the firmware's is there or on its way back, one pool exists, and none   *)
(* is with the firmware unless both planes stream.  What is on its way     *)
(* back has the answer to its flush behind it.                             *)
Dpbs(x) == Count(x.msgs, "dpb")

Serves(x) == x.state # "ERROR"

Has(x) == x.dpb.host + x.dpb.deferred + x.dpb.queued > 0

Behind(q) ==
  \A k \in DOMAIN q : q[k].type = "dpb" =>
    \E j \in DOMAIN q : j > k /\ q[j].type = "flush"

Pooled(x) ==
  Serves(x) =>
    /\ x.dpb.queued = x.pool + Dpbs(x)
    /\ x.dpb.host + x.dpb.deferred + x.dpb.queued <= 1
    /\ x.state # "STREAMING" => x.dpb.queued = 0
    /\ x.flushed > 0 => x.flushes = 0
    /\ Behind(x.msgs)

(* In the wait of a STREAMOFF for its flush: the pool is on its way back,  *)
(* or an answer is missing and the wait will not be completed.             *)
Flushing(x) == Serves(x) => x.pool = 0 \/ x.flushes > Count(x.msgs, "flush")

(* No session revives, and none loses its pool.                            *)
Leaves(x, y) == Serves(y) => Serves(x) /\ (Has(x) => Has(y))

(* A step that has nothing to do with the pool, and never leaves STREAMING *)
(* but to fail.                                                            *)
Aside(x, y) ==
  DOMAIN x = Fields =>
    /\ DOMAIN y = Fields
    /\ y.dpb = x.dpb /\ y.pool = x.pool /\ y.msgs = x.msgs
    /\ y.flushes = x.flushes /\ y.flushed = x.flushed
    /\ y.state # "ERROR" => x.state # "ERROR" /\ (x.state = "STREAMING" => y.state = "STREAMING")

(* A step of the interrupt thread, which a STREAMOFF may be waiting for.   *)
Pours(x, y) ==
  Typed(x) => /\ Typed(y) /\ Leaves(x, y) /\ (Pooled(x) => Pooled(y))
              /\ Flushing(x) => Flushing(y)

(* Such steps compose, and leave the pool as it is.                        *)
LEMMA ComposeAside ==
  /\ \A x : Aside(x, x)
  /\ \A x, y, z : Aside(x, y) /\ Aside(y, z) => Aside(x, z)
  BY DEF Aside

LEMMA ComposePours ==
  /\ \A x : Pours(x, x)
  /\ \A x, y, z : Pours(x, y) /\ Pours(y, z) => Pours(x, z)
  BY DEF Pours, Leaves

LEMMA AsidePools ==
  \A x, y : Aside(x, y) /\ DOMAIN x = Fields =>
    /\ DOMAIN y = Fields /\ Leaves(x, y)
    /\ Pooled(x) => Pooled(y)
    /\ Flushing(x) => Flushing(y)
  BY DEF Aside, Pooled, Flushing, Leaves, Has, Serves, Dpbs

LEMMA AsidePours ==
  \A x, y : Aside(x, y) /\ (Typed(x) => Typed(y)) => Pours(x, y)
  <1> SUFFICES ASSUME NEW x, NEW y, Aside(x, y), Typed(x) => Typed(y), Typed(x)
               PROVE  /\ Typed(y) /\ Leaves(x, y) /\ (Pooled(x) => Pooled(y))
                      /\ Flushing(x) => Flushing(y)
    BY DEF Pours
  <1>1. DOMAIN x = Fields
    BY DEF Typed
  <1>2. QED
    BY <1>1, AsidePools

(* State and sub-state.                                                    *)
LEMMA StateAside ==
  ASSUME NEW x
  PROVE  /\ Aside(x, Fail(x)) /\ Aside(x, SubChangeDrc(x))
         /\ Aside(x, SubChangeDrainLast(x)) /\ Aside(x, SubChangeDrcLast(x))
         /\ \A p \in Planes : Aside(x, StateChangeStreamon(x, p))
         /\ \A clear, set : Aside(x, ChangeSub(x, clear, set))
  <1>1. \A clear, set : Aside(x, ChangeSub(x, clear, set))
    BY DEF Aside, ChangeSub, Fields
  <1>2. Aside(x, x)
    BY ComposeAside
  <1>3. \A to : (x.state = "STREAMING" => to = "ERROR") => Aside(x, ChangeState(x, to))
    BY DEF Aside, Fields, ChangeState, ChangeStateOk
  <1>4. Aside(x, Fail(x))
    BY <1>3 DEF Fail
  <1>5. \A p \in Planes : Aside(x, StateChangeStreamon(x, p))
    BY <1>3 DEF StateChangeStreamon, StreamonTarget
  <1>6. Aside(x, SubChangeDrc(x))
    BY <1>1, <1>2 DEF SubChangeDrc
  <1>7. Aside(x, SubChangeDrainLast(x)) /\ Aside(x, SubChangeDrcLast(x))
    BY <1>1, <1>2 DEF SubChangeDrainLast, SubChangeDrcLast
  <1>8. QED
    BY <1>1, <1>4, <1>5, <1>6, <1>7

(* Buffers handed over, either way.                                        *)
LEMMA BufferAside ==
  ASSUME NEW x
  PROVE  /\ \A b : Aside(x, QueueBuffer(x, b))
         /\ \A p : Aside(x, QueueDeferred(x, p))
         /\ \A p, to : Aside(x, BuffersDone(x, p, to))
         /\ \A p, r : Aside(x, FlushDeferred(x, p, r))
         /\ \A b, what : Aside(x, DoneCapture(x, b, what))
         /\ Aside(x, Restarted(x)) /\ Aside(x, FwContinue(x))
  <1>1. \A b : Aside(x, QueueBuffer(x, b))
    BY DEF Aside, Fields, QueueBuffer
  <1>2. \A p : Aside(x, QueueDeferred(x, p))
    <2>1. \A a, b, c : Aside(x, [x EXCEPT !.attr = a, !.inq = b, !.outs = c])
      BY DEF Aside, Fields
    <2>2. QED
      BY <2>1 DEF QueueDeferred
  <1>3. \A a : Aside(x, [x EXCEPT !.own = a])
    BY DEF Aside, Fields
  <1>4. \A p, to : Aside(x, BuffersDone(x, p, to))
    BY <1>3 DEF BuffersDone
  <1>5. \A p, r : Aside(x, FlushDeferred(x, p, r))
    BY <1>3 DEF FlushDeferred
  <1>6. \A b, what : Aside(x, DoneCapture(x, b, what))
    BY DEF Aside, Fields, DoneCapture
  <1>7. Aside(x, Restarted(x)) /\ Aside(x, FwContinue(x))
    BY DEF Aside, Fields, Restarted, FwContinue
  <1>8. QED
    BY <1>1, <1>2, <1>4, <1>5, <1>6, <1>7

(* A flush sent: the pool comes back, with an answer behind it.            *)
LEMMA FlushPools ==
  ASSUME NEW x, Typed(x), NEW all \in BOOLEAN
  PROVE  /\ Pooled(x) /\ x.flushed = 0 => Pooled(SendFlush(x, all))
         /\ Flushing(x) \/ Counted(x) => Flushing(SendFlush(x, all))
         /\ Leaves(x, SendFlush(x, all))
  <1> DEFINE g == SendFlush(x, all)
  <1>1. /\ x.msgs \in Seq(Message) /\ x.outs \in SUBSET OutBufs
        /\ x.pool \in Nat /\ x.inq \in Seq(InBufs \cup {Eos})
    BY DEF Typed
  <1>2. g.up = x.up
    BY FlushStirs DEF Stirs, Tame
  <1>3. CASE ~x.up
    <2>1. g = [x EXCEPT !.flushes = @ + 1]
      BY <1>3 DEF SendFlush, FwFlush
    <2>2. /\ g.flushes = x.flushes + 1 /\ g.msgs = x.msgs /\ g.pool = x.pool
          /\ g.dpb = x.dpb /\ g.state = x.state /\ g.flushed = x.flushed
      BY <2>1 DEF Typed, Fields
    <2>3. x.flushes \in Int /\ Count(x.msgs, "flush") \in Nat
      BY <1>1, CountSteps DEF Typed
    <2> HIDE DEF g
    <2>4. Pooled(x) /\ x.flushed = 0 => Pooled(g)
      BY <2>2 DEF Pooled, Serves, Dpbs
    <2>5. Flushing(x) \/ Counted(x) => Flushing(g)
      BY <2>2, <2>3 DEF Flushing, Counted, Serves
    <2>6. Leaves(x, g)
      BY <2>2 DEF Leaves, Has, Serves
    <2>7. QED
      BY <2>4, <2>5, <2>6 DEF g
  <1>4. CASE x.up
    <2> DEFINE n == Cardinality(x.outs)
               b == [k \in 1..n |-> Ftb(SetToSeq(x.outs)[k], "empty", FALSE, FALSE)]
               c == [k \in 1..x.pool |-> DpbDone]
               a == IF all THEN [k \in DOMAIN x.inq |-> Etb(x.inq[k])] ELSE << >>
               l == [type |-> "flush", ok |-> TRUE]
               e == <<l>>
               q == IF all THEN << >> ELSE x.inq
    <2>1. g = [[x EXCEPT !.msgs = (((@ \o a) \o b) \o c) \o e, !.outs = {}, !.pool = 0,
                         !.inq = q]
                 EXCEPT !.flushes = @ + 1]
      BY <1>4 DEF SendFlush, FwFlush
    <2>2. a \in Seq(Message) /\ Count(a, "dpb") = 0
      <3>1. CASE all
        <4> DEFINE h == [k \in DOMAIN x.inq |-> Etb(x.inq[k])]
        <4>1. \A k \in DOMAIN x.inq : Etb(x.inq[k]) \in Message
                                      /\ Etb(x.inq[k]).type # "dpb"
          <5>1. \A k \in DOMAIN x.inq : x.inq[k] \in InBufs \cup {Eos}
            BY <1>1
          <5>2. \A o \in InBufs \cup {Eos} : Etb(o) \in Message /\ Etb(o).type # "dpb"
            BY DEF Etb, CalmMessage, Message
          <5>3. QED
            BY <5>1, <5>2
        <4>2. DOMAIN x.inq = 1..Len(x.inq) /\ Len(x.inq) \in Nat
          BY <1>1
        <4>3. h \in Seq(Message) /\ \A k \in DOMAIN h : h[k].type # "dpb"
          <5>1. h \in [1..Len(x.inq) -> Message]
            BY <4>1, <4>2
          <5>2. QED
            BY <4>1, <4>2, <5>1
        <4> HIDE DEF h
        <4>4. Count(h, "dpb") = 0
          BY <4>3, CountFree
        <4>5. a = h
          BY <3>1 DEF h
        <4> HIDE DEF a
        <4>6. QED
          BY <4>3, <4>4, <4>5
      <3>2. CASE ~all
        BY <3>2, CountNone
      <3>3. QED
        BY <3>1, <3>2
    <2>3. b \in Seq(Message) /\ Count(b, "dpb") = 0
      <3>1. IsFiniteSet(x.outs)
        BY <1>1, FS_Subset, StreamAssumption
      <3>2. SetToSeq(x.outs) \in Seq(x.outs) /\ Len(SetToSeq(x.outs)) = n /\ n \in Nat
        BY <3>1, Listing
      <3>3. \A k \in 1..n : SetToSeq(x.outs)[k] \in OutBufs
        BY <1>1, <3>2
      <3>4. \A k \in 1..n : b[k] \in Message /\ b[k].type # "dpb"
        BY <3>3 DEF Ftb, CalmMessage, Message, Pictures
      <3>5. b \in [1..n -> Message]
        BY <3>4
      <3> HIDE DEF b
      <3>6. b \in Seq(Message) /\ DOMAIN b = 1..n
        BY <3>2, <3>5
      <3>7. QED
        BY <3>4, <3>6, CountFree
    <2>4. c \in Seq(Message) /\ Count(c, "dpb") = x.pool
      <3>1. \A k \in 1..x.pool : c[k] \in Message /\ c[k].type = "dpb"
        BY DEF DpbDone, CalmMessage, Message
      <3>2. c \in [1..x.pool -> Message]
        BY <3>1
      <3> HIDE DEF c
      <3>3. c \in Seq(Message) /\ DOMAIN c = 1..x.pool
        BY <1>1, <3>2
      <3>4. Of(c, "dpb") = 1..x.pool
        BY <3>1, <3>3 DEF Of
      <3>5. Cardinality(1..x.pool) = x.pool
        BY <1>1, FS_Interval
      <3>6. QED
        BY <3>3, <3>4, <3>5 DEF Count
    <2>5. l \in Message /\ l.type = "flush"
      BY DEF CalmMessage, Message
    <2> HIDE DEF a, b, c, l, q
    <2>6. e \in Seq(Message) /\ Count(e, "dpb") = 0 /\ Len(e) = 1 /\ e[1] = l
      BY <2>5, CountOne
    <2> HIDE DEF e
    <2> DEFINE xa == x.msgs \o a
               xb == xa \o b
               xc == xb \o c
               r == xc \o e
    <2>7. xa \in Seq(Message) /\ Count(xa, "dpb") = Dpbs(x) /\ Dpbs(x) \in Nat
      BY <1>1, <2>2, CountJoined DEF Dpbs
    <2> HIDE DEF xa
    <2>8. xb \in Seq(Message) /\ Count(xb, "dpb") = Dpbs(x)
      BY <2>3, <2>7, CountJoined
    <2> HIDE DEF xb
    <2>9. xc \in Seq(Message) /\ Count(xc, "dpb") = Dpbs(x) + x.pool
      BY <1>1, <2>4, <2>7, <2>8, CountJoined
    <2> HIDE DEF xc
    <2>10. r \in Seq(Message) /\ Count(r, "dpb") = Dpbs(x) + x.pool
           /\ Len(r) = Len(xc) + 1 /\ r[Len(r)] = l
      <3>1. Count(r, "dpb") = Count(xc, "dpb") + 0
        BY <2>6, <2>9, CountJoined
      <3>2. Len(r) = Len(xc) + 1 /\ r[Len(xc) + 1] = e[1]
        <4>1. Len(r) = Len(xc) + Len(e) /\ 1 \in 1..Len(e)
          <5>1. \A u \in Seq(Message), v \in Seq(Message) : Len(u \o v) = Len(u) + Len(v)
            BY ConcatProperties
          <5>2. xc \in Seq(Message) /\ e \in Seq(Message)
            BY <2>6, <2>9
          <5>3. Len(r) = Len(xc) + Len(e)
            BY <5>1, <5>2, Zenon
          <5>4. QED
            BY <2>6, <5>3
        <4>2. \A k \in 1..Len(e) : r[Len(xc) + k] = e[k]
          BY <2>6, <2>9, ConcatProperties
        <4> HIDE DEF r
        <4>3. QED
          BY <2>6, <4>1, <4>2
      <3>3. QED
        BY <1>1, <2>6, <2>7, <2>9, <3>1, <3>2
    <2> HIDE DEF r
    <2>11. g = [[x EXCEPT !.msgs = r, !.outs = {}, !.pool = 0, !.inq = q]
                  EXCEPT !.flushes = @ + 1]
      BY <2>1 DEF xa, xb, xc, r
    <2>12. /\ g.msgs = r /\ g.pool = 0 /\ g.dpb = x.dpb /\ g.state = x.state
           /\ g.flushed = x.flushed
      BY <2>11 DEF Typed, Fields
    <2> HIDE DEF g
    <2>13. Behind(r)
      <3>1. DOMAIN r = 1..Len(r) /\ Len(r) \in Nat /\ Len(r) > 0
        BY <2>9, <2>10
      <3>2. r[Len(r)].type = "flush"
        BY <2>5, <2>10
      <3>3. QED
        BY <3>1, <3>2 DEF Behind
    <2>14. Pooled(x) /\ x.flushed = 0 => Pooled(g)
      BY <1>1, <2>7, <2>10, <2>12, <2>13 DEF Pooled, Serves, Dpbs
    <2>15. Flushing(g) /\ Leaves(x, g)
      BY <2>12 DEF Flushing, Leaves, Has, Serves
    <2>16. QED
      BY <2>14, <2>15 DEF g
  <1>5. QED
    BY <1>3, <1>4

(* The interrupt thread, but for DPBs and the answers to flushes.          *)
LEMMA FrameAside ==
  ASSUME NEW x, NEW m
  PROVE  /\ Aside(x, Unmatched(x)) /\ Aside(x, SettleHeld(x, m)) /\ Aside(x, FillDone(x, m))
         /\ Aside(x, EtbDone(x, m))
  <1>1. Aside(x, Unmatched(x))
    BY StateAside, ComposeAside DEF Unmatched
  <1>2. Aside(x, SettleHeld(x, m))
    <2>1. \A y : Aside(y, [y EXCEPT !.held = None, !.heldPic = "none"])
      BY DEF Aside, Fields
    <2>2. CASE x.held = None
      BY <2>2, ComposeAside DEF SettleHeld
    <2>3. CASE x.held # None
      <3>1. \E y : Aside(x, y) /\ SettleHeld(x, m) = [y EXCEPT !.held = None, !.heldPic = "none"]
        BY <2>3, BufferAside DEF SettleHeld
      <3>2. QED
        BY <2>1, <3>1, ComposeAside
    <2>4. QED
      BY <2>2, <2>3
  <1>3. Aside(x, FillDone(x, m))
    <2> DEFINE y == [x EXCEPT !.attr[m.buf] = "done",
                              !.drops = IF m.pic = "empty" THEN @ ELSE 0]
               z == [x EXCEPT !.drops = @ + 1]
               h == [y EXCEPT !.held = m.buf, !.heldPic = m.pic]
    <2>1. \/ FillDone(x, m) = QueueBuffer(z, m.buf)
          \/ FillDone(x, m) = h
          \/ \E what : FillDone(x, m) = DoneCapture(y, m.buf, what)
      BY DEF FillDone
    <2>2. Aside(x, y) /\ Aside(x, z)
      BY DEF Aside, Fields
    <2>3. Aside(y, h)
      BY DEF Aside, Fields
    <2> HIDE DEF y, z, h
    <2>4. Aside(z, QueueBuffer(z, m.buf)) /\ \A what : Aside(y, DoneCapture(y, m.buf, what))
      BY BufferAside
    <2>5. QED
      BY <2>1, <2>2, <2>3, <2>4, ComposeAside
  <1>4. Aside(x, EtbDone(x, m))
    <2> DEFINE y == IF m.ok THEN x ELSE Fail(x)
               z == [y EXCEPT !.attr[m.buf] = "done", !.own[m.buf] = "user"]
    <2>1. EtbDone(x, m) \in {x, Fail(x), y, z}
      BY DEF EtbDone
    <2>2. Aside(x, y) /\ Aside(x, Fail(x)) /\ Aside(x, x)
      BY StateAside, ComposeAside
    <2> HIDE DEF y
    <2>3. Aside(y, z)
      BY DEF Aside, Fields
    <2> HIDE DEF z
    <2>4. QED
      BY <2>1, <2>2, <2>3, ComposeAside
  <1>5. QED
    BY <1>1, <1>2, <1>3, <1>4

(* An output comes back, the last of a drain among them.                   *)
LEMMA FramePours ==
  ASSUME NEW x0, NEW m, m.buf \in OutBufs
  PROVE  Pours(x0, FtbDone(x0, m))
  <1>1. \A y : Pours(y, DrainArm(y))
    <2> SUFFICES ASSUME NEW y, Typed(y)
                 PROVE  /\ Typed(DrainArm(y)) /\ Leaves(y, DrainArm(y))
                        /\ Pooled(y) => Pooled(DrainArm(y))
                        /\ Flushing(y) => Flushing(DrainArm(y))
      BY DEF Pours
    <2> DEFINE u == [y EXCEPT !.flushed = 0]
               v == SendFlush(u, FALSE)
               w == SubChangeDrainLast(v)
    <2>1. DrainArm(y) = w
      BY DEF DrainArm
    <2>2. Typed(w)
      BY <2>1, DrainStirs DEF Stirs, Tame
    <2>3. /\ Typed(u) /\ u.flushed = 0 /\ Leaves(y, u) /\ (Pooled(y) => Pooled(u))
          /\ Flushing(y) => Flushing(u)
      BY DEF Typed, Fields, Pooled, Flushing, Leaves, Has, Serves, Dpbs
    <2> HIDE DEF u
    <2>4. /\ Typed(v) /\ Leaves(u, v) /\ (Pooled(u) => Pooled(v))
          /\ Flushing(u) => Flushing(v)
      BY <2>3, FlushPools, FlushStirs DEF Stirs, Tame
    <2> HIDE DEF v
    <2>5. Aside(v, w) /\ DOMAIN v = Fields
      BY <2>4, StateAside DEF Typed
    <2> HIDE DEF w
    <2>6. QED
      BY <2>1, <2>2, <2>3, <2>4, <2>5, AsidePools DEF Leaves
  <1> DEFINE x == IF m.eos /\ m.pic = "empty" THEN DrainArm(x0) ELSE x0
             y == [x EXCEPT !.held = None, !.last = @ \/ Terminal(x, m)]
             z == SettleHeld(x, m)
  <1>2. FtbDone(x0, m) \in {Unmatched(x), Unmatched(y), FillDone(z, m)}
    BY DEF FtbDone
  <1>3. Pours(x0, x)
    BY <1>1, ComposePours
  <1> HIDE DEF x
  <1>4. Aside(x, y)
    BY DEF Aside, Fields
  <1>5. Aside(x, z)
    BY FrameAside
  <1> HIDE DEF y, z
  <1>6. Aside(x, Unmatched(x)) /\ Aside(y, Unmatched(y)) /\ Aside(z, FillDone(z, m))
    BY FrameAside
  <1>7. Aside(x, FtbDone(x0, m))
    BY <1>2, <1>4, <1>5, <1>6, ComposeAside
  <1>8. Typed(x0) => Typed(FtbDone(x0, m))
    BY FrameStirs DEF Stirs, Tame
  <1> HIDE DEF x
  <1>9. SUFFICES ASSUME Typed(x0)
                 PROVE  /\ Typed(FtbDone(x0, m)) /\ Leaves(x0, FtbDone(x0, m))
                        /\ Pooled(x0) => Pooled(FtbDone(x0, m))
                        /\ Flushing(x0) => Flushing(FtbDone(x0, m))
    BY DEF Pours
  <1>10. DOMAIN x = Fields
    BY <1>3, <1>9 DEF Pours, Typed
  <1>11. QED
    BY <1>3, <1>7, <1>8, <1>9, <1>10, AsidePools DEF Pours, Leaves

(* A new sequence: what it flushes is counted before what it counts is     *)
(* waited for.                                                             *)
LEMMA SequencePours ==
  \A x, m : Pours(x, SeqChanged(x, m))
  <1>1. ASSUME NEW x, Typed(x)
        PROVE  /\ Leaves(x, ArmDrc(x)) /\ (Pooled(x) => Pooled(ArmDrc(x)))
               /\ Flushing(x) => Flushing(ArmDrc(x))
    <2> DEFINE y == SubChangeDrc(x)
               u == IF y.flushes = 0 THEN [y EXCEPT !.flushed = 0] ELSE y
               v == SendFlush(u, FALSE)
               z == IF y.state # "ERROR" /\ "FIRST_IPSC" \notin y.sub THEN v ELSE y
    <2>1. ArmDrc(x) \in {x, SubChangeDrcLast(z)}
      BY DEF ArmDrc
    <2>2. Aside(x, y) /\ Typed(y)
      <3>1. Aside(x, y)
        BY StateAside
      <3>2. Still(x, y)
        BY StateStill
      <3>3. QED
        BY <1>1, <3>1, <3>2 DEF Still, Tame
    <2>3. DOMAIN x = Fields /\ DOMAIN y = Fields
      BY <1>1, <2>2 DEF Typed
    <2>4. (Pooled(x) => Pooled(y)) /\ (Flushing(x) => Flushing(y)) /\ Leaves(x, y)
      BY <2>2, <2>3, AsidePools
    <2> HIDE DEF y
    <2>5. Typed(u) /\ (Pooled(y) => Pooled(u)) /\ DOMAIN u = Fields
          /\ u.state = y.state /\ u.flushed \in Nat
          /\ (y.flushes = 0 => u.flushed = 0) /\ (y.flushes # 0 => u = y)
          /\ Leaves(y, u) /\ (Flushing(y) => Flushing(u))
      BY <2>2 DEF Typed, Fields, Pooled, Flushing, Leaves, Has, Serves, Dpbs
    <2> HIDE DEF u
    <2>6. /\ Typed(v) /\ (Pooled(u) /\ u.flushed = 0 => Pooled(v))
          /\ Leaves(u, v) /\ (Flushing(u) => Flushing(v))
      BY <2>5, FlushPools, FlushStirs DEF Stirs, Tame
    <2> HIDE DEF v
    <2>7. Pooled(y) /\ y.state # "ERROR" => u.flushed = 0
      BY <2>5 DEF Pooled, Serves
    <2>8. /\ DOMAIN z = Fields /\ Leaves(y, z)
          /\ (Pooled(y) => Pooled(z)) /\ (Flushing(y) => Flushing(z))
      <3>1. DOMAIN v = Fields
        BY <2>6 DEF Typed
      <3>2. Leaves(y, y)
        BY DEF Leaves
      <3>3. Leaves(y, v)
        BY <2>5, <2>6 DEF Leaves
      <3>4. QED
        BY <2>3, <2>5, <2>6, <2>7, <3>1, <3>2, <3>3
    <2> HIDE DEF z
    <2>9. Aside(z, SubChangeDrcLast(z))
      BY StateAside
    <2>10. Leaves(x, x)
      BY DEF Leaves
    <2>11. QED
      BY <2>1, <2>4, <2>8, <2>9, <2>10, AsidePools DEF Leaves
  <1>2. ASSUME NEW x, NEW m, Typed(x)
        PROVE  LET w == SeqChanged(x, m)
               IN /\ Typed(w) /\ Leaves(x, w) /\ (Pooled(x) => Pooled(w))
                  /\ Flushing(x) => Flushing(w)
    <2> DEFINE y == [x EXCEPT !.known = TRUE, !.changed = @ \/ m.kind = "tenbit"]
               z == FwContinue(y)
               u == ChangeSub(z, {"DRC", "FIRST_IPSC", "INPUT_PAUSE"}, {})
    <2>1. SeqChanged(x, m) \in {x, u, ArmDrc(y)}
      BY DEF SeqChanged
    <2>2. Typed(SeqChanged(x, m)) /\ DOMAIN x = Fields
      <3>1. Stirs(x, SeqChanged(x, m))
        BY SequenceStirs
      <3>2. DOMAIN x = Fields
        BY <1>2 DEF Typed
      <3>3. QED
        BY <1>2, <3>1, <3>2 DEF Stirs, Tame
    <2>3. Aside(x, y) /\ Typed(y)
      BY <1>2 DEF Aside, Typed, Fields
    <2> HIDE DEF y
    <2>4. Aside(y, z) /\ Aside(z, u)
      BY BufferAside, StateAside
    <2> HIDE DEF z, u
    <2>5. Aside(x, u)
      BY <2>3, <2>4, ComposeAside
    <2>6. (Pooled(x) => Pooled(u)) /\ (Flushing(x) => Flushing(u)) /\ Leaves(x, u)
          /\ (Pooled(x) => Pooled(y)) /\ (Flushing(x) => Flushing(y)) /\ Leaves(x, y)
      BY <2>2, <2>3, <2>5, AsidePools
    <2>7. /\ Leaves(y, ArmDrc(y)) /\ (Pooled(y) => Pooled(ArmDrc(y)))
          /\ Flushing(y) => Flushing(ArmDrc(y))
      BY <1>1, <2>3
    <2>8. Leaves(x, x) /\ Leaves(x, ArmDrc(y))
      BY <2>6, <2>7 DEF Leaves
    <2>9. QED
      BY <2>1, <2>2, <2>6, <2>7, <2>8
  <1>3. QED
    BY <1>2 DEF Pours

(* Every other message.                                                    *)
LEMMA HandlePours ==
  ASSUME NEW x, NEW m \in Message, m.type \notin {"dpb", "flush"}
  PROVE  Pours(x, Handle(x, m))
  <1>1. CASE m.type = "etb"
    <2>1. Aside(x, EtbDone(x, m))
      BY FrameAside
    <2>2. Still(x, EtbDone(x, m))
      BY <1>1, EmptyStill, Letters
    <2>3. Typed(x) => Typed(EtbDone(x, m))
      BY <2>2 DEF Still, Tame
    <2>4. QED
      BY <1>1, <2>1, <2>3, AsidePours DEF Handle
  <1>2. CASE m.type = "ftb"
    BY <1>2, Letters, FramePours DEF Handle
  <1>3. CASE m.type = "seq"
    BY <1>3, SequencePours DEF Handle
  <1>4. CASE m.type = "error"
    <2>1. Aside(x, Fail(x)) /\ Still(x, Fail(x))
      BY StateAside, StateStill
    <2>2. Typed(x) => Typed(Fail(x))
      BY <2>1 DEF Still, Tame
    <2>3. QED
      BY <1>4, <2>1, <2>2, AsidePours DEF Handle
  <1>5. CASE m.type = "answer"
    <2> DEFINE f == IF m.ok THEN x ELSE Fail(x)
               y == AnswerDone(x, m)
    <2>1. y = [f EXCEPT !.resp = IF @ < MaxDone THEN @ + 1 ELSE @]
      BY DEF AnswerDone
    <2>2. Aside(x, f)
      BY StateAside, ComposeAside
    <2>3. Typed(x) => Typed(y)
      BY AnswerTypes
    <2> HIDE DEF f, y
    <2>4. Aside(f, y)
      BY <2>1 DEF Aside, Fields
    <2>5. Aside(x, y)
      BY <2>2, <2>4, ComposeAside
    <2>6. Handle(x, m) = y
      BY <1>5 DEF Handle, y
    <2>7. QED
      BY <2>3, <2>5, <2>6, AsidePours
  <1>6. QED
    BY <1>1, <1>2, <1>3, <1>4, <1>5, Letters

(* The answer to a flush stays behind what it follows.                     *)
LEMMA BehindTail ==
  ASSUME NEW x, Typed(x), x.msgs # << >>, Behind(x.msgs)
  PROVE  Behind(Tail(x.msgs))
  <1> DEFINE t == Tail(x.msgs)
  <1>1. /\ Len(t) \in Nat /\ Len(x.msgs) = Len(t) + 1 /\ DOMAIN t = 1..Len(t)
        /\ \A k \in DOMAIN t : k \in Nat /\ k + 1 \in DOMAIN x.msgs /\ t[k] = x.msgs[k + 1]
    BY NextMessage
  <1>2. DOMAIN x.msgs = 1..Len(x.msgs)
    BY DEF Typed
  <1> HIDE DEF t
  <1>3. ASSUME NEW k \in DOMAIN t, t[k].type = "dpb"
        PROVE  \E j \in DOMAIN t : j > k /\ t[j].type = "flush"
    <2>1. PICK j \in DOMAIN x.msgs : j > k + 1 /\ x.msgs[j].type = "flush"
      BY <1>1, <1>3 DEF Behind
    <2>2. j \in 1..(Len(t) + 1) /\ k \in 1..Len(t) /\ Len(t) \in Nat
      BY <1>1, <1>2, <1>3, <2>1
    <2>3. j - 1 \in DOMAIN t /\ j - 1 > k /\ (j - 1) + 1 = j
      BY <1>1, <2>1, <2>2
    <2>4. t[j - 1] = x.msgs[j]
      BY <1>1, <2>3
    <2>5. QED
      BY <2>1, <2>3, <2>4
  <1>4. QED
    BY <1>3 DEF t, Behind

(* While CAPTURE streams there is a pool, and while it waits to.           *)
Holds(planes, at) == ("CAPTURE" \in planes /\ at # "end") \/ at = "release"

(* What an instance with a pool may rely on.                               *)
Stocked ==
  /\ Pooled(s)
  /\ Serves(s) /\ Holds(on, queue.at) => Has(s)
  /\ queue.at = "flush" => Flushing(s)
  /\ command = "flush" => queue.at = "idle"

(* The interrupt thread.                                                   *)
LEMMA StockedInterrupt ==
  ASSUME Stocked, Wired, Interrupt
  PROVE  Pooled(s') /\ Leaves(s, s') /\ (Flushing(s) => Flushing(s'))
  <1> DEFINE m == Head(s.msgs)
             t == Tail(s.msgs)
             x == [s EXCEPT !.msgs = t]
             y == Handle(x, m)
  <1>1. Typed(s) /\ Pooled(s) /\ Counted(s) /\ s.msgs # << >> /\ s' = y
    BY DEF Stocked, Wired, Line, Interrupt
  <1>2. /\ m \in Message /\ t \in Seq(Message)
        /\ \A T : Count(s.msgs, T) = Count(t, T) + (IF m.type = T THEN 1 ELSE 0)
        /\ \A T : Count(t, T) \in Nat
    BY <1>1, NextMessage
  <1>3. Serves(s) => Behind(t)
    BY <1>1, BehindTail DEF Pooled
  <1> HIDE DEF m, t
  <1>4. Typed(x)
    BY <1>1, <1>2 DEF Typed, Fields
  <1>5. /\ x.msgs = t /\ x.flushes = s.flushes /\ x.flushed = s.flushed /\ x.up = s.up
        /\ x.state = s.state /\ x.dpb = s.dpb /\ x.pool = s.pool
    BY <1>1 DEF Typed, Fields
  <1> HIDE DEF x
  <1>6. s.dpb \in [host : Nat, deferred : Nat, queued : Nat] /\ s.pool \in Nat
        /\ s.flushed \in Nat /\ s.flushes \in Int
    BY <1>1 DEF Typed
  <1>7. Count(t, "dpb") \in Nat /\ Count(t, "flush") \in Nat
    BY <1>2
  <1>8. CASE m.type \notin {"dpb", "flush"}
    <2>1. Pours(x, y)
      BY <1>2, <1>8, HandlePours
    <2> HIDE DEF y
    <2>2. Count(t, "dpb") = Count(s.msgs, "dpb") /\ Count(t, "flush") = Count(s.msgs, "flush")
      BY <1>2, <1>7, <1>8
    <2>3. Pooled(x)
      BY <1>1, <1>3, <1>5, <2>2 DEF Pooled, Serves, Dpbs
    <2>4. (Flushing(s) => Flushing(x)) /\ Leaves(s, x)
      BY <1>5, <2>2 DEF Flushing, Leaves, Has, Serves
    <2>5. QED
      BY <1>1, <1>4, <2>1, <2>3, <2>4 DEF Pours, Leaves
  <1>9. CASE m.type = "dpb"
    <2>1. y = DpbFtbDone(x)
      BY <1>9 DEF Handle
    <2>2. Count(s.msgs, "dpb") = Count(t, "dpb") + 1
      BY <1>2, <1>9
    <2>3. CASE ~Serves(s)
      <3>1. Still(x, y)
        BY <2>1, DpbDoneStill
      <3> HIDE DEF y
      <3>2. ~Serves(y)
        BY <1>4, <1>5, <2>3, <3>1 DEF Still, Tame, Serves
      <3>3. QED
        BY <1>1, <3>2 DEF Pooled, Flushing, Leaves
    <2>4. CASE Serves(s)
      <3>1. x.dpb.queued = s.pool + Count(t, "dpb") + 1
        <4>1. s.dpb.queued = s.pool + Count(s.msgs, "dpb")
          BY <1>1, <2>4 DEF Pooled, Dpbs
        <4>2. s.pool \in Nat
          BY <1>6
        <4>3. QED
          BY <1>5, <1>7, <2>2, <4>1, <4>2
      <3>2. x.dpb.queued # 0
        BY <1>6, <1>7, <3>1
      <3>3. y = [x EXCEPT !.dpb.queued = @ - 1, !.dpb.host = @ + 1]
        BY <2>1, <3>2 DEF DpbFtbDone
      <3> HIDE DEF y
      <3>4. /\ y.msgs = t /\ y.up = s.up /\ y.state = s.state /\ y.pool = s.pool
            /\ y.flushes = s.flushes /\ y.flushed = s.flushed
            /\ y.dpb.queued = s.dpb.queued - 1 /\ y.dpb.host = s.dpb.host + 1
            /\ y.dpb.deferred = s.dpb.deferred
        <4>1. DOMAIN x = Fields /\ x.dpb \in [host : Nat, deferred : Nat, queued : Nat]
          BY <1>4 DEF Typed
        <4>2. QED
          BY <1>5, <3>3, <4>1 DEF Fields
      <3>5. Pooled(y)
        <4>1. /\ s.dpb.queued = s.pool + Count(t, "dpb") + 1
              /\ s.dpb.host + s.dpb.deferred + s.dpb.queued <= 1
              /\ s.state # "STREAMING" => s.dpb.queued = 0
          BY <1>1, <1>5, <2>4, <3>1 DEF Pooled
        <4>2. s.dpb.host \in Nat /\ s.dpb.deferred \in Nat /\ s.dpb.queued \in Nat
          BY <1>6
        <4>3. s.state = "STREAMING"
          BY <1>6, <1>7, <4>1
        <4>4. /\ y.dpb.queued = y.pool + Count(y.msgs, "dpb")
              /\ y.dpb.host + y.dpb.deferred + y.dpb.queued <= 1
          BY <1>6, <1>7, <3>4, <4>1, <4>2
        <4>5. QED
          BY <1>1, <1>3, <2>4, <3>4, <4>3, <4>4 DEF Pooled, Dpbs
      <3>6. Flushing(s) => Flushing(y)
        <4>1. Count(s.msgs, "flush") = Count(t, "flush")
          BY <1>2, <1>7, <1>9
        <4>2. QED
          BY <2>4, <3>4, <4>1 DEF Flushing, Serves
      <3>7. Leaves(s, y)
        BY <1>6, <3>4 DEF Leaves, Has, Serves
      <3>8. QED
        BY <1>1, <3>5, <3>6, <3>7
    <2>5. QED
      BY <2>3, <2>4
  <1>10. CASE m.type = "flush"
    <2> DEFINE f == IF m.ok THEN x ELSE Fail(x)
               u == [f EXCEPT !.flushes = @ - 1]
               v == [u EXCEPT !.flushed = @ + 1]
    <2>1. y = IF u.flushes = 0 THEN v ELSE u
      BY <1>10 DEF Handle, FlushDone
    <2>2. Count(s.msgs, "dpb") = Count(t, "dpb")
          /\ Count(s.msgs, "flush") = Count(t, "flush") + 1
      <3>1. \A T : Count(s.msgs, T) = Count(t, T) + (IF "flush" = T THEN 1 ELSE 0)
        BY <1>2, <1>10
      <3>2. QED
        BY <1>7, <3>1
    <2>3. Aside(x, f) /\ Still(x, f)
      BY StateAside, ComposeAside, StateStill, ComposeStill
    <2>4. /\ DOMAIN f = Fields /\ f.dpb = s.dpb /\ f.pool = s.pool /\ f.msgs = t
          /\ f.flushes = s.flushes /\ f.flushed = s.flushed /\ f.up = s.up
          /\ f.state # "ERROR" => s.state # "ERROR" /\ (s.state = "STREAMING" => f.state = "STREAMING")
      <3>1. DOMAIN x = Fields
        BY <1>4 DEF Typed
      <3>2. f.up = x.up
        BY <1>4, <2>3 DEF Still, Tame
      <3> HIDE DEF f
      <3>3. QED
        BY <1>5, <2>3, <3>1, <3>2 DEF Aside
    <2> HIDE DEF f
    <2>5. /\ y.dpb = f.dpb /\ y.pool = f.pool /\ y.msgs = f.msgs /\ y.up = f.up
          /\ y.state = f.state /\ y.flushes = f.flushes - 1
          /\ y.flushed = IF y.flushes = 0 THEN f.flushed + 1 ELSE f.flushed
      <3>1. /\ u.dpb = f.dpb /\ u.pool = f.pool /\ u.msgs = f.msgs /\ u.up = f.up
            /\ u.state = f.state /\ u.flushes = f.flushes - 1 /\ u.flushed = f.flushed
            /\ DOMAIN u = Fields
        BY <2>4 DEF Fields
      <3> HIDE DEF u
      <3>2. /\ v.dpb = f.dpb /\ v.pool = f.pool /\ v.msgs = f.msgs /\ v.up = f.up
            /\ v.state = f.state /\ v.flushes = f.flushes - 1 /\ v.flushed = f.flushed + 1
        BY <3>1 DEF Fields
      <3> HIDE DEF v, y
      <3>3. QED
        BY <2>1, <3>1, <3>2
    <2> HIDE DEF y
    <2>6. Leaves(s, y)
      BY <2>4, <2>5 DEF Leaves, Has, Serves
    <2>7. Pooled(y)
      <3> SUFFICES ASSUME Serves(y) PROVE Pooled(y)
        BY DEF Pooled
      <3>1. Serves(s)
        BY <2>6 DEF Leaves
      <3>2. s.flushes >= 1
        BY <1>1, <1>6, <1>7, <2>2 DEF Counted
      <3>3. s.flushed = 0
        BY <1>1, <1>6, <3>1, <3>2 DEF Pooled
      <3>4. y.flushed > 0 => y.flushes = 0
        BY <2>4, <2>5, <3>3
      <3>5. QED
        BY <1>1, <1>3, <2>2, <2>4, <2>5, <3>1, <3>4 DEF Pooled, Serves, Dpbs
    <2>8. Flushing(s) => Flushing(y)
      BY <1>6, <1>7, <2>2, <2>4, <2>5 DEF Flushing, Serves
    <2>9. QED
      BY <1>1, <2>6, <2>7, <2>8
  <1>11. QED
    BY <1>8, <1>9, <1>10

-----------------------------------------------------------------------------
(* The calls: no step of one creates, loses or doubles a pool.             *)
Shelved(x) ==
  /\ DOMAIN x = Fields
  /\ x.dpb \in [host : Nat, deferred : Nat, queued : Nat] /\ x.pool \in Nat
  /\ x.msgs \in Seq(Message)

Stores(x, y) ==
  Shelved(x) => Shelved(y) /\ (Pooled(x) => Pooled(y) /\ Leaves(x, y))

LEMMA ComposeStores ==
  /\ \A x : Stores(x, x)
  /\ \A x, y, z : Stores(x, y) /\ Stores(y, z) => Stores(x, z)
  /\ \A x, y : Aside(x, y) => Stores(x, y)
  /\ \A x : Typed(x) => Shelved(x)
  <1>1. \A x, y : Aside(x, y) => Stores(x, y)
    <2> SUFFICES ASSUME NEW x, NEW y, Aside(x, y) PROVE Stores(x, y)
      OBVIOUS
    <2>1. Shelved(x) => Leaves(x, y) /\ (Pooled(x) => Pooled(y))
      BY AsidePools DEF Shelved
    <2>2. Shelved(x) => Shelved(y)
      BY DEF Aside, Shelved
    <2>3. QED
      BY <2>1, <2>2 DEF Stores
  <1>2. \A x : Typed(x) => Shelved(x)
    BY DEF Typed, Shelved
  <1>3. \A x, y, z : Leaves(x, x) /\ (Leaves(x, y) /\ Leaves(y, z) => Leaves(x, z))
    BY DEF Leaves
  <1>4. QED
    BY <1>1, <1>2, <1>3 DEF Stores

(* A pool moves as a whole.                                                *)
LEMMA DpbStores ==
  ASSUME NEW x
  PROVE  /\ Stores(x, QueueDpb(x))
         /\ x.state = "STREAMING" => Stores(x, QueueDeferredDpb(x))
         /\ x.state # "STREAMING" => Stores(x, CreateDpb(x))
  <1> SUFFICES ASSUME Shelved(x)
               PROVE  /\ Stores(x, QueueDpb(x))
                      /\ x.state = "STREAMING" => Stores(x, QueueDeferredDpb(x))
                      /\ x.state # "STREAMING" => Stores(x, CreateDpb(x))
    BY DEF Stores
  <1> DEFINE h == x.dpb.host
             d == x.dpb.deferred
             q == x.dpb.queued
  <1>1. h \in Nat /\ d \in Nat /\ q \in Nat /\ x.pool \in Nat /\ DOMAIN x = Fields
        /\ x.msgs \in Seq(Message) /\ Dpbs(x) \in Nat
        /\ x.dpb = [host |-> h, deferred |-> d, queued |-> q]
    BY CountSteps DEF Shelved, Dpbs
  <1>2. ASSUME NEW y, NEW a \in Nat, NEW b \in Nat, NEW c \in Nat, NEW n \in Nat,
               y.dpb = [host |-> a, deferred |-> b, queued |-> c], y.pool = n,
               DOMAIN y = Fields, y.msgs = x.msgs, y.state = x.state,
               y.flushes = x.flushes, y.flushed = x.flushed,
               c - n = q - x.pool,
               \/ a + b + c = h + d + q
               \/ x.state # "STREAMING" /\ a + b = 1,
               x.state = "STREAMING" \/ c = q
        PROVE  Stores(x, y)
    <2>1. y.dpb.host = a /\ y.dpb.deferred = b /\ y.dpb.queued = c
          /\ y.dpb \in [host : Nat, deferred : Nat, queued : Nat]
      BY <1>2
    <2>2. Shelved(y)
      BY <1>1, <1>2, <2>1 DEF Shelved
    <2>3. Dpbs(y) = Dpbs(x)
      BY <1>2 DEF Dpbs
    <2> HIDE DEF h, d, q
    <2>4. ASSUME Pooled(x), Serves(x)
          PROVE  /\ y.dpb.queued = y.pool + Dpbs(y)
                 /\ y.dpb.host + y.dpb.deferred + y.dpb.queued <= 1
                 /\ y.state # "STREAMING" => y.dpb.queued = 0
                 /\ Has(x) => Has(y)
      <3>1. q = x.pool + Dpbs(x) /\ h + d + q <= 1 /\ (x.state # "STREAMING" => q = 0)
        BY <2>4 DEF Pooled, h, d, q
      <3>2. c = n + Dpbs(x)
        <4>1. q \in Nat /\ x.pool \in Nat /\ Dpbs(x) \in Nat
          BY <1>1
        <4>2. c - n = q - x.pool
          BY <1>2
        <4>3. q = x.pool + Dpbs(x)
          BY <3>1
        <4>4. QED
          BY <4>1, <4>2, <4>3
      <3>3. a + b + c <= 1
        <4>1. CASE a + b + c = h + d + q
          BY <3>1, <4>1
        <4>2. CASE x.state # "STREAMING" /\ a + b = 1
          <5>1. c = 0
            BY <1>2, <3>1, <4>2
          <5>2. QED
            BY <4>2, <5>1
        <4>3. QED
          BY <1>2, <4>1, <4>2
      <3>4. Has(x) => Has(y)
        <4>1. h + d + q > 0 => a + b + c > 0
          BY <1>1, <1>2
        <4>2. QED
          BY <2>1, <4>1 DEF Has, h, d, q
      <3>5. QED
        BY <1>2, <2>1, <2>3, <3>1, <3>2, <3>3, <3>4
    <2>5. QED
      BY <1>2, <2>2, <2>4 DEF Stores, Pooled, Leaves, Serves
  <1>3. Stores(x, QueueDpb(x))
    <2> DEFINE y == QueueDpb(x)
    <2>1. CASE x.state = "STREAMING"
      <3>1. /\ y.dpb = [host |-> 0, deferred |-> 0, queued |-> q + (h + d)]
            /\ y.pool = x.pool + (h + d) /\ DOMAIN y = Fields /\ y.msgs = x.msgs
            /\ y.flushes = x.flushes /\ y.flushed = x.flushed /\ y.state = x.state
        BY <1>1, <2>1 DEF QueueDpb, SendDpb, Fields
      <3> HIDE DEF y, h, d, q
      <3>2. /\ q + (h + d) \in Nat /\ x.pool + (h + d) \in Nat
            /\ (q + (h + d)) - (x.pool + (h + d)) = q - x.pool
            /\ 0 + 0 + (q + (h + d)) = h + d + q
        BY <1>1
      <3>3. QED
        BY <1>2, <2>1, <3>1, <3>2 DEF h, d, q, y
    <2>2. CASE x.state # "STREAMING"
      <3>1. /\ y.dpb = [host |-> 0, deferred |-> d + h, queued |-> q]
            /\ y.pool = x.pool /\ DOMAIN y = Fields /\ y.msgs = x.msgs
            /\ y.flushes = x.flushes /\ y.flushed = x.flushed /\ y.state = x.state
        BY <1>1, <2>2 DEF QueueDpb, Fields
      <3> HIDE DEF y, h, d, q
      <3>2. d + h \in Nat /\ 0 + (d + h) + q = h + d + q
        BY <1>1
      <3>3. QED
        BY <1>1, <1>2, <3>1, <3>2 DEF h, d, q, y
    <2>3. QED
      BY <2>1, <2>2
  <1>4. ASSUME x.state = "STREAMING"
        PROVE  Stores(x, QueueDeferredDpb(x))
    <2> DEFINE y == QueueDeferredDpb(x)
    <2>1. /\ y.dpb = [host |-> h, deferred |-> 0, queued |-> q + d]
          /\ y.pool = x.pool + d /\ DOMAIN y = Fields /\ y.msgs = x.msgs
          /\ y.flushes = x.flushes /\ y.flushed = x.flushed /\ y.state = x.state
      BY <1>1 DEF QueueDeferredDpb, SendDpb, Fields
    <2> HIDE DEF y, h, d, q
    <2>2. /\ q + d \in Nat /\ x.pool + d \in Nat /\ (q + d) - (x.pool + d) = q - x.pool
          /\ h + 0 + (q + d) = h + d + q
      BY <1>1
    <2>3. QED
      BY <1>1, <1>2, <1>4, <2>1, <2>2 DEF h, d, q, y
  <1>5. ASSUME x.state # "STREAMING"
        PROVE  Stores(x, CreateDpb(x))
    <2> DEFINE y == CreateDpb(x)
    <2>1. /\ y.dpb = [host |-> 1, deferred |-> 0, queued |-> q]
          /\ y.pool = x.pool /\ DOMAIN y = Fields /\ y.msgs = x.msgs
          /\ y.flushes = x.flushes /\ y.flushed = x.flushed /\ y.state = x.state
      BY <1>1 DEF CreateDpb, Fields
    <2> HIDE DEF y, h, d, q
    <2>2. 1 \in Nat /\ 0 \in Nat /\ q \in Nat /\ x.pool \in Nat /\ 1 + 0 = 1
      BY <1>1 DEF q
    <2>3. y.msgs = x.msgs /\ y.state = x.state /\ x.state # "STREAMING" /\ DOMAIN y = Fields
      BY <1>5, <2>1
    <2>4. Stores(x, y)
      BY <1>2, <2>1, <2>2, <2>3
    <2>5. QED
      BY <2>4 DEF y
  <1>6. QED
    BY <1>3, <1>4, <1>5

(* The end of a STREAMON, and a restart.                                   *)
LEMMA StreamonStores ==
  ASSUME NEW x
  PROVE  /\ Stores(x, StreamonInput(x))
         /\ \A drc, drain : Stores(x, StreamonOutput(x, drc, drain))
         /\ Stores(x, Resume(x))
  <1>1. ASSUME NEW u, NEW p \in Planes
        PROVE  Stores(u, QueueAllDeferred(u, p))
    <2> DEFINE y == IF p = "OUTPUT" THEN QueueDeferred(u, "OUTPUT") ELSE u
               z == QueueDeferredDpb(y)
    <2>1. QueueAllDeferred(u, p)
            = IF y.state = "STREAMING" THEN QueueDeferred(z, "CAPTURE") ELSE y
      BY DEF QueueAllDeferred
    <2>2. Stores(u, y)
      BY BufferAside, ComposeStores
    <2> HIDE DEF y
    <2>3. y.state = "STREAMING" => Stores(y, z)
      BY DpbStores
    <2>4. Stores(z, QueueDeferred(z, "CAPTURE"))
      BY BufferAside, ComposeStores
    <2> HIDE DEF z
    <2>5. QED
      BY <2>1, <2>2, <2>3, <2>4, ComposeStores
  <1>2. Stores(x, StreamonInput(x))
    <2> DEFINE y == ChangeSub(x, {"INPUT_PAUSE"}, {})
               pause == IF y.sub \cap {"DRC", "DRAIN", "FIRST_IPSC"} # {}
                        THEN {"INPUT_PAUSE"} ELSE {}
               t == StateChangeStreamon(y, "OUTPUT")
               z == Restarted(t)
               u == ChangeSub(z, {}, pause)
    <2>1. StreamonInput(x) = QueueAllDeferred(u, "OUTPUT")
      BY DEF StreamonInput
    <2> HIDE DEF pause
    <2>2. Aside(x, y)
      BY StateAside
    <2> HIDE DEF y
    <2>3. Aside(y, t)
      BY StateAside DEF Planes
    <2> HIDE DEF t
    <2>4. Aside(t, z)
      BY BufferAside
    <2> HIDE DEF z
    <2>5. Aside(z, u)
      BY StateAside
    <2> HIDE DEF u
    <2>6. Aside(x, u)
      BY <2>2, <2>3, <2>4, <2>5, ComposeAside
    <2>7. Stores(u, QueueAllDeferred(u, "OUTPUT"))
      BY <1>1 DEF Planes
    <2>8. QED
      BY <2>1, <2>6, <2>7, ComposeStores
  <1>3. ASSUME NEW drc, NEW drain
        PROVE  Stores(x, StreamonOutput(x, drc, drain))
    <2> DEFINE resume == x.state = "INPUT_STREAMING" /\ "INPUT_PAUSE" \in x.sub
               clear == (IF drc THEN {"DRC", "DRC_LAST"}
                         ELSE IF drain THEN {"DRAIN", "DRAIN_LAST"} ELSE {})
                        \cup (IF resume THEN {"INPUT_PAUSE"} ELSE {})
                        \cup (x.sub \cap {"FIRST_IPSC", "OUTPUT_PAUSE"})
               y == IF resume /\ ~drain THEN FwContinue(x) ELSE x
               t == StateChangeStreamon(y, "CAPTURE")
               z == Restarted(t)
               u == ChangeSub(z, clear, {})
               w == QueueDpb(u)
    <2>1. StreamonOutput(x, drc, drain) = QueueAllDeferred(w, "CAPTURE")
      BY DEF StreamonOutput
    <2> HIDE DEF clear, resume
    <2>2. Aside(x, y)
      BY BufferAside, ComposeAside
    <2> HIDE DEF y
    <2>3. Aside(y, t)
      BY StateAside DEF Planes
    <2> HIDE DEF t
    <2>4. Aside(t, z)
      BY BufferAside
    <2> HIDE DEF z
    <2>5. Aside(z, u)
      BY StateAside
    <2> HIDE DEF u
    <2>6. Aside(x, u)
      BY <2>2, <2>3, <2>4, <2>5, ComposeAside
    <2>7. Stores(u, w)
      BY DpbStores
    <2> HIDE DEF w
    <2>8. Stores(w, QueueAllDeferred(w, "CAPTURE"))
      BY <1>1 DEF Planes
    <2>9. QED
      BY <2>1, <2>6, <2>7, <2>8, ComposeStores
  <1>4. Stores(x, Resume(x))
    <2> DEFINE drc == DrcPending(x)
               pauses == x.sub \cap {"INPUT_PAUSE", "OUTPUT_PAUSE"}
               clear == pauses \cup (IF drc THEN {"DRC", "DRC_LAST"} ELSE {"DRAIN", "DRAIN_LAST"})
               y == IF drc /\ pauses # {} THEN FwContinue(x) ELSE x
               v == ChangeSub(y, clear, {})
               z == Restarted(v)
               q == QueueDpb(z)
               c == QueueDeferred(q, "CAPTURE")
               w == QueueDeferred(c, "OUTPUT")
    <2>1. Resume(x) \in {Fail(x), w, z}
      BY DEF Resume
    <2> HIDE DEF drc, pauses, clear
    <2>2. Aside(x, y) /\ Aside(x, Fail(x))
      BY BufferAside, ComposeAside, StateAside
    <2> HIDE DEF y
    <2>3. Aside(y, v)
      BY StateAside
    <2> HIDE DEF v
    <2>4. Aside(v, z)
      BY BufferAside
    <2> HIDE DEF z
    <2>5. Aside(x, z)
      BY <2>2, <2>3, <2>4, ComposeAside
    <2>6. Stores(z, q)
      BY DpbStores
    <2> HIDE DEF q
    <2>7. Aside(q, c)
      BY BufferAside
    <2> HIDE DEF c
    <2>8. Aside(c, w)
      BY BufferAside
    <2> HIDE DEF w
    <2>9. Aside(q, w)
      BY <2>7, <2>8, ComposeAside
    <2>10. QED
      BY <2>1, <2>2, <2>5, <2>6, <2>9, ComposeStores
  <1>5. QED
    BY <1>2, <1>3, <1>4

(* Messages join that neither are DPBs nor answer a flush.                 *)
LEMMA JoinStores ==
  ASSUME NEW x, NEW d \in Seq(Message), \A k \in DOMAIN d : d[k].type \notin {"dpb", "flush"},
         NEW y, DOMAIN y = Fields, y.msgs = x.msgs \o d, y.dpb = x.dpb, y.pool = x.pool,
         y.state = x.state, y.flushes = x.flushes, y.flushed = x.flushed, Shelved(x)
  PROVE  /\ Shelved(y) /\ Leaves(x, y) /\ Dpbs(y) = Dpbs(x)
         /\ Pooled(x) => Pooled(y)
         /\ Flushing(x) => Flushing(y)
  <1>1. /\ x.msgs \in Seq(Message) /\ x.msgs \o d \in Seq(Message)
        /\ \A T \in {"dpb", "flush"} :
             /\ Count(x.msgs, T) \in Nat
             /\ Count(x.msgs \o d, T) = Count(x.msgs, T) + Count(d, T)
    BY CountJoined DEF Shelved
  <1>2. \A T \in {"dpb", "flush"} : Count(d, T) = 0
    BY CountFree
  <1>3. \A T \in {"dpb", "flush"} : Count(y.msgs, T) = Count(x.msgs, T)
    BY <1>1, <1>2
  <1>4. Behind(x.msgs) => Behind(y.msgs)
    <2> SUFFICES ASSUME Behind(x.msgs) PROVE Behind(y.msgs)
      OBVIOUS
    <2>1. /\ Len(x.msgs) \in Nat /\ Len(d) \in Nat
          /\ DOMAIN x.msgs = 1..Len(x.msgs)
          /\ DOMAIN y.msgs = 1..(Len(x.msgs) + Len(d))
      BY <1>1
    <2>2. /\ \A k \in DOMAIN x.msgs : k \in DOMAIN y.msgs /\ y.msgs[k] = x.msgs[k]
      BY <1>1, <2>1
    <2>3. \A k \in DOMAIN y.msgs : k \notin DOMAIN x.msgs => y.msgs[k].type # "dpb"
      <3> SUFFICES ASSUME NEW k \in DOMAIN y.msgs, k \notin DOMAIN x.msgs
                   PROVE  y.msgs[k].type # "dpb"
        OBVIOUS
      <3>1. k - Len(x.msgs) \in 1..Len(d) /\ DOMAIN d = 1..Len(d)
        BY <2>1
      <3>2. y.msgs[k] = d[k - Len(x.msgs)]
        BY <1>1, <2>1, <3>1
      <3>3. QED
        BY <3>1, <3>2
    <2>4. QED
      BY <2>2, <2>3 DEF Behind
  <1>5. Dpbs(y) = Dpbs(x)
    BY <1>3 DEF Dpbs
  <1>6. Shelved(y) /\ Leaves(x, y) /\ (Pooled(x) => Pooled(y))
    BY <1>1, <1>4, <1>5 DEF Shelved, Leaves, Has, Pooled, Serves
  <1>7. Flushing(x) => Flushing(y)
    BY <1>3 DEF Flushing, Serves
  <1>8. QED
    BY <1>5, <1>6, <1>7

(* An answer joins them, and what goes with one.                           *)
LEMMA AnswerStores ==
  ASSUME NEW x, NEW c \in Commands
  PROVE  /\ Stores(x, Answer(x, c))
         /\ Shelved(x) => /\ Answer(x, c).dpb = x.dpb /\ Answer(x, c).pool = x.pool
                          /\ Dpbs(Answer(x, c)) = Dpbs(x) /\ Answer(x, c).state = x.state
  <1> DEFINE a == Answer(x, c)
  <1> SUFFICES ASSUME Shelved(x)
               PROVE  /\ Stores(x, a)
                      /\ a.dpb = x.dpb /\ a.pool = x.pool /\ Dpbs(a) = Dpbs(x)
                      /\ a.state = x.state
    BY DEF Stores
  <1> DEFINE m == [type |-> "answer", cmd |-> c, ok |-> TRUE]
             d == <<m>>
             n == x.msgs \o d
             y == [x EXCEPT !.msgs = n]
  <1>1. a = IF x.up THEN y ELSE x
    <2>1. m \in Message
      BY DEF Message, Commands
    <2>2. Append(x.msgs, m) = n
      BY <2>1, AppendIsConcat DEF Shelved
    <2>3. a = IF x.up THEN [x EXCEPT !.msgs = Append(@, m)] ELSE x
      BY DEF Answer, Send
    <2> HIDE DEF m, n
    <2>4. QED
      BY <2>2, <2>3
  <1>2. d \in Seq(Message) /\ \A k \in DOMAIN d : d[k].type \notin {"dpb", "flush"}
    BY DEF Message
  <1> HIDE DEF m, d, a
  <1>3. /\ y.msgs = n /\ y.dpb = x.dpb /\ y.pool = x.pool /\ y.state = x.state
        /\ y.flushes = x.flushes /\ y.flushed = x.flushed /\ DOMAIN y = Fields
    BY DEF Shelved, Fields
  <1> HIDE DEF y
  <1>4. Stores(x, y) /\ Dpbs(y) = Dpbs(x)
    BY <1>2, <1>3, JoinStores DEF Stores
  <1>5. QED
    BY <1>1, <1>3, <1>4, ComposeStores

(* The exit of a STREAMOFF, or of a STREAMON that is undone.               *)
LEMMA ExitStores ==
  ASSUME NEW x, Shelved(x), Sound(x), Pooled(x), NEW failed \in BOOLEAN, NEW q,
         FinishOff(x, failed, q)
  PROVE  /\ Pooled(s') /\ Leaves(x, s')
         /\ queue'.at = "idle" /\ on' \in {on, on \ {q.plane}}
  <1>1. ASSUME NEW y, NEW z, Sound(y)
        PROVE  Pooled(Fail(y)) /\ Leaves(z, Fail(y))
    BY <1>1, Failing DEF Pooled, Leaves, Serves
  <1>2. queue'.at = "idle" /\ on' \in {on, on \ {q.plane}}
    BY DEF FinishOff, Rest, Idle
  <1>3. CASE q.rollback
    <2> DEFINE y == BuffersDone(x, queue.plane, "prepared")
    <2>1. s' = Fail(y)
      BY <1>3 DEF FinishOff, FailStart
    <2>2. Sound(y)
      BY BufferKeeps DEF Keeps
    <2> HIDE DEF y
    <2>3. QED
      BY <1>1, <1>2, <2>1, <2>2
  <1>4. CASE ~q.rollback
    <2> DEFINE y == BuffersDone(x, q.plane, "user")
    <2>1. s' = IF failed THEN Fail(y) ELSE y
      BY <1>4 DEF FinishOff
    <2>2. Sound(y) /\ Stores(x, y)
      <3>1. Keeps(x, y)
        BY BufferKeeps
      <3>2. Aside(x, y)
        BY BufferAside
      <3>3. QED
        BY <3>1, <3>2, ComposeStores DEF Keeps
    <2> HIDE DEF y
    <2>3. Pooled(y) /\ Leaves(x, y) /\ Pooled(Fail(y)) /\ Leaves(x, Fail(y))
      BY <1>1, <2>2 DEF Stores
    <2>4. QED
      BY <1>2, <2>1, <2>3
  <1>5. QED
    BY <1>3, <1>4

(* The rest of a STREAMOFF: the pool is back when the plane stops.         *)
LEMMA TailStores ==
  ASSUME NEW x, Shelved(x), Sound(x), Pooled(x), Serves(x) => x.dpb.queued = 0,
         NEW q, StreamoffTail(x, q), "at" \in DOMAIN queue
  PROVE  /\ Pooled(s') /\ (queue'.at = "end" \/ Leaves(x, s'))
         /\ queue'.at \in {"idle", "end"} /\ on' \in {on, on \ {q.plane}}
  <1> DEFINE to == StreamoffTarget(x.state, q.plane)
             t == StateChangeStreamoff(x, q.plane)
             y == FlushDeferred(t, q.plane, q.rollback)
             d == DestroyDpb(y)
             w == NewWait(d)
             a == Answer(w, "end")
  <1>1. IF y.state = "INIT"
        THEN s' = FwEnd(w) /\ queue' = [queue EXCEPT !.at = "end"] /\ on' = on
        ELSE FinishOff(y, FALSE, q)
    BY DEF StreamoffTail, Goto
  <1>2. DOMAIN t = Fields /\ t.dpb = x.dpb /\ t.pool = x.pool /\ t.msgs = x.msgs
        /\ t.flushes = x.flushes /\ t.flushed = x.flushed
        /\ (t.state # "ERROR" => x.state # "ERROR") /\ t.state \in States
    <2>1. to \in States
      BY DEF StreamoffTarget, States
    <2> HIDE DEF to
    <2>2. t = ChangeState(x, to)
      BY DEF StateChangeStreamoff, to
    <2>3. QED
      BY <2>1, <2>2 DEF ChangeState, Shelved, Fields, Sound
  <1> HIDE DEF t
  <1>3. /\ Shelved(t) /\ Sound(t) /\ Pooled(t) /\ Leaves(x, t)
        /\ Serves(t) => t.dpb.queued = 0
    BY <1>2 DEF Shelved, Sound, Pooled, Leaves, Has, Serves, Dpbs
  <1>4. Aside(t, y) /\ Keeps(t, y)
    BY BufferAside, BufferKeeps
  <1> HIDE DEF y
  <1>5. /\ Shelved(y) /\ Sound(y) /\ Pooled(y) /\ Leaves(x, y)
        /\ Serves(y) => y.dpb.queued = 0
    <2>1. Shelved(y) /\ Pooled(y) /\ Leaves(x, y)
      BY <1>3, <1>4, ComposeStores DEF Stores, Leaves
    <2>2. y.dpb = t.dpb /\ (Serves(y) => Serves(t))
      BY <1>3, <1>4 DEF Aside, Serves, Shelved
    <2>3. QED
      BY <1>3, <1>4, <2>1, <2>2 DEF Keeps
  <1>6. CASE y.state # "INIT"
    BY <1>1, <1>5, <1>6, ExitStores DEF Leaves
  <1>7. CASE y.state = "INIT"
    <2>1. /\ w.dpb = [host |-> 0, deferred |-> 0, queued |-> 0] /\ w.pool = y.pool
          /\ w.msgs = y.msgs /\ w.state = y.state /\ Shelved(w)
          /\ w.flushes = y.flushes /\ w.flushed = y.flushed
      BY <1>5 DEF NewWait, DestroyDpb, Shelved, Fields
    <2> HIDE DEF w
    <2>2. /\ y.dpb.queued = 0 /\ y.dpb.queued = y.pool + Dpbs(y)
          /\ y.flushed > 0 => y.flushes = 0
          /\ Behind(y.msgs)
      BY <1>5, <1>7 DEF Pooled, Serves
    <2>3. y.pool = 0 /\ Dpbs(y) = 0
      <3>1. Dpbs(y) \in Nat /\ y.pool \in Nat
        BY <1>5, CountSteps DEF Shelved, Dpbs
      <3>2. QED
        BY <2>2, <3>1
    <2>4. Pooled(w)
      <3>1. w.dpb.host = 0 /\ w.dpb.deferred = 0 /\ w.dpb.queued = 0
        BY <2>1
      <3>2. QED
        BY <2>1, <2>2, <2>3, <3>1 DEF Pooled, Dpbs
    <2>5. Pooled(a) /\ Shelved(a) /\ a.pool = 0
      BY <2>1, <2>3, <2>4, AnswerStores DEF Stores, Commands
    <2> HIDE DEF a
    <2>6. /\ s'.dpb = a.dpb /\ s'.pool = 0 /\ s'.msgs = a.msgs /\ s'.state = a.state
          /\ s'.flushes = a.flushes /\ s'.flushed = a.flushed
      <3>1. s' = [a EXCEPT !.run = FALSE, !.parsed = FALSE, !.inq = << >>, !.outs = {},
                           !.pool = 0, !.paused = FALSE]
        BY <1>1, <1>7 DEF FwEnd, a
      <3>2. QED
        BY <2>5, <3>1 DEF Shelved, Fields
    <2>7. Pooled(s')
      BY <2>5, <2>6 DEF Pooled, Serves, Dpbs
    <2>8. queue'.at = "end" /\ on' = on
      BY <1>1, <1>7
    <2>9. QED
      BY <2>7, <2>8
  <1>8. QED
    BY <1>6, <1>7

(* The start of one: the flush it waits for brings the pool back.          *)
LEMMA SessionStores ==
  ASSUME NEW x, Typed(x), Pooled(x), Counted(x), NEW q, SessionStop(x, q),
         q.plane \in Planes, "at" \in DOMAIN queue, "at" \in DOMAIN q
  PROVE  /\ Pooled(s') /\ (queue'.at = "end" \/ Leaves(x, s'))
         /\ queue'.at = "flush" => Flushing(s')
         /\ queue'.at # "release" /\ on' \in {on, on \ {q.plane}}
  <1>1. Shelved(x) /\ Sound(x)
    BY DEF Shelved, Sound, Typed
  <1>2. CASE x.state = "STREAMING"
    <2> DEFINE y == [x EXCEPT !.flushed = 0]
               all == q.plane = "OUTPUT"
    <2>1. s' = SendFlush(y, all) /\ queue' = [q EXCEPT !.at = "flush"] /\ on' = on
      BY <1>2 DEF SessionStop
    <2>2. Typed(y) /\ y.flushed = 0 /\ Pooled(y) /\ Counted(y) /\ Leaves(x, y)
      BY DEF Typed, Fields, Pooled, Counted, Leaves, Has, Serves, Dpbs
    <2>3. all \in BOOLEAN
      OBVIOUS
    <2> HIDE DEF y, all
    <2>4. QED
      BY <2>1, <2>2, <2>3, FlushPools DEF Leaves
  <1>3. CASE x.state # "STREAMING" /\ Loaded(x)
    <2> DEFINE w == NewWait(x)
               a == Answer(w, "stop")
    <2>1. s' = FwStop(w) /\ queue' = [q EXCEPT !.at = "stop"] /\ on' = on
      BY <1>3 DEF SessionStop, Loaded
    <2>2. Aside(x, w)
      BY DEF Aside, NewWait, Fields
    <2>3. w.state = x.state /\ Shelved(w) /\ Pooled(w) /\ Leaves(x, w)
      BY <1>1, <2>2, ComposeStores DEF Stores, NewWait, Shelved, Fields
    <2> HIDE DEF w
    <2>4. "stop" \in Commands
      BY DEF Commands
    <2>5. a.state = x.state /\ Shelved(a) /\ Pooled(a) /\ Leaves(x, a)
      BY <2>3, <2>4, AnswerStores DEF Stores, Leaves
    <2> HIDE DEF a
    <2>6. /\ s'.dpb = a.dpb /\ s'.pool = 0 /\ s'.msgs = a.msgs /\ s'.state = a.state
          /\ s'.flushes = a.flushes /\ s'.flushed = a.flushed
      <3>1. s' = [a EXCEPT !.run = FALSE, !.inq = << >>, !.outs = {}, !.pool = 0,
                           !.paused = FALSE]
        BY <2>1 DEF FwStop, a
      <3>2. QED
        BY <2>5, <3>1 DEF Shelved, Fields
    <2>7. a.pool \in Nat /\ Dpbs(a) \in Nat /\ a.state # "STREAMING"
      BY <1>3, <2>5, CountSteps DEF Shelved, Dpbs
    <2>8. Serves(a) => 0 = a.pool + Dpbs(a)
      BY <2>5, <2>7 DEF Pooled
    <2>9. Serves(a) => a.pool = 0
      BY <2>7, <2>8
    <2>10. Pooled(s') /\ Leaves(x, s')
      BY <2>5, <2>6, <2>9 DEF Pooled, Leaves, Has, Serves, Dpbs
    <2>11. queue'.at = "stop" /\ on' = on
      BY <2>1
    <2>12. QED
      BY <2>10, <2>11
  <1>4. CASE x.state # "STREAMING" /\ ~Loaded(x)
    <2>1. StreamoffTail(x, q)
      BY <1>4 DEF SessionStop, Loaded
    <2>2. Serves(x) => x.dpb.queued = 0
      BY <1>4 DEF Pooled
    <2>3. QED
      BY <1>1, <2>1, <2>2, TailStores
  <1>5. QED
    BY <1>2, <1>3, <1>4

(* The firmware on its own, and the faults.                                *)
LEMMA StockedFirmware ==
  ASSUME Stocked, Wired, Firmware \/ Fault
  PROVE  Pooled(s') /\ Leaves(s, s') /\ (Flushing(s) => Flushing(s'))
  <1>1. Typed(s) /\ Shelved(s) /\ Pooled(s)
    BY ComposeStores DEF Stocked, Wired, Line
  (* It sends something that is no DPB. *)
  <1>2. ASSUME NEW d \in Seq(Message), \A k \in DOMAIN d : d[k].type \notin {"dpb", "flush"},
               DOMAIN s' = Fields, s'.msgs = s.msgs \o d, s'.dpb = s.dpb, s'.pool = s.pool,
               s'.state = s.state, s'.flushes = s.flushes, s'.flushed = s.flushed
        PROVE  Pooled(s') /\ Leaves(s, s') /\ (Flushing(s) => Flushing(s'))
    BY <1>1, <1>2, JoinStores
  <1>3. ASSUME NEW m \in Message, m.type \notin {"dpb", "flush"}, s.up,
               \/ s' = Send(s, m)
               \/ s' = [Send(s, m) EXCEPT !.paused = TRUE, !.parsed = TRUE]
               \/ s' = [Send(s, m) EXCEPT !.inq = Tail(@)]
        PROVE  Pooled(s') /\ Leaves(s, s') /\ (Flushing(s) => Flushing(s'))
    <2> DEFINE y == Send(s, m)
               d == <<m>>
    <2>1. /\ y.msgs = s.msgs \o d /\ y.dpb = s.dpb /\ y.pool = s.pool /\ y.up = s.up
          /\ y.state = s.state /\ y.flushes = s.flushes /\ y.flushed = s.flushed
          /\ DOMAIN y = Fields
      <3>1. y = [s EXCEPT !.msgs = Append(@, m)] /\ Append(s.msgs, m) = s.msgs \o d
        BY <1>1, <1>3, AppendIsConcat DEF Send, Typed
      <3>2. QED
        BY <1>1, <3>1 DEF Typed, Fields
    <2> HIDE DEF y
    <2>2. /\ s'.msgs = y.msgs /\ s'.dpb = y.dpb /\ s'.pool = y.pool /\ s'.up = y.up
          /\ s'.state = y.state /\ s'.flushes = y.flushes /\ s'.flushed = y.flushed
          /\ DOMAIN s' = Fields
      <3>1. \/ s' = y
            \/ s' = [y EXCEPT !.paused = TRUE, !.parsed = TRUE]
            \/ s' = [y EXCEPT !.inq = Tail(@)]
        BY <1>3 DEF y
      <3>2. QED
        BY <2>1, <3>1 DEF Fields
    <2>3. d \in Seq(Message) /\ \A k \in DOMAIN d : d[k].type \notin {"dpb", "flush"}
      BY <1>3
    <2> HIDE DEF d
    <2>4. QED
      BY <1>2, <2>1, <2>2, <2>3
  <1>4. ASSUME NEW o, NEW d \in Seq(Message), \A k \in DOMAIN d : d[k].type \notin {"dpb", "flush"},
               s' = [s EXCEPT !.inq = Tail(@), !.outs = @ \ o, !.msgs = @ \o d]
        PROVE  Pooled(s') /\ Leaves(s, s') /\ (Flushing(s) => Flushing(s'))
    <2>1. /\ s'.msgs = s.msgs \o d /\ s'.dpb = s.dpb /\ s'.pool = s.pool
          /\ s'.up = s.up /\ s'.state = s.state /\ s'.flushes = s.flushes
          /\ s'.flushed = s.flushed /\ DOMAIN s' = Fields
      BY <1>1, <1>4 DEF Typed, Fields
    <2>2. QED
      BY <1>2, <1>4, <2>1
  <1>5. s.inq # << >> => Head(s.inq) \in InBufs \cup {Eos}
    BY <1>1 DEF Typed
  <1>6. \A b \in InBufs \cup {Eos} : Etb(b) \in Message /\ Etb(b).type \notin {"dpb", "flush"}
    BY OwnMessages DEF Etb
  <1>7. \A b \in OutBufs : \A pic \in Pictures : \A eos, bad \in BOOLEAN :
          Ftb(b, pic, eos, bad) \in Message /\ Ftb(b, pic, eos, bad).type \notin {"dpb", "flush"}
    BY OwnMessages DEF Ftb
  <1>8. s.outs \subseteq OutBufs
    BY <1>1 DEF Typed
  <1>9. CASE FwSequence
    <2>1. PICK k \in {"fits", "resize", "tenbit"} :
            s' = [Send(s, [type |-> "seq", kind |-> k])
                    EXCEPT !.paused = TRUE, !.parsed = TRUE]
      BY <1>9 DEF FwSequence
    <2> DEFINE m == [type |-> "seq", kind |-> k]
    <2>2. m \in Message /\ m.type \notin {"dpb", "flush"} /\ s.up
      BY <1>9, OwnMessages DEF FwSequence, FwReady
    <2>3. s' = [Send(s, m) EXCEPT !.paused = TRUE, !.parsed = TRUE]
      BY <2>1
    <2> HIDE DEF m
    <2>4. QED
      BY <1>3, <2>2, <2>3
  <1>10. CASE SessionError
    <2> DEFINE m == [type |-> "error"]
    <2>1. m \in Message /\ m.type \notin {"dpb", "flush"} /\ s.up /\ s' = Send(s, m)
      BY <1>10, OwnMessages DEF SessionError
    <2> HIDE DEF m
    <2>2. QED
      BY <1>3, <2>1
  <1>11. CASE Unsupported
    <2> DEFINE m == [Etb(Head(s.inq)) EXCEPT !.ok = FALSE]
    <2>1. s.up /\ s.inq # << >> /\ s' = [Send(s, m) EXCEPT !.inq = Tail(@)]
      BY <1>11 DEF Unsupported
    <2>2. m \in Message /\ m.type \notin {"dpb", "flush"}
      <3> DEFINE e == Etb(Head(s.inq))
                 E == [type : {"etb"}, buf : InBufs \cup {Eos}, ok : BOOLEAN]
      <3>1. e \in E
        BY <1>5, <2>1 DEF Etb
      <3> HIDE DEF e
      <3>2. [e EXCEPT !.ok = FALSE] \in E /\ [e EXCEPT !.ok = FALSE].type \notin {"dpb", "flush"}
        BY <3>1
      <3>3. E \subseteq Message
        BY DEF Message, CalmMessage
      <3>4. QED
        BY <3>2, <3>3 DEF e
    <2> HIDE DEF m
    <2>3. QED
      BY <1>3, <2>1, <2>2
  <1>12. ASSUME NEW e, NEW f, e \in Message, f \in Message, e.type \notin {"dpb", "flush"}, f.type \notin {"dpb", "flush"}
         PROVE  <<e, f>> \in Seq(Message) /\ \A k \in DOMAIN <<e, f>> : <<e, f>>[k].type \notin {"dpb", "flush"}
    BY <1>12
  <1>13. CASE FwPicture
    <2>1. PICK b \in s.outs, bad \in BOOLEAN :
            s' = [s EXCEPT !.inq = Tail(@), !.outs = @ \ {b},
                           !.msgs = @ \o <<Etb(Head(s.inq)), Ftb(b, "single", FALSE, bad)>>]
      BY <1>13 DEF FwPicture
    <2> DEFINE e == Etb(Head(s.inq))
               f == Ftb(b, "single", FALSE, bad)
               d == <<e, f>>
               o == {b}
    <2>2. e \in Message /\ f \in Message /\ e.type \notin {"dpb", "flush"} /\ f.type \notin {"dpb", "flush"}
      BY <1>5, <1>6, <1>7, <1>8, <1>13 DEF Pictures, FwPicture, FwReady
    <2>3. s' = [s EXCEPT !.inq = Tail(@), !.outs = @ \ o, !.msgs = @ \o d]
      BY <2>1
    <2> HIDE DEF e, f, o
    <2>4. d \in Seq(Message) /\ \A k \in DOMAIN d : d[k].type \notin {"dpb", "flush"}
      BY <1>12, <2>2
    <2> HIDE DEF d
    <2>5. QED
      BY <1>4, <2>3, <2>4
  <1>14. CASE FwEndOfStream
    <2>1. PICK b \in s.outs :
            s' = [s EXCEPT !.inq = Tail(@), !.outs = @ \ {b},
                           !.msgs = @ \o <<Etb(Eos), Ftb(b, "empty", TRUE, FALSE)>>]
      BY <1>14 DEF FwEndOfStream
    <2> DEFINE e == Etb(Eos)
               f == Ftb(b, "empty", TRUE, FALSE)
               d == <<e, f>>
               o == {b}
    <2>2. e \in Message /\ f \in Message /\ e.type \notin {"dpb", "flush"} /\ f.type \notin {"dpb", "flush"}
      BY <1>6, <1>7, <1>8 DEF Pictures
    <2>3. s' = [s EXCEPT !.inq = Tail(@), !.outs = @ \ o, !.msgs = @ \o d]
      BY <2>1
    <2> HIDE DEF e, f, o
    <2>4. d \in Seq(Message) /\ \A k \in DOMAIN d : d[k].type \notin {"dpb", "flush"}
      BY <1>12, <2>2
    <2> HIDE DEF d
    <2>5. QED
      BY <1>4, <2>3, <2>4
  <1>15. CASE FwSuperframe
    <2>1. PICK b \in s.outs : \E c \in s.outs \ {b} :
            s' = [s EXCEPT !.inq = Tail(@), !.outs = @ \ {b, c},
                           !.msgs = @ \o <<Etb(Head(s.inq)), Ftb(b, "hidden", FALSE, FALSE),
                                           Ftb(c, "second", FALSE, FALSE)>>]
      BY <1>15 DEF FwSuperframe
    <2>2. PICK c \in s.outs \ {b} :
            s' = [s EXCEPT !.inq = Tail(@), !.outs = @ \ {b, c},
                           !.msgs = @ \o <<Etb(Head(s.inq)), Ftb(b, "hidden", FALSE, FALSE),
                                           Ftb(c, "second", FALSE, FALSE)>>]
      BY <2>1
    <2> DEFINE e == Etb(Head(s.inq))
               f == Ftb(b, "hidden", FALSE, FALSE)
               g == Ftb(c, "second", FALSE, FALSE)
               d == <<e, f, g>>
               o == {b, c}
    <2>3. e \in Message /\ f \in Message /\ e.type \notin {"dpb", "flush"} /\ f.type \notin {"dpb", "flush"}
      BY <1>5, <1>6, <1>7, <1>8, <1>15 DEF Pictures, FwSuperframe, FwReady
    <2>4. g \in Message /\ g.type \notin {"dpb", "flush"}
      BY <1>7, <1>8 DEF Pictures
    <2>5. s' = [s EXCEPT !.inq = Tail(@), !.outs = @ \ o, !.msgs = @ \o d]
      BY <2>2
    <2> HIDE DEF e, f, g, o
    <2>6. d \in Seq(Message) /\ \A k \in DOMAIN d : d[k].type \notin {"dpb", "flush"}
      BY <2>3, <2>4
    <2> HIDE DEF d
    <2>7. QED
      BY <1>4, <2>5, <2>6
  <1>16. CASE Hang
    <2>1. /\ s'.dpb = s.dpb /\ s'.pool = s.pool /\ s'.msgs = s.msgs /\ s'.state = s.state
          /\ s'.flushes = s.flushes /\ s'.flushed = s.flushed
      BY <1>1, <1>16 DEF Hang, Typed, Fields
    <2>2. QED
      BY <1>1, <2>1 DEF Pooled, Flushing, Leaves, Has, Serves, Dpbs
  <1>17. CASE Reject
    <2> DEFINE n == Len(s.msgs)
               m == s.msgs[n]
               e == [m EXCEPT !.ok = FALSE]
               r == [s.msgs EXCEPT ![n] = e]
    <2>1. s' = [s EXCEPT !.msgs = r] /\ s.msgs # << >> /\ m.type \in {"answer", "flush"}
      BY <1>1, <1>17 DEF Reject, Last, Typed, Fields
    <2>2. n \in DOMAIN s.msgs /\ m \in Message
      BY <1>1, <2>1 DEF Typed
    <2>3. e.type = m.type
      BY <2>1, <2>2 DEF Message, CalmMessage
    <2> HIDE DEF m, e
    <2>4. DOMAIN r = DOMAIN s.msgs /\ \A k \in DOMAIN r : r[k].type = s.msgs[k].type
      BY <2>2, <2>3 DEF m
    <2> HIDE DEF n, r
    <2>5. /\ s'.msgs = r /\ s'.dpb = s.dpb /\ s'.pool = s.pool /\ s'.up = s.up
          /\ s'.state = s.state /\ s'.flushes = s.flushes /\ s'.flushed = s.flushed
      BY <1>1, <2>1 DEF Typed, Fields
    <2>6. \A T : Of(r, T) = Of(s.msgs, T)
      BY <2>4 DEF Of
    <2>7. \A T : Count(s'.msgs, T) = Count(s.msgs, T)
      BY <2>5, <2>6 DEF Count
    <2>8. Behind(s.msgs) => Behind(s'.msgs)
      BY <2>4, <2>5 DEF Behind
    <2>9. Pooled(s')
      BY <1>1, <2>5, <2>7, <2>8 DEF Pooled, Serves, Dpbs
    <2>10. (Flushing(s) => Flushing(s')) /\ Leaves(s, s')
      BY <2>5, <2>7 DEF Flushing, Leaves, Has, Serves
    <2>11. QED
      BY <2>9, <2>10
  <1>18. QED
    BY <1>9, <1>10, <1>11, <1>13, <1>14, <1>15, <1>16, <1>17 DEF Firmware, Fault

(* The client, and DECODER_CMD.                                            *)
LEMMA StockedClient ==
  ASSUME Stocked, Wired,
         \/ \E b \in Bufs : QBuf(b) \/ QBufEmpty(b)
         \/ Enqueue \/ DecoderStop \/ DecoderStart \/ DecoderStartWakes
  PROVE  Pooled(s') /\ Leaves(s, s')
  <1>1. Typed(s) /\ Shelved(s) /\ Pooled(s)
    BY ComposeStores DEF Stocked, Wired, Line
  <1>2. Stores(s, s') => Pooled(s') /\ Leaves(s, s')
    BY <1>1 DEF Stores
  <1>3. \A b, streaming : Stores(s, BufQueue(s, b, streaming))
    <2> SUFFICES ASSUME NEW b, NEW streaming
                 PROVE  Stores(s, BufQueue(s, b, streaming))
      OBVIOUS
    <2> DEFINE y == [s EXCEPT !.own[b] = "active"]
               z == [y EXCEPT !.attr[b] = "deferred"]
               u == [s EXCEPT !.own[b] = "user"]
    <2>1. Aside(s, y) /\ Aside(y, z) /\ Aside(s, u)
      BY DEF Aside, Fields
    <2>2. BufQueue(s, b, streaming) \in {u, DoneCapture(s, b, "last"), QueueBuffer(y, b), z}
      BY DEF BufQueue
    <2> HIDE DEF y, z, u
    <2>3. Aside(y, QueueBuffer(y, b)) /\ Aside(s, DoneCapture(s, b, "last"))
      BY BufferAside
    <2>4. Aside(s, BufQueue(s, b, streaming))
      BY <2>1, <2>2, <2>3, ComposeAside
    <2>5. QED
      BY <2>4, ComposeStores
  <1>4. Stores(s, s) /\ Stores(s, Fail(s)) /\ Stores(s, Resume(s))
    <2>1. Aside(s, Fail(s))
      BY StateAside
    <2>2. QED
      BY <2>1, ComposeStores, StreamonStores
  <1>5. CASE \E b \in Bufs : QBuf(b) \/ QBufEmpty(b)
    <2>1. PICK b \in Bufs : QBuf(b) \/ QBufEmpty(b)
      BY <1>5
    <2>2. \/ s' = BufQueue(s, b, TRUE)
          \/ s' = [s EXCEPT !.own[b] = "prepared"]
          \/ s' = Fail(s)
      BY <2>1 DEF QBuf, QBufEmpty
    <2> DEFINE y == [s EXCEPT !.own[b] = "prepared"]
    <2>3. Aside(s, y)
      BY DEF Aside, Fields
    <2> HIDE DEF y
    <2>4. Stores(s, y)
      BY <2>3, ComposeStores
    <2>5. s' \in {BufQueue(s, b, TRUE), y, Fail(s)}
      BY <2>2 DEF y
    <2>6. QED
      BY <1>2, <1>3, <1>4, <2>4, <2>5
  <1>6. CASE Enqueue
    BY <1>2, <1>3, <1>6 DEF Enqueue
  <1>7. CASE DecoderStop
    <2> DEFINE i == IF s.run THEN Append(s.inq, Eos) ELSE s.inq
               x == [s EXCEPT !.inq = i]
               y == ChangeSub(x, {}, {"DRAIN"})
    <2>1. s' = y
      BY <1>7 DEF DecoderStop
    <2> HIDE DEF i
    <2>2. Aside(s, x)
      BY DEF Aside, Fields
    <2> HIDE DEF x
    <2>3. Aside(x, y)
      BY StateAside
    <2> HIDE DEF y
    <2>4. QED
      BY <1>2, <2>1, <2>2, <2>3, ComposeAside, ComposeStores
  <1>8. CASE DecoderStart
    BY <1>2, <1>4, <1>8 DEF DecoderStart
  <1>9. CASE DecoderStartWakes
    <2> DEFINE n == s.flushed - 1
               x == [s EXCEPT !.flushed = n]
    <2>1. s' = Fail(s) \/ (s' = Resume(x) /\ s.flushed > 0)
      BY <1>9 DEF DecoderStartWakes, Completed, Taken
    <2>2. s.flushed \in Nat /\ (n > 0 => s.flushed > 0)
      BY <1>1 DEF Typed
    <2> HIDE DEF n
    <2>3. Stores(s, x)
      BY <2>2 DEF Stores, Shelved, Pooled, Leaves, Has, Serves, Dpbs, Fields
    <2> HIDE DEF x
    <2>4. Stores(x, Resume(x))
      BY StreamonStores
    <2>5. QED
      BY <1>2, <1>4, <2>1, <2>3, <2>4, ComposeStores
  <1>10. QED
    BY <1>5, <1>6, <1>7, <1>8, <1>9

(* STREAMON: a pool is only created while CAPTURE does not stream, when    *)
(* the firmware can have none.                                             *)
LEMMA StockedOn ==
  ASSUME Stocked, Wired, Follows,
         \/ \E p \in Planes : StreamOn(p)
         \/ StartStreaming \/ PropsAnswered \/ LoadAnswered \/ StartAnswered
         \/ ConfigAnswered \/ ReleaseAnswered \/ StreamonExpires
  PROVE  /\ Pooled(s') /\ (Serves(s') /\ Holds(on', queue'.at) => Has(s'))
         /\ queue'.at # "flush"
  <1>1. Typed(s) /\ Shelved(s) /\ Pooled(s)
    BY ComposeStores DEF Stocked, Wired, Line
  <1>2. "at" \in DOMAIN queue
    BY DEF Follows
  <1>3. ASSUME Stores(s, s'), Holds(on', queue'.at) => Holds(on, queue.at)
        PROVE  Pooled(s') /\ (Serves(s') /\ Holds(on', queue'.at) => Has(s'))
    <2>1. Pooled(s') /\ Leaves(s, s')
      BY <1>1, <1>3 DEF Stores
    <2>2. Serves(s) /\ Holds(on, queue.at) => Has(s)
      BY DEF Stocked
    <2>3. QED
      BY <1>3, <2>1, <2>2 DEF Leaves
  <1>4. \A x : Stores(x, NewWait(x))
    <2>1. \A x : Aside(x, NewWait(x))
      BY DEF Aside, Fields, NewWait
    <2>2. QED
      BY <2>1, ComposeStores
  <1>5. \A x : \A w \in Asking : Aside(x, Taken(x, w))
    BY DEF Aside, Fields, Taken, Asking
  <1>6. \A x : \A c \in Commands : Stores(x, Answer(x, c))
    BY AnswerStores
  <1>7. \A x : Sound(x) => Pooled(FailStart(x)) /\ ~Serves(FailStart(x))
    <2> SUFFICES ASSUME NEW x, Sound(x) PROVE Pooled(FailStart(x)) /\ ~Serves(FailStart(x))
      OBVIOUS
    <2> DEFINE y == BuffersDone(x, queue.plane, "prepared")
    <2>1. Sound(y)
      BY BufferKeeps DEF Keeps
    <2>2. FailStart(x) = Fail(y)
      BY DEF FailStart
    <2> HIDE DEF y
    <2>3. QED
      BY <2>1, <2>2, Failing DEF Pooled, Serves
  <1>8. Sound(s)
    BY DEF Follows
  <1>9. /\ FinishOn \/ Rest => queue'.at = "idle"
        /\ FinishOn /\ queue.plane = "OUTPUT" /\ queue.at # "end" =>
             (Holds(on', queue'.at) => Holds(on, queue.at))
    BY DEF FinishOn, Rest, Idle, Holds
  <1>10. CASE \E p \in Planes : StreamOn(p)
    <2>1. s' = s /\ on' = on /\ queue.at = "idle" /\ queue'.at = "enqueue"
      BY <1>10 DEF StreamOn, At, Idle
    <2>2. Stores(s, s')
      BY <2>1, ComposeStores
    <2>3. QED
      BY <1>3, <2>1, <2>2 DEF Holds
  <1>11. CASE StartStreaming
    <2> DEFINE y == Opened(s)
               z == NewWait(y)
    <2>1. CASE s.state = "ERROR"
      BY <1>7, <1>8, <1>9, <1>11, <2>1 DEF StartStreaming
    <2>2. CASE s.state # "ERROR"
      <3>1. PICK l \in {"props", "config"} :
              /\ s' = IF l = "props"
                      THEN [Answer(z, "props") EXCEPT !.off = FALSE, !.held = None,
                                                      !.heldPic = "none", !.drops = 0]
                      ELSE [Answer(z, "config") EXCEPT !.off = FALSE, !.changed = FALSE]
              /\ queue' = [queue EXCEPT !.at = l]
        BY <1>11, <2>2 DEF StartStreaming, Goto
      <3>2. Stores(s, y)
        <4>1. Aside(s, y)
          BY ComposeAside DEF Opened, ChangeState, Aside, Fields
        <4>2. QED
          BY <4>1, ComposeStores
      <3> HIDE DEF y
      <3>3. Stores(y, z)
        BY <1>4
      <3> HIDE DEF z
      <3> DEFINE a == Answer(z, l)
      <3>4. Stores(z, a)
        BY <1>6 DEF Commands
      <3>5. s' = IF l = "props"
                 THEN [a EXCEPT !.off = FALSE, !.held = None, !.heldPic = "none", !.drops = 0]
                 ELSE [a EXCEPT !.off = FALSE, !.changed = FALSE]
        BY <3>1
      <3> HIDE DEF a
      <3>6. Aside(a, s')
        BY <3>5 DEF Aside, Fields
      <3>7. Stores(s, s')
        BY <3>2, <3>3, <3>4, <3>6, ComposeStores
      <3>8. queue'.at = l /\ on' = on /\ queue.at = "enqueue"
        BY <1>2, <1>11, <3>1 DEF StartStreaming, At
      <3>9. QED
        BY <1>3, <3>7, <3>8 DEF Holds
    <2>3. QED
      BY <2>1, <2>2
  <1>12. CASE PropsAnswered
    <2>1. CASE "LOAD_RESOURCES" \in s.sub
      <3> DEFINE x == Taken(s, "props")
      <3>1. s' = StreamonInput(x) /\ FinishOn
        BY <1>12, <2>1 DEF PropsAnswered
      <3>2. Aside(s, x)
        BY <1>5 DEF Asking, Waits
      <3> HIDE DEF x
      <3>3. Stores(x, s')
        BY <3>1, StreamonStores
      <3>4. Stores(s, s') /\ queue.at = "props" /\ queue.plane = "OUTPUT"
        BY <1>12, <3>2, <3>3, ComposeStores DEF PropsAnswered, At, Follows
      <3>5. QED
        BY <1>3, <1>9, <3>1, <3>4
    <2>2. CASE "LOAD_RESOURCES" \notin s.sub
      <3> DEFINE w == NewWait(s)
      <3>1. s' = Answer(w, "load") /\ queue' = [queue EXCEPT !.at = "load"]
        BY <1>12, <2>2 DEF PropsAnswered, Goto
      <3>2. Stores(s, w)
        BY <1>4
      <3> HIDE DEF w
      <3>3. Stores(w, s')
        BY <1>6, <3>1 DEF Commands
      <3>4. Stores(s, s') /\ queue.at = "props" /\ on' = on
        BY <1>12, <2>2, <3>2, <3>3, ComposeStores DEF PropsAnswered, At
      <3>5. QED
        BY <1>2, <1>3, <3>1, <3>4 DEF Holds
    <2>3. QED
      BY <2>1, <2>2
  <1>13. CASE LoadAnswered
    <2> DEFINE w == NewWait(s)
               a == Answer(w, "start")
    <2>1. s' = [a EXCEPT !.run = TRUE] /\ queue' = [queue EXCEPT !.at = "start"]
      BY <1>13 DEF LoadAnswered, FwStart, Goto
    <2>2. Stores(s, w)
      BY <1>4
    <2> HIDE DEF w
    <2>3. Stores(w, a)
      BY <1>6 DEF Commands
    <2> HIDE DEF a
    <2>4. Aside(a, s')
      BY <2>1 DEF Aside, Fields
    <2>5. Stores(s, s')
      BY <2>2, <2>3, <2>4, ComposeStores
    <2>6. queue.at = "load" /\ on' = on
      BY <1>13 DEF LoadAnswered, At
    <2>7. QED
      BY <1>2, <1>3, <2>1, <2>5, <2>6 DEF Holds
  <1>14. CASE StartAnswered
    <2> DEFINE t == Taken(s, "start")
               x == ChangeSub(t, {}, {"LOAD_RESOURCES"})
    <2>1. s' = StreamonInput(x) /\ FinishOn
      BY <1>14 DEF StartAnswered
    <2>2. Aside(s, t)
      BY <1>5 DEF Asking, Waits
    <2> HIDE DEF t
    <2>3. Aside(t, x)
      BY StateAside
    <2> HIDE DEF x
    <2>4. Stores(x, s')
      BY <2>1, StreamonStores
    <2>5. Stores(s, s') /\ queue.at = "start" /\ queue.plane = "OUTPUT"
      BY <1>14, <2>2, <2>3, <2>4, ComposeAside, ComposeStores DEF StartAnswered, At, Follows
    <2>6. QED
      BY <1>3, <1>9, <2>1, <2>5
  <1>15. CASE ConfigAnswered
    <2> DEFINE t == Taken(s, "config")
               x == CreateDpb(t)
    <2>1. IF "INPUT_PAUSE" \in x.sub
          THEN /\ s' = Answer(x, "release")
               /\ queue' = [queue EXCEPT !.at = "release", !.drc = DrcPending(x),
                                         !.drain = DrainPending(x)]
          ELSE s' = StreamonOutput(x, DrcPending(x), DrainPending(x)) /\ FinishOn
      BY <1>15 DEF ConfigAnswered
    <2>2. s.state # "STREAMING"
      <3>1. queue.at = "config" /\ queue.plane = "CAPTURE" /\ queue.plane \notin on
        BY <1>15 DEF ConfigAnswered, At, Follows, Running
      <3>2. s.state # "ERROR" => Fits(s.state, on) /\ on \in SUBSET Planes
        BY <3>1 DEF Follows, Placed
      <3>3. on \in SUBSET Planes => on \in {{}, {"OUTPUT"}} \/ "CAPTURE" \in on
        BY DEF Planes
      <3>4. QED
        BY <3>1, <3>2, <3>3 DEF Fits
    <2>3. Aside(s, t) /\ t.state = s.state
      <3>1. t = [s EXCEPT !.resp = @ - 1]
        BY DEF Taken
      <3>2. QED
        BY <1>1, <1>5, <3>1 DEF Asking, Waits, Typed, Fields
    <2> HIDE DEF t
    <2>4. Stores(t, x) /\ Has(x)
      <3>1. DOMAIN t = Fields /\ t.dpb \in [host : Nat, deferred : Nat, queued : Nat]
        BY <1>1, <2>3 DEF Aside, Typed
      <3>2. x.dpb.host = 1 /\ x.dpb.deferred = 0 /\ x.dpb.queued \in Nat
        BY <3>1 DEF CreateDpb, Fields
      <3>3. Has(x)
        BY <3>2 DEF Has
      <3>4. QED
        BY <2>2, <2>3, <3>3, DpbStores
    <2> HIDE DEF x
    <2>5. Stores(s, x)
      BY <2>3, <2>4, ComposeStores
    <2>6. Shelved(x) /\ Pooled(x)
      BY <1>1, <2>5 DEF Stores
    <2>7. Stores(x, s') => Pooled(s') /\ (Serves(s') => Has(s'))
      BY <2>4, <2>6 DEF Stores, Leaves
    <2>8. CASE "INPUT_PAUSE" \in x.sub
      <3>1. Stores(x, s') /\ queue'.at = "release"
        BY <1>2, <1>6, <2>1, <2>8 DEF Commands
      <3>2. QED
        BY <2>7, <3>1
    <2>9. CASE "INPUT_PAUSE" \notin x.sub
      <3>1. Stores(x, s') /\ FinishOn
        BY <2>1, <2>9, StreamonStores
      <3>2. QED
        BY <1>9, <2>7, <3>1
    <2>10. QED
      BY <2>8, <2>9
  <1>16. CASE ReleaseAnswered
    <2> DEFINE x == Taken(s, "release")
    <2>1. s' = StreamonOutput(x, queue.drc, queue.drain) /\ FinishOn
      BY <1>16 DEF ReleaseAnswered
    <2>2. Aside(s, x)
      BY <1>5 DEF Asking, Waits
    <2> HIDE DEF x
    <2>3. Stores(x, s')
      BY <2>1, StreamonStores
    <2>4. Stores(s, s') /\ queue.at = "release"
      BY <1>16, <2>2, <2>3, ComposeStores DEF ReleaseAnswered, At
    <2>5. QED
      BY <1>3, <1>9, <2>1, <2>4 DEF Holds
  <1>17. CASE StreamonExpires
    <2>1. s' = FailStart(Fail(s)) /\ Rest
      BY <1>17 DEF StreamonExpires
    <2>2. Sound(Fail(s))
      BY <1>8, Failing
    <2>3. QED
      BY <1>7, <1>9, <2>1, <2>2
  <1>18. QED
    BY <1>10, <1>11, <1>12, <1>13, <1>14, <1>15, <1>16, <1>17

(* STREAMOFF: the pool is back before a plane stops.                       *)
LEMMA StockedOff ==
  ASSUME Stocked, Wired, Follows,
         \/ \E p \in Planes : StreamOff(p)
         \/ StopStreaming \/ ReleaseExpires \/ FlushAnswered \/ FlushExpires
         \/ StopEnds \/ UnloadEnds \/ EndAnswered \/ EndExpires
  PROVE  /\ Pooled(s') /\ (Serves(s') /\ Holds(on', queue'.at) => Has(s'))
         /\ queue'.at = "flush" => Flushing(s')
  <1>1. Typed(s) /\ Shelved(s) /\ Pooled(s) /\ Sound(s) /\ Line(s, queue.at)
    BY ComposeStores DEF Stocked, Wired, Line, Follows
  <1>2. /\ queue.plane \in Planes /\ "at" \in DOMAIN queue
        /\ DOMAIN queue = {"at", "plane", "drc", "drain", "rollback"}
    BY DEF Follows
  <1>3. /\ Stores(s, s') => Pooled(s') /\ Leaves(s, s')
        /\ \A x : Stores(s, x) => Pooled(x) /\ Leaves(s, x)
    BY <1>1 DEF Stores
  (* The planes that stream only get fewer, and no call is at the end yet. *)
  <1>17. ASSUME queue'.at = "end" \/ Leaves(s, s'), queue'.at # "release",
                on' \subseteq on, queue.at # "end"
         PROVE  Serves(s') /\ Holds(on', queue'.at) => Has(s')
    <2>1. Serves(s) /\ Holds(on, queue.at) => Has(s)
      BY DEF Stocked
    <2>2. Holds(on', queue'.at) => Leaves(s, s') /\ Holds(on, queue.at)
      BY <1>17 DEF Holds
    <2>3. QED
      BY <2>1, <2>2 DEF Leaves
  <1>4. Aside(s, Fail(s)) /\ Typed(Fail(s)) /\ Fail(s).state = "ERROR"
    <2>1. Still(s, Fail(s)) /\ Aside(s, Fail(s))
      BY StateStill, StateAside
    <2>2. QED
      BY <1>1, <2>1, Failing DEF Still, Tame
  (* A session that is killed has failed. *)
  <1>5. ASSUME NEW x, Sound(x), Shelved(x), Pooled(x), x.state = "ERROR", KillSession(x)
        PROVE  Pooled(s') /\ ~Serves(s') /\ queue'.at # "flush"
    <2> DEFINE a == Answer(x, "end")
               e == FwEnd(x)
               f == Fail(e)
               y == FlushDeferred(f, queue.plane, queue.rollback)
    <2>1. FinishOff(y, TRUE, queue)
      BY <1>5 DEF KillSession
    <2>2. Shelved(a)
      BY <1>5, AnswerStores DEF Stores, Commands
    <2>3. e = [a EXCEPT !.run = FALSE, !.parsed = FALSE, !.inq = << >>, !.outs = {},
                        !.pool = 0, !.paused = FALSE]
      BY DEF FwEnd
    <2> HIDE DEF a
    <2>4. Keeps(x, e)
      BY FwKeeps
    <2> HIDE DEF e
    <2>5. Shelved(e)
      BY <2>2, <2>3 DEF Shelved, Fields
    <2>6. Sound(e) /\ e.state = "ERROR"
      BY <1>5, <2>4 DEF Keeps
    <2>7. Sound(f) /\ f.state = "ERROR"
      BY <2>6, Failing
    <2>8. Aside(e, f)
      BY StateAside
    <2> HIDE DEF f
    <2>9. Keeps(f, y) /\ Aside(f, y)
      BY BufferKeeps, BufferAside
    <2> HIDE DEF y
    <2>10. Shelved(y)
      BY <2>5, <2>8, <2>9, ComposeAside, ComposeStores DEF Stores
    <2>11. Sound(y) /\ y.state = "ERROR"
      BY <2>7, <2>9 DEF Keeps
    <2>12. Pooled(y)
      BY <2>11 DEF Pooled, Serves
    <2>13. Pooled(s') /\ Leaves(y, s') /\ queue'.at = "idle"
      BY <2>1, <2>10, <2>11, <2>12, ExitStores
    <2>14. QED
      BY <2>11, <2>13 DEF Leaves, Serves
  <1>6. CASE \E p \in Planes : StreamOff(p)
    <2>1. s' = s /\ on' = on /\ queue.at = "idle" /\ queue'.at = "off"
      BY <1>6 DEF StreamOff, At, Idle
    <2>2. Leaves(s, s')
      BY <2>1 DEF Leaves
    <2>3. QED
      BY <1>1, <1>17, <2>1, <2>2
  <1>7. CASE StopStreaming
    <2> DEFINE x == IF queue.plane = "CAPTURE"
                    THEN [s EXCEPT !.held = None, !.heldPic = "none"] ELSE s
               y == [x EXCEPT !.off = TRUE]
    <2>1. SessionStop(y, queue)
      BY <1>7 DEF StopStreaming
    <2>2. Typed(x) /\ Aside(s, x)
      BY <1>1 DEF Typed, Aside, Fields
    <2> HIDE DEF x
    <2>3. Typed(y) /\ Aside(x, y)
      BY <2>2 DEF Typed, Aside, Fields
    <2> HIDE DEF y
    <2>4. Pooled(y) /\ Leaves(s, y)
      BY <1>3, <2>2, <2>3, ComposeAside, ComposeStores
    <2>5. Counted(y)
      <3>1. y.flushes = s.flushes /\ y.msgs = s.msgs /\ y.up = s.up
        <4>1. x.flushes = s.flushes /\ x.msgs = s.msgs /\ x.up = s.up /\ DOMAIN x = Fields
          BY <1>1 DEF Typed, Fields, x
        <4>2. QED
          BY <4>1 DEF Fields, y
      <3>2. QED
        BY <1>1, <3>1 DEF Line, Counted
    <2>6. /\ Pooled(s') /\ (queue'.at = "end" \/ Leaves(y, s'))
          /\ queue'.at = "flush" => Flushing(s')
          /\ queue'.at # "release" /\ on' \in {on, on \ {queue.plane}}
      BY <1>2, <2>1, <2>3, <2>4, <2>5, SessionStores
    <2>7. queue.at = "off"
      BY <1>7 DEF StopStreaming, At
    <2>8. QED
      BY <1>17, <2>4, <2>6, <2>7 DEF Leaves
  <1>8. CASE ReleaseExpires
    <2> DEFINE f == Fail(s)
               y == [f EXCEPT !.off = TRUE]
               q == [queue EXCEPT !.rollback = TRUE]
    <2>1. SessionStop(y, q)
      BY <1>8 DEF ReleaseExpires
    <2>2. q.plane = queue.plane /\ "at" \in DOMAIN q
      BY <1>2
    <2>3. Typed(f) /\ f.state = "ERROR" /\ f.flushes = s.flushes /\ f.msgs = s.msgs
          /\ f.up = s.up
      BY <1>1, <1>4, StateStill DEF Still, Tame
    <2> HIDE DEF f, q
    <2>4. Typed(y) /\ y.state = "ERROR" /\ y.flushes = s.flushes /\ y.msgs = s.msgs
          /\ y.up = s.up
      BY <2>3 DEF Typed, Fields
    <2> HIDE DEF y
    <2>5. Pooled(y) /\ ~Serves(y) /\ Counted(y)
      BY <1>1, <2>4 DEF Pooled, Serves, Counted, Line
    <2>6. /\ Pooled(s') /\ (queue'.at = "end" \/ Leaves(y, s'))
          /\ queue'.at = "flush" => Flushing(s')
          /\ queue'.at # "release" /\ on' \in {on, on \ {q.plane}}
      BY <1>2, <2>1, <2>2, <2>4, <2>5, SessionStores
    <2>7. queue.at = "release"
      BY <1>8 DEF ReleaseExpires, At
    <2>8. queue'.at = "end" \/ Leaves(s, s')
      BY <2>5, <2>6 DEF Leaves
    <2>9. QED
      BY <1>17, <2>6, <2>7, <2>8
  <1>9. CASE FlushAnswered
    <2> DEFINE n == s.flushed - 1
               x == [s EXCEPT !.flushed = n]
    <2>1. queue.at = "flush" /\ StreamoffTail(x, queue) /\ s.flushed > 0
      BY <1>9 DEF FlushAnswered, At, Completed, Taken
    <2> HIDE DEF n
    <2>2. /\ Shelved(x) /\ Sound(x) /\ x.dpb = s.dpb /\ Leaves(s, x)
          /\ (Serves(x) => Serves(s)) /\ Pooled(x)
      <3>1. /\ DOMAIN x = Fields /\ x.dpb = s.dpb /\ x.pool = s.pool /\ x.msgs = s.msgs
            /\ x.flushes = s.flushes /\ x.state = s.state
        BY <1>1 DEF Shelved, Fields
      <3>2. Serves(s) => s.flushes = 0
        BY <1>1, <2>1 DEF Pooled
      <3> HIDE DEF x
      <3>3. QED
        BY <1>1, <3>1, <3>2 DEF Shelved, Sound, Pooled, Leaves, Has, Serves, Dpbs
    <2> HIDE DEF x
    <2>3. ASSUME Serves(s)
          PROVE  s.dpb.queued = 0
      <3>1. s.flushes = 0 /\ Behind(s.msgs)
        BY <1>1, <2>1, <2>3 DEF Pooled
      <3>2. s.msgs \in Seq(Message) /\ Count(s.msgs, "flush") \in Nat
        BY <1>1, CountSteps DEF Typed
      <3>3. Count(s.msgs, "flush") = 0
        BY <1>1, <3>1, <3>2 DEF Line, Counted
      <3>4. s.pool = 0
        BY <2>1, <2>3, <3>1, <3>3 DEF Stocked, Flushing
      <3>5. \A j \in DOMAIN s.msgs : s.msgs[j].type # "flush"
        BY <3>2, <3>3, CountZero
      <3>6. \A k \in DOMAIN s.msgs : s.msgs[k].type # "dpb"
        BY <3>1, <3>5 DEF Behind
      <3>7. Dpbs(s) = 0
        BY <3>2, <3>6, CountFree DEF Dpbs
      <3>8. QED
        BY <1>1, <2>3, <3>4, <3>7 DEF Pooled
    <2>4. /\ Pooled(s') /\ (queue'.at = "end" \/ Leaves(x, s'))
          /\ queue'.at \in {"idle", "end"} /\ on' \in {on, on \ {queue.plane}}
      BY <1>2, <2>1, <2>2, <2>3, TailStores
    <2>5. QED
      BY <1>17, <2>1, <2>2, <2>4 DEF Leaves
  <1>10. CASE FlushExpires
    <2>1. KillSession(Fail(s))
      BY <1>10 DEF FlushExpires
    <2>2. Shelved(Fail(s)) /\ Sound(Fail(s)) /\ Pooled(Fail(s))
      BY <1>1, <1>4, ComposeStores, Failing DEF Pooled, Serves
    <2>3. QED
      BY <1>4, <1>5, <2>1, <2>2
  <1>11. CASE StopEnds
    <2>1. queue' = [queue EXCEPT !.at = "unload"]
          /\ (s' = Answer(NewWait(s), "unload") \/ s' = Answer(NewWait(Fail(s)), "unload"))
      BY <1>11 DEF StopEnds, Goto
    <2>2. \A x : Stores(x, Answer(NewWait(x), "unload"))
      <3> SUFFICES ASSUME NEW x PROVE Stores(x, Answer(NewWait(x), "unload"))
        OBVIOUS
      <3> DEFINE w == NewWait(x)
      <3>1. Aside(x, w)
        BY DEF Aside, Fields, NewWait
      <3> HIDE DEF w
      <3>2. Stores(w, Answer(w, "unload"))
        BY AnswerStores DEF Commands
      <3>3. Stores(x, Answer(w, "unload"))
        BY <3>1, <3>2, ComposeStores
      <3>4. QED
        BY <3>3 DEF w
    <2>3. Stores(s, s')
      BY <1>4, <2>1, <2>2, ComposeStores
    <2>4. queue'.at = "unload"
      BY <1>2, <2>1
    <2>5. queue.at = "stop" /\ on' = on
      BY <1>11 DEF StopEnds, At
    <2>6. QED
      BY <1>3, <1>17, <2>3, <2>4, <2>5
  <1>12. CASE UnloadEnds
    <2>1. /\ queue.at = "unload"
          /\ \/ StreamoffTail(Unloaded(Taken(s, "unload")), queue)
             \/ KillSession(Unloaded(Fail(s)))
      BY <1>12 DEF UnloadEnds, At
    <2>2. \A x : Aside(x, Unloaded(x)) /\ Keeps(x, Unloaded(x))
      <3> SUFFICES ASSUME NEW x PROVE Aside(x, Unloaded(x)) /\ Keeps(x, Unloaded(x))
        OBVIOUS
      <3> DEFINE y == ChangeSub(x, {"LOAD_RESOURCES"}, {})
                 z == BuffersDone(y, "OUTPUT", "user")
                 u == BuffersDone(z, "CAPTURE", "user")
      <3>1. Unloaded(x) = u
        BY DEF Unloaded
      <3>2. Aside(x, y) /\ Keeps(x, y)
        BY StateAside, StateKeeps
      <3> HIDE DEF y
      <3>3. Aside(y, z) /\ Keeps(y, z)
        BY BufferAside, BufferKeeps
      <3> HIDE DEF z
      <3>4. Aside(z, u) /\ Keeps(z, u)
        BY BufferAside, BufferKeeps
      <3> HIDE DEF u
      <3>5. Aside(x, u)
        BY <3>2, <3>3, <3>4, ComposeAside
      <3>6. Keeps(x, u)
        BY <3>2, <3>3, <3>4, Compose
      <3>7. QED
        BY <3>1, <3>5, <3>6
    <2>3. CASE StreamoffTail(Unloaded(Taken(s, "unload")), queue)
      <3> DEFINE t == Taken(s, "unload")
                 x == Unloaded(t)
      <3>1. Aside(s, t) /\ Keeps(s, t) /\ t.dpb = s.dpb
        BY <1>1 DEF Aside, Keeps, Sound, Fields, Taken, Typed
      <3> HIDE DEF t
      <3>2. Aside(t, x) /\ Keeps(t, x)
        BY <2>2
      <3>3. StreamoffTail(x, queue)
        BY <2>3 DEF t
      <3> HIDE DEF x
      <3>4. Aside(s, x) /\ Keeps(s, x)
        BY <3>1, <3>2, ComposeAside, Compose
      <3>5. Shelved(x) /\ Pooled(x) /\ Sound(x) /\ Leaves(s, x)
        BY <1>1, <3>4, ComposeStores DEF Stores, Keeps
      <3>6. x.dpb = s.dpb /\ (Serves(x) => Serves(s))
        BY <1>1, <3>4 DEF Aside, Serves, Shelved
      <3>7. Serves(s) => s.dpb.queued = 0
        <4>1. Unloading(s)
          BY <1>1, <2>1 DEF Line
        <4>2. Serves(s) => s.state # "STREAMING"
          BY <4>1 DEF Unloading, Serves
        <4>3. QED
          BY <1>1, <4>2 DEF Pooled
      <3>8. /\ Pooled(s') /\ (queue'.at = "end" \/ Leaves(x, s'))
            /\ queue'.at \in {"idle", "end"} /\ on' \in {on, on \ {queue.plane}}
        BY <1>2, <3>3, <3>5, <3>6, <3>7, TailStores
      <3>9. QED
        BY <1>17, <2>1, <3>5, <3>8 DEF Leaves
    <2>4. CASE KillSession(Unloaded(Fail(s)))
      <3> DEFINE f == Fail(s)
                 x == Unloaded(f)
      <3>1. Aside(s, f) /\ Sound(f) /\ f.state = "ERROR"
        BY <1>1, <1>4, Failing
      <3> HIDE DEF f
      <3>2. Aside(f, x) /\ Keeps(f, x)
        BY <2>2
      <3>3. KillSession(x)
        BY <2>4 DEF f
      <3> HIDE DEF x
      <3>4. Shelved(x) /\ Pooled(x)
        BY <1>1, <3>1, <3>2, ComposeAside, ComposeStores DEF Stores
      <3>5. Sound(x) /\ x.state = "ERROR"
        BY <3>1, <3>2 DEF Keeps
      <3>6. QED
        BY <1>5, <3>3, <3>4, <3>5
    <2>5. QED
      BY <2>1, <2>3, <2>4
  <1>13. \A x : Stores(x, SessionGone(x)) /\ Keeps(x, SessionGone(x))
    BY DEF Stores, Shelved, Pooled, Leaves, Has, Serves, Dpbs, Keeps, Sound, SessionGone,
           Fields
  <1>14. CASE EndAnswered
    <2> DEFINE t == Taken(s, "end")
               c == ChangeState(t, "DEINIT")
               x == SessionGone(c)
    <2>1. queue.at = "end" /\ FinishOff(x, s.state = "ERROR", queue)
      BY <1>14 DEF EndAnswered, At
    <2>2. s.state \in {"INIT", "ERROR"}
      BY <2>1 DEF Follows, Placed
    <2>3. /\ DOMAIN t = Fields /\ t.dpb = s.dpb /\ t.pool = s.pool /\ t.msgs = s.msgs
          /\ t.state = s.state /\ t.flushes = s.flushes /\ t.flushed = s.flushed
      BY <1>1 DEF Taken, Typed, Fields
    <2> HIDE DEF t
    <2>4. /\ DOMAIN c = Fields /\ c.dpb = t.dpb /\ c.pool = t.pool /\ c.msgs = t.msgs
          /\ c.flushes = t.flushes /\ c.flushed = t.flushed
          /\ c.state = IF t.state = "ERROR" THEN "ERROR" ELSE "DEINIT"
      BY <2>2, <2>3 DEF ChangeState, ChangeStateOk, AllowState, Fields
    <2> HIDE DEF c
    <2>5. Shelved(c) /\ Sound(c)
      BY <1>1, <2>3, <2>4 DEF Shelved, Sound, States
    <2>6. Pooled(c)
      BY <1>1, <2>2, <2>3, <2>4 DEF Pooled, Serves, Dpbs
    <2>7. Shelved(x) /\ Sound(x) /\ Pooled(x) /\ Leaves(c, x)
      <3>1. Stores(c, x) /\ Keeps(c, x)
        BY <1>13
      <3> HIDE DEF x
      <3>2. QED
        BY <2>5, <2>6, <3>1 DEF Stores, Keeps
    <2> HIDE DEF x
    <2>8. (s.state = "ERROR") \in BOOLEAN
      OBVIOUS
    <2>9. /\ Pooled(s') /\ Leaves(x, s') /\ queue'.at = "idle"
          /\ on' \in {on, on \ {queue.plane}}
      BY <2>1, <2>7, <2>8, ExitStores
    <2>10. Serves(s') => "CAPTURE" \notin on'
      <3>1. queue.rollback => ~Serves(s')
        <4>1. Sound(BuffersDone(x, queue.plane, "prepared"))
          BY <2>7, BufferKeeps DEF Keeps
        <4>2. QED
          BY <2>1, <4>1, Failing DEF FinishOff, FailStart, Serves
      <3>2. ~queue.rollback => on' = on \ {queue.plane}
        BY <2>1 DEF FinishOff
      <3>3. Serves(x) => s.state # "ERROR"
        BY <2>3, <2>4, <2>7 DEF Leaves, Serves
      <3>4. s.state # "ERROR" => on = {queue.plane}
        BY <2>1 DEF Follows, Placed
      <3>5. QED
        BY <2>9, <3>1, <3>2, <3>3, <3>4 DEF Leaves
    <2>11. QED
      BY <2>9, <2>10 DEF Holds
  <1>15. CASE EndExpires
    <2> DEFINE f == Fail(s)
               x == SessionGone(f)
    <2>1. FinishOff(x, TRUE, queue)
      BY <1>15 DEF EndExpires
    <2>2. Shelved(f) /\ Sound(f) /\ Pooled(f) /\ ~Serves(f)
      BY <1>1, <1>4, ComposeStores, Failing DEF Pooled, Serves
    <2> HIDE DEF f
    <2>3. Stores(f, x) /\ Keeps(f, x)
      BY <1>13
    <2> HIDE DEF x
    <2>4. Shelved(x) /\ Sound(x) /\ Pooled(x)
      BY <2>2, <2>3 DEF Stores, Keeps
    <2>5. Pooled(s') /\ Leaves(x, s') /\ queue'.at = "idle"
      BY <2>1, <2>4, ExitStores
    <2>6. ~Serves(s')
      BY <2>2, <2>3, <2>5 DEF Leaves, Stores
    <2>7. QED
      BY <2>5, <2>6
  <1>16. QED
    BY <1>6, <1>7, <1>8, <1>9, <1>10, <1>11, <1>12, <1>14, <1>15

(* And for good, of a client whose commands come one at a time.            *)
LEMMA StockedNext ==
  ASSUME ~Careless, Stocked, Wired, Follows, [Next]_vars
  PROVE  Stocked'
  <1>1. /\ Pooled(s') /\ (Serves(s') /\ Holds(on', queue'.at) => Has(s'))
        /\ queue'.at = "flush" => Flushing(s')
    <2>1. /\ Pooled(s) /\ (Serves(s) /\ Holds(on, queue.at) => Has(s))
          /\ queue.at = "flush" => Flushing(s)
          /\ command = "flush" => queue.at = "idle"
      BY DEF Stocked
    <2>2. CASE UNCHANGED vars
      BY <2>1, <2>2 DEF vars, Pooled, Flushing, Has, Serves, Dpbs
    <2>3. CASE \/ \E b \in Bufs : QBuf(b) \/ QBufEmpty(b)
               \/ Enqueue \/ DecoderStop \/ DecoderStart \/ DecoderStartWakes
      <3>1. Pooled(s') /\ Leaves(s, s')
        BY <2>3, StockedClient
      <3>2. queue'.at # "flush" /\ queue' = queue /\ on' = on
        BY <2>1, <2>3 DEF QBuf, QBufEmpty, Enqueue, DecoderStop, DecoderStart,
                          DecoderStartWakes, At, Alone
      <3>3. QED
        BY <2>1, <3>1, <3>2 DEF Leaves
    <2>4. CASE \/ \E p \in Planes : StreamOn(p)
               \/ StartStreaming \/ PropsAnswered \/ LoadAnswered \/ StartAnswered
               \/ ConfigAnswered \/ ReleaseAnswered \/ StreamonExpires
      BY <2>4, StockedOn
    <2>5. CASE \/ \E p \in Planes : StreamOff(p)
               \/ StopStreaming \/ ReleaseExpires \/ FlushAnswered \/ FlushExpires
               \/ StopEnds \/ UnloadEnds \/ EndAnswered \/ EndExpires
      BY <2>5, StockedOff
    <2>6. CASE Interrupt \/ Firmware \/ Fault
      <3>1. Pooled(s') /\ Leaves(s, s') /\ (Flushing(s) => Flushing(s'))
        BY <2>6, StockedInterrupt, StockedFirmware
      <3>2. queue' = queue /\ on' = on
        BY <2>6 DEF Interrupt, Firmware, FwSequence, FwPicture, FwSuperframe, FwEndOfStream,
                    Fault, Hang, SessionError, Reject, Unsupported
      <3>3. QED
        BY <2>1, <3>1, <3>2 DEF Leaves
    <2>7. QED
      BY <2>2, <2>3, <2>4, <2>5, <2>6 DEF Next, Client, Driver
  <1>2. command' = "flush" => queue'.at = "idle"
    <2>1. command = "flush" => queue.at = "idle"
      BY DEF Stocked
    <2>2. CASE UNCHANGED vars
      BY <2>1, <2>2 DEF vars
    <2>3. CASE \/ \E b \in Bufs : QBuf(b) \/ QBufEmpty(b)
               \/ Enqueue \/ DecoderStop \/ DecoderStart \/ DecoderStartWakes
      BY <2>1, <2>3 DEF QBuf, QBufEmpty, Enqueue, DecoderStop, DecoderStart,
                        DecoderStartWakes, At, Alone, Others
    <2>4. CASE \/ \E p \in Planes : StreamOn(p) \/ StreamOff(p)
      <3>1. command = "idle" /\ command' = command
        BY <2>4 DEF StreamOn, StreamOff, At, Alone, Others
      <3>2. QED
        BY <3>1
    <2>5. CASE \/ StartStreaming \/ PropsAnswered \/ LoadAnswered \/ StartAnswered
               \/ ConfigAnswered \/ ReleaseAnswered \/ StreamonExpires
               \/ StopStreaming \/ ReleaseExpires \/ FlushAnswered \/ FlushExpires
               \/ StopEnds \/ UnloadEnds \/ EndAnswered \/ EndExpires
      <3>1. queue.at # "idle" /\ command' = command
        BY <2>5 DEF StartStreaming, PropsAnswered, LoadAnswered, StartAnswered,
                    ConfigAnswered, ReleaseAnswered, StreamonExpires, StopStreaming,
                    ReleaseExpires, FlushAnswered, FlushExpires, StopEnds, UnloadEnds,
                    EndAnswered, EndExpires, At, Others
      <3>2. QED
        BY <2>1, <3>1
    <2>6. CASE Interrupt \/ Firmware \/ Fault
      BY <2>1, <2>6 DEF Interrupt, Firmware, FwSequence, FwPicture, FwSuperframe,
                        FwEndOfStream, Fault, Hang, SessionError, Reject, Unsupported
    <2>7. QED
      BY <2>2, <2>3, <2>4, <2>5, <2>6 DEF Next, Client, Driver
  <1>3. QED
    BY <1>1, <1>2 DEF Stocked

LEMMA StockedInit == Init => Stocked
  <1> SUFFICES ASSUME Init PROVE Stocked
    OBVIOUS
  <1>1. s = Closed /\ queue.at = "idle"
    BY DEF Init, Idle
  <1>2. /\ s.dpb.host = 0 /\ s.dpb.deferred = 0 /\ s.dpb.queued = 0 /\ s.pool = 0
        /\ s.msgs = << >>
    BY <1>1 DEF Closed
  <1>3. Dpbs(s) = 0
    BY <1>2, CountNone DEF Dpbs
  <1>4. on = {} /\ command = "idle" /\ s.flushed = 0
    BY <1>1 DEF Init, Closed
  <1>5. QED
    BY <1>1, <1>2, <1>3, <1>4 DEF Stocked, Pooled, Behind, Holds

(* At most one pool of DPBs exists for an instance, whoever has it, of a   *)
(* client that issues one call at a time: what the firmware has of it at a *)
(* restart is not allocated again, as no plane stops before the pool is    *)
(* back, and none is created while both stream.                            *)
THEOREM OnePoolOnly ==
  ASSUME ~Careless
  PROVE  Spec => []OnePool
  <1>1. Init => Stocked
    BY StockedInit
  <1>2. Stocked /\ Wired /\ Follows /\ [Next]_vars => Stocked'
    BY StockedNext
  <1>3. Stocked => OnePool
    BY DEF Stocked, Pooled, Serves, OnePool, Working
  <1>4. QED
    BY <1>1, <1>2, <1>3, StateFollows, WiredAlways, PTL DEF Spec

-----------------------------------------------------------------------------
(* What is pending stays pending, unless a restart or a STREAMON of        *)
(* CAPTURE ends it.                                                        *)
Owing(x, y) ==
  DOMAIN x = Fields => DOMAIN y = Fields /\ (Pending(x) => Pending(y))

LEMMA ComposeOwing ==
  /\ \A x : Owing(x, x)
  /\ \A x, y, z : Owing(x, y) /\ Owing(y, z) => Owing(x, z)
  /\ \A x, y : (DOMAIN x = Fields => DOMAIN y = Fields /\ y.sub = x.sub) => Owing(x, y)
  BY DEF Owing, Pending, DrcPending, DrainPending

(* State and sub-state.                                                    *)
LEMMA StateOwing ==
  ASSUME NEW x
  PROVE  /\ Owing(x, Fail(x)) /\ Owing(x, SubChangeDrc(x))
         /\ Owing(x, SubChangeDrainLast(x)) /\ Owing(x, SubChangeDrcLast(x))
         /\ \A to : Owing(x, ChangeState(x, to))
         /\ \A clear, set : clear \cap {"DRC", "DRC_LAST", "DRAIN", "DRAIN_LAST"} = {} =>
              Owing(x, ChangeSub(x, clear, set))
  <1>1. ASSUME NEW clear, NEW set, clear \cap {"DRC", "DRC_LAST", "DRAIN", "DRAIN_LAST"} = {}
        PROVE  Owing(x, ChangeSub(x, clear, set))
    <2>1. DOMAIN x = Fields =>
            /\ DOMAIN ChangeSub(x, clear, set) = Fields
            /\ ChangeSub(x, clear, set).sub \in {x.sub, (x.sub \cup set) \ clear}
      BY DEF ChangeSub, Fields
    <2>2. /\ "DRC" \notin clear /\ "DRC_LAST" \notin clear
          /\ "DRAIN" \notin clear /\ "DRAIN_LAST" \notin clear
      BY <1>1
    <2>3. QED
      BY <2>1, <2>2 DEF Owing, Pending, DrcPending, DrainPending
  <1>2. \A to : Owing(x, ChangeState(x, to))
    <2>1. \A to : DOMAIN x = Fields =>
            DOMAIN ChangeState(x, to) = Fields /\ ChangeState(x, to).sub = x.sub
      BY DEF ChangeState, Fields
    <2>2. QED
      BY <2>1, ComposeOwing
  <1>3. Owing(x, x)
    BY ComposeOwing
  <1>4. \A set : Owing(x, ChangeSub(x, {}, set))
    BY <1>1
  <1>5. Owing(x, SubChangeDrc(x))
    BY <1>3, <1>4 DEF SubChangeDrc
  <1>6. Owing(x, SubChangeDrainLast(x)) /\ Owing(x, SubChangeDrcLast(x))
    BY <1>3, <1>4 DEF SubChangeDrainLast, SubChangeDrcLast
  <1>7. QED
    BY <1>1, <1>2, <1>5, <1>6 DEF Fail

(* The firmware, and buffers handed over, either way.                      *)
LEMMA BufferOwing ==
  ASSUME NEW x
  PROVE  /\ \A m : Owing(x, Send(x, m))
         /\ \A c : Owing(x, Answer(x, c))
         /\ \A all : Owing(x, SendFlush(x, all))
         /\ Owing(x, FwContinue(x)) /\ Owing(x, FwStop(x)) /\ Owing(x, FwEnd(x))
         /\ Owing(x, FwStart(x)) /\ Owing(x, NewWait(x))
         /\ \A w : Owing(x, Taken(x, w))
         /\ \A b : Owing(x, QueueBuffer(x, b))
         /\ \A p : Owing(x, QueueDeferred(x, p))
         /\ \A p, to : Owing(x, BuffersDone(x, p, to))
         /\ \A b, what : Owing(x, DoneCapture(x, b, what))
         /\ Owing(x, Restarted(x)) /\ Owing(x, QueueDeferredDpb(x))
         /\ Owing(x, CreateDpb(x))
  <1>1. \A m : Owing(x, Send(x, m))
    BY ComposeOwing DEF Send, Fields
  <1>2. \A c : Owing(x, Answer(x, c))
    BY <1>1 DEF Answer
  <1>3. ASSUME NEW all
        PROVE  Owing(x, SendFlush(x, all))
    <2>1. \A a, b, c, d : Owing(x, [x EXCEPT !.msgs = a, !.outs = b, !.pool = c, !.inq = d])
      BY DEF Owing, Pending, DrcPending, DrainPending, Fields
    <2>2. Owing(x, FwFlush(x, all))
      <3>1. CASE ~x.up
        BY <3>1, ComposeOwing DEF FwFlush
      <3>2. CASE x.up
        BY <2>1, <3>2 DEF FwFlush
      <3>3. QED
        BY <3>1, <3>2
    <2>3. \A y : Owing(y, [y EXCEPT !.flushes = @ + 1])
      BY ComposeOwing DEF Fields
    <2>4. QED
      BY <2>2, <2>3, ComposeOwing DEF SendFlush
  <1>4. Owing(x, FwContinue(x)) /\ Owing(x, NewWait(x)) /\ Owing(x, Restarted(x))
    BY DEF Owing, Pending, DrcPending, DrainPending, Fields,
           FwContinue, NewWait, Restarted
  <1>5. \A y : /\ Owing(y, [y EXCEPT !.run = FALSE, !.inq = <<>>, !.outs = {},
                                     !.pool = 0, !.paused = FALSE])
               /\ Owing(y, [y EXCEPT !.run = FALSE, !.parsed = FALSE, !.inq = <<>>,
                                     !.outs = {}, !.pool = 0, !.paused = FALSE])
               /\ Owing(y, [y EXCEPT !.run = TRUE])
    BY DEF Owing, Pending, DrcPending, DrainPending, Fields
  <1>6. Owing(x, FwStop(x)) /\ Owing(x, FwEnd(x)) /\ Owing(x, FwStart(x))
    BY <1>2, <1>5, ComposeOwing DEF FwStop, FwEnd, FwStart
  <1>7. \A w : Owing(x, Taken(x, w))
    BY ComposeOwing DEF Fields, Taken
  <1>8. \A b : Owing(x, QueueBuffer(x, b))
    BY DEF Owing, Pending, DrcPending, DrainPending, Fields, QueueBuffer
  <1>9. \A p : Owing(x, QueueDeferred(x, p))
    <2>1. \A a, b, c : Owing(x, [x EXCEPT !.attr = a, !.inq = b, !.outs = c])
      BY DEF Owing, Pending, DrcPending, DrainPending, Fields
    <2>2. QED
      BY <2>1 DEF QueueDeferred
  <1>10. \A a : Owing(x, [x EXCEPT !.own = a])
    BY ComposeOwing DEF Fields
  <1>11. \A p, to : Owing(x, BuffersDone(x, p, to))
    BY <1>10 DEF BuffersDone
  <1>12. \A b, what : Owing(x, DoneCapture(x, b, what))
    BY DEF Owing, Pending, DrcPending, DrainPending, Fields, DoneCapture
  <1>13. Owing(x, QueueDeferredDpb(x)) /\ Owing(x, CreateDpb(x))
    BY DEF Owing, Pending, DrcPending, DrainPending, Fields,
           QueueDeferredDpb, SendDpb, CreateDpb
  <1>14. QED
    BY <1>1, <1>2, <1>3, <1>4, <1>6, <1>7, <1>8, <1>9, <1>11, <1>12, <1>13

(* A buffer comes back, either way, or an answer.                          *)
LEMMA FrameOwing ==
  ASSUME NEW x0, NEW m
  PROVE  /\ Owing(x0, FtbDone(x0, m)) /\ Owing(x0, EtbDone(x0, m))
         /\ Owing(x0, DpbFtbDone(x0))
         /\ Owing(x0, FlushDone(x0, m)) /\ Owing(x0, AnswerDone(x0, m))
  <1>1. \A x : Owing(x, Unmatched(x))
    BY StateOwing, ComposeOwing DEF Unmatched
  <1>2. \A x : Owing(x, DrainArm(x))
    <2> SUFFICES ASSUME NEW x PROVE Owing(x, DrainArm(x))
      OBVIOUS
    <2> DEFINE y == [x EXCEPT !.flushed = 0]
               z == SendFlush(y, FALSE)
    <2>1. Owing(x, y)
      BY ComposeOwing DEF Fields
    <2>2. DrainArm(x) = SubChangeDrainLast(z)
      BY DEF DrainArm
    <2> HIDE DEF y
    <2>3. Owing(y, z)
      BY BufferOwing
    <2> HIDE DEF z
    <2>4. Owing(z, SubChangeDrainLast(z))
      BY StateOwing
    <2>5. QED
      BY <2>1, <2>2, <2>3, <2>4, ComposeOwing
  <1>3. ASSUME NEW x
        PROVE  Owing(x, SettleHeld(x, m)) /\ Owing(x, FillDone(x, m))
    <2> DEFINE y == [x EXCEPT !.attr[m.buf] = "done",
                              !.drops = IF m.pic = "empty" THEN @ ELSE 0]
               z == [x EXCEPT !.drops = @ + 1]
               h == [y EXCEPT !.held = m.buf, !.heldPic = m.pic]
    <2>1. \A u : Owing(u, [u EXCEPT !.held = None, !.heldPic = "none"])
      BY DEF Owing, Pending, DrcPending, DrainPending, Fields
    <2>2. /\ \A b : Owing(x, QueueBuffer(x, b))
          /\ \A b, what : Owing(x, DoneCapture(x, b, what))
      BY BufferOwing
    <2>3. Owing(x, SettleHeld(x, m))
      BY <2>1, <2>2, ComposeOwing DEF SettleHeld
    <2>4. \/ FillDone(x, m) = QueueBuffer(z, m.buf)
          \/ FillDone(x, m) = h
          \/ \E what : FillDone(x, m) = DoneCapture(y, m.buf, what)
      BY DEF FillDone
    <2>5. Owing(x, y) /\ Owing(x, z) /\ Owing(y, h)
      BY DEF Owing, Pending, DrcPending, DrainPending, Fields
    <2> HIDE DEF y, z, h
    <2>6. Owing(z, QueueBuffer(z, m.buf)) /\ \A what : Owing(y, DoneCapture(y, m.buf, what))
      BY BufferOwing
    <2>7. QED
      BY <2>3, <2>4, <2>5, <2>6, ComposeOwing
  <1>4. Owing(x0, FtbDone(x0, m))
    <2> DEFINE x == IF m.eos /\ m.pic = "empty" THEN DrainArm(x0) ELSE x0
               y == [x EXCEPT !.held = None, !.last = @ \/ Terminal(x, m)]
               z == SettleHeld(x, m)
    <2>1. FtbDone(x0, m) \in {Unmatched(x), Unmatched(y), FillDone(z, m)}
      BY DEF FtbDone
    <2>2. Owing(x0, x)
      BY <1>2, ComposeOwing
    <2> HIDE DEF x
    <2>3. Owing(x, y)
      BY DEF Owing, Pending, DrcPending, DrainPending, Fields
    <2>4. Owing(x, z)
      BY <1>3
    <2> HIDE DEF y, z
    <2>5. Owing(x, Unmatched(x)) /\ Owing(y, Unmatched(y)) /\ Owing(z, FillDone(z, m))
      BY <1>1, <1>3
    <2>6. QED
      BY <2>1, <2>2, <2>3, <2>4, <2>5, ComposeOwing
  <1> DEFINE f == IF m.ok THEN x0 ELSE Fail(x0)
  <1>5. Owing(x0, f) /\ Owing(x0, Fail(x0))
    BY StateOwing, ComposeOwing
  <1>6. Owing(x0, EtbDone(x0, m))
    <2> DEFINE z == [f EXCEPT !.attr[m.buf] = "done", !.own[m.buf] = "user"]
    <2>1. EtbDone(x0, m) \in {x0, Fail(x0), f, z}
      BY DEF EtbDone
    <2> HIDE DEF f
    <2>2. Owing(f, z)
      BY DEF Owing, Pending, DrcPending, DrainPending, Fields
    <2> HIDE DEF z
    <2>3. QED
      BY <1>5, <2>1, <2>2, ComposeOwing
  <1>7. Owing(x0, DpbFtbDone(x0))
    <2>1. Owing(x0, [x0 EXCEPT !.dpb.queued = @ - 1, !.dpb.host = @ + 1])
      BY DEF Owing, Pending, DrcPending, DrainPending, Fields
    <2>2. QED
      BY <1>1, <2>1 DEF DpbFtbDone
  <1>8. Owing(x0, FlushDone(x0, m)) /\ Owing(x0, AnswerDone(x0, m))
    <2> DEFINE y == [f EXCEPT !.flushes = @ - 1]
               z == [y EXCEPT !.flushed = @ + 1]
               u == [f EXCEPT !.resp = IF @ < MaxDone THEN @ + 1 ELSE @]
    <2>1. FlushDone(x0, m) \in {y, z} /\ AnswerDone(x0, m) = u
      BY DEF FlushDone, AnswerDone
    <2> HIDE DEF f
    <2>2. Owing(f, y) /\ Owing(f, u)
      BY ComposeOwing DEF Fields
    <2>3. Owing(y, z)
      BY DEF Owing, Pending, DrcPending, DrainPending, Fields
    <2> HIDE DEF y, z, u
    <2>4. QED
      BY <1>5, <2>1, <2>2, <2>3, ComposeOwing
  <1>9. QED
    BY <1>4, <1>6, <1>7, <1>8

(* A new sequence clears the marks of a source change only where one of    *)
(* the two is missing.                                                     *)
LEMMA SequenceOwing ==
  \A x, m : Owing(x, SeqChanged(x, m))
  <1>1. ASSUME NEW x
        PROVE  Owing(x, ArmDrc(x))
    <2> DEFINE y == SubChangeDrc(x)
               u == IF y.flushes = 0 THEN [y EXCEPT !.flushed = 0] ELSE y
               z == IF y.state # "ERROR" /\ "FIRST_IPSC" \notin y.sub
                    THEN SendFlush(u, FALSE) ELSE y
    <2>1. ArmDrc(x) \in {x, SubChangeDrcLast(z)}
      BY DEF ArmDrc
    <2>2. Owing(x, y) /\ Owing(x, x)
      BY StateOwing, ComposeOwing
    <2> HIDE DEF y
    <2>3. Owing(y, [y EXCEPT !.flushed = 0])
      BY ComposeOwing DEF Fields
    <2>4. Owing(y, u)
      BY <2>3, ComposeOwing
    <2> HIDE DEF u
    <2>5. Owing(u, SendFlush(u, FALSE))
      BY BufferOwing
    <2>6. Owing(y, z)
      BY <2>4, <2>5, ComposeOwing
    <2> HIDE DEF z
    <2>7. Owing(z, SubChangeDrcLast(z))
      BY StateOwing
    <2>8. QED
      BY <2>1, <2>2, <2>6, <2>7, ComposeOwing
  <1>2. ASSUME NEW x, NEW m
        PROVE  Owing(x, SeqChanged(x, m))
    <2> DEFINE y == [x EXCEPT !.known = TRUE, !.changed = @ \/ m.kind = "tenbit"]
               z == FwContinue(y)
               C == {"DRC", "FIRST_IPSC", "INPUT_PAUSE"}
               u == ChangeSub(z, C, {})
    <2>1. \/ SeqChanged(x, m) \in {x, ArmDrc(y)}
          \/ SeqChanged(x, m) = u /\ "DRC" \notin x.sub
      BY DEF SeqChanged
    <2>2. DOMAIN x = Fields => DOMAIN y = Fields /\ y.sub = x.sub
      BY DEF Fields
    <2>3. Owing(x, y) /\ Owing(x, x)
      BY <2>2, ComposeOwing
    <2> HIDE DEF y
    <2>4. DOMAIN y = Fields => DOMAIN z = Fields /\ z.sub = y.sub
      BY DEF FwContinue, Fields
    <2> HIDE DEF z
    <2>5. DOMAIN z = Fields => DOMAIN u = Fields /\ u.sub \in {z.sub, (z.sub \cup {}) \ C}
      BY DEF ChangeSub, Fields
    <2>6. "DRAIN" \notin C /\ "DRAIN_LAST" \notin C
      OBVIOUS
    <2> HIDE DEF u, C
    <2>7. "DRC" \notin x.sub => Owing(x, u)
      BY <2>2, <2>4, <2>5, <2>6 DEF Owing, Pending, DrcPending, DrainPending
    <2>8. Owing(x, ArmDrc(y))
      BY <1>1, <2>3, ComposeOwing
    <2>9. QED
      BY <2>1, <2>3, <2>7, <2>8
  <1>3. QED
    BY <1>2

LEMMA HandleOwing ==
  \A x, m : Owing(x, Handle(x, m))
  <1>1. \A x : Owing(x, Fail(x))
    BY StateOwing
  <1>2. QED
    BY <1>1, FrameOwing, SequenceOwing DEF Handle

-----------------------------------------------------------------------------
(* A STREAMOFF never ends in STREAMING.                                    *)
LEMMA OffEnds ==
  ASSUME Follows', NEW x, Sound(x), NEW q, q.plane = queue.plane, queue.plane \in Planes,
         \/ \E failed \in BOOLEAN : FinishOff(x, failed, q)
         \/ StreamoffTail(x, q)
  PROVE  s'.state # "STREAMING"
  <1>1. \A planes \in SUBSET Planes : Fits("STREAMING", planes) => planes = Planes
    <2>1. \A planes \in SUBSET Planes : planes \in {{}, {"OUTPUT"}, {"CAPTURE"}, Planes}
      BY DEF Planes
    <2>2. QED
      BY <2>1 DEF Fits
  <1>2. ASSUME NEW y, Sound(y), NEW failed \in BOOLEAN, FinishOff(y, failed, q)
        PROVE  s'.state # "STREAMING"
    <2>1. CASE q.rollback
      <3> DEFINE z == BuffersDone(y, queue.plane, "prepared")
      <3>1. s' = Fail(z)
        BY <1>2, <2>1 DEF FinishOff, FailStart
      <3>2. Sound(z)
        BY <1>2, BufferKeeps DEF Keeps
      <3> HIDE DEF z
      <3>3. QED
        BY <3>1, <3>2, Failing
    <2>2. CASE ~q.rollback
      <3>1. on' = on \ {q.plane} /\ queue' = Idle
        BY <1>2, <2>2 DEF FinishOff, Rest
      <3>2. /\ s'.state # "ERROR" => Placed(s'.state, on', queue')
            /\ on' \in SUBSET Planes
        BY DEF Follows
      <3>3. s'.state = "STREAMING" => on' = Planes
        BY <1>1, <3>1, <3>2 DEF Placed, Idle
      <3>4. QED
        BY <3>1, <3>3
    <2>3. QED
      BY <2>1, <2>2
  <1>3. CASE StreamoffTail(x, q)
    <2> DEFINE t == StateChangeStreamoff(x, q.plane)
               y == FlushDeferred(t, q.plane, q.rollback)
    <2>1. IF y.state = "INIT" THEN Goto("end") ELSE FinishOff(y, FALSE, q)
      BY <1>3 DEF StreamoffTail
    <2>2. Sound(t)
      BY Targets
    <2> HIDE DEF t
    <2>3. Sound(y)
      BY <2>2, BufferKeeps DEF Keeps
    <2> HIDE DEF y
    <2>4. CASE y.state = "INIT"
      <3>1. DOMAIN queue' = {"at", "plane", "drc", "drain", "rollback"}
            /\ (s'.state # "ERROR" => Placed(s'.state, on', queue'))
        BY DEF Follows
      <3>2. queue' = [queue EXCEPT !.at = "end"]
        BY <2>1, <2>4 DEF Goto
      <3>3. queue'.at = "end"
        BY <3>1, <3>2
      <3>4. QED
        BY <3>1, <3>3 DEF Placed
    <2>5. QED
      BY <1>2, <2>1, <2>3, <2>4
  <1>4. QED
    BY <1>2, <1>3

(* Where a session stops only to go on streaming, nothing is forgotten.    *)
LEMMA StopOwing ==
  ASSUME Follows', NEW x, Sound(x), NEW q, q.plane = queue.plane, queue.plane \in Planes,
         SessionStop(x, q), s'.state = "STREAMING"
  PROVE  Owing(x, s')
  <1>1. CASE x.state = "STREAMING"
    <2> DEFINE y == [x EXCEPT !.flushed = 0]
    <2>1. s' = SendFlush(y, q.plane = "OUTPUT")
      BY <1>1 DEF SessionStop
    <2>2. Owing(x, y)
      BY DEF Owing, Pending, DrcPending, DrainPending, Fields
    <2> HIDE DEF y
    <2>3. QED
      BY <2>1, <2>2, BufferOwing, ComposeOwing
  <1>2. CASE x.state # "STREAMING" /\ "LOAD_RESOURCES" \in x.sub
    <2> DEFINE y == NewWait(x)
    <2>1. s' = FwStop(y)
      BY <1>2 DEF SessionStop
    <2>2. Keeps(x, y)
      BY DEF Keeps, Sound, Fields, NewWait
    <2> HIDE DEF y
    <2>3. Keeps(x, s')
      BY <2>1, <2>2, FwKeeps, Compose
    <2>4. QED
      BY <1>2, <2>3 DEF Keeps
  <1>3. CASE x.state # "STREAMING" /\ "LOAD_RESOURCES" \notin x.sub
    BY <1>3, OffEnds DEF SessionStop
  <1>4. QED
    BY <1>1, <1>2, <1>3

(* Steps that are no restart and no STREAMON of CAPTURE.                   *)
LEMMA PendingKept ==
  ASSUME Follows, Follows', [Next]_vars, s'.state = "STREAMING",
         ~ConfigAnswered, ~ReleaseAnswered, ~DecoderStart, ~DecoderStartWakes
  PROVE  Pending(s) => Pending(s')
  <1>1. Sound(s) /\ queue.plane \in Planes /\ DOMAIN queue = {"at", "plane", "drc", "drain", "rollback"}
    BY DEF Follows
  <1>2. SUFFICES Owing(s, s')
    BY <1>1 DEF Owing, Sound
  <1>3. Owing(s, s) /\ Owing(s, Fail(s))
    BY ComposeOwing, StateOwing
  <1>4. CASE UNCHANGED vars \/ \E p \in Planes : StreamOn(p) \/ StreamOff(p)
    <2>1. s' = s
      BY <1>4 DEF vars, StreamOn, StreamOff
    <2>2. QED
      BY <1>3, <2>1
  <1>5. \A b, streaming : Owing(s, BufQueue(s, b, streaming))
    <2> SUFFICES ASSUME NEW b, NEW streaming
                 PROVE  Owing(s, BufQueue(s, b, streaming))
      OBVIOUS
    <2> DEFINE y == [s EXCEPT !.own[b] = "active"]
               z == [y EXCEPT !.attr[b] = "deferred"]
               u == [s EXCEPT !.own[b] = "user"]
    <2>1. Owing(s, y) /\ Owing(y, z) /\ Owing(s, u)
      BY DEF Owing, Pending, DrcPending, DrainPending, Fields
    <2>2. BufQueue(s, b, streaming) \in {u, DoneCapture(s, b, "last"), QueueBuffer(y, b), z}
      BY DEF BufQueue
    <2> HIDE DEF y, z, u
    <2>3. Owing(y, QueueBuffer(y, b)) /\ Owing(s, DoneCapture(s, b, "last"))
      BY BufferOwing
    <2>4. QED
      BY <2>1, <2>2, <2>3, ComposeOwing
  <1>6. CASE \E b \in Bufs : QBuf(b) \/ QBufEmpty(b)
    <2>1. PICK b \in Bufs : QBuf(b) \/ QBufEmpty(b)
      BY <1>6
    <2> DEFINE y == [s EXCEPT !.own[b] = "prepared"]
    <2>2. s' \in {BufQueue(s, b, TRUE), y, Fail(s)}
      BY <2>1 DEF QBuf, QBufEmpty
    <2>3. Owing(s, y)
      BY DEF Owing, Pending, DrcPending, DrainPending, Fields
    <2> HIDE DEF y
    <2>4. QED
      BY <1>3, <1>5, <2>2, <2>3
  <1>7. CASE Enqueue
    BY <1>5, <1>7 DEF Enqueue
  <1>8. CASE DecoderStop
    <2> DEFINE i == IF s.run THEN Append(s.inq, Eos) ELSE s.inq
               x == [s EXCEPT !.inq = i]
               y == ChangeSub(x, {}, {"DRAIN"})
    <2>1. s' = y
      BY <1>8 DEF DecoderStop
    <2> HIDE DEF i
    <2>2. Owing(s, x)
      BY DEF Owing, Pending, DrcPending, DrainPending, Fields
    <2> HIDE DEF x
    <2>3. Owing(x, y)
      BY StateOwing
    <2> HIDE DEF y
    <2>4. QED
      BY <2>1, <2>2, <2>3, ComposeOwing
  <1>9. \A x : Owing(x, StreamonInput(x))
    <2> SUFFICES ASSUME NEW x PROVE Owing(x, StreamonInput(x))
      OBVIOUS
    <2> DEFINE P == {"INPUT_PAUSE"}
               y == ChangeSub(x, P, {})
               pause == IF y.sub \cap {"DRC", "DRAIN", "FIRST_IPSC"} # {}
                        THEN {"INPUT_PAUSE"} ELSE {}
               t == StateChangeStreamon(y, "OUTPUT")
               z == Restarted(t)
               u == ChangeSub(z, {}, pause)
               v == QueueDeferred(u, "OUTPUT")
               w == QueueDeferredDpb(v)
    <2>1. StreamonInput(x) \in {v, QueueDeferred(w, "CAPTURE")}
      BY DEF StreamonInput, QueueAllDeferred
    <2>2. P \cap {"DRC", "DRC_LAST", "DRAIN", "DRAIN_LAST"} = {}
      OBVIOUS
    <2> HIDE DEF P, pause
    <2>3. Owing(x, y)
      BY <2>2, StateOwing
    <2> HIDE DEF y
    <2>4. Owing(y, t)
      BY StateOwing DEF StateChangeStreamon
    <2> HIDE DEF t
    <2>5. Owing(t, z)
      BY BufferOwing
    <2> HIDE DEF z
    <2>6. Owing(z, u)
      BY StateOwing
    <2> HIDE DEF u
    <2>7. Owing(u, v)
      BY BufferOwing
    <2> HIDE DEF v
    <2>8. Owing(v, w)
      BY BufferOwing
    <2> HIDE DEF w
    <2>9. Owing(w, QueueDeferred(w, "CAPTURE"))
      BY BufferOwing
    <2>10. Owing(x, v)
      BY <2>3, <2>4, <2>5, <2>6, <2>7, ComposeOwing
    <2>11. QED
      BY <2>1, <2>8, <2>9, <2>10, ComposeOwing
  <1>10. \A x, c : Owing(x, Answer(NewWait(x), c))
    BY BufferOwing, ComposeOwing
  <1>11. CASE StartStreaming
    <2> DEFINE y == Opened(s)
               z == NewWait(y)
               f == BuffersDone(s, queue.plane, "prepared")
    <2>1. \/ s' = Fail(f)
          \/ s' = [Answer(z, "props") EXCEPT !.off = FALSE, !.held = None,
                                             !.heldPic = "none", !.drops = 0]
          \/ s' = [Answer(z, "config") EXCEPT !.off = FALSE, !.changed = FALSE]
      BY <1>11 DEF StartStreaming, FailStart
    <2>2. Owing(s, y) /\ Owing(s, f)
      BY StateOwing, BufferOwing, ComposeOwing DEF Opened
    <2> HIDE DEF f, y
    <2>3. Owing(y, z)
      BY BufferOwing
    <2> HIDE DEF z
    <2>4. \A c : Owing(z, Answer(z, c))
      BY BufferOwing
    <2>5. \A x : /\ Owing(x, [x EXCEPT !.off = FALSE, !.held = None, !.heldPic = "none",
                                       !.drops = 0])
                 /\ Owing(x, [x EXCEPT !.off = FALSE, !.changed = FALSE])
      BY DEF Owing, Pending, DrcPending, DrainPending, Fields
    <2>6. Owing(f, Fail(f))
      BY StateOwing
    <2>7. QED
      BY <2>1, <2>2, <2>3, <2>4, <2>5, <2>6, ComposeOwing
  <1>12. CASE PropsAnswered \/ LoadAnswered \/ StartAnswered
    <2> DEFINE t == Taken(s, "start")
               x == ChangeSub(t, {}, {"LOAD_RESOURCES"})
               p == Taken(s, "props")
               w == NewWait(s)
    <2>1. s' \in {StreamonInput(p), Answer(w, "load"), FwStart(w), StreamonInput(x)}
      BY <1>12 DEF PropsAnswered, LoadAnswered, StartAnswered
    <2>2. Owing(s, t) /\ Owing(s, p) /\ Owing(s, w)
      BY BufferOwing
    <2> HIDE DEF t, p, w
    <2>3. Owing(t, x)
      BY StateOwing
    <2> HIDE DEF x
    <2>4. Owing(w, Answer(w, "load")) /\ Owing(w, FwStart(w))
      BY BufferOwing
    <2>5. QED
      BY <1>9, <2>1, <2>2, <2>3, <2>4, ComposeOwing
  <1>13. CASE StreamonExpires
    <2> DEFINE y == BuffersDone(Fail(s), queue.plane, "prepared")
    <2>1. s' = Fail(y)
      BY <1>13 DEF StreamonExpires, FailStart
    <2>2. Owing(s, y)
      BY <1>3, BufferOwing, ComposeOwing
    <2> HIDE DEF y
    <2>3. QED
      BY <2>1, <2>2, StateOwing, ComposeOwing
  <1>14. CASE StopStreaming
    <2> DEFINE x == IF queue.plane = "CAPTURE"
                    THEN [s EXCEPT !.held = None, !.heldPic = "none"] ELSE s
               y == [x EXCEPT !.off = TRUE]
    <2>1. SessionStop(y, queue)
      BY <1>14 DEF StopStreaming
    <2>2. Sound(x) /\ Owing(s, x)
      BY <1>1 DEF Sound, Owing, Pending, DrcPending, DrainPending, Fields
    <2> HIDE DEF x
    <2>3. Sound(y) /\ Owing(x, y)
      BY <2>2 DEF Sound, Owing, Pending, DrcPending, DrainPending, Fields
    <2> HIDE DEF y
    <2>4. Owing(y, s')
      BY <1>1, <2>1, <2>3, StopOwing
    <2>5. QED
      BY <2>2, <2>3, <2>4, ComposeOwing
  <1>15. CASE ReleaseExpires
    <2> DEFINE f == Fail(s)
               y == [f EXCEPT !.off = TRUE]
               q == [queue EXCEPT !.rollback = TRUE]
    <2>1. SessionStop(y, q) /\ q.plane = queue.plane
      BY <1>1, <1>15 DEF ReleaseExpires
    <2>2. Sound(f) /\ Owing(s, f)
      BY <1>1, <1>3, Failing
    <2> HIDE DEF f
    <2>3. Sound(y) /\ Owing(f, y)
      BY <2>2 DEF Sound, Owing, Pending, DrcPending, DrainPending, Fields
    <2> HIDE DEF y, q
    <2>4. Owing(y, s')
      BY <1>1, <2>1, <2>3, StopOwing
    <2>5. QED
      BY <2>2, <2>3, <2>4, ComposeOwing
  <1>16. \A x, w : Sound(x) => Sound(Taken(x, w))
    BY DEF Sound, Taken, Fields
  <1>17. ASSUME NEW x, Sound(x), KillSession(x) PROVE FALSE
    <2> DEFINE e == FwEnd(x)
               f == Fail(e)
               y == FlushDeferred(f, queue.plane, queue.rollback)
    <2>1. FinishOff(y, TRUE, queue)
      BY <1>17 DEF KillSession
    <2>2. Keeps(x, e)
      BY FwKeeps
    <2> HIDE DEF e
    <2>3. Keeps(e, f)
      BY StateKeeps
    <2> HIDE DEF f
    <2>4. Keeps(f, y)
      BY BufferKeeps
    <2>5. Sound(y)
      BY <1>17, <2>2, <2>3, <2>4 DEF Keeps
    <2> HIDE DEF y
    <2>6. QED
      BY <1>1, <2>1, <2>5, OffEnds
  <1>18. CASE FlushAnswered
    BY <1>1, <1>16, <1>18, OffEnds DEF FlushAnswered
  <1>19. CASE FlushExpires
    <2>1. Sound(Fail(s))
      BY <1>1, Failing
    <2>2. QED
      BY <1>17, <1>19, <2>1 DEF FlushExpires
  <1>20. CASE StopEnds
    <2>1. s' \in {Answer(NewWait(s), "unload"), Answer(NewWait(Fail(s)), "unload")}
      BY <1>20 DEF StopEnds
    <2>2. QED
      BY <1>3, <1>10, <2>1, ComposeOwing
  <1>21. \A x : Sound(x) => Sound(Unloaded(x))
    <2> SUFFICES ASSUME NEW x PROVE Keeps(x, Unloaded(x))
      BY DEF Keeps
    <2> DEFINE y == ChangeSub(x, {"LOAD_RESOURCES"}, {})
               z == BuffersDone(y, "OUTPUT", "user")
    <2>1. Keeps(x, y)
      BY StateKeeps
    <2> HIDE DEF y
    <2>2. Keeps(y, z)
      BY BufferKeeps
    <2> HIDE DEF z
    <2>3. Keeps(z, BuffersDone(z, "CAPTURE", "user"))
      BY BufferKeeps
    <2>4. QED
      BY <2>1, <2>2, <2>3, Compose DEF Unloaded, y, z
  <1>22. CASE UnloadEnds
    <2>1. Sound(Taken(s, "unload")) /\ Sound(Fail(s))
      BY <1>1, <1>16, Failing
    <2>2. Sound(Unloaded(Taken(s, "unload"))) /\ Sound(Unloaded(Fail(s)))
      BY <1>21, <2>1
    <2>3. \/ StreamoffTail(Unloaded(Taken(s, "unload")), queue)
          \/ KillSession(Unloaded(Fail(s)))
      BY <1>22 DEF UnloadEnds
    <2>4. QED
      BY <1>1, <1>17, <2>2, <2>3, OffEnds
  <1>23. CASE EndAnswered \/ EndExpires
    <2> DEFINE t == Taken(s, "end")
               d == ChangeState(t, "DEINIT")
    <2>1. \E failed \in BOOLEAN :
            FinishOff(SessionGone(d), failed, queue) \/ FinishOff(SessionGone(Fail(s)), failed, queue)
      BY <1>23 DEF EndAnswered, EndExpires
    <2>2. Sound(t) /\ Sound(Fail(s))
      BY <1>1, <1>16, Failing
    <2> HIDE DEF t
    <2>3. Sound(d)
      BY <2>2 DEF Sound, ChangeState, States, Fields
    <2> HIDE DEF d
    <2>4. \A x : Sound(x) => Sound(SessionGone(x))
      BY DEF Sound, SessionGone, Fields
    <2>5. QED
      BY <1>1, <2>1, <2>2, <2>3, <2>4, OffEnds
  <1>24. CASE Interrupt
    <2> DEFINE x == [s EXCEPT !.msgs = Tail(@)]
    <2>1. s' = Handle(x, Head(s.msgs))
      BY <1>24 DEF Interrupt
    <2>2. Owing(s, x)
      BY DEF Owing, Pending, DrcPending, DrainPending, Fields
    <2> HIDE DEF x
    <2>3. QED
      BY <2>1, <2>2, HandleOwing, ComposeOwing
  <1>25. CASE Firmware \/ Fault
    <2>1. \A m : DOMAIN s = Fields => DOMAIN Send(s, m) = Fields /\ Send(s, m).sub = s.sub
      BY DEF Send, Fields
    <2>2. s'.sub = s.sub /\ DOMAIN s' = Fields
      <3>1. DOMAIN s = Fields
        BY <1>1 DEF Sound
      <3>2. CASE Firmware
        <4>1. CASE FwSequence
          <5>1. PICK k \in {"fits", "resize", "tenbit"} :
                  s' = [Send(s, [type |-> "seq", kind |-> k])
                          EXCEPT !.paused = TRUE, !.parsed = TRUE]
            BY <4>1 DEF FwSequence
          <5> DEFINE y == Send(s, [type |-> "seq", kind |-> k])
          <5>2. DOMAIN y = Fields /\ y.sub = s.sub
            BY <2>1, <3>1
          <5>3. s' = [y EXCEPT !.paused = TRUE, !.parsed = TRUE]
            BY <5>1
          <5> HIDE DEF y
          <5>4. QED
            BY <5>2, <5>3 DEF Fields
        <4>2. CASE FwPicture \/ FwSuperframe \/ FwEndOfStream
          <5>1. \A i, o, d : LET y == [s EXCEPT !.inq = i, !.outs = o, !.msgs = d]
                             IN DOMAIN y = Fields /\ y.sub = s.sub
            BY <3>1 DEF Fields
          <5>2. CASE FwPicture
            BY <5>1, <5>2 DEF FwPicture
          <5>3. CASE FwSuperframe
            BY <5>1, <5>3 DEF FwSuperframe
          <5>4. CASE FwEndOfStream
            BY <5>1, <5>4 DEF FwEndOfStream
          <5>5. QED
            BY <4>2, <5>2, <5>3, <5>4
        <4>3. QED
          BY <3>2, <4>1, <4>2 DEF Firmware
      <3>3. CASE Fault
        BY <2>1, <3>1, <3>3 DEF Fault, Hang, SessionError, Reject, Unsupported, Fields
      <3>4. QED
        BY <1>25, <3>2, <3>3
    <2>3. QED
      BY <2>2, ComposeOwing
  <1>26. QED
    BY <1>4, <1>6, <1>7, <1>8, <1>11, <1>12, <1>13, <1>14, <1>15, <1>18, <1>19, <1>20,
       <1>22, <1>23, <1>24, <1>25 DEF Next, Client, Driver

-----------------------------------------------------------------------------
(* The pool of an instance that streams, none of it with the host or on    *)
(* its way back, is with the firmware.                                     *)
LEMMA PoolFull ==
  ASSUME NEW y, Shelved(y), Pooled(y), Has(y), y.state = "STREAMING",
         y.dpb.host = 0, y.dpb.deferred = 0, Dpbs(y) = 0
  PROVE  y.pool = 1
  <1>1. y.dpb.queued \in Nat /\ y.pool \in Nat
    BY DEF Shelved
  <1>2. y.dpb.queued = y.pool + Dpbs(y) /\ y.dpb.host + y.dpb.deferred + y.dpb.queued <= 1
    BY DEF Pooled, Serves
  <1>3. y.dpb.queued > 0
    BY <1>1 DEF Has
  <1>4. QED
    BY <1>1, <1>2, <1>3

(* A pool that is queued while both planes stream is all the firmware's.   *)
LEMMA HandsOver ==
  ASSUME NEW u, Shelved(u)
  PROVE  LET w == QueueDpb(u)
             r == QueueAllDeferred(w, "CAPTURE")
         IN /\ DOMAIN w = Fields /\ w.state = u.state
            /\ w.state = "STREAMING" => w.dpb.host = 0 /\ w.dpb.deferred = 0
            /\ r.state = "STREAMING" => r.dpb.host = 0 /\ r.dpb.deferred = 0
  <1> DEFINE w == QueueDpb(u)
             v == QueueDeferredDpb(w)
             r == QueueAllDeferred(w, "CAPTURE")
  <1>1. Shelved(w)
    BY DpbStores DEF Stores
  <1>2. w.state = u.state
    BY DEF QueueDpb, SendDpb, Shelved, Fields
  <1>3. u.state = "STREAMING" => w.dpb.host = 0 /\ w.dpb.deferred = 0
    <2> SUFFICES ASSUME u.state = "STREAMING" PROVE w.dpb.host = 0 /\ w.dpb.deferred = 0
      OBVIOUS
    <2>1. w.dpb = [host |-> 0, deferred |-> 0,
                   queued |-> u.dpb.queued + (u.dpb.host + u.dpb.deferred)]
      BY DEF QueueDpb, SendDpb, Shelved, Fields
    <2>2. QED
      BY <2>1
  <1>4. r \in {w, QueueDeferred(v, "CAPTURE")}
        /\ (w.state = "STREAMING" => r = QueueDeferred(v, "CAPTURE"))
    BY DEF QueueAllDeferred
  <1> HIDE DEF w
  <1>5. v.dpb.host = w.dpb.host /\ v.dpb.deferred = 0 /\ DOMAIN v = Fields
        /\ v.state = w.state
    BY <1>1 DEF QueueDeferredDpb, SendDpb, Shelved, Fields
  <1> HIDE DEF v
  <1>6. QueueDeferred(v, "CAPTURE").dpb = v.dpb
        /\ (QueueDeferred(v, "CAPTURE").state # "ERROR" => v.state # "ERROR")
    BY <1>5, BufferAside DEF Aside
  <1>7. QueueDeferred(v, "CAPTURE").state = v.state
    BY <1>5 DEF QueueDeferred, Fields
  <1> HIDE DEF r
  <1>8. r.state = "STREAMING" => r.dpb.host = 0 /\ r.dpb.deferred = 0
    BY <1>2, <1>3, <1>4, <1>5, <1>6, <1>7
  <1>9. DOMAIN w = Fields
    BY <1>1 DEF Shelved
  <1>10. QED
    BY <1>2, <1>3, <1>8, <1>9 DEF w, r

(* A STREAMON of CAPTURE, once the old input buffers are replaced: no      *)
(* buffer of the pool is on its way back, and all are queued.              *)
LEMMA PoolOn ==
  ASSUME Stocked, Stocked', Wired, Follows, ConfigAnswered \/ ReleaseAnswered,
         s'.state = "STREAMING"
  PROVE  s'.pool = 1
  <1>1. Typed(s) /\ Pooled(s) /\ Pooled(s')
        /\ (Serves(s') /\ Holds(on', queue'.at) => Has(s'))
        /\ queue.plane = "CAPTURE"
    BY DEF Stocked, Wired, Line, Follows, ConfigAnswered, ReleaseAnswered, At
  <1>2. s.resp > 0
    BY DEF ConfigAnswered, ReleaseAnswered, Completed
  <1> DEFINE t == Taken(s, "config")
             r == Taken(s, "release")
             c == CreateDpb(t)
  <1>3. /\ Typed(t) /\ t.msgs = s.msgs /\ t.state = s.state
        /\ Typed(r) /\ r.msgs = s.msgs /\ r.state = s.state
    BY <1>1, <1>2, WaitTaken DEF Asking, Waits
  <1>4. \/ s' = Answer(c, "release")
        \/ \E x \in {c, r} : \E drc, drain : s' = StreamonOutput(x, drc, drain) /\ FinishOn
    BY DEF ConfigAnswered, ReleaseAnswered
  <1> HIDE DEF t, r
  <1>5. Typed(c) /\ c.msgs = s.msgs /\ c.state = s.state
    <2>1. Typed(c)
      BY <1>3, DpbStill DEF Still, Tame
    <2>2. QED
      BY <1>3, <2>1 DEF CreateDpb, Typed, Fields
  <1> HIDE DEF c
  <1>6. CASE s' = Answer(c, "release")
    <2>1. c.state = "STREAMING"
      BY <1>5, <1>6 DEF Answer, Send, Typed, Fields
    <2>2. queue.at \in {"config", "release"} /\ queue.plane \notin on
          /\ Fits(s.state, on) /\ on \in SUBSET Planes
      BY <1>5, <2>1 DEF ConfigAnswered, ReleaseAnswered, At, Follows, Running, Placed
    <2>3. on \in {{}, {"OUTPUT"}}
      BY <1>1, <2>2 DEF Planes
    <2>4. QED
      BY <1>5, <2>1, <2>2, <2>3 DEF Fits
  <1>7. ASSUME NEW x \in {c, r}, NEW drc, NEW drain,
               s' = StreamonOutput(x, drc, drain), FinishOn
        PROVE  s'.pool = 1
    <2>1. Typed(x) /\ Shelved(x) /\ Sound(x) /\ x.msgs = s.msgs /\ x.state = s.state
      <3>1. Typed(x) /\ x.msgs = s.msgs /\ x.state = s.state
        BY <1>3, <1>5
      <3>2. Sound(x)
        BY <3>1 DEF Typed, Sound
      <3>3. QED
        BY <3>1, <3>2, ComposeStores
    <2>2. x.state = "INPUT_STREAMING"
      <3>1. s'.state \in {"ERROR", StreamonTarget(x.state, "CAPTURE")}
        BY <1>7, <2>1, Streamon
      <3>2. QED
        BY <3>1 DEF StreamonTarget
    <2>3. s'.msgs = s.msgs /\ Typed(s')
      BY <1>7, <2>1, StreamonStill DEF Still, Tame
    <2>4. Dpbs(s') = 0
      <3>1. s.dpb.queued = s.pool + Dpbs(s) /\ s.dpb.queued = 0
        BY <1>1, <2>1, <2>2 DEF Pooled, Serves
      <3>2. s.pool \in Nat /\ Dpbs(s) \in Nat
        BY <1>1, CountSteps DEF Typed, Dpbs
      <3>3. QED
        BY <2>3, <3>1, <3>2 DEF Dpbs
    <2>5. Has(s')
      <3>1. on' = on \cup {queue.plane} /\ queue'.at = "idle"
        BY <1>7 DEF FinishOn, Rest, Idle
      <3>2. QED
        BY <1>1, <3>1 DEF Holds, Serves
    <2>6. s'.dpb.host = 0 /\ s'.dpb.deferred = 0
      <3> DEFINE resume == x.state = "INPUT_STREAMING" /\ "INPUT_PAUSE" \in x.sub
                 clear == (IF drc THEN {"DRC", "DRC_LAST"}
                           ELSE IF drain THEN {"DRAIN", "DRAIN_LAST"} ELSE {})
                          \cup (IF resume THEN {"INPUT_PAUSE"} ELSE {})
                          \cup (x.sub \cap {"FIRST_IPSC", "OUTPUT_PAUSE"})
                 y == IF resume /\ ~drain THEN FwContinue(x) ELSE x
                 e == StateChangeStreamon(y, "CAPTURE")
                 z == Restarted(e)
                 u == ChangeSub(z, clear, {})
                 w == QueueDpb(u)
      <3>1. s' = QueueAllDeferred(w, "CAPTURE")
        BY <1>7 DEF StreamonOutput
      <3> HIDE DEF clear, resume
      <3>2. Aside(x, y)
        BY BufferAside, ComposeAside
      <3> HIDE DEF y
      <3>3. Aside(y, e)
        BY StateAside DEF Planes
      <3> HIDE DEF e
      <3>4. Aside(e, z)
        BY BufferAside
      <3> HIDE DEF z
      <3>5. Aside(z, u)
        BY StateAside
      <3> HIDE DEF u
      <3>6. Aside(x, u)
        BY <3>2, <3>3, <3>4, <3>5, ComposeAside
      <3>7. Shelved(u)
        BY <2>1, <3>6, ComposeStores DEF Stores
      <3>8. QED
        BY <3>1, <3>7, HandsOver
    <2>7. Shelved(s')
      BY <2>3, ComposeStores
    <2>8. QED
      BY <1>1, <2>4, <2>5, <2>6, <2>7, PoolFull
  <1>8. QED
    BY <1>4, <1>6, <1>7

(* A restart, no answer to a flush being missing.                          *)
LEMMA PoolResumed ==
  ASSUME NEW x, Typed(x), Pooled(x), Counted(x), x.flushes = 0, Has(x),
         Resume(x).state = "STREAMING"
  PROVE  Resume(x).pool = 1
  <1> DEFINE y == Resume(x)
  <1>1. Stores(x, y) /\ Still(x, y) /\ y.state \in {x.state, "ERROR"} /\ Shelved(x)
    BY StreamonStores, ResumeStill, ComposeStores
  <1>2. x.state = "STREAMING"
    BY <1>1
  <1>3. /\ Shelved(y) /\ Pooled(y) /\ Leaves(x, y) /\ y.msgs = x.msgs
    BY <1>1 DEF Stores, Still
  <1>4. Has(y)
    BY <1>3 DEF Leaves, Serves
  <1>5. Dpbs(x) = 0
    <2>1. x.msgs \in Seq(Message) /\ Count(x.msgs, "flush") = 0
      <3>1. x.msgs \in Seq(Message) /\ Count(x.msgs, "flush") \in Nat
            /\ Count(x.msgs, "flush") <= 0
        BY CountSteps DEF Typed, Counted
      <3>2. QED
        BY <3>1
    <2>2. \A k \in DOMAIN x.msgs : x.msgs[k].type # "flush"
      BY <2>1, CountZero
    <2>3. \A k \in DOMAIN x.msgs : x.msgs[k].type # "dpb"
      BY <1>2, <2>2 DEF Pooled, Serves, Behind
    <2>4. QED
      BY <2>1, <2>3, CountFree DEF Dpbs
  <1>6. y.dpb.host = 0 /\ y.dpb.deferred = 0
    <2> DEFINE drc == DrcPending(x)
               pauses == x.sub \cap {"INPUT_PAUSE", "OUTPUT_PAUSE"}
               clear == pauses \cup (IF drc THEN {"DRC", "DRC_LAST"} ELSE {"DRAIN", "DRAIN_LAST"})
               a == IF drc /\ pauses # {} THEN FwContinue(x) ELSE x
               v == ChangeSub(a, clear, {})
               z == Restarted(v)
               q == QueueDpb(z)
               c == QueueDeferred(q, "CAPTURE")
               w == QueueDeferred(c, "OUTPUT")
    <2>1. \/ y = Fail(x)
          \/ y = w /\ z.state = "STREAMING"
          \/ y = z /\ z.state # "STREAMING"
      BY DEF Resume
    <2> HIDE DEF drc, pauses, clear
    <2>2. Aside(x, a)
      BY BufferAside, ComposeAside
    <2> HIDE DEF a
    <2>3. Aside(a, v)
      BY StateAside
    <2> HIDE DEF v
    <2>4. Aside(v, z)
      BY BufferAside
    <2> HIDE DEF z
    <2>5. Aside(x, z)
      BY <2>2, <2>3, <2>4, ComposeAside
    <2>6. Shelved(z)
      BY <1>1, <2>5, ComposeStores DEF Stores
    <2>7. /\ DOMAIN q = Fields
          /\ z.state = "STREAMING" => q.dpb.host = 0 /\ q.dpb.deferred = 0
      BY <2>6, HandsOver
    <2> HIDE DEF q
    <2>8. Aside(q, c)
      BY BufferAside
    <2> HIDE DEF c
    <2>9. Aside(c, w)
      BY BufferAside
    <2> HIDE DEF w
    <2>10. w.dpb = q.dpb
      BY <2>7, <2>8, <2>9 DEF Aside
    <2>11. y.state = "STREAMING" /\ Fail(x).state = "ERROR"
      <3>1. Sound(x)
        BY DEF Typed, Sound
      <3>2. QED
        BY <3>1, Failing
    <2>12. QED
      BY <2>1, <2>7, <2>10, <2>11
  <1>7. Dpbs(y) = 0
    BY <1>3, <1>5 DEF Dpbs
  <1>8. QED
    BY <1>3, <1>4, <1>6, <1>7, PoolFull

(* DECODER_CMD START: right away when no flush is out, else woken by the   *)
(* answer to the last one.                                                 *)
LEMMA PoolStarted ==
  ASSUME ~Careless, Stocked, Wired, Follows, DecoderStart \/ DecoderStartWakes,
         Pending(s), ~Pending(s'), s'.state = "STREAMING"
  PROVE  s'.pool = 1
  <1>1. /\ Typed(s) /\ Pooled(s) /\ Counted(s) /\ queue.at = "idle"
        /\ (Serves(s) /\ Holds(on, queue.at) => Has(s))
    BY DEF Stocked, Wired, Line, DecoderStart, DecoderStartWakes, Alone, At
  <1> DEFINE n == s.flushed - 1
             x == [s EXCEPT !.flushed = n]
  <1>2. \/ s' = s \/ s' = Fail(s)
        \/ s' = Resume(s) /\ s.flushes = 0
        \/ s' = Resume(x) /\ s.flushed > 0
    BY DEF DecoderStart, DecoderStartWakes, Completed, Taken
  <1>3. s' # s /\ s' # Fail(s)
    <2>1. Sound(s)
      BY DEF Follows
    <2>2. QED
      BY <2>1, Failing
  <1>4. s.state = "STREAMING" => Has(s)
    <2>1. s.state = "STREAMING" => Fits("STREAMING", on) /\ on \in SUBSET Planes
      BY <1>1 DEF Follows, Placed
    <2>2. \A planes \in SUBSET Planes : planes \in {{}, {"OUTPUT"}} \/ "CAPTURE" \in planes
      BY DEF Planes
    <2>3. QED
      BY <1>1, <2>1, <2>2 DEF Fits, Holds, Serves
  <1>5. CASE s' = Resume(s) /\ s.flushes = 0
    <2>1. s.state = "STREAMING"
      BY <1>1, <1>5, ResumeStill
    <2>2. QED
      BY <1>1, <1>4, <1>5, <2>1, PoolResumed
  <1>6. CASE s' = Resume(x) /\ s.flushed > 0
    <2>1. n \in Nat /\ (n > 0 => s.flushed > 0)
      BY <1>1, <1>6 DEF Typed
    <2> HIDE DEF n
    <2>2. /\ Typed(x) /\ x.state = s.state /\ Counted(x) /\ x.flushes = s.flushes
          /\ (Has(s) => Has(x)) /\ Pooled(x)
      BY <1>1, <2>1 DEF Typed, Fields, Counted, Has, Pooled, Serves, Dpbs
    <2> HIDE DEF x
    <2>3. s.state = "STREAMING"
      BY <1>6, <2>2, ResumeStill
    <2>4. x.flushes = 0
      BY <1>1, <1>6, <2>2, <2>3 DEF Pooled, Serves
    <2>5. QED
      BY <1>4, <1>6, <2>2, <2>3, <2>4, PoolResumed
  <1>7. QED
    BY <1>2, <1>3, <1>5, <1>6

(* A STREAMON that times out fails.                                        *)
LEMMA ExpiresFails ==
  ASSUME Follows, Follows', StreamonExpires \/ ReleaseExpires
  PROVE  s'.state # "STREAMING"
  <1>1. Sound(s) /\ queue.plane \in Planes
        /\ DOMAIN queue = {"at", "plane", "drc", "drain", "rollback"}
    BY DEF Follows
  <1>2. CASE StreamonExpires
    <2> DEFINE f == Fail(s)
               y == BuffersDone(f, queue.plane, "prepared")
    <2>1. s' = Fail(y)
      BY <1>2 DEF StreamonExpires, FailStart
    <2>2. Sound(f)
      BY <1>1, Failing
    <2> HIDE DEF f
    <2>3. Sound(y)
      BY <2>2, BufferKeeps DEF Keeps
    <2> HIDE DEF y
    <2>4. QED
      BY <2>1, <2>3, Failing
  <1>3. CASE ReleaseExpires
    <2> DEFINE f == Fail(s)
               y == [f EXCEPT !.off = TRUE]
               q == [queue EXCEPT !.rollback = TRUE]
               w == NewWait(y)
    <2>1. SessionStop(y, q) /\ q.plane = queue.plane
      BY <1>1, <1>3 DEF ReleaseExpires
    <2>2. Sound(f) /\ f.state = "ERROR"
      BY <1>1, Failing
    <2> HIDE DEF f
    <2>3. Sound(y) /\ y.state = "ERROR"
      BY <2>2 DEF Sound, Fields
    <2> HIDE DEF y, q
    <2>4. s' = FwStop(w) \/ StreamoffTail(y, q)
      BY <2>1, <2>3 DEF SessionStop
    <2>5. Keeps(y, w)
      BY DEF Keeps, Sound, Fields, NewWait
    <2> HIDE DEF w
    <2>6. Keeps(w, FwStop(w))
      BY FwKeeps
    <2>7. QED
      BY <1>1, <2>1, <2>3, <2>4, <2>5, <2>6, OffEnds DEF Keeps
  <1>4. QED
    BY <1>2, <1>3

(* A STREAMON of CAPTURE, the end of a drain or of a source change that    *)
(* leaves the instance streaming leaves the pool with the firmware: what   *)
(* the flush returned has arrived before the restart, as the answer to the *)
(* flush is behind it, and all of it is queued again.                      *)
THEOREM PoolBack ==
  ASSUME ~Careless
  PROVE  Spec => PoolReturned
  <1>1. Stocked /\ Stocked' /\ Wired /\ Follows /\ Follows' /\ [Next]_vars =>
          [/\ \/ Pending(s) /\ ~Pending(s')
              \/ /\ queue.plane = "CAPTURE" /\ queue.at \in {"config", "release"}
                 /\ queue'.at = "idle"
           /\ s'.state = "STREAMING"
           => s'.pool = 1]_vars
    <2> SUFFICES ASSUME Stocked, Stocked', Wired, Follows, Follows', [Next]_vars,
                        \/ Pending(s) /\ ~Pending(s')
                        \/ /\ queue.at \in {"config", "release"} /\ queue'.at = "idle",
                        s'.state = "STREAMING"
                 PROVE  s'.pool = 1
      OBVIOUS
    <2>1. CASE ConfigAnswered \/ ReleaseAnswered
      BY <2>1, PoolOn
    <2>2. CASE ~ConfigAnswered /\ ~ReleaseAnswered /\ Pending(s) /\ ~Pending(s')
      BY <2>2, PendingKept, PoolStarted
    <2>3. CASE /\ ~ConfigAnswered /\ ~ReleaseAnswered
               /\ queue.at \in {"config", "release"} /\ queue'.at = "idle"
      <3>1. StreamonExpires \/ ReleaseExpires
        BY <2>3 DEF Next, Client, Driver, Fault, Firmware, QBuf, QBufEmpty, StreamOn, StreamOff,
             DecoderStop, DecoderStart, Enqueue, StartStreaming, PropsAnswered, LoadAnswered,
             StartAnswered, StopStreaming, FlushAnswered, FlushExpires, StopEnds, UnloadEnds,
             EndAnswered, EndExpires, DecoderStartWakes, Interrupt, FwSequence, FwPicture,
             FwSuperframe, FwEndOfStream, Hang, SessionError, Reject, Unsupported, At, vars
      <3>2. QED
        BY <3>1, ExpiresFails
    <2>4. QED
      BY <2>1, <2>2, <2>3
  <1>2. Init => Stocked
    BY StockedInit
  <1>3. Stocked /\ Wired /\ Follows /\ [Next]_vars => Stocked'
    BY StockedNext
  <1>4. QED
    BY <1>1, <1>2, <1>3, StateFollows, WiredAlways, PTL DEF Spec, PoolReturned

=============================================================================
