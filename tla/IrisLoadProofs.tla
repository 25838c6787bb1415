--------------------------- MODULE IrisLoadProofs ---------------------------
(***************************************************************************)
(* What holds of IrisLoad for every number of files, frames, codecs, rates *)
(* and platforms.  Every step replaces the record of one instance, so the  *)
(* invariant is a predicate of such a record, in four named parts.         *)
(***************************************************************************)
EXTENDS IrisLoad, TLAPS

Fields == DOMAIN Closed

Pcs   == {"idle", "opening", "requirements", "stopping", "closing"}
Calls == {"none", "setupOutput", "setupCapture"} \cup Planes

FrameType == [w : Nat, h : Nat]

(* The fields hold what the driver's types allow.                          *)
Typed(r) ==
  /\ DOMAIN r = Fields
  /\ {r.open, r.changed, r.slot, r.rejected, r.hole, r.out, r.raced} \subseteq BOOLEAN
  /\ r.pc \in Pcs /\ r.op \in Calls
  /\ r.state \in States /\ r.sub \subseteq SubStates
  /\ r.codec \in Codecs /\ r.raw \in RawFormats
  /\ {r.src, r.dst, r.crop} \subseteq FrameType
  /\ {r.outSize, r.cap.size, r.window} \subseteq Nat
  /\ {r.outMin, r.capMin} \subseteq 1 .. MaxFrames
  /\ {r.fwMin, r.cap.n, r.dpb.n} \subseteq 0 .. MaxFrames
  /\ r.core \in 0 .. 2 /\ r.rate \in DefaultFps .. MaxFps /\ r.down \in 0 .. 2
  /\ r.resv \in [fps : 0 .. MaxFps, grown : BOOLEAN]
  /\ r.on \subseteq Planes

(* p streams, or is being started.                                         *)
Started(r, p) == p \in r.on \/ (r.pc \in {"opening", "requirements"} /\ r.op = p)

(* The load reserved is NoLoad, field by field.                            *)
Bare(r) ==
  r.resv.fps = 0 /\ r.resv.grown = FALSE /\ r.core = 0 /\ r.dpb = NoPool

(* What a file holds follows from its session, its session from the call   *)
(* it is in, and its queues from what streams.                             *)
Held(r) ==
  /\ ~r.open => ~r.slot /\ ~r.hole /\ r.pc = "idle"
  /\ ~r.slot \/ r.pc = "opening" => Bare(r)
  /\ r.pc \in {"opening", "requirements"} => r.slot
  /\ r.pc = "opening" => r.op # "none"
  /\ r.pc \in {"requirements", "stopping"} => r.op \in Planes
  /\ \A p \in Planes : Started(r, p) => Allocated(r, p)

(* The state says which queues stream, unless it is ERROR.                 *)
Staged(r) ==
  r.state # "ERROR" =>
    /\ "CAPTURE" \in r.on => r.state \in {"OUTPUT_STREAMING", "STREAMING"}
    /\ r.state = "INPUT_STREAMING" => "CAPTURE" \notin r.on
    /\ ~r.slot \/ r.pc = "opening" => r.state = "DEINIT"

Flags(r) == r.sub \cap {"DRC", "FIRST_IPSC"}

(* The queue fits while no change of the stream is marked: for CAPTURE     *)
(* when it streams, and already when it is being started.                  *)
Fits(r) ==
  /\ r.fwMin = 0 => Flags(r) = {}
  /\ r.pc = "opening" /\ r.op = "CAPTURE" => Enough(r)
  /\ r.pc = "requirements" /\ r.op = "CAPTURE" /\ ~r.raced => Enough(r)
  /\ "CAPTURE" \in r.on /\ ~r.raced /\ Flags(r) = {} => Enough(r)

(* The CAPTURE format follows from one width and height.                   *)
Laid(r) ==
  \E d \in FrameType :
    /\ r.dst = Aligned(d) /\ r.stride = RawStride(d.w, r.raw)
    /\ r.outSize = OutputSize(r.dst, r.raw) /\ r.crop.w <= d.w

Good(r) ==
  Typed(r) /\ Held(r) /\ Laid(r) /\ (~Careless => Staged(r) /\ Fits(r))

IInv ==
  /\ lim \in Limits
  /\ inst = [i \in Instances |-> inst[i]]
  /\ \A i \in Instances : Good(inst[i])

-----------------------------------------------------------------------------
(* Arithmetic.                                                             *)

(* The larger of two numbers.                                              *)
LEMMA MaxOfTwo ==
  ASSUME NEW a \in Int, NEW b \in Int
  PROVE  Max({a, b}) = IF a >= b THEN a ELSE b
  <1> DEFINE m == IF a >= b THEN a ELSE b
  <1>1. m \in {a, b} /\ \A y \in {a, b} : m >= y
    OBVIOUS
  <1>2. \A x \in {a, b} : (\A y \in {a, b} : x >= y) => x = m
    OBVIOUS
  <1>3. QED
    BY <1>1, <1>2 DEF Max

(* The smaller of two numbers.                                             *)
LEMMA MinOfTwo ==
  ASSUME NEW a \in Int, NEW b \in Int
  PROVE  Min({a, b}) = IF a <= b THEN a ELSE b
  <1> DEFINE m == IF a <= b THEN a ELSE b
  <1>1. m \in {a, b} /\ \A y \in {a, b} : m <= y
    OBVIOUS
  <1>2. \A x \in {a, b} : (\A y \in {a, b} : x <= y) => x = m
    OBVIOUS
  <1>3. QED
    BY <1>1, <1>2 DEF Min


(* Every field of an instance.                                             *)
LEMMA AllFields ==
  {"open", "pc", "op", "saved", "state", "sub", "codec", "src", "dst", "raw",
   "stride", "crop", "outSize", "outMin", "capMin", "fwMin", "changed", "slot",
   "core", "resv", "rejected", "rate", "down", "window", "hole", "out", "cap",
   "on", "fwDpb", "dpb", "told", "raced"} \subseteq Fields
  BY DEF Fields, Closed

(* A picture has a size.                                                   *)
LEMMA SizeIsNat ==
  ASSUME NEW d \in FrameType, NEW raw \in RawFormats
  PROVE  OutputSize(d, raw) \in Nat /\ Aligned(d) \in FrameType
  <1>1. \A w, h \in Nat : LinearSize(w, h) \in Nat
    <2> SUFFICES ASSUME NEW w \in Nat, NEW h \in Nat
                 PROVE  LinearSize(w, h) \in Nat
      OBVIOUS
    <2>1. Align(w, 128) \in Nat
      BY DEF Align, DivUp
    <2>2. Align(h, 32) + Align((h + 1) \div 2, 16) \in Nat
      BY DEF Align, DivUp
    <2>3. Align(w, 128) * (Align(h, 32) + Align((h + 1) \div 2, 16)) \in Nat
      BY <2>1, <2>2
    <2>4. \A s \in Nat : Align(s, 4096) \in Nat
      BY DEF Align, DivUp
    <2>5. QED
      BY <2>3, <2>4 DEF LinearSize
  <1>2. d.w \in Nat /\ d.h \in Nat /\ 2 * d.w \in Nat
    BY DEF FrameType
  <1>3. OutputSize(d, raw) \in Nat
    BY <1>1, <1>2 DEF OutputSize, Nv12Size, P010Size
  <1>4. Align(d.w, 128) \in Nat /\ Align(d.h, 32) \in Nat
    BY <1>2 DEF Align, DivUp
  <1>5. QED
    BY <1>3, <1>4 DEF Aligned, Frame, FrameType

(* The bookkeeping of Set leaves a record good.                            *)
LEMMA SetKeeps ==
  ASSUME IInv, NEW i \in Instances, NEW r, Good(r), Set(i, r)
  PROVE  IInv'
  <1> DEFINE g == r.resv.grown \/ Grown(inst[i], r)
             x == [r EXCEPT !.resv = [r.resv EXCEPT !.grown = g]]
  <1>1. inst' = [inst EXCEPT ![i] = x] /\ lim' = lim
    BY DEF Set
  <1>2. g \in BOOLEAN /\ (Bare(r) => g = FALSE)
    BY DEF Good, Typed, Bare, Grown
  <1> HIDE DEF g
  <1>3. Typed(x)
    BY <1>2, AllFields DEF Good, Typed
  <1>4. Bare(r) => Bare(x)
    BY <1>2, AllFields DEF Good, Typed, Bare
  <1>5. Held(x)
    BY <1>4, AllFields DEF Good, Typed, Held, Started, Allocated
  <1>6. Laid(x)
    BY AllFields DEF Good, Typed, Laid
  <1>7. (Staged(r) => Staged(x)) /\ (Fits(r) => Fits(x))
    BY AllFields DEF Good, Typed, Staged, Fits, Flags, Enough
  <1>8. Good(x)
    BY <1>3, <1>5, <1>6, <1>7 DEF Good
  <1>9. QED
    BY <1>1, <1>8 DEF IInv

-----------------------------------------------------------------------------
(* Records that come back in many steps.                                   *)

(* What a file starts from, and what close() leaves of it, is good.        *)
LEMMA ClosedGood ==
  /\ Good(Closed)
  /\ Good([Closed EXCEPT !.open = TRUE])
  /\ Good([Closed EXCEPT !.hole = FALSE, !.dpb = NoPool, !.slot = FALSE,
                         !.resv = NoLoad, !.core = 0])
  <1> SUFFICES ASSUME NEW x, NEW o \in BOOLEAN, DOMAIN x = Fields,
                      x = [Closed EXCEPT !.open = o] \/ x = Closed
                        \/ x = [Closed EXCEPT !.hole = FALSE, !.dpb = NoPool,
                                  !.slot = FALSE, !.resv = NoLoad, !.core = 0]
               PROVE  Good(x)
    BY DEF Fields
  <1>1. x.open \in BOOLEAN /\ x.changed = FALSE /\ x.slot = FALSE /\ x.rejected = FALSE
        /\ x.hole = FALSE /\ x.out = FALSE /\ x.raced = FALSE
    <2>1. Closed.open = FALSE /\ Closed.changed = FALSE /\ Closed.slot = FALSE
          /\ Closed.rejected = FALSE /\ Closed.hole = FALSE /\ Closed.out = FALSE
          /\ Closed.raced = FALSE
      BY DEF Closed
    <2>2. QED
      BY <2>1, AllFields DEF Fields
  <1>2. x.pc = "idle" /\ x.op = "none" /\ x.state = "DEINIT" /\ x.sub = {}
        /\ x.codec = "H264" /\ x.raw = "NV12" /\ x.on = {}
    <2>1. Closed.pc = "idle" /\ Closed.op = "none" /\ Closed.state = "DEINIT"
          /\ Closed.sub = {} /\ Closed.codec = "H264" /\ Closed.raw = "NV12"
          /\ Closed.on = {}
      BY DEF Closed
    <2>2. QED
      BY <2>1, AllFields DEF Fields
  <1>3. x.src = Default /\ x.dst = Aligned(Default) /\ x.crop = Frame(0, 0)
        /\ x.outSize = OutputSize(Aligned(Default), "NV12")
        /\ x.stride = RawStride(Default.w, "NV12")
    <2>1. Closed.src = Default /\ Closed.dst = Aligned(Default)
          /\ Closed.crop = Frame(0, 0)
          /\ Closed.outSize = OutputSize(Aligned(Default), "NV12")
          /\ Closed.stride = RawStride(Default.w, "NV12")
      BY DEF Closed
    <2>2. QED
      BY <2>1, AllFields DEF Fields
  <1>4. x.outMin = MinBuffers /\ x.capMin = MinBuffers /\ x.fwMin = 0 /\ x.core = 0
        /\ x.rate = MaxFps /\ x.down = 0 /\ x.window = 0
    <2>1. Closed.outMin = MinBuffers /\ Closed.capMin = MinBuffers /\ Closed.fwMin = 0
          /\ Closed.core = 0 /\ Closed.rate = MaxFps /\ Closed.down = 0
          /\ Closed.window = 0
      BY DEF Closed
    <2>2. x.outMin = MinBuffers /\ x.capMin = MinBuffers /\ x.fwMin = 0
      <3>1. x.outMin = MinBuffers
        BY <2>1, AllFields DEF Fields
      <3>2. x.capMin = MinBuffers
        BY <2>1, AllFields DEF Fields
      <3>3. x.fwMin = 0
        BY <2>1, AllFields DEF Fields
      <3>4. QED
        BY <3>1, <3>2, <3>3
    <2>3. x.core = 0 /\ x.rate = MaxFps /\ x.down = 0 /\ x.window = 0
      <3>1. NoLoad.fps = 0
        BY DEF NoLoad
      <3>2. QED
        BY <2>1, AllFields DEF Fields
    <2>4. QED
      BY <2>2, <2>3
  <1>5. x.resv = NoLoad /\ x.cap = NoPool /\ x.dpb = NoPool
    <2>1. Closed.resv = NoLoad /\ Closed.cap = NoPool /\ Closed.dpb = NoPool
      BY DEF Closed
    <2>2. QED
      BY <2>1, AllFields DEF Fields
  <1>6. Default \in FrameType /\ Frame(0, 0) \in FrameType
    BY DEF Default, Frame, FrameType
  <1>7. OutputSize(Aligned(Default), "NV12") \in Nat /\ Aligned(Default) \in FrameType
    BY <1>6, SizeIsNat DEF RawFormats
  <1>8. Typed(x)
    <2>1. x.resv \in [fps : 0 .. MaxFps, grown : BOOLEAN]
      BY <1>5 DEF NoLoad, MaxFps
    <2>2. {x.outSize, x.cap.size, x.window} \subseteq Nat
      BY <1>3, <1>4, <1>5, <1>7 DEF NoPool
    <2>3. {x.outMin, x.capMin} \subseteq 1 .. MaxFrames
      BY <1>4 DEF MinBuffers, MaxFrames
    <2>4. {x.fwMin, x.cap.n, x.dpb.n} \subseteq 0 .. MaxFrames
      BY <1>4, <1>5 DEF MaxFrames, NoPool
    <2>5. x.core \in 0 .. 2 /\ x.rate \in DefaultFps .. MaxFps /\ x.down \in 0 .. 2
      BY <1>4 DEF DefaultFps, MaxFps
    <2>6. {x.src, x.dst, x.crop} \subseteq FrameType
      BY <1>3, <1>6, <1>7
    <2>7. x.pc \in Pcs /\ x.op \in Calls /\ x.state \in States /\ x.codec \in Codecs
          /\ x.raw \in RawFormats
      BY <1>2 DEF Pcs, Calls, States, Codecs, RawFormats
    <2>8. QED
      BY <1>1, <1>2, <2>1, <2>2, <2>3, <2>4, <2>5, <2>6, <2>7 DEF Typed
  <1>9. Held(x)
    <2>1. Bare(x)
      BY <1>4, <1>5 DEF Bare, NoLoad
    <2>2. QED
      BY <1>1, <1>2, <2>1 DEF Held, Started
  <1>10. Laid(x)
    <2>1. x.crop.w <= Default.w
      BY <1>3 DEF Frame, Default
    <2>2. QED
      BY <1>2, <1>3, <1>6, <2>1 DEF Laid
  <1>11. Staged(x) /\ Fits(x)
    BY <1>1, <1>2 DEF Staged, Fits, Flags
  <1>12. QED
    BY <1>8, <1>9, <1>10, <1>11 DEF Good

(* An instance in ERROR is as good as before: only the state has changed.  *)
LEMMA FailKeeps ==
  ASSUME NEW r, Good(r)
  PROVE  Good(Fail(r))
  <1> DEFINE x == [r EXCEPT !.state = "ERROR"]
  <1>1. Fail(r) = r \/ Fail(r) = x
    BY DEF Fail, ChangeState
  <1>2. Typed(x)
    BY AllFields DEF Good, Typed, States
  <1>3. Held(x) /\ Laid(x) /\ Staged(x) /\ (Fits(r) => Fits(x))
    BY AllFields DEF Good, Typed, Held, Bare, Started, Allocated, Laid, Staged,
                     Fits, Flags, Enough
  <1>4. QED
    BY <1>1, <1>2, <1>3 DEF Good

-----------------------------------------------------------------------------
(* One lemma per action.                                                   *)

(* open() preserves the invariant.                                         *)
LEMMA InstInitKeeps ==
  ASSUME IInv, NEW i \in Instances, InstInit(i)
  PROVE  IInv'
  BY ClosedGood, SetKeeps DEF InstInit, Only

(* close() preserves the invariant.                                        *)
LEMMA CloseKeeps ==
  ASSUME IInv, NEW i \in Instances, Close(i)
  PROVE  IInv'
  <1> DEFINE r == inst[i]
             x == [r EXCEPT !.pc = "closing"]
  <1>1. Good(r) /\ Idle(i) /\ r.on = {} /\ Set(i, x)
    BY DEF IInv, Close
  <1>2. Typed(x)
    BY <1>1, AllFields DEF Good, Typed, Pcs
  <1>3. Held(x) /\ Laid(x)
    BY <1>1, AllFields DEF Good, Typed, Held, Bare, Started, Allocated, Laid, Idle
  <1>4. (Staged(r) => Staged(x)) /\ (Fits(r) => Fits(x))
    BY <1>1, AllFields DEF Good, Typed, Staged, Fits, Flags, Enough, Idle
  <1>5. QED
    BY <1>1, <1>2, <1>3, <1>4, SetKeeps DEF Good

(* The end of close() preserves the invariant.                             *)
LEMMA CloseEndsKeeps ==
  ASSUME IInv, NEW i \in Instances, CloseEnds(i)
  PROVE  IInv'
  <1> DEFINE r == ReleaseHole([SessionGone(inst[i]) EXCEPT !.dpb = NoPool])
  <1>1. Typed(inst[i])
    BY DEF IInv, Good
  <1>2. r.hole = FALSE /\ r.dpb = NoPool /\ r.slot = FALSE /\ r.resv = NoLoad /\ r.core = 0
    BY <1>1, AllFields DEF Typed, ReleaseHole, SessionGone, Released
  <1>3. QED
    BY <1>2, ClosedGood, SetKeeps DEF CloseEnds, Only

(* A session error preserves the invariant.                                *)
LEMMA SessionDiesKeeps ==
  ASSUME IInv, NEW i \in Instances, SessionDies(i)
  PROVE  IInv'
  BY FailKeeps, SetKeeps DEF SessionDies, IInv

(* A failed open preserves the invariant: all it took is given back.       *)
LEMMA OpenFailedKeeps ==
  ASSUME IInv, NEW i \in Instances, OpenFailed(i)
  PROVE  IInv'
  <1> DEFINE r == inst[i]
             x == NoCall(SessionGone(r))
  <1>1. Good(r) /\ r.pc = "opening"
    BY DEF IInv, OpenFailed
  <1>2. NoLoad.fps = 0 /\ NoLoad.grown = FALSE
        /\ NoLoad \in [fps : 0 .. MaxFps, grown : BOOLEAN]
    BY DEF NoLoad, MaxFps
  <1>3. Typed(x)
    BY <1>1, <1>2, AllFields DEF Good, Typed, NoCall, SessionGone, Released, Pcs, Calls
  <1>4. Held(x)
    BY <1>1, <1>2, AllFields DEF Good, Typed, Held, Bare, Started, Allocated, NoCall,
                                 SessionGone, Released
  <1>5. Laid(x)
    BY <1>1, AllFields DEF Good, Typed, Laid, NoCall, SessionGone, Released
  <1>6. (Staged(r) => Staged(x)) /\ (Fits(r) => Fits(x))
    BY <1>1, AllFields DEF Good, Typed, Staged, Fits, Flags, Enough, NoCall,
                           SessionGone, Released
  <1>7. Good(x)
    BY <1>1, <1>3, <1>4, <1>5, <1>6 DEF Good
  <1>8. QED
    BY <1>7, FailKeeps, SetKeeps DEF OpenFailed

(* The first sample of a window preserves the invariant.                   *)
LEMMA QbufSampleKeeps ==
  ASSUME IInv, LoadAssumption, NEW i \in Instances, NEW fps \in Fps, QbufSample(i, fps)
  PROVE  IInv'
  <1> DEFINE r == inst[i]
             x == [r EXCEPT !.window = fps]
  <1>1. Good(r) /\ Set(i, x) /\ fps \in Nat
    BY DEF IInv, QbufSample, LoadAssumption
  <1>2. Typed(x)
    BY <1>1, AllFields DEF Good, Typed
  <1>3. Held(x) /\ Laid(x)
    BY <1>1, AllFields DEF Good, Typed, Held, Bare, Started, Allocated, Laid
  <1>4. (Staged(r) => Staged(x)) /\ (Fits(r) => Fits(x))
    BY <1>1, AllFields DEF Good, Typed, Staged, Fits, Flags, Enough
  <1>5. QED
    BY <1>1, <1>2, <1>3, <1>4, SetKeeps DEF Good

(* The end of a window preserves the invariant: the rate stays in bounds.  *)
LEMMA QbufWindowKeeps ==
  ASSUME IInv, NEW i \in Instances, QbufWindow(i)
  PROVE  IInv'
  <1> DEFINE r == inst[i]
             t == Target(r.window)
             z == [r EXCEPT !.window = 0]
             x == [z EXCEPT !.rate = t, !.down = 0]
             y == [z EXCEPT !.down = @ + 1]
  <1>1. Good(r) /\ \/ Set(i, x)
                   \/ Set(i, y) /\ r.down < 2
    <2>1. Good(r)
      BY DEF IInv
    <2>2. z.down = r.down /\ r.down \in 0 .. 2
      BY <2>1, AllFields DEF Good, Typed
    <2>3. QED
      BY <2>1, <2>2 DEF QbufWindow, Only
  <1>2. t \in DefaultFps .. MaxFps
    <2>1. DivUp(r.window * 11, 10) \in Int
      BY <1>1 DEF Good, Typed, DivUp
    <2> DEFINE m == Max({DivUp(r.window * 11, 10), 30})
    <2>2. m \in Int /\ m >= 30
      BY <2>1, MaxOfTwo
    <2> HIDE DEF m
    <2>3. \A n \in Int : Min({m, n}) = IF m <= n THEN m ELSE n
      BY <2>2, MinOfTwo
    <2>4. t = Min({m, 480})
      BY DEF m, Target, Clamp, DefaultFps, MaxFps
    <2>5. Min({m, 480}) = IF m <= 480 THEN m ELSE 480
      BY <2>3
    <2>6. QED
      BY <2>2, <2>4, <2>5 DEF DefaultFps, MaxFps
  <1> HIDE DEF t
  <1>3. Typed(x) /\ (r.down < 2 => Typed(y))
    BY <1>1, <1>2, AllFields DEF Good, Typed
  <1>4. Held(x) /\ Laid(x) /\ Held(y) /\ Laid(y)
    BY <1>1, AllFields DEF Good, Typed, Held, Bare, Started, Allocated, Laid
  <1>5. /\ (Staged(r) => Staged(x)) /\ (Fits(r) => Fits(x))
        /\ (Staged(r) => Staged(y)) /\ (Fits(r) => Fits(y))
    BY <1>1, AllFields DEF Good, Typed, Staged, Fits, Flags, Enough
  <1>6. Good(x) /\ (r.down < 2 => Good(y))
    BY <1>1, <1>3, <1>4, <1>5 DEF Good
  <1>7. QED
    BY <1>1, <1>6, SetKeeps

(* STREAMOFF starts: the invariant is preserved.                           *)
LEMMA StreamOffKeeps ==
  ASSUME IInv, NEW i \in Instances, NEW p \in Planes, StreamOff(i, p)
  PROVE  IInv'
  <1> DEFINE r == inst[i]
             x == [r EXCEPT !.pc = "stopping", !.op = p]
  <1>1. Good(r) /\ Idle(i) /\ Set(i, x)
    BY DEF IInv, StreamOff
  <1>2. Typed(x)
    BY <1>1, AllFields DEF Good, Typed, Pcs, Calls
  <1>3. Held(x) /\ Laid(x)
    BY <1>1, AllFields DEF Good, Typed, Held, Bare, Started, Allocated, Laid, Idle
  <1>4. (Staged(r) => Staged(x)) /\ (Fits(r) => Fits(x))
    BY <1>1, AllFields DEF Good, Typed, Staged, Fits, Flags, Enough, Idle
  <1>5. QED
    BY <1>1, <1>2, <1>3, <1>4, SetKeeps DEF Good

(* A call that ends in failure, and a queue that stops, leave the rest.    *)
LEMMA NoCallKeeps ==
  ASSUME NEW r, Good(r), r.pc \in {"requirements", "stopping"}
  PROVE  /\ Good(NoCall(r))
         /\ \A p : Good([r EXCEPT !.on = @ \ {p}])
  <1>1. \A x : x = NoCall(r) => Good(x)
    <2> SUFFICES ASSUME NEW x, x = NoCall(r)
                 PROVE  Good(x)
      OBVIOUS
    <2>1. Typed(x)
      BY AllFields DEF Good, Typed, Pcs, Calls, NoCall
    <2>2. Held(x) /\ Laid(x)
      BY AllFields DEF Good, Typed, Held, Bare, Started, Allocated, Laid, NoCall
    <2>3. (Staged(r) => Staged(x)) /\ (Fits(r) => Fits(x))
      BY AllFields DEF Good, Typed, Staged, Fits, Flags, Enough, NoCall
    <2>4. QED
      BY <2>1, <2>2, <2>3 DEF Good
  <1>2. ASSUME NEW p
        PROVE  Good([r EXCEPT !.on = @ \ {p}])
    <2> DEFINE x == [r EXCEPT !.on = @ \ {p}]
    <2>1. Typed(x)
      BY AllFields DEF Good, Typed
    <2>2. Held(x) /\ Laid(x)
      BY AllFields DEF Good, Typed, Held, Bare, Started, Allocated, Laid
    <2>3. (Staged(r) => Staged(x)) /\ (Fits(r) => Fits(x))
      BY AllFields DEF Good, Typed, Staged, Fits, Flags, Enough
    <2>4. QED
      BY <2>1, <2>2, <2>3 DEF Good
  <1>3. QED
    BY <1>1, <1>2

(* A time-out of STREAMON, or an error that came first: the invariant is   *)
(* preserved.                                                              *)
LEMMA RequirementsExpireKeeps ==
  ASSUME IInv, NEW i \in Instances, RequirementsExpire(i)
  PROVE  IInv'
  <1> DEFINE x == NoCall(Fail(inst[i]))
  <1>1. Good(Fail(inst[i])) /\ inst[i].pc = "requirements" /\ Set(i, x)
    BY FailKeeps DEF IInv, RequirementsExpire
  <1>2. Fail(inst[i]).pc = "requirements"
    BY <1>1, AllFields DEF Fail, ChangeState, IInv, Good, Typed
  <1>3. QED
    BY <1>1, <1>2, NoCallKeeps, SetKeeps

(* A time-out of STREAMOFF preserves the invariant.                        *)
LEMMA StopExpiresKeeps ==
  ASSUME IInv, NEW i \in Instances, StopExpires(i)
  PROVE  IInv'
  <1> DEFINE r == inst[i]
             f == Fail(NoCall(r))
             x == [f EXCEPT !.on = @ \ {r.op}]
  <1>1. Good(r) /\ r.pc = "stopping" /\ Set(i, x)
    BY DEF IInv, StopExpires
  <1>2. Good(f)
    BY <1>1, NoCallKeeps, FailKeeps
  <1>3. f.pc = "idle"
    BY <1>1, AllFields DEF NoCall, Fail, ChangeState, Good, Typed
  <1> HIDE DEF f
  <1>4. Typed(x)
    BY <1>2, AllFields DEF Good, Typed
  <1>5. Held(x) /\ Laid(x)
    BY <1>2, <1>3, AllFields DEF Good, Typed, Held, Bare, Started, Allocated, Laid
  <1>6. (Staged(f) => Staged(x)) /\ (Fits(f) => Fits(x))
    BY <1>2, AllFields DEF Good, Typed, Staged, Fits, Flags, Enough
  <1>7. QED
    BY <1>1, <1>2, <1>4, <1>5, <1>6, SetKeeps DEF Good

(* REQBUFS(0) preserves the invariant.                                     *)
LEMMA FreeKeeps ==
  ASSUME IInv, NEW i \in Instances, NEW p \in Planes, Free(i, p)
  PROVE  IInv'
  <1> DEFINE r == inst[i]
             x == Unallocated(r, p)
  <1>1. Good(r) /\ Idle(i) /\ p \notin r.on /\ Set(i, x)
    BY DEF IInv, Free
  <1>2. NoPool.n = 0 /\ NoPool.size = 0
    BY DEF NoPool
  <1>3. Typed(x)
    <2>1. 0 \in 0 .. MaxFrames /\ 0 \in Nat
      BY DEF MaxFrames
    <2>2. CASE p = "OUTPUT"
      BY <1>1, <2>2, AllFields DEF Good, Typed, Unallocated
    <2>3. CASE p # "OUTPUT"
      BY <1>1, <1>2, <2>1, <2>3, AllFields DEF Good, Typed, Unallocated
    <2>4. QED
      BY <2>2, <2>3
  <1>4. Held(x) /\ Laid(x)
    BY <1>1, <1>2, AllFields DEF Good, Typed, Held, Bare, Started, Allocated, Laid, Idle,
                           Unallocated, Planes
  <1>5. (Staged(r) => Staged(x)) /\ (Fits(r) => Fits(x))
    BY <1>1, AllFields DEF Good, Typed, Staged, Fits, Flags, Enough, Idle, Unallocated,
                           Planes
  <1>6. QED
    BY <1>1, <1>3, <1>4, <1>5, SetKeeps DEF Good

-----------------------------------------------------------------------------
(* Formats.                                                                *)

(* The minimum count of CAPTURE is a count.                                *)
LEMMA OutputMinBound ==
  ASSUME NEW codec, NEW n \in 0 .. MaxFrames
  PROVE  OutputMin(codec, n) \in 1 .. MaxFrames
  <1>1. Min({4, n}) = IF 4 <= n THEN 4 ELSE n
    BY MinOfTwo DEF MaxFrames
  <1>2. QED
    BY <1>1 DEF OutputMin, MaxFrames

(* A CAPTURE format that follows from a frame is one, and nothing else of  *)
(* the instance has changed.                                               *)
LEMMA CapturesKeeps ==
  ASSUME NEW r, Typed(r), NEW d \in FrameType, NEW raw \in RawFormats
  PROVE  Typed(Captures(r, d, raw)) /\ Laid(Captures(r, d, raw))
  <1> DEFINE x == Captures(r, d, raw)
  <1>1. Aligned(d) \in FrameType /\ OutputSize(Aligned(d), raw) \in Nat
    BY SizeIsNat
  <1>2. Typed(x)
    BY <1>1, AllFields DEF Typed, Captures
  <1>3. x.dst = Aligned(d) /\ x.stride = RawStride(d.w, raw) /\ x.raw = raw
        /\ x.outSize = OutputSize(Aligned(d), raw) /\ x.crop = d
    BY AllFields DEF Typed, Captures
  <1>4. d.w <= d.w
    BY DEF FrameType
  <1>5. QED
    BY <1>2, <1>3, <1>4 DEF Laid

(* S_FMT of CAPTURE preserves the invariant.                               *)
LEMMA SFmtCaptureKeeps ==
  ASSUME IInv, NEW i \in Instances, NEW raw \in RawFormats, SFmtCapture(i, raw)
  PROVE  IInv'
  <1> DEFINE r == inst[i]
             d == IF "OUTPUT" \in r.on THEN r.src ELSE r.dst
             m == OutputMin(r.codec, r.fwMin)
             c == Captures(r, d, raw)
             x == [c EXCEPT !.outMin = m]
  <1>1. Good(r) /\ Idle(i) /\ r.cap.n = 0 /\ Set(i, x)
    BY DEF IInv, SFmtCapture
  <1>2. d \in FrameType /\ m \in 1 .. MaxFrames
    BY <1>1, OutputMinBound DEF Good, Typed
  <1> HIDE DEF d, m
  <1>3. Typed(c) /\ Laid(c)
    BY <1>1, <1>2, CapturesKeeps DEF Good
  <1>4. Typed(x) /\ Laid(x)
    <2> HIDE DEF c
    <2>1. QED
      BY <1>2, <1>3, AllFields DEF Typed, Laid
  <1>5. Held(x)
    BY <1>1, AllFields DEF Good, Typed, Held, Bare, Started, Allocated, Idle, Captures
  <1>6. (Staged(r) => Staged(x)) /\ (Fits(r) => Fits(x))
    BY <1>1, AllFields DEF Good, Typed, Held, Started, Allocated, Staged, Fits, Flags,
                           Enough, Idle, Captures, Planes
  <1>7. QED
    BY <1>1, <1>4, <1>5, <1>6, SetKeeps DEF Good

(* S_FMT of OUTPUT preserves the invariant.                                *)
LEMMA SFmtOutputKeeps ==
  ASSUME IInv, LoadAssumption, NEW i \in Instances, NEW codec \in Used, NEW f \in Frames,
         SFmtOutput(i, codec, f)
  PROVE  IInv'
  <1> DEFINE r == inst[i]
             d == Frame(Clamp(f.w, 96, 8192), Clamp(f.h, 96, 8192))
             n == IF codec = "HEVC" THEN 32 ELSE 16
             s == Frame(Align(d.w, n), Align(d.h, n))
             y == [r EXCEPT !.codec = codec, !.src = s]
             x == Captures(y, d, y.raw)
  <1>1. Good(r) /\ Idle(i) /\ (Careless \/ r.cap.n = 0) /\ Set(i, x)
    BY DEF IInv, SFmtOutput
  <1>2. \A a \in Nat : Clamp(a, 96, 8192) \in Nat
    <2> SUFFICES ASSUME NEW a \in Nat
                 PROVE  Clamp(a, 96, 8192) \in Nat
      OBVIOUS
    <2> DEFINE m == Max({a, 96})
    <2>1. m \in Nat
      BY MaxOfTwo
    <2> HIDE DEF m
    <2>2. \A k \in Int : Min({m, k}) = IF m <= k THEN m ELSE k
      BY <2>1, MinOfTwo
    <2>3. Min({m, 8192}) = IF m <= 8192 THEN m ELSE 8192
      BY <2>2
    <2>4. Clamp(a, 96, 8192) = Min({m, 8192})
      BY DEF m, Clamp
    <2>5. QED
      BY <2>1, <2>3, <2>4
  <1>3. d \in FrameType
    BY <1>2 DEF LoadAssumption, Frame, FrameType
  <1>4. s \in FrameType
    <2>1. \A a \in Nat : Align(a, 16) \in Nat /\ Align(a, 32) \in Nat
      BY DEF Align, DivUp
    <2>2. QED
      BY <1>3, <2>1 DEF Frame, FrameType
  <1>5. codec \in Codecs
    BY DEF LoadAssumption
  <1> HIDE DEF d, s
  <1>6. Typed(y)
    BY <1>1, <1>4, <1>5, AllFields DEF Good, Typed
  <1>7. y.raw \in RawFormats
    BY <1>6 DEF Typed
  <1>8. Typed(x) /\ Laid(x)
    BY <1>3, <1>6, <1>7, CapturesKeeps
  <1>9. Held(x)
    BY <1>1, AllFields DEF Good, Typed, Held, Bare, Started, Allocated, Idle, Captures
  <1>10. (Staged(r) => Staged(x)) /\ (~Careless /\ Fits(r) => Fits(x))
    BY <1>1, AllFields DEF Good, Typed, Held, Started, Allocated, Staged, Fits, Flags,
                           Enough, Idle, Captures, Planes
  <1>11. QED
    BY <1>1, <1>8, <1>9, <1>10, SetKeeps DEF Good

-----------------------------------------------------------------------------
(* Sessions.                                                               *)

(* The rate a stream is admitted with is within the bounds.                *)
LEMMA AdmissionBound ==
  ASSUME NEW r, Typed(r)
  PROVE  AdmissionFps(r) \in 0 .. MaxFps
  <1>1. r.window \in Nat
    BY DEF Typed
  <1>2. \A k \in Int : Min({r.window, k}) = IF r.window <= k THEN r.window ELSE k
    BY <1>1, MinOfTwo
  <1>3. Min({r.window, 480}) = IF r.window <= 480 THEN r.window ELSE 480
    BY <1>2
  <1>4. QED
    BY <1>1, <1>3 DEF AdmissionFps, MaxFps

(* The rest of a REQBUFS preserves the invariant.                          *)
LEMMA QueueSetupRestKeeps ==
  ASSUME IInv, LoadAssumption, NEW i \in Instances, NEW r, NEW p \in Planes,
         Good(r), r.open, r.slot, r.pc = "idle",
         p = "CAPTURE" /\ ~Careless => "CAPTURE" \notin r.on,
         QueueSetupRest(i, r, p)
  PROVE  IInv'
  <1>1. CASE p = "OUTPUT"
    <2> DEFINE x == [r EXCEPT !.hole = @ \/ r.codec = "VP9", !.out = TRUE]
    <2>1. Set(i, x)
      BY <1>1 DEF QueueSetupRest, Only
    <2> DEFINE h == r.hole \/ r.codec = "VP9"
               y == [r EXCEPT !.hole = h]
    <2>2. x = [y EXCEPT !.out = TRUE] /\ h \in BOOLEAN
      BY DEF Good, Typed
    <2> HIDE DEF h, x
    <2>3. Typed(y)
      BY <2>2, AllFields, ZenonT(40) DEF Good, Typed
    <2>4. Held(y) /\ (Staged(r) => Staged(y)) /\ (Fits(r) => Fits(y))
      BY AllFields DEF Good, Typed, Held, Bare, Started, Allocated, Staged, Fits, Flags, Enough
    <2>5. Laid(y)
      BY AllFields DEF Good, Typed, Laid
    <2> HIDE DEF y
    <2>6. Typed(x)
      BY <2>2, <2>3, AllFields DEF Typed
    <2>7. Held(x)
      BY <2>2, <2>3, <2>4, AllFields DEF Typed, Held, Bare, Started, Allocated
    <2>8. Laid(x)
      BY <2>2, <2>3, <2>5, AllFields DEF Typed, Laid
    <2>9. (Staged(y) => Staged(x)) /\ (Fits(y) => Fits(x))
      BY <2>2, <2>3, AllFields DEF Typed, Staged, Fits, Flags, Enough
    <2>10. QED
      BY <2>1, <2>4, <2>6, <2>7, <2>8, <2>9, SetKeeps DEF Good, x
  <1>2. CASE p # "OUTPUT" /\ Set(i, [r EXCEPT !.rejected = TRUE])
    <2> DEFINE x == [r EXCEPT !.rejected = TRUE]
    <2>1. Typed(x)
      BY AllFields, ZenonT(40) DEF Good, Typed
    <2>2. Held(x) /\ Laid(x)
      BY AllFields DEF Good, Typed, Held, Bare, Started, Allocated, Laid
    <2>3. (Staged(r) => Staged(x)) /\ (Fits(r) => Fits(x))
      BY AllFields DEF Good, Typed, Staged, Fits, Flags, Enough
    <2>4. QED
      BY <1>2, <2>1, <2>2, <2>3, SetKeeps DEF Good
  <1>3. ASSUME NEW n \in Counts, p # "OUTPUT",
               Set(i, [(IF r.resv.fps = 0 THEN Reserve(r) ELSE r) EXCEPT !.hole = FALSE,
                         !.cap = [n |-> Max({n, r.capMin}), size |-> r.outSize]])
        PROVE  IInv'
    <2> DEFINE c == [n |-> Max({n, r.capMin}), size |-> r.outSize]
               a == AdmissionFps(r)
               b == [r EXCEPT !.resv = [r.resv EXCEPT !.fps = a]]
               y == IF r.resv.fps = 0 THEN b ELSE r
               x == [y EXCEPT !.hole = FALSE, !.cap = c]
    <2>1. Set(i, x)
      BY <1>3 DEF Reserve
    <2>2. c.n \in 1 .. MaxFrames /\ c.size \in Nat /\ a \in 0 .. MaxFps
      <3>1. n \in 1 .. MaxFrames /\ r.capMin \in 1 .. MaxFrames /\ r.outSize \in Nat
        BY DEF LoadAssumption, Good, Typed
      <3>2. Max({n, r.capMin}) = IF n >= r.capMin THEN n ELSE r.capMin
        BY <3>1, MaxOfTwo
      <3>3. QED
        BY <3>1, <3>2, AdmissionBound DEF Good
    <2> HIDE DEF c, a
    <2>3. Typed(y) /\ Held(y) /\ Laid(y) /\ (Staged(r) => Staged(y))
      <3>1. Typed(b)
        BY <2>2, AllFields DEF Good, Typed
      <3>2. Held(b) /\ Laid(b) /\ (Staged(r) => Staged(b))
        BY AllFields DEF Good, Typed, Held, Started, Allocated, Laid, Staged
      <3>3. QED
        BY <3>1, <3>2 DEF Good
    <2>4. y.on = r.on /\ y.sub = r.sub /\ y.fwMin = r.fwMin /\ y.pc = "idle" /\ y.slot = r.slot
      BY AllFields DEF Good, Typed
    <2> HIDE DEF y
    <2>5. c.n \in 0 .. MaxFrames /\ c.n # 0
      BY <2>2 DEF MaxFrames
    <2>6. Typed(x)
      BY <2>2, <2>3, <2>5, AllFields DEF Typed
    <2>7. Held(x) /\ Laid(x) /\ (Staged(y) => Staged(x))
      <3>1. x.cap.n # 0 /\ x.cap.n > 0
        BY <2>2, <2>3, <2>5, AllFields DEF Typed
      <3>2. Held(x)
        BY <2>3, <2>4, <3>1, AllFields DEF Typed, Held, Started, Allocated
      <3>3. Laid(x) /\ (Staged(y) => Staged(x))
        BY <2>3, AllFields DEF Typed, Laid, Staged
      <3>4. QED
        BY <3>2, <3>3
    <2>8. ~Careless /\ Fits(r) => Fits(x)
      <3>1. p = "CAPTURE"
        BY <1>3 DEF Planes
      <3>2. QED
        BY <2>3, <2>4, <3>1, AllFields DEF Typed, Fits, Flags
    <2>9. QED
      BY <2>1, <2>3, <2>6, <2>7, <2>8, SetKeeps DEF Good
  <1>4. QED
    BY <1>1, <1>2, <1>3 DEF QueueSetupRest, Only

(* A slot taken, and the wait for the answer, preserve the invariant.      *)
LEMMA TakeSlotKeeps ==
  ASSUME IInv, NEW i \in Instances, NEW r, NEW op \in Calls \ {"none"},
         Good(r), r.open, ~r.slot, r.pc = "idle", r.state # "ERROR",
         op \in Planes => Allocated(r, op),
         op = "CAPTURE" /\ ~Careless => Enough(r),
         TakeSlot(i, r, op)
  PROVE  IInv'
  <1> DEFINE x == [r EXCEPT !.slot = TRUE, !.pc = "opening", !.op = op]
  <1>1. Set(i, x)
    BY DEF TakeSlot, Only
  <1>2. Typed(x)
    <2> DEFINE y == [r EXCEPT !.slot = TRUE]
               z == [y EXCEPT !.pc = "opening"]
    <2>1. Typed(y)
      BY AllFields DEF Good, Typed
    <2>2. Typed(z)
      BY <2>1, AllFields DEF Typed, Pcs
    <2>3. x = [z EXCEPT !.op = op]
      BY AllFields DEF Good, Typed
    <2> HIDE DEF z
    <2>4. DOMAIN x = Fields /\ x.op = op
          /\ \A f \in Fields \ {"op"} : x[f] = z[f]
      BY <2>2, <2>3, AllFields DEF Typed
    <2> HIDE DEF x
    <2>5. op \in Calls
      OBVIOUS
    <2>6. QED
      BY <2>2, <2>4, <2>5, AllFields DEF Typed
  <1>3. Held(x) /\ Laid(x)
    <2>1. Held(x)
      BY AllFields DEF Good, Typed, Held, Bare, Started, Allocated
    <2>2. Laid(x)
      BY AllFields DEF Good, Typed, Laid
    <2>3. QED
      BY <2>1, <2>2
  <1>4. (Staged(r) => Staged(x)) /\ (~Careless /\ Fits(r) => Fits(x))
    <2>1. Staged(r) => Staged(x)
      BY AllFields DEF Good, Typed, Staged
    <2>2. ~Careless /\ Fits(r) => Fits(x)
      BY AllFields DEF Good, Typed, Fits, Flags, Enough
    <2>3. QED
      BY <2>1, <2>2
  <1>5. QED
    BY <1>1, <1>2, <1>3, <1>4, SetKeeps DEF Good

(* REQBUFS preserves the invariant.                                        *)
LEMMA QueueSetupKeeps ==
  ASSUME IInv, LoadAssumption, NEW i \in Instances, NEW p \in Planes, QueueSetup(i, p)
  PROVE  IInv'
  <1> DEFINE q == inst[i]
             r == Unallocated(q, p)
  <1>1. Good(q) /\ Idle(i) /\ p \notin r.on /\ r.state # "ERROR"
    BY DEF IInv, QueueSetup
  <1>2. NoPool.n = 0 /\ NoPool.size = 0 /\ 0 \in 0 .. MaxFrames /\ 0 \in Nat
    BY DEF NoPool, MaxFrames
  <1>3. r.on = q.on /\ r.open = q.open /\ r.pc = q.pc /\ r.state = q.state /\ r.slot = q.slot
    BY <1>1, AllFields DEF Good, Typed, Unallocated
  <1>4. Typed(r)
    <2>1. CASE p = "OUTPUT"
      BY <1>1, <2>1, AllFields DEF Good, Typed, Unallocated
    <2>2. CASE p # "OUTPUT"
      BY <1>1, <1>2, <2>2, AllFields DEF Good, Typed, Unallocated
    <2>3. QED
      BY <2>1, <2>2
  <1>5. Held(r) /\ Laid(r)
    BY <1>1, <1>2, <1>3, AllFields DEF Good, Typed, Held, Bare, Started, Allocated, Laid,
                           Idle, Unallocated, Planes
  <1>6. (Staged(q) => Staged(r)) /\ (Fits(q) => Fits(r))
    BY <1>1, <1>3, AllFields DEF Good, Typed, Staged, Fits, Flags, Enough, Idle,
                           Unallocated, Planes
  <1>7. Good(r) /\ r.open /\ r.pc = "idle"
    BY <1>1, <1>3, <1>4, <1>5, <1>6 DEF Good, Idle
  <1>8. Setup(p) \in Calls \ {"none"} /\ Setup(p) \notin Planes
    BY DEF Setup, Calls, Planes
  <1>9. \/ r.slot /\ QueueSetupRest(i, r, p)
        \/ ~r.slot /\ TakeSlot(i, r, Setup(p))
    BY DEF QueueSetup
  <1> HIDE DEF r
  <1>10. CASE r.slot /\ QueueSetupRest(i, r, p)
    BY <1>1, <1>7, <1>10, QueueSetupRestKeeps
  <1>11. CASE ~r.slot /\ TakeSlot(i, r, Setup(p))
    BY <1>1, <1>7, <1>8, <1>11, TakeSlotKeeps DEF Planes
  <1>12. QED
    BY <1>9, <1>10, <1>11

-----------------------------------------------------------------------------
(* Streaming.                                                              *)

(* What the firmware is told is no part of the invariant.                  *)
LEMMA ToldKeeps ==
  ASSUME NEW r, Good(r), NEW x \in {TellAll(r), TellFormat(r), TellCapture(r)}
  PROVE  /\ Good(x) /\ x.slot = r.slot /\ x.open = r.open /\ x.pc = r.pc /\ x.on = r.on
         /\ x.out = r.out /\ x.cap = r.cap /\ x.outMin = r.outMin /\ x.outSize = r.outSize
         /\ x.raced = r.raced
  <1>1. PICK t : x = [r EXCEPT !.told = t]
    BY DEF TellAll, TellFormat, TellCapture
  <1>2. Typed(r) /\ Held(r) /\ Laid(r) /\ (~Careless => Staged(r) /\ Fits(r))
    BY DEF Good
  <1> HIDE DEF Good
  <1>3. Typed(x)
    BY <1>1, <1>2, AllFields DEF Typed
  <1>4. Held(x)
    BY <1>1, <1>2, AllFields DEF Typed, Held, Bare, Started, Allocated
  <1>5. Laid(x)
    BY <1>1, <1>2, AllFields DEF Typed, Laid
  <1>6. ~Careless => Staged(x) /\ Fits(x)
    BY <1>1, <1>2, AllFields DEF Typed, Staged, Fits, Flags, Enough
  <1>7. /\ x.slot = r.slot /\ x.open = r.open /\ x.pc = r.pc /\ x.on = r.on
        /\ x.out = r.out /\ x.cap = r.cap /\ x.outMin = r.outMin /\ x.outSize = r.outSize
        /\ x.raced = r.raced
    BY <1>1, <1>2, AllFields DEF Typed
  <1>8. QED
    BY <1>2, <1>3, <1>4, <1>5, <1>6, <1>7 DEF Good

(* STREAMON up to its wait leaves a good record.                           *)
LEMMA StartKeeps ==
  ASSUME IInv, NEW i \in Instances, NEW r, NEW p \in Planes,
         Good(r), r.open, r.slot, r.pc = "idle", Allocated(r, p),
         p = "CAPTURE" /\ ~Careless => Enough(r)
  PROVE  Good(StartStreaming(i, r, p))
  <1>1. CASE p = "OUTPUT"
    <2> DEFINE c == DecideCore(i)
               y == [r EXCEPT !.rate = MaxFps, !.down = 0, !.core = c,
                              !.pc = "requirements", !.op = p]
               x == TellAll(y)
    <2>1. c \in 0 .. 2
      BY DEF DecideCore, IInv, Good, Typed
    <2> HIDE DEF c
    <2>2. MaxFps \in DefaultFps .. MaxFps /\ 0 \in 0 .. 2
      BY DEF DefaultFps, MaxFps
    <2> DEFINE u == [r EXCEPT !.rate = MaxFps, !.down = 0, !.core = c]
    <2>3. y = [u EXCEPT !.pc = "requirements", !.op = p]
      OBVIOUS
    <2> HIDE DEF y
    <2>13. Typed(u)
      BY <2>1, <2>2, AllFields DEF Good, Typed
    <2>14. /\ u.pc = "idle" /\ u.slot /\ u.open /\ u.on = r.on /\ u.out = r.out /\ u.cap = r.cap
           /\ u.hole = r.hole /\ u.outMin = r.outMin /\ u.outSize = r.outSize
      BY AllFields DEF Good, Typed
    <2>15. Held(u)
      BY <2>14, AllFields DEF Good, Typed, Held, Bare, Started, Allocated
    <2>16. Laid(u) /\ Allocated(u, p)
      BY AllFields DEF Good, Typed, Laid, Allocated
    <2>17. (Staged(r) => Staged(u)) /\ (Fits(r) => Fits(u))
      BY <2>14, AllFields DEF Good, Typed, Staged, Fits, Flags, Enough
    <2> HIDE DEF u
    <2>18. Typed(y)
      BY <2>3, <2>13, AllFields DEF Typed, Pcs, Calls
    <2>4. Held(y) /\ Laid(y)
      <3>1. Held(y)
        BY <1>1, <2>3, <2>13, <2>14, <2>15, <2>16, AllFields
        DEF Typed, Held, Bare, Started, Allocated, Planes
      <3>2. Laid(y)
        BY <2>3, <2>13, <2>16, AllFields DEF Typed, Laid
      <3>3. QED
        BY <3>1, <3>2
    <2>5. (Staged(r) => Staged(y)) /\ (Fits(r) => Fits(y))
      BY <1>1, <2>3, <2>13, <2>14, <2>17, AllFields DEF Typed, Staged, Fits, Flags, Enough
    <2>6. Good(y)
      BY <2>4, <2>5, <2>18 DEF Good
    <2>11. Good(x)
      BY <2>6, ToldKeeps
    <2>12. QED
      BY <1>1, <2>11 DEF StartStreaming, c, y
  <1>2. CASE p = "CAPTURE"
    <2> DEFINE s == [dpb |-> DpbCount(r.fwMin), count |-> r.cap.n]
               y == IF r.changed THEN TellFormat(r) ELSE r
               x == [y EXCEPT !.changed = FALSE, !.raced = FALSE, !.pc = "requirements",
                              !.op = p, !.saved = s]
    <2>1. Typed(y) /\ Held(y) /\ Laid(y)
      BY ToldKeeps DEF Good
    <2>2. /\ (~Careless => Staged(y) /\ Fits(y))
          /\ y.slot /\ y.open /\ y.pc = "idle" /\ Allocated(y, p)
          /\ (~Careless => Enough(y))
      BY <1>2, ToldKeeps DEF Good, Allocated, Enough
    <2> HIDE DEF s, y
    <2>3. Typed(x)
      BY <1>2, <2>1, AllFields DEF Typed, Pcs, Calls
    <2>4. Held(x) /\ Laid(x)
      BY <1>2, <2>1, <2>2, AllFields DEF Typed, Held, Bare, Started, Allocated, Laid, Planes
    <2>5. (Staged(y) => Staged(x)) /\ (~Careless /\ Fits(y) => Fits(x))
      BY <1>2, <2>1, <2>2, AllFields DEF Typed, Staged, Fits, Flags, Enough
    <2>6. Good(x)
      BY <2>2, <2>3, <2>4, <2>5 DEF Good
    <2>7. QED
      BY <1>2, <2>6 DEF StartStreaming, s, y
  <1>3. QED
    BY <1>1, <1>2 DEF Planes

(* STREAMON preserves the invariant.                                       *)
LEMMA StreamOnKeeps ==
  ASSUME IInv, NEW i \in Instances, NEW p \in Planes, StreamOn(i, p)
  PROVE  IInv'
  <1> DEFINE r == inst[i]
  <1>1. Good(r) /\ r.open /\ r.pc = "idle" /\ Allocated(r, p) /\ r.state # "ERROR"
        /\ (p = "CAPTURE" /\ ~Careless => Enough(r))
    BY DEF IInv, StreamOn, Idle
  <1>2. p \in Calls \ {"none"}
    BY DEF Calls, Planes
  <1>3. CASE r.slot /\ Only(i, StartStreaming(i, r, p))
    BY <1>1, <1>3, StartKeeps, SetKeeps DEF Only
  <1>4. CASE ~r.slot /\ TakeSlot(i, r, p)
    BY <1>1, <1>2, <1>4, TakeSlotKeeps
  <1>5. CASE Only(i, Fail(r))
    BY <1>1, <1>5, FailKeeps, SetKeeps DEF Only
  <1>6. QED
    BY <1>3, <1>4, <1>5 DEF StreamOn

(* The answer to SESSION_INIT preserves the invariant.                     *)
LEMMA OpenAnsweredKeeps ==
  ASSUME IInv, LoadAssumption, NEW i \in Instances, OpenAnswered(i)
  PROVE  IInv'
  <1> DEFINE q == inst[i]
             c == ChangeState(q, "INIT")
             r == NoCall(c)
  <1>1. Good(q) /\ q.pc = "opening" /\ q.slot /\ q.open /\ q.state # "ERROR"
    BY DEF IInv, OpenAnswered, Good, Held
  <1>2. /\ DOMAIN c = Fields /\ Typed(c)
        /\ \A x : x = c => /\ x.on = q.on /\ x.open = q.open /\ x.slot = q.slot
                           /\ x.pc = q.pc /\ x.op = q.op
        /\ Held(c) /\ Laid(c) /\ (Fits(q) => Fits(c))
        /\ c.on = q.on /\ c.open = q.open /\ c.slot = q.slot /\ c.pc = q.pc
    <2>1. /\ c = q \/ c = [q EXCEPT !.state = "INIT"]
          /\ Typed(q) /\ Held(q) /\ Laid(q)
      BY <1>1 DEF ChangeState, Good
    <2> HIDE DEF c
    <2>2. Typed(c)
      BY <2>1, AllFields DEF Typed, States
    <2>3. Held(c)
      BY <2>1, AllFields DEF Typed, Held, Bare, Started, Allocated
    <2>4. Laid(c)
      BY <2>1, AllFields DEF Typed, Laid
    <2>5. Fits(q) => Fits(c)
      BY <2>1, AllFields DEF Typed, Fits, Flags, Enough
    <2>6. c.on = q.on /\ c.open = q.open /\ c.slot = q.slot /\ c.pc = q.pc /\ c.op = q.op
      BY <2>1, AllFields DEF Typed
    <2>7. QED
      BY <2>2, <2>3, <2>4, <2>5, <2>6 DEF Typed
  <1>3. ~Careless => "CAPTURE" \notin q.on
    BY <1>1 DEF Good, Staged
  <1>4. Typed(r) /\ Held(r) /\ Laid(r)
    <2> HIDE DEF c
    <2>1. Typed(r)
      BY <1>2, AllFields DEF Typed, NoCall, Pcs, Calls
    <2>2. Held(r)
      BY <1>1, <1>2, AllFields DEF Typed, Held, Bare, Started, Allocated, NoCall, Planes
    <2>3. Laid(r)
      BY <1>2, AllFields DEF Typed, Laid, NoCall
    <2>4. QED
      BY <2>1, <2>2, <2>3
  <1>5. r.open /\ r.slot /\ r.pc = "idle" /\ r.on = q.on
    <2> HIDE DEF c
    <2>1. QED
      BY <1>1, <1>2, AllFields DEF Typed, NoCall
  <1>6. ~Careless => Staged(r) /\ Fits(r)
    <2>1. ~Careless => Staged(r)
      BY <1>3, <1>5 DEF Staged
    <2>2. Fits(q) /\ ~Careless => Fits(r)
      <3> HIDE DEF c
      <3>1. QED
        BY <1>1, <1>2, <1>3, <1>5, AllFields DEF Typed, Fits, Flags, NoCall
    <2>3. QED
      BY <1>1, <2>1, <2>2 DEF Good
  <1>7. Good(r)
    BY <1>4, <1>6 DEF Good
  <1>8. q.op \in Planes => Allocated(r, q.op) /\ (q.op = "CAPTURE" /\ ~Careless => Enough(r))
    BY <1>1, AllFields DEF Good, Typed, Held, Started, Allocated, Fits, Enough, NoCall,
                           ChangeState
  <1>9. \/ QueueSetupRest(i, r, "OUTPUT") \/ QueueSetupRest(i, r, "CAPTURE")
        \/ q.op \in Planes /\ Set(i, StartStreaming(i, r, q.op))
    BY DEF OpenAnswered, Only
  <1> HIDE DEF r
  <1>10. CASE QueueSetupRest(i, r, "OUTPUT")
    BY <1>5, <1>7, <1>10, QueueSetupRestKeeps DEF Planes
  <1>11. CASE QueueSetupRest(i, r, "CAPTURE")
    BY <1>3, <1>5, <1>7, <1>11, QueueSetupRestKeeps DEF Planes
  <1>12. CASE q.op \in Planes /\ Set(i, StartStreaming(i, r, q.op))
    BY <1>5, <1>7, <1>8, <1>12, StartKeeps, SetKeeps
  <1>13. QED
    BY <1>9, <1>10, <1>11, <1>12

(* What a step of STREAMON or STREAMOFF makes of the state and its bits.   *)
LEMMA ChangeStateFields ==
  ASSUME NEW r, Typed(r), NEW t \in States
  PROVE  /\ ChangeState(r, t) = r \/ ChangeState(r, t) = [r EXCEPT !.state = t]
         /\ Typed(ChangeState(r, t))
         /\ r.state # "ERROR" /\ (t = "ERROR" \/ AllowState(r.state, t)) =>
              ChangeState(r, t).state = t
         /\ r.state = "ERROR" => ChangeState(r, t) = r
  BY AllFields DEF Typed, ChangeState, ChangeStateOk

(* The answer to STREAMOFF preserves the invariant; the session ends with  *)
(* the last queue, and with it everything it held.                         *)
LEMMA StoppedKeeps ==
  ASSUME IInv, NEW i \in Instances, Stopped(i)
  PROVE  IInv'
  <1> DEFINE q == inst[i]
             p == q.op
             r == [NoCall(q) EXCEPT !.on = @ \ {p}]
             t == StreamoffTarget(q.state, p)
             c == ChangeState(r, t)
             s == StreamoffTail(c)
             x == IF p = "CAPTURE" THEN Released(s) ELSE s
  <1>1. Good(q) /\ q.pc = "stopping" /\ p \in Planes
    BY DEF IInv, Stopped, Good, Held
  <1>2. Typed(r) /\ Held(r) /\ Laid(r) /\ r.pc = "idle" /\ r.state = q.state
        /\ r.on = q.on \ {p} /\ r.slot = q.slot
    BY <1>1, AllFields DEF Good, Typed, Held, Bare, Started, Allocated, Laid, NoCall, Pcs,
                           Calls
  <1>3. Set(i, x)
    BY <1>2 DEF Stopped, Only, StateChangeStreamoff
  <1>4. ~Careless => Staged(q) /\ Fits(r)
    BY <1>1, AllFields DEF Good, Typed, Fits, Flags, Enough, NoCall
  <1>5. t \in States
    BY DEF StreamoffTarget, States
  <1> HIDE DEF r
  <1>6. Typed(c) /\ Held(c) /\ Laid(c) /\ c.pc = "idle" /\ c.on = r.on /\ c.slot = r.slot
    <2>1. c.pc = "idle" /\ c.on = r.on /\ c.slot = r.slot
      BY <1>2, <1>5, AllFields, ChangeStateFields DEF Typed
    <2>2. Typed(c)
      BY <1>2, <1>5, AllFields, ChangeStateFields DEF Typed
    <2>3. Held(c)
      BY <1>2, <1>5, AllFields, ChangeStateFields DEF Typed, Held, Bare, Started, Allocated
    <2>4. Laid(c)
      BY <1>2, <1>5, AllFields, ChangeStateFields DEF Typed, Laid
    <2>5. QED
      BY <2>1, <2>2, <2>3, <2>4
  <1>7. ~Careless => Staged(c) /\ Fits(c)
    <2>1. Fits(r) => Fits(c)
      BY <1>2, <1>5, AllFields, ChangeStateFields DEF Typed, Fits, Flags, Enough
    <2>2. CASE q.state = "ERROR"
      BY <1>2, <1>4, <1>5, <2>1, <2>2, ChangeStateFields DEF Staged
    <2>3. CASE q.state # "ERROR"
      <3>1. c.state = t
        BY <1>1, <1>2, <1>5, <2>3, ChangeStateFields DEF StreamoffTarget, AllowState, Planes
      <3>2. Staged(q) => Staged(c)
        BY <1>1, <1>2, <1>6, <2>3, <3>1 DEF Staged, StreamoffTarget, Planes
      <3>3. QED
        BY <1>4, <2>1, <3>2
    <2>4. QED
      BY <2>2, <2>3
  <1>8. NoLoad.fps = 0 /\ NoLoad.grown = FALSE /\ NoPool.n = 0
        /\ NoLoad \in [fps : 0 .. MaxFps, grown : BOOLEAN] /\ 0 \in 0 .. MaxFrames
    BY DEF NoLoad, NoPool, MaxFps, MaxFrames
  <1> HIDE DEF c
  <1>9. Good(s) /\ s.pc = "idle"
    <2> DEFINE g == SessionGone(c)
               d == ChangeState(g, "DEINIT")
               y == [d EXCEPT !.sub = {}, !.dpb = NoPool]
    <2>1. CASE c.state = "INIT"
      <3>1. Typed(g) /\ Laid(g) /\ g.state = "INIT" /\ g.pc = "idle" /\ g.on = c.on
            /\ g.open = c.open /\ g.slot = FALSE /\ g.hole = c.hole
            /\ g.resv = NoLoad /\ g.core = 0 /\ g.out = c.out /\ g.cap = c.cap
            /\ g.outMin = c.outMin /\ g.outSize = c.outSize /\ g.raced = c.raced
        BY <1>6, <1>8, <2>1, AllFields DEF Typed, Laid, SessionGone, Released
      <3> HIDE DEF g
      <3>2. d.state = "DEINIT" /\ d = [g EXCEPT !.state = "DEINIT"]
        BY <3>1, AllFields DEF Typed, ChangeState, ChangeStateOk, AllowState
      <3> HIDE DEF d
      <3>9. Typed(d) /\ Laid(d)
        <4>1. Typed(d)
          BY <3>1, <3>2, AllFields DEF Typed, States
        <4>2. Laid(d)
          BY <3>1, <3>2, AllFields DEF Typed, Laid
        <4>3. QED
          BY <4>1, <4>2
      <3>3. Typed(y) /\ Laid(y)
        <4>1. Typed(y)
          BY <1>8, <3>9, AllFields DEF Typed
        <4>2. Laid(y)
          BY <3>9, AllFields DEF Typed, Laid
        <4>3. QED
          BY <4>1, <4>2
      <3>4. y.pc = "idle" /\ y.slot = FALSE /\ y.resv = NoLoad /\ y.core = 0
            /\ y.dpb = NoPool /\ y.on = c.on /\ y.open = c.open /\ y.hole = c.hole
            /\ y.out = c.out /\ y.cap = c.cap /\ y.state = "DEINIT" /\ y.sub = {}
        BY <3>1, <3>2, AllFields DEF Typed
      <3>5. Held(y)
        BY <1>6, <1>8, <3>4 DEF Held, Bare, Started, Allocated
      <3>6. ~Careless => Staged(y) /\ Fits(y)
        <4>1. ~Careless => "CAPTURE" \notin c.on
          BY <1>7, <2>1 DEF Staged
        <4>2. QED
          BY <3>4, <4>1 DEF Staged, Fits, Flags
      <3>7. s = y
        BY <2>1 DEF StreamoffTail, g, d
      <3>8. QED
        BY <3>3, <3>4, <3>5, <3>6, <3>7 DEF Good
    <2>2. CASE c.state # "INIT"
      BY <1>6, <1>7, <2>2 DEF StreamoffTail, Good
    <2>3. QED
      BY <2>1, <2>2
  <1> HIDE DEF s
  <1>10. Good(Released(s))
    <2> DEFINE y == [s EXCEPT !.resv = NoLoad]
    <2>1. Typed(y)
      BY <1>8, <1>9, AllFields DEF Good, Typed
    <2>2. Held(y)
      BY <1>8, <1>9, AllFields DEF Good, Typed, Held, Bare, Started, Allocated
    <2>3. Laid(y) /\ (Staged(s) => Staged(y)) /\ (Fits(s) => Fits(y))
      BY <1>9, AllFields DEF Good, Typed, Laid, Staged, Fits, Flags, Enough
    <2>4. QED
      BY <1>9, <2>1, <2>2, <2>3 DEF Good, Released
  <1>11. QED
    BY <1>3, <1>9, <1>10, SetKeeps

(* A change of the sub-state changes the sub-state at most.                *)
LEMMA ChangeSubFields ==
  ASSUME NEW r, Typed(r), NEW clear, NEW set \in SUBSET SubStates
  PROVE  /\ \/ ChangeSub(r, clear, set) = r
            \/ ChangeSub(r, clear, set) = [r EXCEPT !.sub = (r.sub \cup set) \ clear]
         /\ Typed(ChangeSub(r, clear, set))
         /\ r.state # "ERROR" /\ clear \cap set = {} /\ AllowSub(r, set) =>
              ChangeSub(r, clear, set).sub = (r.sub \cup set) \ clear
  BY AllFields DEF Typed, ChangeSub, ChangeSubOk

(* The end of STREAMON of OUTPUT preserves the invariant.                  *)
LEMMA AnsweredOutputKeeps ==
  ASSUME IInv, NEW i \in Instances, NEW r, Good(r), r.pc = "idle", Allocated(r, "OUTPUT"),
         Only(i, [StreamonInput([r EXCEPT !.sub = @ \ {"INPUT_PAUSE"}])
                    EXCEPT !.on = @ \cup {"OUTPUT"}])
  PROVE  IInv'
  <1> DEFINE a == [r EXCEPT !.sub = @ \ {"INPUT_PAUSE"}]
             b == [a EXCEPT !.window = 0]
             paused == IF a.sub \cap {"DRC", "FIRST_IPSC"} # {} /\ "INPUT_PAUSE" \notin a.sub
                       THEN {"INPUT_PAUSE"} ELSE {}
             t == StreamonTarget(b.state, "OUTPUT")
             c == ChangeState(b, t)
             e == ChangeSub(c, {}, paused)
             x == [e EXCEPT !.on = @ \cup {"OUTPUT"}]
  <1>1. Set(i, x)
    BY DEF Only, StreamonInput, StateChangeStreamon
  <1>2. Typed(b) /\ Held(b) /\ Laid(b) /\ b.pc = "idle" /\ Allocated(b, "OUTPUT")
    <2>1. 0 \in Nat
      OBVIOUS
    <2>2. QED
      BY <2>1, AllFields DEF Good, Typed, Held, Bare, Started, Allocated, Laid
  <1>3. (Staged(r) => Staged(b)) /\ (Fits(r) => Fits(b))
    BY AllFields DEF Good, Typed, Staged, Fits, Flags, Enough
  <1>4. paused \in SUBSET SubStates /\ paused \cap {"DRC", "FIRST_IPSC"} = {}
    BY DEF SubStates
  <1>5. t \in States
    BY DEF StreamonTarget, States
  <1> HIDE DEF b, paused
  <1>6. Typed(c) /\ Held(c) /\ Laid(c) /\ c.pc = "idle" /\ Allocated(c, "OUTPUT")
        /\ c.on = b.on /\ c.slot = b.slot /\ (Fits(b) => Fits(c))
    BY <1>2, <1>5, AllFields, ChangeStateFields DEF Typed, Held, Bare, Started, Allocated, Laid,
                                                    Fits, Flags, Enough
  <1>7. Staged(b) => Staged(c)
    <2>1. CASE b.state = "ERROR"
      BY <1>2, <1>5, <2>1, ChangeStateFields
    <2>2. CASE b.state # "ERROR"
      <3>1. c.state = t
        BY <1>2, <1>5, <2>2, ChangeStateFields DEF StreamonTarget, AllowState
      <3>2. QED
        BY <1>2, <1>6, <2>2, <3>1 DEF Staged, StreamonTarget
    <2>3. QED
      BY <2>1, <2>2
  <1> HIDE DEF c
  <1>8. /\ Typed(e) /\ Held(e) /\ Laid(e) /\ e.pc = "idle" /\ Allocated(e, "OUTPUT")
        /\ (Staged(c) => Staged(e)) /\ (Fits(c) => Fits(e))
    <2>1. e = c \/ e = [c EXCEPT !.sub = (c.sub \cup paused) \ {}]
      BY <1>4, <1>6, ChangeSubFields
    <2>2. Typed(e)
      BY <1>4, <1>6, ChangeSubFields
    <2> HIDE DEF e
    <2>3. Held(e) /\ Laid(e) /\ e.pc = "idle" /\ Allocated(e, "OUTPUT")
      BY <1>6, <2>1, AllFields DEF Typed, Held, Bare, Started, Allocated, Laid
    <2>4. (Staged(c) => Staged(e)) /\ (Fits(c) => Fits(e))
      BY <1>4, <1>6, <2>1, AllFields DEF Typed, Staged, Fits, Flags, Enough
    <2>5. QED
      BY <2>2, <2>3, <2>4
  <1> HIDE DEF e
  <1>9. Typed(x)
    BY <1>8, AllFields DEF Typed, Planes
  <1>10. Held(x) /\ Laid(x)
    BY <1>8, AllFields DEF Typed, Held, Bare, Started, Allocated, Laid, Planes
  <1>11. (Staged(e) => Staged(x)) /\ (Fits(e) => Fits(x))
    BY <1>8, AllFields DEF Typed, Staged, Fits, Flags, Enough
  <1>12. Good(x)
    BY <1>3, <1>6, <1>7, <1>8, <1>9, <1>10, <1>11 DEF Good
  <1>13. QED
    BY <1>1, <1>12, SetKeeps

(* The end of STREAMON of CAPTURE preserves the invariant.                 *)
LEMMA AnsweredCaptureKeeps ==
  ASSUME IInv, NEW i \in Instances, NEW r, Good(r), r.pc = "idle", r.slot,
         Allocated(r, "CAPTURE"), ~Careless /\ ~r.raced => Enough(r),
         Only(i, [StreamonOutput([TellCapture(r) EXCEPT !.dpb = InternalSizes(r)])
                    EXCEPT !.on = @ \cup {"CAPTURE"}])
  PROVE  IInv'
  <1> DEFINE u == TellCapture(r)
             z == InternalSizes(r)
             a == [u EXCEPT !.dpb = z]
             ended == (IF DrcPending(a) THEN {"DRC", "DRC_LAST"} ELSE {})
                      \cup (IF a.state = "INPUT_STREAMING" THEN {"INPUT_PAUSE"} ELSE {})
                      \cup {"FIRST_IPSC", "OUTPUT_PAUSE"}
             t == StreamonTarget(a.state, "CAPTURE")
             c == ChangeState(a, t)
             e == ChangeSub(c, ended, {})
             x == [e EXCEPT !.on = @ \cup {"CAPTURE"}]
  <1>1. Set(i, x)
    BY DEF Only, StreamonOutput, StateChangeStreamon
  <1>2. z.n \in 0 .. MaxFrames
    <2>1. r.fwMin \in 0 .. MaxFrames
      BY DEF Good, Typed
    <2>2. z.n = DpbCount(r.fwMin)
      BY DEF InternalSizes
    <2>3. QED
      BY <2>1, <2>2 DEF DpbCount, MaxFrames
  <1>3. Typed(u) /\ Held(u) /\ Laid(u) /\ u.pc = "idle" /\ u.slot /\ Allocated(u, "CAPTURE")
        /\ (~Careless /\ ~u.raced => Enough(u))
    BY ToldKeeps DEF Good, Allocated, Enough
  <1>4. ~Careless => Staged(u) /\ Fits(u)
    BY ToldKeeps DEF Good
  <1> HIDE DEF u, z
  <1>5. Typed(a)
    BY <1>2, <1>3, AllFields DEF Typed
  <1>6. Held(a) /\ Laid(a) /\ a.pc = "idle" /\ a.slot /\ Allocated(a, "CAPTURE")
        /\ (~Careless /\ ~a.raced => Enough(a)) /\ (Staged(u) => Staged(a))
        /\ (Fits(u) => Fits(a))
    BY <1>3, AllFields DEF Typed, Held, Bare, Started, Allocated, Laid, Enough, Staged, Fits, Flags
  <1>7. t \in States
    BY DEF StreamonTarget, States
  <1> HIDE DEF a, ended
  <1>8. Typed(c) /\ Held(c) /\ Laid(c) /\ c.pc = "idle" /\ c.slot /\ Allocated(c, "CAPTURE")
        /\ (~Careless /\ ~c.raced => Enough(c)) /\ (Fits(a) => Fits(c))
    <2>1. c = a \/ c = [a EXCEPT !.state = t]
      BY <1>5, <1>7, ChangeStateFields
    <2>2. Typed(c)
      BY <1>5, <1>7, ChangeStateFields
    <2> HIDE DEF c
    <2>3. Held(c) /\ Laid(c) /\ c.pc = "idle" /\ c.slot /\ Allocated(c, "CAPTURE")
      BY <1>5, <1>6, <2>1, AllFields DEF Typed, Held, Bare, Started, Allocated, Laid
    <2>4. (~Careless /\ ~c.raced => Enough(c)) /\ (Fits(a) => Fits(c))
      BY <1>5, <1>6, <2>1, AllFields DEF Typed, Fits, Flags, Enough
    <2>5. QED
      BY <2>2, <2>3, <2>4
  <1>9. c.state \in {"ERROR", "OUTPUT_STREAMING", "STREAMING"}
    <2>1. CASE a.state = "ERROR"
      BY <1>5, <1>7, <2>1, ChangeStateFields
    <2>2. CASE a.state # "ERROR"
      <3>1. c.state = t
        BY <1>5, <1>7, <2>2, ChangeStateFields DEF StreamonTarget, AllowState
      <3>2. QED
        BY <3>1 DEF StreamonTarget
    <2>3. QED
      BY <2>1, <2>2
  <1> HIDE DEF c
  <1>10. /\ Typed(e) /\ Held(e) /\ Laid(e) /\ e.pc = "idle" /\ e.slot /\ Allocated(e, "CAPTURE")
         /\ e.state = c.state /\ (~Careless /\ ~e.raced => Enough(e))
         /\ (~Careless /\ Fits(c) => Fits(e))
    <2>1. e = c \/ e = [c EXCEPT !.sub = (c.sub \cup {}) \ ended]
      BY <1>8, ChangeSubFields
    <2>2. Typed(e)
      BY <1>8, ChangeSubFields
    <2> HIDE DEF e
    <2>3. Held(e) /\ Laid(e) /\ e.pc = "idle" /\ e.slot /\ Allocated(e, "CAPTURE")
          /\ e.state = c.state /\ (~Careless /\ ~e.raced => Enough(e))
      BY <1>8, <2>1, AllFields DEF Typed, Held, Bare, Started, Allocated, Laid, Enough
    <2>4. ~Careless /\ Fits(c) => Fits(e)
      BY <1>8, <2>1, <2>3, AllFields DEF Typed, Fits, Flags, Enough
    <2>5. QED
      BY <2>2, <2>3, <2>4
  <1> HIDE DEF e
  <1>11. Typed(x)
    BY <1>10, AllFields DEF Typed, Planes
  <1>12. Held(x) /\ Laid(x)
    BY <1>10, AllFields DEF Typed, Held, Bare, Started, Allocated, Laid, Planes
  <1>13. Staged(x)
    BY <1>9, <1>10, AllFields DEF Typed, Staged
  <1>14. ~Careless /\ Fits(e) => Fits(x)
    BY <1>10, AllFields DEF Typed, Fits, Flags, Enough
  <1>15. Good(x)
    BY <1>4, <1>6, <1>8, <1>10, <1>11, <1>12, <1>13, <1>14 DEF Good
  <1>16. QED
    BY <1>1, <1>15, SetKeeps

(* The answer to STREAMON preserves the invariant.                         *)
LEMMA RequirementsAnsweredKeeps ==
  ASSUME IInv, NEW i \in Instances, RequirementsAnswered(i)
  PROVE  IInv'
  <1> DEFINE q == inst[i]
             p == q.op
             r == NoCall(PropertyInfo(q))
  <1>1. Good(q) /\ q.pc = "requirements" /\ p \in Planes /\ q.slot /\ Allocated(q, p)
    BY DEF IInv, RequirementsAnswered, Good, Held, Started
  <1>2. Typed(r) /\ Held(r) /\ Laid(r) /\ r.pc = "idle" /\ r.slot /\ Allocated(r, p)
    <2> DEFINE s == PropertyInfo(q)
    <2>1. Typed(s) /\ s.slot /\ Allocated(s, p)
      BY <1>1, AllFields DEF Good, Typed, Allocated, PropertyInfo
    <2>2. Laid(s)
      BY <1>1, AllFields DEF Good, Typed, Laid, PropertyInfo
    <2>3. (s.open <=> q.open) /\ s.on = q.on /\ (s.slot <=> q.slot) /\ s.pc = q.pc
          /\ (Bare(q) => Bare(s)) /\ \A pl \in Planes : Allocated(q, pl) => Allocated(s, pl)
      BY <1>1, AllFields DEF Good, Typed, Bare, Allocated, PropertyInfo
    <2> HIDE DEF s
    <2>9. Typed(r)
      <3> DEFINE y == [s EXCEPT !.pc = "idle"]
      <3>1. Typed(y)
        BY <2>1, AllFields DEF Typed, Pcs
      <3> HIDE DEF s
      <3>2. r = [y EXCEPT !.op = "none"]
        BY <2>1, AllFields DEF Typed, NoCall, s
      <3> HIDE DEF y, r
      <3>3. QED
        BY <3>1, <3>2, AllFields DEF Typed, Calls
    <2>8. DOMAIN r = Fields /\ r.pc = "idle" /\ r.op = "none"
          /\ \A f \in Fields \ {"pc", "op"} : r[f] = s[f]
      BY <2>1, AllFields DEF Typed, NoCall, s
    <2> HIDE DEF r
    <2>4. Typed(r) /\ r.pc = "idle" /\ r.slot /\ Allocated(r, p)
      <3>1. r.slot /\ r.out = s.out /\ r.cap = s.cap
        BY <2>1, <2>8, AllFields
      <3>2. QED
        BY <2>1, <2>8, <2>9, <3>1 DEF Allocated
    <2>5. Laid(r)
      BY <2>1, <2>2, <2>8, AllFields DEF Typed, Laid
    <2>6. Held(r)
      BY <1>1, <2>1, <2>3, <2>8, AllFields DEF Good, Typed, Held, Bare, Started, Allocated
    <2>7. QED
      BY <2>4, <2>5, <2>6
  <1>3. (Staged(q) => Staged(r)) /\ (Fits(q) => Fits(r))
        /\ (p = "CAPTURE" /\ Fits(q) /\ ~r.raced => Enough(r))
    BY <1>1, AllFields DEF Good, Typed, Staged, Fits, Flags, Enough, NoCall, PropertyInfo
  <1>4. Good(r) /\ (p = "CAPTURE" /\ ~Careless /\ ~r.raced => Enough(r))
    BY <1>1, <1>2, <1>3 DEF Good
  <1>5. Only(i, [(IF p = "OUTPUT"
                  THEN StreamonInput([r EXCEPT !.sub = @ \ {"INPUT_PAUSE"}])
                  ELSE StreamonOutput([TellCapture(r) EXCEPT !.dpb = InternalSizes(r)]))
                 EXCEPT !.on = @ \cup {p}])
    BY DEF RequirementsAnswered
  <1> HIDE DEF r
  <1>6. CASE p = "OUTPUT"
    BY <1>2, <1>4, <1>5, <1>6, AnsweredOutputKeeps
  <1>7. CASE p = "CAPTURE"
    BY <1>2, <1>4, <1>5, <1>7, AnsweredCaptureKeeps
  <1>8. QED
    BY <1>1, <1>6, <1>7 DEF Planes

(* A change of the stream preserves the invariant: either the queue still  *)
(* fits or the change is marked.                                           *)
LEMMA SeqChangedKeeps ==
  ASSUME IInv, LoadAssumption, NEW i \in Instances, NEW d \in Frames, NEW deep \in BOOLEAN,
         NEW n \in Minimums, SeqChanged(i, d, deep, n)
  PROVE  IInv'
  <1> DEFINE r == inst[i]
             raw == IF deep THEN "P010" ELSE r.raw
             m == OutputMin(r.codec, n)
             k == Captures(r, d, raw)
             x == [k EXCEPT !.src = d, !.changed = @ \/ raw # r.raw,
                            !.fwMin = n, !.outMin = m, !.capMin = m]
             y == IF StillFits(r, x)
                  THEN ChangeSub(x, {"DRC", "FIRST_IPSC", "INPUT_PAUSE"}, {})
                  ELSE SubChangeDrcLast(SubChangeDrc(ReleaseHole(x)))
             z == [y EXCEPT !.raced = @ \/ r.pc = "requirements"]
  <1>1. Good(r) /\ r.state \in {"INPUT_STREAMING", "STREAMING"} /\ r.slot /\ "DRC" \notin r.sub
        /\ r.pc \in {"idle", "requirements", "stopping"}
    BY DEF IInv, SeqChanged, FirmwareParses
  <1>2. Set(i, z)
    BY DEF SeqChanged, ReadChangedParams
  <1>3. d \in FrameType /\ raw \in RawFormats /\ n \in 1 .. MaxFrames /\ m \in 1 .. MaxFrames
    <2>1. n \in 0 .. MaxFrames
      BY DEF LoadAssumption, MaxFrames
    <2>2. QED
      BY <1>1, <2>1, OutputMinBound DEF LoadAssumption, FrameType, Good, Typed, RawFormats
  <1> HIDE DEF raw, m
  <1>4. Typed(k) /\ Laid(k)
    BY <1>1, <1>3, CapturesKeeps DEF Good
  <1>5. Held(k) /\ k.pc = r.pc /\ k.state = r.state /\ k.sub = r.sub /\ k.on = r.on
        /\ k.cap = r.cap /\ k.raced = r.raced /\ k.op = r.op /\ k.slot = r.slot
        /\ k.open = r.open
    BY <1>1, AllFields DEF Good, Typed, Held, Bare, Started, Allocated, Captures
  <1> HIDE DEF k
  <1>6. Typed(x)
    BY <1>3, <1>4, AllFields DEF Typed, MaxFrames
  <1>7. Held(x) /\ Laid(x) /\ x.pc = r.pc /\ x.state = r.state /\ x.sub = r.sub /\ x.on = r.on
        /\ x.cap = r.cap /\ x.raced = r.raced /\ x.op = r.op /\ x.fwMin = n /\ x.slot = r.slot
        /\ x.open = r.open
    BY <1>4, <1>5, AllFields DEF Typed, Held, Bare, Started, Allocated, Laid
  <1> HIDE DEF x
  <1>8. Typed(y) /\ Held(y) /\ Laid(y) /\ y.pc = r.pc /\ y.state = r.state /\ y.on = r.on
        /\ y.cap = r.cap /\ y.raced = r.raced /\ y.op = r.op /\ y.fwMin = n
        /\ y.slot = r.slot /\ y.outSize = x.outSize /\ y.outMin = x.outMin
        /\ (StillFits(r, x) \/ Flags(y) # {})
    <2>1. CASE StillFits(r, x)
      <3> DEFINE g == ChangeSub(x, {"DRC", "FIRST_IPSC", "INPUT_PAUSE"}, {})
      <3>1. g = x \/ g = [x EXCEPT !.sub = (x.sub \cup {})
                                           \ {"DRC", "FIRST_IPSC", "INPUT_PAUSE"}]
        BY <1>6, ChangeSubFields
      <3>2. Typed(g)
        BY <1>6, ChangeSubFields
      <3> HIDE DEF g
      <3>3. Held(g) /\ Laid(g) /\ g.pc = x.pc /\ g.state = x.state /\ g.on = x.on
            /\ g.cap = x.cap /\ g.raced = x.raced /\ g.op = x.op /\ g.fwMin = x.fwMin
            /\ g.slot = x.slot /\ g.outSize = x.outSize /\ g.outMin = x.outMin
        BY <1>6, <1>7, <3>1, AllFields DEF Typed, Held, Bare, Started, Allocated, Laid
      <3>4. QED
        BY <1>7, <2>1, <3>2, <3>3 DEF g
    <2>2. CASE ~StillFits(r, x)
      <3> DEFINE h == ReleaseHole(x)
                 g == SubChangeDrc(h)
                 l == SubChangeDrcLast(g)
      <3>1. Typed(h) /\ Held(h) /\ Laid(h) /\ h.pc = x.pc /\ h.state = x.state /\ h.on = x.on
            /\ h.cap = x.cap /\ h.raced = x.raced /\ h.op = x.op /\ h.fwMin = x.fwMin
            /\ h.slot = x.slot /\ h.outSize = x.outSize /\ h.outMin = x.outMin
            /\ h.sub = x.sub
        BY <1>6, <1>7, AllFields DEF Typed, Held, Bare, Started, Allocated, Laid, ReleaseHole
      <3> HIDE DEF h
      <3>2. Drc(h) \in SUBSET SubStates
        BY DEF Drc, SubStates
      <3>3. g = h \/ g = [h EXCEPT !.sub = (h.sub \cup Drc(h)) \ {}]
        <4> DEFINE o == ChangeSub(h, {}, Drc(h))
        <4>1. o = h \/ o = [h EXCEPT !.sub = (h.sub \cup Drc(h)) \ {}]
          BY <3>1, <3>2, ChangeSubFields
        <4>2. g = h \/ g = o
          BY DEF SubChangeDrc
        <4> HIDE DEF o, g
        <4>3. QED
          BY <4>1, <4>2
      <3>4. Typed(g)
        BY <3>1, <3>2, ChangeSubFields DEF SubChangeDrc
      <3>5. Flags(g) # {}
        <4>1. AllowSub(h, Drc(h)) /\ h.state # "ERROR" /\ "DRC" \notin h.sub
          BY <1>1, <1>7, <3>1 DEF AllowSub, AllowedSub, Drc
        <4>2. SubChangeDrcOk(h)
          BY <4>1 DEF SubChangeDrcOk, ChangeSubOk
        <4>3. g.sub = (h.sub \cup Drc(h)) \ {}
          BY <3>1, <3>2, <4>1, <4>2, ChangeSubFields DEF SubChangeDrc
        <4>4. QED
          BY <4>3 DEF Drc, Flags
      <3> HIDE DEF g
      <3>6. Held(g) /\ Laid(g) /\ g.pc = x.pc /\ g.state = x.state /\ g.on = x.on
            /\ g.cap = x.cap /\ g.raced = x.raced /\ g.op = x.op /\ g.fwMin = x.fwMin
            /\ g.slot = x.slot /\ g.outSize = x.outSize /\ g.outMin = x.outMin
        <4>1. Held(g)
          BY <3>1, <3>3, AllFields DEF Typed, Held, Bare, Started, Allocated
        <4>2. Laid(g)
          BY <3>1, <3>3, AllFields DEF Typed, Laid
        <4>3. g.pc = x.pc /\ g.state = x.state /\ g.on = x.on /\ g.cap = x.cap
              /\ g.raced = x.raced /\ g.op = x.op /\ g.fwMin = x.fwMin
              /\ g.slot = x.slot /\ g.outSize = x.outSize /\ g.outMin = x.outMin
          BY <3>1, <3>3, AllFields DEF Typed
        <4>4. QED
          BY <4>1, <4>2, <4>3
      <3>7. {"DRC_LAST", "OUTPUT_PAUSE"} \in SUBSET SubStates
        BY DEF SubStates
      <3>8. l = g \/ l = [g EXCEPT !.sub = (g.sub \cup {"DRC_LAST", "OUTPUT_PAUSE"}) \ {}]
        BY <3>4, <3>7, ChangeSubFields DEF SubChangeDrcLast
      <3>9. Typed(l)
        BY <3>4, <3>7, ChangeSubFields DEF SubChangeDrcLast
      <3> HIDE DEF l
      <3>10. Held(l) /\ Laid(l) /\ l.pc = x.pc /\ l.state = x.state /\ l.on = x.on
             /\ l.cap = x.cap /\ l.raced = x.raced /\ l.op = x.op /\ l.fwMin = x.fwMin
             /\ l.slot = x.slot /\ l.outSize = x.outSize /\ l.outMin = x.outMin
        <4>1. Held(l)
          BY <3>4, <3>6, <3>8, AllFields DEF Typed, Held, Bare, Started, Allocated
        <4>2. Laid(l)
          BY <3>4, <3>6, <3>8, AllFields DEF Typed, Laid
        <4>3. l.pc = x.pc /\ l.state = x.state /\ l.on = x.on /\ l.cap = x.cap
              /\ l.raced = x.raced /\ l.op = x.op /\ l.fwMin = x.fwMin
              /\ l.slot = x.slot /\ l.outSize = x.outSize /\ l.outMin = x.outMin
          BY <3>4, <3>6, <3>8, AllFields DEF Typed
        <4>4. QED
          BY <4>1, <4>2, <4>3
      <3>11. Flags(l) # {}
        BY <3>4, <3>5, <3>8, AllFields DEF Typed, Flags
      <3>12. y = l
        BY <2>2 DEF l, g, h
      <3>13. QED
        BY <1>7, <3>9, <3>10, <3>11, <3>12
    <2>3. QED
      BY <2>1, <2>2
  <1>9. StillFits(r, x) =>
          r.fwMin = 0 /\ r.state = "STREAMING" /\ r.outSize >= x.outSize /\ r.cap.n >= x.outMin
    BY DEF StillFits
  <1> HIDE DEF y
  <1>10. Typed(z)
    BY <1>8, AllFields DEF Typed
  <1>11. Held(z) /\ Laid(z)
    BY <1>8, AllFields DEF Typed, Held, Bare, Started, Allocated, Laid
  <1>12. Staged(r) => Staged(z)
    BY <1>1, <1>8, AllFields DEF Typed, Staged
  <1>13. Fits(r) => Fits(z)
    <2>1. z.fwMin # 0 /\ z.on = r.on /\ z.pc = r.pc /\ z.cap = r.cap /\ z.outSize = x.outSize
          /\ z.outMin = x.outMin /\ z.sub = y.sub /\ z.raced = (r.raced \/ r.pc = "requirements")
      BY <1>3, <1>8, AllFields DEF Typed, MaxFrames
    <2>2. z.pc = "requirements" => z.raced
      BY <2>1
    <2>3. ASSUME Fits(r), "CAPTURE" \in z.on, ~z.raced, Flags(z) = {}
          PROVE  Enough(z)
      <3>1. StillFits(r, x)
        BY <1>8, <2>1, <2>3 DEF Flags
      <3>2. Enough(r)
        BY <1>1, <1>9, <2>1, <2>3, <3>1 DEF Good, Typed, Fits
      <3>3. r.cap.size >= x.outSize
        BY <1>1, <1>6, <1>9, <3>1, <3>2 DEF Good, Typed, Enough
      <3>4. QED
        BY <1>9, <2>1, <3>1, <3>3 DEF Enough
    <2>4. z.pc # "opening"
      BY <1>1, <2>1
    <2>5. QED
      BY <2>1, <2>2, <2>3, <2>4 DEF Fits
  <1>14. Good(z)
    BY <1>1, <1>10, <1>11, <1>12, <1>13 DEF Good
  <1>15. QED
    BY <1>2, <1>14, SetKeeps

-----------------------------------------------------------------------------
(* The invariant.                                                          *)

(* It holds when no file is open.                                          *)
LEMMA InitInv ==
  Init => IInv
  BY ClosedGood DEF Init, IInv

(* Every step preserves it.                                                *)
LEMMA NextInv ==
  ASSUME LoadAssumption, IInv, [Next]_vars
  PROVE  IInv'
  <1>1. CASE UNCHANGED vars
    BY <1>1 DEF vars, IInv
  <1>2. ASSUME NEW i \in Instances, Client(i)
        PROVE  IInv'
    <2>1. CASE InstInit(i) \/ Close(i) \/ CloseEnds(i)
      BY <2>1, InstInitKeeps, CloseKeeps, CloseEndsKeeps
    <2>2. CASE \E c \in Used, d \in Frames : SFmtOutput(i, c, d)
      BY <2>2, SFmtOutputKeeps
    <2>3. CASE \E raw \in RawFormats : SFmtCapture(i, raw)
      BY <2>3, SFmtCaptureKeeps
    <2>4. CASE \E p \in Planes :
                 QueueSetup(i, p) \/ Free(i, p) \/ StreamOn(i, p) \/ StreamOff(i, p)
      BY <2>4, QueueSetupKeeps, FreeKeeps, StreamOnKeeps, StreamOffKeeps
    <2>5. CASE OpenAnswered(i) \/ OpenFailed(i)
      BY <2>5, OpenAnsweredKeeps, OpenFailedKeeps
    <2>6. CASE RequirementsAnswered(i) \/ RequirementsExpire(i)
      BY <2>6, RequirementsAnsweredKeeps, RequirementsExpireKeeps
    <2>7. CASE Stopped(i) \/ StopExpires(i)
      BY <2>7, StoppedKeeps, StopExpiresKeeps
    <2>8. CASE (\E fps \in Fps : QbufSample(i, fps)) \/ QbufWindow(i)
      BY <2>8, QbufSampleKeeps, QbufWindowKeeps
    <2>9. QED
      BY <1>2, <2>1, <2>2, <2>3, <2>4, <2>5, <2>6, <2>7, <2>8 DEF Client
  <1>3. ASSUME NEW i \in Instances, Firmware(i)
        PROVE  IInv'
    BY <1>3, SeqChangedKeeps, SessionDiesKeeps DEF Firmware
  <1>4. QED
    BY <1>1, <1>2, <1>3 DEF Next

(* So it always holds.                                                     *)
LEMMA Always ==
  Spec => []IInv
  <1>1. IInv /\ [Next]_vars => IInv'
    BY LoadAssumption, NextInv
  <1>2. QED
    BY <1>1, InitInv, PTL DEF Spec

-----------------------------------------------------------------------------
(* What follows from it.                                                   *)

(* The fields of every file keep the driver's types and bounds, a queue    *)
(* that streams has buffers, and a call that waits has a session.          *)
THEOREM TypeCorrect == Spec => []TypeOK
  <1>1. IInv => TypeOK
    <2> SUFFICES ASSUME IInv, NEW i \in Instances
                 PROVE  LET r == inst[i] IN
                          /\ r.state \in States /\ r.sub \subseteq SubStates
                          /\ r.pc \in Pcs
                          /\ r.codec \in Codecs /\ r.raw \in RawFormats
                          /\ r.rate \in DefaultFps .. MaxFps /\ r.down \in 0 .. 2
                          /\ r.resv.fps \in 0 .. MaxFps /\ r.core \in 0 .. 2
                          /\ r.cap.n \in 0 .. MaxFrames /\ r.dpb.n \in 0 .. MaxFrames
                          /\ r.on \subseteq Planes /\ \A p \in r.on : Allocated(r, p)
                          /\ r.pc \in {"opening", "requirements"} => r.slot
      BY DEF IInv, TypeOK, Pcs
    <2>1. Typed(inst[i]) /\ Held(inst[i])
      BY DEF IInv, Good
    <2>2. QED
      BY <2>1 DEF Typed, Held, Started
  <1>2. QED
    BY <1>1, Always, PTL

(* Whatever way a session ends - STREAMOFF, close(), a failed open, a time *)
(* out - its file keeps no reserved load, no video core and no DPBs, and a *)
(* closed file no placeholder.                                             *)
THEOREM Clean == Spec => []ReleasedClean
  <1>1. IInv => ReleasedClean
    <2> SUFFICES ASSUME IInv, NEW i \in Instances
                 PROVE  /\ ~inst[i].slot => inst[i].resv = NoLoad /\ inst[i].core = 0
                                            /\ inst[i].dpb = NoPool
                        /\ ~inst[i].open => ~inst[i].slot /\ ~inst[i].hole
      BY DEF ReleasedClean
    <2>1. Held(inst[i]) /\ inst[i].resv \in [fps : 0 .. MaxFps, grown : BOOLEAN]
      BY DEF IInv, Good, Typed
    <2>2. \A s \in [fps : 0 .. MaxFps, grown : BOOLEAN] :
            s.fps = 0 /\ s.grown = FALSE => s = NoLoad
      BY DEF NoLoad
    <2>3. QED
      BY <2>1, <2>2 DEF Held, Bare
  <1>2. QED
    BY <1>1, Always, PTL

(* More lines of the same length need more bytes.                          *)
LEMMA MoreLines ==
  ASSUME NEW a \in Nat, NEW b \in Nat, NEW c \in Nat, b <= c
  PROVE  a * b <= a * c
  <1>1. PICK e \in Nat : c = b + e
    <2>1. c - b \in Nat /\ c = b + (c - b)
      OBVIOUS
    <2>2. QED
      BY <2>1
  <1>2. a * c = a * b + a * e /\ a * e >= 0 /\ a * b \in Nat
    BY <1>1
  <1>3. QED
    BY <1>2

(* What iris_get_ycbcr_layout() gives a client fits what the formula for   *)
(* sizeimage gives: luma and chroma lines lie within the buffer, for every *)
(* width and height and both raw formats.                                  *)
LEMMA LayoutFits ==
  ASSUME NEW d \in FrameType, NEW raw \in RawFormats
  PROVE  LET a == Aligned(d)  s == RawStride(d.w, raw)
         IN /\ s % Multiple(raw) = 0
            /\ s >= (IF raw = "P010" THEN 2 ELSE 1) * d.w
            /\ s * (a.h + a.h \div 2) <= OutputSize(a, raw)
  <1> DEFINE a == Aligned(d)
             s == RawStride(d.w, raw)
             lines == Align(a.h, 32) + Align((a.h + 1) \div 2, 16)
             all == a.h + a.h \div 2
  <1>1. d.w \in Nat /\ d.h \in Nat
    BY DEF FrameType
  <1>2. a.h \in Nat /\ lines \in Nat /\ all \in Nat /\ all <= lines
    <2>1. a.h \in Nat
      BY <1>1 DEF Aligned, Frame, Align, DivUp
    <2> HIDE DEF a
    <2>2. QED
      BY <2>1 DEF Align, DivUp
  <1>3. s \in Nat /\ s % Multiple(raw) = 0 /\ s >= (IF raw = "P010" THEN 2 ELSE 1) * d.w
    BY <1>1 DEF RawStride, Multiple, Align, DivUp
  <1>4. OutputSize(a, raw) = Align(s * lines, 4096)
    <2>1. CASE raw = "P010"
      <3>1. Align(2 * a.w, 128) = s
        BY <1>1, <2>1 DEF Aligned, Frame, RawStride, Align, DivUp
      <3>2. QED
        BY <2>1, <3>1 DEF OutputSize, P010Size, LinearSize
    <2>2. CASE raw # "P010"
      <3>1. Align(a.w, 128) = s
        BY <1>1, <2>2 DEF Aligned, Frame, RawStride, Align, DivUp
      <3>2. QED
        BY <2>2, <3>1 DEF OutputSize, Nv12Size, LinearSize
    <2>3. QED
      BY <2>1, <2>2
  <1> HIDE DEF a, s, lines, all
  <1>5. s * all <= s * lines /\ s * lines \in Nat /\ s * all \in Nat
    BY <1>2, <1>3, MoreLines
  <1>6. \A x \in Nat : x <= Align(x, 4096) /\ Align(x, 4096) \in Nat
    BY DEF Align, DivUp
  <1>7. s * all <= OutputSize(a, raw)
    <2>1. s * lines <= OutputSize(a, raw) /\ OutputSize(a, raw) \in Nat
      BY <1>4, <1>5, <1>6
    <2>2. QED
      BY <1>5, <2>1
  <1>8. QED
    BY <1>3, <1>7 DEF a, s, all

(* The format a client reads is always one the firmware can write within   *)
(* the size it reads with it, for every size of frame.                     *)
THEOREM Layout == Spec => []LayoutAgrees
  <1>1. IInv => LayoutAgrees
    <2> SUFFICES ASSUME IInv, NEW i \in Instances
                 PROVE  LET r == inst[i] IN
                          /\ r.stride % Multiple(r.raw) = 0
                          /\ r.stride >= (IF r.raw = "P010" THEN 2 ELSE 1) * r.crop.w
                          /\ r.stride * (r.dst.h + r.dst.h \div 2) <= r.outSize
      BY DEF LayoutAgrees
    <2> DEFINE r == inst[i]
    <2>1. r.raw \in RawFormats /\ r.crop \in FrameType
      BY DEF IInv, Good, Typed
    <2>2. PICK d \in FrameType :
            /\ r.dst = Aligned(d) /\ r.stride = RawStride(d.w, r.raw)
            /\ r.outSize = OutputSize(r.dst, r.raw) /\ r.crop.w <= d.w
      BY DEF IInv, Good, Laid
    <2> HIDE DEF r
    <2>3. /\ r.stride % Multiple(r.raw) = 0
          /\ r.stride >= (IF r.raw = "P010" THEN 2 ELSE 1) * d.w
          /\ r.stride * (r.dst.h + r.dst.h \div 2) <= r.outSize
      BY <2>1, <2>2, LayoutFits
    <2>4. d.w \in Nat /\ r.crop.w \in Nat /\ r.stride \in Nat
      BY <2>1, <2>2 DEF FrameType, RawStride, Align, DivUp
    <2>5. r.stride >= (IF r.raw = "P010" THEN 2 ELSE 1) * r.crop.w
      BY <2>2, <2>3, <2>4
    <2>6. QED
      BY <2>3, <2>5 DEF r
  <1>2. QED
    BY <1>1, Always, PTL

(* Unless a client streams into a queue that is too small or changes the   *)
(* format under a queue it has, the buffers of a CAPTURE queue that runs   *)
(* are enough and hold the picture, whenever the stream changes.           *)
THEOREM Fit ==
  ASSUME ~Careless
  PROVE  Spec => []BuffersFit
  <1>1. IInv => BuffersFit
    <2> SUFFICES ASSUME IInv, NEW i \in Instances, Running(inst[i])
                 PROVE  inst[i].cap.size >= inst[i].outSize /\ inst[i].cap.n >= inst[i].outMin
      BY DEF BuffersFit
    <2>1. Fits(inst[i])
      BY DEF IInv, Good
    <2>2. QED
      BY <2>1 DEF Fits, Running, Flags, Enough
  <1>2. QED
    BY <1>1, Always, PTL

-----------------------------------------------------------------------------
(* What the firmware is told.                                              *)

ToldFields == {"by", "raw", "mult", "count", "size", "dpbCount", "dpbSize"}

(* The firmware knows the pixel format.                                    *)
Agrees(r) == r.told.raw = r.raw /\ r.told.mult = Multiple(r.raw)

(* It knows how many buffers CAPTURE has, how large, and the DPBs.         *)
Matches(r) ==
  /\ r.told.count = r.cap.n /\ r.told.size = r.outSize
  /\ r.dpb = [n |-> r.told.dpbCount, size |-> r.told.dpbSize]

(* Between the steps of STREAMON and over a change of the stream: the      *)
(* format is known while OUTPUT streams unless changed says that it is     *)
(* not, and a CAPTURE queue that streams without a change that waits has   *)
(* been told as it is; what STREAMON keeps over the wait is still true     *)
(* when it is sent, or raced says that the stream has changed.             *)
Told(r) ==
  /\ DOMAIN r.told = ToldFields
  /\ r.fwMin = 0 => ~r.changed
  /\ "OUTPUT" \in r.on /\ ~r.changed => Agrees(r)
  /\ r.pc \in {"opening", "requirements"} => r.op \notin r.on
  /\ r.pc = "requirements" /\ r.op = "OUTPUT" => Agrees(r)
  /\ r.state # "ERROR" =>
       /\ r.state \in {"INPUT_STREAMING", "STREAMING"} => "OUTPUT" \in r.on
       /\ "CAPTURE" \in r.on /\ Flags(r) = {} /\ ~r.raced =>
            ~r.changed /\ (r.told.by = "CAPTURE" => Matches(r))
       /\ r.pc = "requirements" /\ r.op = "CAPTURE" /\ ~r.raced =>
            ~r.changed /\ r.saved.count = r.cap.n /\ r.saved.dpb = DpbCount(r.fwMin)

AllTold == \A i \in Instances : Told(inst[i])

(* The bookkeeping of Set is not told.                                     *)
LEMMA SetTells ==
  ASSUME IInv, IInv', AllTold, NEW i \in Instances, NEW x, Set(i, x), Told(x)
  PROVE  AllTold'
  <1> DEFINE v == [x.resv EXCEPT !.grown = @ \/ Grown(inst[i], x)]
             y == [x EXCEPT !.resv = v]
  <1>1. inst' = [inst EXCEPT ![i] = y]
    BY DEF Set
  <1>2. inst'[i] = y /\ \A j \in Instances \ {i} : inst'[j] = inst[j]
    BY <1>1 DEF IInv
  <1>3. DOMAIN y = Fields
    BY <1>2 DEF IInv, Good, Typed
  <1> HIDE DEF v
  <1>4. Told(y)
    BY <1>3, AllFields DEF Told, Agrees, Matches, Flags
  <1>5. QED
    BY <1>2, <1>4 DEF AllTold

(* Steps that send nothing: what is known stays known, for the queues that *)
(* go on.                                                                  *)
Silent(q, x) ==
  /\ x.fwMin = q.fwMin /\ x.changed = q.changed
  /\ x.on \subseteq q.on /\ x.told = q.told
  /\ "OUTPUT" \in x.on => x.raw = q.raw
  /\ "CAPTURE" \in x.on => /\ x.cap = q.cap /\ x.outSize = q.outSize
                           /\ x.dpb = q.dpb /\ x.sub = q.sub /\ x.raced = q.raced
  /\ x.pc = "opening" => x.op \notin x.on
  /\ x.pc # "requirements"
  /\ x.state # "ERROR" =>
       /\ q.state # "ERROR"
       /\ x.state \in {"INPUT_STREAMING", "STREAMING"} => "OUTPUT" \in x.on

(* What was true of what has been told is so after a silent step.          *)
LEMMA SilentTells ==
  ASSUME NEW q, NEW x, Told(q), Silent(q, x)
  PROVE  Told(x)
  BY DEF Told, Silent, Agrees, Matches, Flags

(* An error tells nothing.                                                 *)
LEMMA FailTells ==
  ASSUME NEW r, DOMAIN r = Fields, Told(r)
  PROVE  Told(Fail(r))
  <1> DEFINE x == [r EXCEPT !.state = "ERROR"]
  <1>1. Fail(r) = r \/ Fail(r) = x
    BY DEF Fail, ChangeState
  <1>2. Told(x)
    BY AllFields DEF Told, Agrees, Flags
  <1>3. QED
    BY <1>1, <1>2

(* A closed file knows nothing.                                            *)
LEMMA ClosedTells ==
  ASSUME NEW x, x.fwMin = 0, ~x.changed, x.on = {}, x.pc = "idle", x.state = "DEINIT",
         x.told = Untold
  PROVE  Told(x)
  BY DEF Told, ToldFields, Untold

(* Opening and closing a file.                                             *)
LEMMA FileTells ==
  ASSUME IInv, IInv', AllTold, NEW i \in Instances,
         \/ InstInit(i) \/ Close(i) \/ CloseEnds(i) \/ OpenFailed(i) \/ SessionDies(i)
  PROVE  AllTold'
  <1> DEFINE q == inst[i]
  <1>1. DOMAIN q = Fields /\ Told(q) /\ Held(q)
    BY DEF IInv, Good, Typed, AllTold
  <1>2. Closed.fwMin = 0 /\ ~Closed.changed /\ Closed.on = {} /\ Closed.pc = "idle"
        /\ Closed.state = "DEINIT" /\ Closed.told = Untold /\ DOMAIN Closed = Fields
    BY DEF Closed, Fields
  <1>3. CASE InstInit(i)
    <2> DEFINE x == [Closed EXCEPT !.open = TRUE]
    <2>1. Set(i, x)
      BY <1>3 DEF InstInit, Only
    <2>2. Told(x)
      BY <1>2, AllFields, ClosedTells
    <2>3. QED
      BY <2>1, <2>2, SetTells
  <1>4. CASE Close(i)
    <2> DEFINE x == [q EXCEPT !.pc = "closing"]
    <2>1. Set(i, x) /\ q.pc = "idle"
      BY <1>4 DEF Close, Idle
    <2>2. Told(x)
      BY <1>1, <2>1, AllFields DEF Told, Agrees, Matches, Flags
    <2>3. QED
      BY <2>1, <2>2, SetTells
  <1>5. CASE CloseEnds(i)
    <2> DEFINE r == ReleaseHole([SessionGone(q) EXCEPT !.dpb = NoPool])
               x == [Closed EXCEPT !.hole = r.hole, !.dpb = r.dpb, !.slot = r.slot,
                                   !.resv = r.resv, !.core = r.core]
    <2>1. Set(i, x)
      BY <1>5 DEF CloseEnds, Only
    <2> HIDE DEF r
    <2>2. Told(x)
      BY <1>2, AllFields, ClosedTells
    <2>3. QED
      BY <2>1, <2>2, SetTells
  <1>6. CASE OpenFailed(i)
    <2> DEFINE g == SessionGone(q)
               r == NoCall(g)
               x == IF q.op \in Planes THEN Fail(r) ELSE r
    <2>1. Set(i, x) /\ q.pc = "opening"
      BY <1>6 DEF OpenFailed
    <2>2. DOMAIN g = Fields /\ g.fwMin = q.fwMin /\ g.changed = q.changed /\ g.on = q.on
          /\ g.told = q.told /\ g.raw = q.raw /\ g.cap = q.cap /\ g.outSize = q.outSize
          /\ g.dpb = q.dpb /\ g.sub = q.sub /\ g.raced = q.raced /\ g.state = q.state
      BY <1>1, AllFields DEF SessionGone, Released
    <2> HIDE DEF g
    <2>3. DOMAIN r = Fields /\ Silent(q, r)
      BY <1>1, <2>2, AllFields DEF NoCall, Silent, Told
    <2> HIDE DEF r
    <2>4. Told(x)
      BY <1>1, <2>3, SilentTells, FailTells
    <2>5. QED
      BY <2>1, <2>4, SetTells
  <1>7. CASE SessionDies(i)
    BY <1>1, <1>7, FailTells, SetTells DEF SessionDies
  <1>8. QED
    BY <1>3, <1>4, <1>5, <1>6, <1>7

(* S_FMT of OUTPUT: neither queue has buffers.                             *)
LEMMA SFmtOutputTells ==
  ASSUME ~Careless, IInv, IInv', AllTold, NEW i \in Instances,
         NEW codec \in Used, NEW f \in Frames, SFmtOutput(i, codec, f)
  PROVE  AllTold'
  <1> DEFINE q == inst[i]
             d == Frame(Clamp(f.w, 96, 8192), Clamp(f.h, 96, 8192))
             n == IF codec = "HEVC" THEN 32 ELSE 16
             s == Frame(Align(d.w, n), Align(d.h, n))
             r == [q EXCEPT !.codec = codec, !.src = s]
             x == Captures(r, d, r.raw)
  <1>1. DOMAIN q = Fields /\ Told(q) /\ Held(q) /\ q.on \subseteq Planes
    BY DEF IInv, Good, Typed, AllTold
  <1>2. Set(i, x) /\ ~q.out /\ q.cap.n = 0 /\ q.pc = "idle"
    BY DEF SFmtOutput, Idle
  <1>3. q.on = {}
    BY <1>1, <1>2 DEF Held, Started, Allocated, Planes
  <1> HIDE DEF d, s
  <1>4. DOMAIN r = Fields /\ Silent(q, r)
    BY <1>1, <1>2, <1>3, AllFields DEF Silent, Told
  <1>5. r.on = {} /\ r.pc = "idle" /\ Told(r)
    BY <1>1, <1>2, <1>3, <1>4, SilentTells, AllFields
  <1> HIDE DEF r
  <1>6. Silent(r, x)
    BY <1>4, <1>5, AllFields DEF Silent, Captures, Told
  <1>7. QED
    BY <1>2, <1>5, <1>6, SilentTells, SetTells

(* S_FMT of CAPTURE: it has no buffers, and the pixel format stays while   *)
(* OUTPUT streams.                                                         *)
LEMMA SFmtCaptureTells ==
  ASSUME ~Careless, IInv, IInv', AllTold, NEW i \in Instances,
         NEW raw \in RawFormats, SFmtCapture(i, raw)
  PROVE  AllTold'
  <1> DEFINE q == inst[i]
             d == IF "OUTPUT" \in q.on THEN q.src ELSE q.dst
             r == Captures(q, d, raw)
             m == OutputMin(q.codec, q.fwMin)
             x == [r EXCEPT !.outMin = m]
  <1>1. DOMAIN q = Fields /\ Told(q) /\ Held(q)
        /\ q.on \subseteq Planes /\ q.cap.n \in 0 .. MaxFrames
    BY DEF IInv, Good, Typed, AllTold
  <1>2. Set(i, x)
    BY DEF SFmtCapture, Captures
  <1>3. q.cap.n = 0 /\ q.pc = "idle" /\ (raw # q.raw => "OUTPUT" \notin q.on)
    BY DEF SFmtCapture, Idle
  <1>4. "CAPTURE" \notin q.on
    BY <1>1, <1>3 DEF Held, Started, Allocated, Planes
  <1> HIDE DEF d, m
  <1>5. DOMAIN r = Fields /\ Silent(q, r) /\ r.on = q.on /\ r.pc = "idle"
    BY <1>1, <1>3, <1>4, AllFields DEF Silent, Captures, Told
  <1> HIDE DEF r
  <1>6. Told(r)
    BY <1>1, <1>5, SilentTells
  <1>7. Silent(r, x)
    BY <1>4, <1>5, <1>6, AllFields DEF Silent, Told
  <1>8. QED
    BY <1>2, <1>6, <1>7, SilentTells, SetTells

(* Freed queues, samples of the rate, and calls that time out.             *)
LEMMA ClientTells ==
  ASSUME IInv, IInv', AllTold, NEW i \in Instances,
         \/ \E p \in Planes : Free(i, p) \/ StreamOff(i, p)
         \/ (\E fps \in Fps : QbufSample(i, fps)) \/ QbufWindow(i)
         \/ RequirementsExpire(i) \/ StopExpires(i)
  PROVE  AllTold'
  <1> DEFINE q == inst[i]
  <1>1. DOMAIN q = Fields /\ Told(q)
    BY DEF IInv, Good, Typed, AllTold
  <1>2. SUFFICES \E x : Set(i, x) /\ Told(x)
    BY SetTells
  <1>3. ASSUME NEW p \in Planes, Free(i, p)
        PROVE  \E x : Set(i, x) /\ Told(x)
    <2> DEFINE x == Unallocated(q, p)
    <2>1. Set(i, x) /\ q.pc = "idle" /\ p \notin q.on
      BY <1>3 DEF Free, Idle
    <2>2. Silent(q, x)
      BY <1>1, <2>1, AllFields DEF Silent, Unallocated, Told, Planes
    <2>3. QED
      BY <1>1, <2>1, <2>2, SilentTells
  <1>4. ASSUME NEW p \in Planes, StreamOff(i, p)
        PROVE  \E x : Set(i, x) /\ Told(x)
    <2> DEFINE x == [q EXCEPT !.pc = "stopping", !.op = p]
    <2>1. Set(i, x)
      BY <1>4 DEF StreamOff
    <2>2. Silent(q, x)
      BY <1>1, AllFields DEF Silent, Told
    <2>3. QED
      BY <1>1, <2>1, <2>2, SilentTells
  <1>5. ASSUME NEW fps \in Fps, QbufSample(i, fps)
        PROVE  \E x : Set(i, x) /\ Told(x)
    <2> DEFINE x == [q EXCEPT !.window = fps]
    <2>1. Set(i, x) /\ q.pc = "idle"
      BY <1>5 DEF QbufSample, Idle
    <2>2. Silent(q, x)
      BY <1>1, <2>1, AllFields DEF Silent, Told
    <2>3. QED
      BY <1>1, <2>1, <2>2, SilentTells
  <1>6. CASE QbufWindow(i)
    <2> DEFINE r == [q EXCEPT !.window = 0]
               t == Target(q.window)
               x == IF r.rate = MaxFps \/ t >= r.rate \/ r.down >= 2
                    THEN [r EXCEPT !.rate = t, !.down = 0]
                    ELSE [r EXCEPT !.down = @ + 1]
    <2>1. Set(i, x) /\ q.pc = "idle"
      BY <1>6 DEF QbufWindow, Only, Idle
    <2> HIDE DEF t
    <2>2. DOMAIN r = Fields /\ Silent(q, r) /\ r.pc = "idle"
      BY <1>1, <2>1, AllFields DEF Silent, Told
    <2>3. Told(r)
      BY <1>1, <2>2, SilentTells
    <2> HIDE DEF r
    <2>4. Silent(r, x)
      BY <2>2, <2>3, AllFields DEF Silent, Told
    <2>5. QED
      BY <2>1, <2>3, <2>4, SilentTells
  <1>7. CASE RequirementsExpire(i)
    <2> DEFINE r == Fail(q)
               x == NoCall(r)
    <2>1. Set(i, x)
      BY <1>7 DEF RequirementsExpire
    <2>2. DOMAIN r = Fields /\ Told(r)
      BY <1>1, FailTells, AllFields DEF Fail, ChangeState
    <2> HIDE DEF r
    <2>3. Silent(r, x)
      BY <2>2, AllFields DEF Silent, NoCall, Told
    <2>4. QED
      BY <2>1, <2>2, <2>3, SilentTells
  <1>8. CASE StopExpires(i)
    <2> DEFINE s == NoCall(q)
               r == Fail(s)
               x == [r EXCEPT !.on = @ \ {q.op}]
    <2>1. Set(i, x)
      BY <1>8 DEF StopExpires
    <2>2. DOMAIN s = Fields /\ Silent(q, s) /\ s.pc = "idle"
      BY <1>1, AllFields DEF Silent, NoCall, Told
    <2>3. Told(s)
      BY <1>1, <2>2, SilentTells
    <2> HIDE DEF s
    <2>4. DOMAIN r = Fields /\ Told(r) /\ r.state = "ERROR" /\ r.pc = "idle"
      BY <2>2, <2>3, FailTells, AllFields DEF Fail, ChangeState, ChangeStateOk
    <2> HIDE DEF r
    <2>5. Silent(r, x)
      BY <2>4, AllFields DEF Silent
    <2>6. QED
      BY <2>1, <2>4, <2>5, SilentTells
  <1>9. QED
    BY <1>3, <1>4, <1>5, <1>6, <1>7, <1>8

(* REQBUFS gives CAPTURE buffers only while it does not stream.            *)
LEMMA SetupTells ==
  ASSUME IInv, IInv', AllTold, NEW i \in Instances, NEW r, NEW p \in Planes,
         DOMAIN r = Fields, Told(r), p = "CAPTURE" => p \notin r.on, r.pc = "idle",
         QueueSetupRest(i, r, p)
  PROVE  AllTold'
  <1>1. SUFFICES \E x : Set(i, x) /\ Told(x)
    BY SetTells
  <1>2. CASE p = "OUTPUT"
    <2> DEFINE h == r.hole \/ r.codec = "VP9"
               x == [r EXCEPT !.hole = h, !.out = TRUE]
    <2>1. Set(i, x)
      BY <1>2 DEF QueueSetupRest, Only
    <2> HIDE DEF h
    <2>2. Silent(r, x)
      BY AllFields DEF Silent, Told
    <2>3. QED
      BY <2>1, <2>2, SilentTells
  <1>3. CASE Set(i, [r EXCEPT !.rejected = TRUE])
    <2> DEFINE x == [r EXCEPT !.rejected = TRUE]
    <2>1. Silent(r, x)
      BY AllFields DEF Silent, Told
    <2>2. QED
      BY <1>3, <2>1, SilentTells
  <1>4. ASSUME NEW n \in Counts, p # "OUTPUT",
               Set(i, [(IF r.resv.fps = 0 THEN Reserve(r) ELSE r) EXCEPT !.hole = FALSE,
                         !.cap = [n |-> Max({n, r.capMin}), size |-> r.outSize]])
        PROVE  \E x : Set(i, x) /\ Told(x)
    <2> DEFINE c == [n |-> Max({n, r.capMin}), size |-> r.outSize]
               y == IF r.resv.fps = 0 THEN Reserve(r) ELSE r
               x == [y EXCEPT !.hole = FALSE, !.cap = c]
    <2>1. Set(i, x)
      BY <1>4
    <2>2. "CAPTURE" \notin r.on
      BY <1>4 DEF Planes
    <2> HIDE DEF c
    <2>3. DOMAIN y = Fields /\ Silent(r, y) /\ y.on = r.on /\ y.pc = "idle"
      BY AllFields DEF Silent, Reserve, Told
    <2> HIDE DEF y
    <2>4. Told(y)
      BY <2>3, SilentTells
    <2>5. Silent(y, x)
      BY <2>2, <2>3, <2>4, AllFields DEF Silent, Told
    <2>6. QED
      BY <2>1, <2>4, <2>5, SilentTells
  <1>5. QED
    BY <1>2, <1>3, <1>4 DEF QueueSetupRest, Only

(* The wait for a session tells nothing.                                   *)
LEMMA SlotTells ==
  ASSUME IInv, IInv', AllTold, NEW i \in Instances, NEW r, NEW op,
         DOMAIN r = Fields, Told(r), op \notin r.on, TakeSlot(i, r, op)
  PROVE  AllTold'
  <1> DEFINE x == [r EXCEPT !.slot = TRUE, !.pc = "opening", !.op = op]
  <1>1. Set(i, x)
    BY DEF TakeSlot, Only
  <1>2. Silent(r, x)
    BY AllFields DEF Silent, Told
  <1>3. QED
    BY <1>1, <1>2, SilentTells, SetTells

(* STREAMON up to the wait: OUTPUT tells everything, CAPTURE the format    *)
(* when it has changed, and keeps the counts it will tell.                 *)
LEMMA StartTells ==
  ASSUME IInv, IInv', AllTold, NEW i \in Instances, NEW r, NEW p \in Planes,
         DOMAIN r = Fields, Told(r), p \notin r.on, Only(i, StartStreaming(i, r, p))
  PROVE  AllTold'
  <1> DEFINE x == StartStreaming(i, r, p)
  <1>1. SUFFICES Told(x)
    BY SetTells DEF Only
  <1>2. CASE p = "OUTPUT"
    <2> DEFINE c == DecideCore(i)
               y == [r EXCEPT !.rate = MaxFps, !.down = 0, !.core = c,
                              !.pc = "requirements", !.op = p]
               t == TellAll(y).told
    <2>1. x = TellAll(y)
      BY <1>2 DEF StartStreaming
    <2> HIDE DEF c
    <2>2. /\ DOMAIN y = Fields /\ y.fwMin = r.fwMin /\ y.changed = r.changed /\ y.on = r.on
          /\ y.pc = "requirements" /\ y.op = p /\ y.state = r.state /\ y.sub = r.sub
          /\ y.raced = r.raced
      BY AllFields
    <2>7. y.told = r.told /\ DOMAIN y.told = ToldFields
      BY AllFields DEF Told
    <2> HIDE DEF y
    <2>3. x.told.raw = y.raw /\ x.told.mult = Multiple(y.raw) /\ x.told.by = "OUTPUT"
      <3> DEFINE k == [y.told EXCEPT !.raw = y.raw, !.mult = Multiple(y.raw)]
                 l == DpbCount(y.fwMin)
                 e == DpbSize(y.dst, y.raw)
      <3>1. k.raw = y.raw /\ k.mult = Multiple(y.raw) /\ DOMAIN k = ToldFields
        BY <2>7 DEF ToldFields
      <3>2. TellFormat(y) = [y EXCEPT !.told = k]
        BY <2>2, <2>7, AllFields DEF TellFormat, ToldFields
      <3>3. TellAll(y).told
              = [k EXCEPT !.by = "OUTPUT", !.count = l, !.size = y.outSize,
                          !.dpbCount = MaxFrames, !.dpbSize = e]
        <4>1. DOMAIN TellFormat(y) = Fields /\ TellFormat(y).told = k
          BY <2>2, <3>2, AllFields
        <4> HIDE DEF k, l, e
        <4>2. QED
          BY <4>1, AllFields DEF TellAll, l, e
      <3> HIDE DEF k, l, e
      <3>4. QED
        BY <2>1, <3>1, <3>3 DEF ToldFields
    <2>4. PICK u : x = [y EXCEPT !.told = u]
      BY <2>1 DEF TellAll, TellFormat
    <2>8. DOMAIN x.told = ToldFields
      BY <2>1, <2>2, <2>7, AllFields DEF TellAll, TellFormat
    <2> HIDE DEF x
    <2>5. /\ x.fwMin = r.fwMin /\ x.changed = r.changed /\ x.on = r.on /\ x.raw = y.raw
          /\ x.pc = "requirements" /\ x.op = p /\ x.state = r.state /\ x.sub = r.sub
          /\ x.raced = r.raced
      BY <2>2, <2>4, AllFields
    <2>6. QED
      BY <1>2, <2>3, <2>5, <2>8 DEF Told, Agrees, Flags
  <1>3. CASE p # "OUTPUT"
    <2> DEFINE s == [dpb |-> DpbCount(r.fwMin), count |-> r.cap.n]
               y == IF r.changed THEN TellFormat(r) ELSE r
    <2>1. x = [y EXCEPT !.changed = FALSE, !.raced = FALSE, !.pc = "requirements",
                        !.op = p, !.saved = s]
      BY <1>3 DEF StartStreaming
    <2>2. p = "CAPTURE"
      BY <1>3 DEF Planes
    <2>3. s.dpb = DpbCount(r.fwMin) /\ s.count = r.cap.n
      OBVIOUS
    <2> HIDE DEF s, x
    <2>4. /\ DOMAIN y = Fields /\ y.fwMin = r.fwMin /\ y.on = r.on /\ y.raw = r.raw
          /\ y.state = r.state /\ y.cap = r.cap /\ ("OUTPUT" \in r.on => Agrees(y))
          /\ DOMAIN y.told = ToldFields
      <3>1. CASE r.changed
        <4>1. y.told.raw = r.raw /\ y.told.mult = Multiple(r.raw)
          BY <3>1, AllFields DEF TellFormat, Told, ToldFields
        <4>2. PICK u : y = [r EXCEPT !.told = u]
          BY <3>1 DEF TellFormat
        <4>3. DOMAIN y.told = ToldFields
          BY <3>1, AllFields DEF TellFormat, Told
        <4> HIDE DEF y
        <4>4. QED
          BY <4>1, <4>2, <4>3, AllFields DEF Agrees
      <3>2. CASE ~r.changed
        BY <3>2 DEF Told
      <3>3. QED
        BY <3>1, <3>2
    <2> HIDE DEF y
    <2>5. /\ x.fwMin = r.fwMin /\ x.changed = FALSE /\ x.on = r.on /\ x.raw = y.raw
          /\ x.pc = "requirements" /\ x.op = p /\ x.state = r.state /\ x.cap = r.cap
          /\ x.told = y.told /\ x.saved = s
      BY <2>1, <2>4, AllFields
    <2>6. QED
      BY <2>2, <2>3, <2>4, <2>5 DEF Told, Agrees
  <1>4. QED
    BY <1>2, <1>3

(* REQBUFS, STREAMON, and the answer to the open they wait for.            *)
LEMMA CallTells ==
  ASSUME ~Careless, IInv, IInv', AllTold, NEW i \in Instances,
         \/ \E p \in Planes : QueueSetup(i, p) \/ StreamOn(i, p)
         \/ OpenAnswered(i)
  PROVE  AllTold'
  <1> DEFINE q == inst[i]
  <1>1. DOMAIN q = Fields /\ Told(q) /\ Staged(q) /\ Held(q) /\ q.on \subseteq Planes
        /\ q.op \in Calls
    BY DEF IInv, Good, Typed, AllTold
  <1>2. ASSUME NEW p \in Planes, QueueSetup(i, p)
        PROVE  AllTold'
    <2> DEFINE r == Unallocated(q, p)
    <2>1. p \notin r.on /\ q.pc = "idle" /\ p \notin q.on
      BY <1>1, <1>2, AllFields DEF QueueSetup, Unallocated, Idle
    <2>2. DOMAIN r = Fields /\ Silent(q, r) /\ r.pc = "idle" /\ r.on = q.on
      BY <1>1, <2>1, AllFields DEF Unallocated, Silent, Told, Planes
    <2>3. Told(r)
      BY <1>1, <2>2, SilentTells
    <2>4. \/ QueueSetupRest(i, r, p)
          \/ TakeSlot(i, r, Setup(p))
      BY <1>2 DEF QueueSetup
    <2>5. Setup(p) \notin r.on
      BY <1>1, <2>2 DEF Setup, Planes
    <2> HIDE DEF r
    <2>6. QED
      BY <2>1, <2>2, <2>3, <2>4, <2>5, SetupTells, SlotTells
  <1>3. ASSUME NEW p \in Planes, StreamOn(i, p)
        PROVE  AllTold'
    <2>1. p \notin q.on
      BY <1>3 DEF StreamOn
    <2>2. \/ Only(i, StartStreaming(i, q, p))
          \/ TakeSlot(i, q, p)
          \/ Only(i, Fail(q))
      BY <1>3 DEF StreamOn
    <2>3. CASE Only(i, Fail(q))
      BY <1>1, <2>3, FailTells, SetTells DEF Only
    <2>4. QED
      BY <1>1, <2>1, <2>2, <2>3, StartTells, SlotTells
  <1>4. CASE OpenAnswered(i)
    <2> DEFINE c == ChangeState(q, "INIT")
               r == NoCall(c)
    <2>1. q.pc = "opening" /\ q.state = "DEINIT"
      BY <1>1, <1>4 DEF OpenAnswered, Staged
    <2>2. c = [q EXCEPT !.state = "INIT"]
      BY <2>1 DEF ChangeState, ChangeStateOk, AllowState
    <2>3. "CAPTURE" \notin q.on
      BY <1>1, <2>1 DEF Staged
    <2>4. \/ \E p \in Planes : QueueSetupRest(i, r, p) /\ q.op = Setup(p)
          \/ \E p \in Planes : Only(i, StartStreaming(i, r, p)) /\ q.op = p
      BY <1>4 DEF OpenAnswered, Planes, Setup
    <2> HIDE DEF c
    <2>5. DOMAIN r = Fields /\ Silent(q, r) /\ r.pc = "idle" /\ r.on = q.on
      BY <1>1, <2>1, <2>2, <2>3, AllFields DEF NoCall, Silent, Told
    <2>6. Told(r)
      BY <1>1, <2>5, SilentTells
    <2>7. q.op \notin q.on
      BY <1>1, <2>1 DEF Told
    <2> HIDE DEF r
    <2>8. QED
      BY <2>3, <2>4, <2>5, <2>6, <2>7, SetupTells, StartTells DEF Planes, Setup
  <1>5. QED
    BY <1>2, <1>3, <1>4

(* The end of STREAMON: CAPTURE is told what was kept over the wait, of    *)
(* buffers that still are as many and as large unless the stream changed.  *)
LEMMA AnsweredTells ==
  ASSUME IInv, IInv', AllTold, NEW i \in Instances, RequirementsAnswered(i)
  PROVE  AllTold'
  <1> DEFINE q == inst[i]
             p == q.op
             s == PropertyInfo(q)
             r == NoCall(s)
  <1>1. Typed(q) /\ DOMAIN q = Fields /\ Told(q) /\ q.pc = "requirements" /\ q.state # "ERROR"
        /\ p \in Planes
    BY DEF IInv, Good, Held, Typed, AllTold, RequirementsAnswered
  <1>2. Only(i, [(IF p = "OUTPUT"
                  THEN StreamonInput([r EXCEPT !.sub = @ \ {"INPUT_PAUSE"}])
                  ELSE StreamonOutput([TellCapture(r) EXCEPT !.dpb = InternalSizes(r)]))
                 EXCEPT !.on = @ \cup {p}])
    BY DEF RequirementsAnswered
  <1>3. Typed(s) /\ s.told = q.told /\ s.saved = q.saved
    BY <1>1, AllFields DEF Typed, PropertyInfo
  <1>4. /\ s.fwMin = q.fwMin /\ s.changed = q.changed /\ s.raw = q.raw /\ s.on = q.on
        /\ s.cap = q.cap /\ s.outSize = q.outSize /\ s.dpb = q.dpb /\ s.sub = q.sub
        /\ s.raced = q.raced /\ s.state = q.state
    BY <1>1, AllFields DEF PropertyInfo
  <1> HIDE DEF s
  <1>5. Typed(r) /\ r.pc = "idle"
    <2> DEFINE y == [s EXCEPT !.pc = "idle"]
    <2>1. Typed(y) /\ y.pc = "idle"
      BY <1>3, AllFields DEF Typed, Pcs
    <2>2. r = [y EXCEPT !.op = "none"]
      BY <1>3, AllFields DEF Typed, NoCall
    <2> HIDE DEF y, r
    <2>3. QED
      BY <2>1, <2>2, AllFields DEF Typed, Calls
  <1>6. /\ r.fwMin = q.fwMin /\ r.changed = q.changed /\ r.raw = q.raw /\ r.on = q.on
        /\ r.cap = q.cap /\ r.outSize = q.outSize /\ r.dpb = q.dpb /\ r.sub = q.sub
        /\ r.raced = q.raced /\ r.state = q.state /\ r.told = q.told /\ r.saved = q.saved
    BY <1>3, <1>4, AllFields DEF Typed, NoCall
  <1> HIDE DEF r
  <1>7. CASE p = "OUTPUT"
    <2> DEFINE a == [r EXCEPT !.sub = @ \ {"INPUT_PAUSE"}]
               b == [a EXCEPT !.window = 0]
               paused == IF a.sub \cap {"DRC", "FIRST_IPSC"} # {} /\ "INPUT_PAUSE" \notin a.sub
                         THEN {"INPUT_PAUSE"} ELSE {}
               t == StreamonTarget(b.state, "OUTPUT")
               c == ChangeState(b, t)
               e == ChangeSub(c, {}, paused)
               x == [e EXCEPT !.on = @ \cup {"OUTPUT"}]
               Kept(y) == /\ y.fwMin = q.fwMin /\ y.changed = q.changed /\ y.raw = q.raw
                          /\ y.cap = q.cap /\ y.outSize = q.outSize /\ y.dpb = q.dpb
                          /\ y.raced = q.raced /\ y.told = q.told /\ y.pc = "idle"
                          /\ Flags(y) = Flags(q)
    <2>1. Set(i, x)
      BY <1>2, <1>7 DEF Only, StreamonInput, StateChangeStreamon
    <2>2. Typed(b) /\ Kept(b) /\ b.on = q.on
      <3>1. Typed(a) /\ Kept(a) /\ a.on = q.on
        BY <1>5, <1>6, AllFields DEF Typed, Flags
      <3> HIDE DEF a
      <3>2. 0 \in Nat
        OBVIOUS
      <3>3. QED
        BY <3>1, <3>2, AllFields DEF Typed, Flags
    <2>3. t \in States
      BY DEF StreamonTarget, States
    <2>4. paused \in SUBSET SubStates /\ paused \cap {"DRC", "FIRST_IPSC"} = {}
      BY DEF SubStates
    <2> HIDE DEF b, t, paused
    <2>5. Typed(c) /\ Kept(c) /\ c.on = q.on
      <3>1. c = b \/ c = [b EXCEPT !.state = t]
        BY <2>2, <2>3, ChangeStateFields
      <3> HIDE DEF c
      <3>2. Typed(c)
        BY <2>2, <2>3, <3>1, AllFields DEF Typed
      <3>3. Kept(c) /\ c.on = q.on
        BY <2>2, <3>1, AllFields DEF Typed, Flags
      <3>4. QED
        BY <3>2, <3>3
    <2> HIDE DEF c
    <2>6. DOMAIN e = Fields /\ Kept(e) /\ e.on = q.on
      <3>1. e = c \/ e = [c EXCEPT !.sub = (c.sub \cup paused) \ {}]
        BY <2>4, <2>5, ChangeSubFields
      <3> HIDE DEF e
      <3>2. QED
        BY <2>4, <2>5, <3>1, AllFields DEF Typed, Flags
    <2> HIDE DEF e
    <2>7. Kept(x) /\ x.on = q.on \cup {"OUTPUT"}
      BY <2>6, AllFields DEF Flags
    <2> HIDE DEF x
    <2>8. Agrees(q)
      BY <1>1, <1>7 DEF Told
    <2>9. Told(x)
      BY <1>1, <2>7, <2>8 DEF Told, Agrees, Matches
    <2>10. QED
      BY <2>1, <2>9, SetTells
  <1>8. CASE p = "CAPTURE"
    <2> DEFINE u == TellCapture(r)
               z == InternalSizes(r)
               a == [u EXCEPT !.dpb = z]
               ended == (IF DrcPending(a) THEN {"DRC", "DRC_LAST"} ELSE {})
                        \cup (IF a.state = "INPUT_STREAMING" THEN {"INPUT_PAUSE"} ELSE {})
                        \cup {"FIRST_IPSC", "OUTPUT_PAUSE"}
               t == StreamonTarget(a.state, "CAPTURE")
               c == ChangeState(a, t)
               e == ChangeSub(c, ended, {})
               x == [e EXCEPT !.on = @ \cup {"CAPTURE"}]
               Kept(y) == /\ y.fwMin = q.fwMin /\ y.changed = q.changed /\ y.raw = q.raw
                          /\ y.cap = q.cap /\ y.outSize = q.outSize /\ y.dpb = z
                          /\ y.raced = q.raced /\ y.told = u.told /\ y.pc = "idle"
    <2>1. Set(i, x)
      BY <1>2, <1>8 DEF Only, StreamonOutput, StateChangeStreamon
    <2>2. /\ u.told.raw = q.told.raw /\ u.told.mult = q.told.mult
          /\ u.told.count = q.saved.count /\ u.told.size = q.outSize
          /\ u.told.dpbCount = q.saved.dpb /\ u.told.dpbSize = z.size
          /\ DOMAIN u.told = ToldFields
      <3> DEFINE k == IF r.fwDpb > 0 THEN r.fwDpb ELSE DpbSize(r.dst, r.raw)
      <3>1. z.size = k
        BY DEF InternalSizes
      <3>2. u.told = [r.told EXCEPT !.by = "CAPTURE", !.count = r.saved.count,
                                    !.size = r.outSize, !.dpbCount = r.saved.dpb,
                                    !.dpbSize = k]
        <4> HIDE DEF k
        <4>1. QED
          BY <1>1, <1>5, <1>6, AllFields DEF TellCapture, Typed, k
      <3> HIDE DEF k, z, u
      <3>3. DOMAIN r.told = ToldFields
        BY <1>1, <1>6 DEF Told
      <3>4. QED
        BY <1>6, <3>1, <3>2, <3>3 DEF ToldFields
    <2>3. z.n = DpbCount(q.fwMin) /\ z = [n |-> z.n, size |-> z.size] /\ z.n \in 0 .. MaxFrames
      <3>1. r.fwMin \in 0 .. MaxFrames
        BY <1>5 DEF Typed
      <3>2. z.n = DpbCount(q.fwMin) /\ z = [n |-> z.n, size |-> z.size]
        BY <1>6 DEF InternalSizes
      <3>3. QED
        BY <1>6, <3>1, <3>2 DEF DpbCount, MaxFrames
    <2>4. PICK v : u = [r EXCEPT !.told = v]
      BY DEF TellCapture
    <2> HIDE DEF u, z
    <2>5. Typed(u)
      BY <1>5, <2>4, AllFields DEF Typed
    <2>6. /\ u.fwMin = q.fwMin /\ u.changed = q.changed /\ u.raw = q.raw /\ u.on = q.on
          /\ u.cap = q.cap /\ u.outSize = q.outSize /\ u.raced = q.raced /\ u.pc = "idle"
          /\ u.state = q.state
      BY <1>5, <1>6, <2>4, AllFields DEF Typed
    <2>7. Typed(a) /\ Kept(a) /\ a.on = q.on /\ a.state = q.state
      BY <2>3, <2>5, <2>6, AllFields DEF Typed
    <2>8. t \in States
      BY DEF StreamonTarget, States
    <2> HIDE DEF a, ended
    <2>9. Typed(c) /\ Kept(c) /\ c.on = q.on /\ c.state = t
      <3>1. c = [a EXCEPT !.state = t]
        BY <1>1, <2>7, <2>8, ChangeStateFields DEF StreamonTarget, AllowState
      <3> HIDE DEF c, t
      <3>2. Typed(c)
        BY <2>7, <2>8, <3>1, AllFields DEF Typed
      <3>3. Kept(c) /\ c.on = q.on /\ c.state = t
        BY <2>7, <3>1, AllFields DEF Typed
      <3>4. QED
        BY <3>2, <3>3
    <2> HIDE DEF c
    <2>10. DOMAIN e = Fields /\ Kept(e) /\ e.on = q.on /\ e.state = t
      <3>1. e = c \/ e = [c EXCEPT !.sub = (c.sub \cup {}) \ ended]
        BY <2>9, ChangeSubFields
      <3> HIDE DEF e, t
      <3>2. QED
        BY <2>9, <3>1, AllFields DEF Typed
    <2> HIDE DEF e
    <2>11. Kept(x) /\ x.on = q.on \cup {"CAPTURE"} /\ x.state = t
      <3> HIDE DEF t
      <3>1. QED
        BY <2>10, AllFields
    <2> HIDE DEF x
    <2>12. t \in {"INPUT_STREAMING", "STREAMING"} => "OUTPUT" \in q.on
      BY <1>1, <2>7 DEF StreamonTarget, Told
    <2> HIDE DEF t
    <2>13. ~x.raced => ~x.changed /\ Matches(x)
      BY <1>1, <1>8, <2>2, <2>3, <2>11 DEF Told, Matches
    <2>14. "OUTPUT" \in q.on /\ ~q.changed => Agrees(x)
      BY <1>1, <2>2, <2>11 DEF Told, Agrees
    <2>15. Told(x)
      BY <1>1, <2>2, <2>11, <2>12, <2>13, <2>14 DEF Told
    <2>16. QED
      BY <2>1, <2>15, SetTells
  <1>9. QED
    BY <1>1, <1>7, <1>8 DEF Planes

(* The end of STREAMOFF tells nothing.                                     *)
LEMMA StoppedTells ==
  ASSUME ~Careless, IInv, IInv', AllTold, NEW i \in Instances, Stopped(i)
  PROVE  AllTold'
  <1> DEFINE q == inst[i]
             p == q.op
             n == NoCall(q)
             r == [n EXCEPT !.on = @ \ {p}]
             t == StreamoffTarget(r.state, p)
             c == ChangeState(r, t)
             s == StreamoffTail(c)
             x == IF p = "CAPTURE" THEN Released(s) ELSE s
  <1>1. Typed(q) /\ DOMAIN q = Fields /\ Told(q) /\ Staged(q) /\ q.pc = "stopping" /\ p \in Planes
    BY DEF IInv, Good, Held, Typed, AllTold, Stopped
  <1>2. Set(i, x)
    BY DEF Stopped, Only, StateChangeStreamoff
  <1>3. DOMAIN n = Fields /\ Silent(q, n) /\ n.on = q.on /\ n.state = q.state /\ n.pc = "idle"
    BY <1>1, AllFields DEF NoCall, Silent, Told
  <1> HIDE DEF n
  <1>4. DOMAIN r = Fields /\ r.on = q.on \ {p} /\ r.state = q.state /\ r.pc = "idle"
        /\ r.fwMin = q.fwMin /\ r.changed = q.changed /\ r.told = q.told
        /\ ("OUTPUT" \in r.on => r.raw = q.raw)
        /\ ("CAPTURE" \in r.on => /\ r.cap = q.cap /\ r.outSize = q.outSize
                                  /\ r.dpb = q.dpb /\ r.sub = q.sub /\ r.raced = q.raced)
    BY <1>3, AllFields DEF Silent
  <1> HIDE DEF r
  <1>5. DOMAIN c = Fields /\ Silent(q, c) /\ c.on = r.on /\ c.pc = "idle"
        /\ (c.state = "INIT" => "CAPTURE" \notin c.on)
    <2>1. CASE q.state = "ERROR"
      <3>1. c = r
        BY <1>4, <2>1 DEF ChangeState
      <3>2. QED
        BY <1>4, <2>1, <3>1 DEF Silent
    <2>2. CASE q.state # "ERROR"
      <3>1. c = [r EXCEPT !.state = t]
        BY <1>1, <1>4, <2>2 DEF ChangeState, ChangeStateOk, StreamoffTarget, AllowState
      <3>2. t = "INIT" => "CAPTURE" \notin r.on
        BY <1>1, <1>4, <2>2 DEF Staged, StreamoffTarget, Planes
      <3>3. t \in {"INPUT_STREAMING", "STREAMING"} => "OUTPUT" \in r.on
        BY <1>1, <1>4, <2>2 DEF Told, StreamoffTarget, Planes
      <3> HIDE DEF t, c
      <3>4. QED
        BY <1>4, <2>2, <3>1, <3>2, <3>3, AllFields DEF Silent
    <2>3. QED
      BY <2>1, <2>2
  <1>6. Told(c)
    BY <1>1, <1>5, SilentTells
  <1> HIDE DEF c
  <1>7. DOMAIN s = Fields /\ Told(s) /\ s.pc = "idle"
    <2>1. CASE c.state = "INIT"
      <3> DEFINE g == SessionGone(c)
                 d == ChangeState(g, "DEINIT")
                 z == NoPool
                 e == [d EXCEPT !.sub = {}, !.dpb = z]
      <3>1. s = e
        BY <2>1 DEF StreamoffTail
      <3>2. DOMAIN g = Fields /\ Silent(c, g) /\ g.state = "INIT" /\ g.pc = "idle" /\ g.on = c.on
        BY <1>5, <1>6, <2>1, AllFields DEF Silent, SessionGone, Released, Told
      <3>3. Told(g)
        BY <1>6, <3>2, SilentTells
      <3> HIDE DEF g
      <3>4. d = [g EXCEPT !.state = "DEINIT"]
        BY <3>2 DEF ChangeState, ChangeStateOk, AllowState
      <3>5. DOMAIN d = Fields /\ Silent(g, d) /\ d.state = "DEINIT" /\ d.pc = "idle" /\ d.on = c.on
        BY <3>2, <3>3, <3>4, AllFields DEF Silent, Told
      <3>6. Told(d)
        BY <3>3, <3>5, SilentTells
      <3> HIDE DEF d, z
      <3>7. DOMAIN e = Fields /\ Silent(d, e) /\ e.pc = "idle"
        BY <1>5, <2>1, <3>5, <3>6, AllFields DEF Silent, Told
      <3>8. Told(e)
        BY <3>6, <3>7, SilentTells
      <3> HIDE DEF e
      <3>9. QED
        BY <3>1, <3>7, <3>8
    <2>2. CASE c.state # "INIT"
      BY <1>5, <1>6, <2>2 DEF StreamoffTail
    <2>3. QED
      BY <2>1, <2>2
  <1> HIDE DEF s
  <1>8. Told(Released(s))
    <2>1. Silent(s, Released(s))
      BY <1>7, AllFields DEF Silent, Released, Told
    <2>2. QED
      BY <1>7, <2>1, SilentTells
  <1>9. QED
    BY <1>2, <1>7, <1>8, SetTells

(* A picture with ten bits needs more than one with eight, by more than    *)
(* the padding of either.                                                  *)
LEMMA DeepIsLarger ==
  ASSUME NEW d \in FrameType, d.w # 0, d.h # 0
  PROVE  OutputSize(Aligned(d), "P010") > OutputSize(Aligned(d), "NV12")
  <1> DEFINE a == Aligned(d)
             lines == Align(a.h, 32) + Align((a.h + 1) \div 2, 16)
             s == a.w * lines
  <1>1. d.w \in Nat \ {0} /\ d.h \in Nat \ {0}
    BY DEF FrameType
  <1>2. a.w \in Nat /\ a.w >= 128 /\ Align(a.w, 128) = a.w /\ Align(2 * a.w, 128) = 2 * a.w
    <2>1. a.w = Align(d.w, 128)
      BY DEF Aligned, Frame
    <2> HIDE DEF a
    <2>2. QED
      BY <1>1, <2>1 DEF Align, DivUp
  <1>3. a.h \in Nat /\ a.h >= 32
    <2>1. a.h = Align(d.h, 32)
      BY DEF Aligned, Frame
    <2> HIDE DEF a
    <2>2. QED
      BY <1>1, <2>1 DEF Align, DivUp
  <1>4. OutputSize(a, "NV12") = Align(Align(a.w, 128) * lines, 4096)
        /\ OutputSize(a, "P010") = Align(Align(2 * a.w, 128) * lines, 4096)
    BY DEF OutputSize, Nv12Size, P010Size, LinearSize
  <1> HIDE DEF a
  <1>5. lines \in Nat /\ lines >= 48
    BY <1>3 DEF Align, DivUp
  <1> HIDE DEF lines
  <1>6. s \in Nat /\ s >= 6144 /\ 2 * a.w * lines = 2 * s
    <2>1. PICK e \in Nat : a.w = 128 + e
      <3>1. a.w - 128 \in Nat /\ a.w = 128 + (a.w - 128)
        BY <1>2
      <3>2. QED
        BY <3>1
    <2>2. s = 128 * lines + e * lines /\ e * lines \in Nat
      BY <1>5, <2>1
    <2>3. 2 * a.w * lines = 2 * (a.w * lines)
      BY <1>2, <1>5
    <2>4. s \in Nat /\ s >= 6144
      BY <1>5, <2>2
    <2>5. QED
      BY <2>3, <2>4
  <1>7. OutputSize(a, "NV12") = Align(s, 4096) /\ OutputSize(a, "P010") = Align(2 * s, 4096)
    BY <1>2, <1>4, <1>6
  <1> HIDE DEF s
  <1>8. Align(s, 4096) < s + 4096 /\ Align(2 * s, 4096) >= 2 * s
        /\ Align(s, 4096) \in Nat /\ Align(2 * s, 4096) \in Nat
    BY <1>6 DEF Align, DivUp
  <1>9. Align(2 * s, 4096) > Align(s, 4096)
    BY <1>6, <1>8
  <1>10. QED
    BY <1>7, <1>9 DEF a

(* What a change of the stream makes of the flags: it is marked unless     *)
(* everything still fits.                                                  *)
LEMMA MarkedFields ==
  ASSUME NEW q, NEW x, Typed(x), "DRC" \notin x.sub,
         x.state \in {"INPUT_STREAMING", "STREAMING"},
         NEW y, y = IF StillFits(q, x)
                    THEN ChangeSub(x, {"DRC", "FIRST_IPSC", "INPUT_PAUSE"}, {})
                    ELSE SubChangeDrcLast(SubChangeDrc(ReleaseHole(x)))
  PROVE  /\ DOMAIN y = Fields /\ y.fwMin = x.fwMin /\ y.changed = x.changed
         /\ y.told = x.told /\ y.raw = x.raw /\ y.on = x.on /\ y.cap = x.cap
         /\ y.outSize = x.outSize /\ y.dpb = x.dpb /\ y.raced = x.raced
         /\ y.pc = x.pc /\ y.op = x.op /\ y.state = x.state
         /\ StillFits(q, x) \/ Flags(y) # {}
  <1> DEFINE Kept(r) == /\ r.fwMin = x.fwMin /\ r.changed = x.changed /\ r.told = x.told
                        /\ r.raw = x.raw /\ r.on = x.on /\ r.cap = x.cap
                        /\ r.outSize = x.outSize /\ r.dpb = x.dpb /\ r.raced = x.raced
                        /\ r.pc = x.pc /\ r.op = x.op /\ r.state = x.state
  <1>1. CASE StillFits(q, x)
    <2>1. y = x \/ y = [x EXCEPT !.sub = (x.sub \cup {}) \ {"DRC", "FIRST_IPSC", "INPUT_PAUSE"}]
      BY <1>1, ChangeSubFields
    <2>2. DOMAIN y = Fields /\ Kept(y)
      BY <2>1, AllFields DEF Typed
    <2>3. QED
      BY <1>1, <2>2
  <1>2. CASE ~StillFits(q, x)
    <2> DEFINE h == ReleaseHole(x)
               g == SubChangeDrc(h)
               l == SubChangeDrcLast(g)
    <2>1. Typed(h) /\ Kept(h) /\ h.sub = x.sub
      <3>1. Typed(h)
        BY AllFields, ZenonT(40) DEF Typed, ReleaseHole
      <3>2. Kept(h) /\ h.sub = x.sub
        BY AllFields DEF Typed, ReleaseHole
      <3>3. QED
        BY <3>1, <3>2
    <2>2. y = l
      BY <1>2
    <2> HIDE DEF h
    <2>3. Drc(h) \in SUBSET SubStates
      BY DEF Drc, SubStates
    <2>4. AllowSub(h, Drc(h)) /\ h.state # "ERROR" /\ "DRC" \notin h.sub
      BY <2>1 DEF AllowSub, AllowedSub, Drc
    <2>5. SubChangeDrcOk(h)
      BY <2>4 DEF SubChangeDrcOk, ChangeSubOk
    <2>6. g = [h EXCEPT !.sub = (h.sub \cup Drc(h)) \ {}]
      BY <2>4, <2>5 DEF SubChangeDrc, ChangeSub, ChangeSubOk
    <2>7. Typed(g)
      BY <2>1, <2>3, ChangeSubFields DEF SubChangeDrc
    <2> HIDE DEF g
    <2>8. Kept(g) /\ Flags(g) # {}
      <3>1. g.sub = h.sub \cup Drc(h)
        BY <2>1, <2>6, AllFields DEF Typed
      <3>2. Kept(g)
        BY <2>1, <2>6, AllFields DEF Typed
      <3>3. QED
        BY <3>1, <3>2 DEF Flags, Drc
    <2>9. {"DRC_LAST", "OUTPUT_PAUSE"} \in SUBSET SubStates
      BY DEF SubStates
    <2>10. l = g \/ l = [g EXCEPT !.sub = (g.sub \cup {"DRC_LAST", "OUTPUT_PAUSE"}) \ {}]
      BY <2>7, <2>9, ChangeSubFields DEF SubChangeDrcLast
    <2> HIDE DEF l
    <2>11. DOMAIN l = Fields /\ Kept(l) /\ Flags(l) # {}
      <3>1. DOMAIN l = Fields /\ Kept(l)
        BY <2>7, <2>8, <2>10, AllFields DEF Typed
      <3>2. g.sub \subseteq l.sub
        BY <2>7, <2>10, AllFields DEF Typed
      <3>3. QED
        BY <2>8, <3>1, <3>2 DEF Flags
    <2>12. QED
      BY <2>2, <2>11
  <1>3. QED
    BY <1>1, <1>2

(* A change of the stream is told by the next STREAMON, and until then is  *)
(* marked; the one that still fits changes nothing that was told.          *)
LEMMA SeqChangedTells ==
  ASSUME ~Careless, LoadAssumption, IInv, IInv', AllTold, NEW i \in Instances,
         NEW d \in Frames, NEW deep \in BOOLEAN, NEW n \in Minimums, SeqChanged(i, d, deep, n)
  PROVE  AllTold'
  <1> DEFINE q == inst[i]
             raw == IF deep THEN "P010" ELSE q.raw
             m == OutputMin(q.codec, n)
             k == Captures(q, d, raw)
             x == [k EXCEPT !.src = d, !.changed = @ \/ raw # q.raw,
                            !.fwMin = n, !.outMin = m, !.capMin = m]
             y == IF StillFits(q, x)
                  THEN ChangeSub(x, {"DRC", "FIRST_IPSC", "INPUT_PAUSE"}, {})
                  ELSE SubChangeDrcLast(SubChangeDrc(ReleaseHole(x)))
             z == [y EXCEPT !.raced = @ \/ q.pc = "requirements"]
  <1>1. /\ Good(q) /\ Told(q) /\ q.state \in {"INPUT_STREAMING", "STREAMING"}
        /\ "DRC" \notin q.sub /\ "OUTPUT" \in q.on /\ q.pc \in {"idle", "requirements", "stopping"}
    BY DEF IInv, AllTold, SeqChanged, FirmwareParses
  <1>2. Set(i, z)
    BY DEF SeqChanged, ReadChangedParams
  <1>3. d \in FrameType /\ d.w # 0 /\ d.h # 0
    BY DEF LoadAssumption, FrameType
  <1>4. raw \in RawFormats /\ n \in 1 .. MaxFrames /\ m \in 1 .. MaxFrames
        /\ (raw = q.raw \/ (raw = "P010" /\ q.raw = "NV12"))
    <2>1. n \in 0 .. MaxFrames
      BY DEF LoadAssumption, MaxFrames
    <2>2. m \in 1 .. MaxFrames
      BY <2>1, OutputMinBound
    <2>3. n \in 1 .. MaxFrames
      BY DEF LoadAssumption, MaxFrames
    <2>4. q.raw \in RawFormats
      BY <1>1 DEF Good, Typed
    <2>5. raw \in RawFormats /\ (raw = q.raw \/ (raw = "P010" /\ q.raw = "NV12"))
      BY <2>4 DEF RawFormats
    <2>6. QED
      BY <2>2, <2>3, <2>5
  <1> HIDE DEF raw, m
  <1>5. Typed(k) /\ k.outSize = OutputSize(Aligned(d), raw) /\ k.dst = Aligned(d) /\ k.raw = raw
    <2>1. Typed(k)
      BY <1>1, <1>3, <1>4, CapturesKeeps DEF Good
    <2>2. QED
      BY <1>1, <2>1, AllFields DEF Captures, Typed, Good
  <1>6. /\ k.told = q.told /\ k.on = q.on /\ k.cap = q.cap /\ k.dpb = q.dpb /\ k.raced = q.raced
        /\ k.pc = q.pc /\ k.op = q.op /\ k.state = q.state /\ k.sub = q.sub
        /\ k.changed = q.changed
    BY <1>1, AllFields DEF Good, Typed, Captures
  <1> HIDE DEF k
  <1>7. Typed(x) /\ x.fwMin = n /\ x.changed = (q.changed \/ raw # q.raw)
    <2>1. Typed(x)
      BY <1>3, <1>4, <1>5, AllFields DEF Typed, MaxFrames
    <2>2. x.fwMin = n /\ x.changed = (q.changed \/ raw # q.raw)
      BY <1>5, <1>6, AllFields DEF Typed
    <2>3. QED
      BY <2>1, <2>2
  <1>8. /\ x.outSize = OutputSize(Aligned(d), raw) /\ x.dst = Aligned(d) /\ x.raw = raw
        /\ x.told = q.told /\ x.on = q.on /\ x.cap = q.cap /\ x.dpb = q.dpb /\ x.raced = q.raced
        /\ x.pc = q.pc /\ x.op = q.op /\ x.state = q.state /\ x.sub = q.sub
    BY <1>5, <1>6, AllFields DEF Typed
  <1>9. StillFits(q, x) =>
          q.fwMin = 0 /\ q.dst = x.dst /\ q.outSize >= x.outSize
    BY DEF StillFits
  <1>10. StillFits(q, x) => raw = q.raw /\ ~q.changed /\ q.outSize = x.outSize /\ Flags(q) = {}
    <2> HAVE StillFits(q, x)
    <2>1. q.outSize = OutputSize(Aligned(d), q.raw)
      BY <1>1, <1>8, <1>9 DEF Good, Laid
    <2>2. ~q.changed /\ Flags(q) = {}
      BY <1>1, <1>9 DEF Told, Good, Fits
    <2>3. raw = q.raw
      <3>1. SUFFICES ASSUME raw # q.raw PROVE FALSE
        OBVIOUS
      <3>2. OutputSize(Aligned(d), "NV12") >= OutputSize(Aligned(d), "P010")
        BY <1>4, <1>8, <1>9, <2>1, <3>1
      <3>3. OutputSize(Aligned(d), "NV12") \in Nat /\ OutputSize(Aligned(d), "P010") \in Nat
        BY <1>3, SizeIsNat DEF RawFormats
      <3>4. QED
        BY <1>3, <3>2, <3>3, DeepIsLarger
    <2>4. QED
      BY <1>8, <2>1, <2>2, <2>3
  <1> HIDE DEF x
  <1>11. /\ DOMAIN y = Fields /\ y.fwMin = x.fwMin /\ y.changed = x.changed
         /\ y.told = x.told /\ y.raw = x.raw /\ y.on = x.on /\ y.cap = x.cap
         /\ y.outSize = x.outSize /\ y.dpb = x.dpb /\ y.raced = x.raced
         /\ y.pc = x.pc /\ y.op = x.op /\ y.state = x.state
         /\ StillFits(q, x) \/ Flags(y) # {}
    BY <1>1, <1>7, <1>8, MarkedFields
  <1> HIDE DEF y
  <1>12. /\ z.fwMin = n /\ z.changed = (q.changed \/ raw # q.raw) /\ z.told = q.told /\ z.raw = raw
         /\ z.on = q.on /\ z.cap = q.cap /\ z.outSize = x.outSize /\ z.dpb = q.dpb
         /\ z.raced = (q.raced \/ q.pc = "requirements")
         /\ z.pc = q.pc /\ z.op = q.op /\ z.state = q.state
         /\ StillFits(q, x) \/ Flags(z) # {}
    BY <1>7, <1>8, <1>11, AllFields DEF Flags
  <1> HIDE DEF z
  <1>13. n # 0
    BY <1>4
  <1>14. ASSUME "CAPTURE" \in z.on, Flags(z) = {}, ~z.raced
         PROVE  ~z.changed /\ (z.told.by = "CAPTURE" => Matches(z))
    <2>1. StillFits(q, x)
      BY <1>12, <1>14
    <2>2. q.told.by = "CAPTURE" => Matches(q)
      BY <1>1, <1>10, <1>12, <1>14, <2>1 DEF Told
    <2>3. QED
      BY <1>10, <1>12, <2>1, <2>2 DEF Matches
  <1>15. Told(z)
    BY <1>1, <1>12, <1>13, <1>14 DEF Told, Agrees
  <1>16. QED
    BY <1>2, <1>15, SetTells

(* Unless a client streams into a queue that is too small or changes the   *)
(* format under a queue it has, what the firmware has been told when       *)
(* CAPTURE runs is what the host has: the pixel format, the buffers of the *)
(* client and the DPBs, although the lock was dropped between reading and  *)
(* sending them, and whenever the stream changes.                          *)
THEOREM AsTold ==
  ASSUME ~Careless
  PROVE  Spec => []ToldAgrees
  <1>1. Init => AllTold
    <2>1. Closed.fwMin = 0 /\ ~Closed.changed /\ Closed.on = {} /\ Closed.pc = "idle"
          /\ Closed.state = "DEINIT" /\ Closed.told = Untold
      BY DEF Closed
    <2>2. Told(Closed)
      BY <2>1, ClosedTells
    <2>3. QED
      BY <2>2 DEF Init, AllTold
  <1>2. LoadAssumption /\ IInv /\ IInv' /\ AllTold /\ [Next]_vars => AllTold'
    <2> SUFFICES ASSUME LoadAssumption, IInv, IInv', AllTold, [Next]_vars
                 PROVE  AllTold'
      OBVIOUS
    <2>1. CASE UNCHANGED vars
      BY <2>1 DEF vars, AllTold
    <2>2. ASSUME NEW i \in Instances, Client(i)
          PROVE  AllTold'
      <3>1. CASE InstInit(i) \/ Close(i) \/ CloseEnds(i) \/ OpenFailed(i)
        BY <3>1, FileTells
      <3>2. CASE \E c \in Used, d \in Frames : SFmtOutput(i, c, d)
        BY <3>2, SFmtOutputTells
      <3>3. CASE \E raw \in RawFormats : SFmtCapture(i, raw)
        BY <3>3, SFmtCaptureTells
      <3>4. CASE \/ \E p \in Planes : Free(i, p) \/ StreamOff(i, p)
                 \/ (\E fps \in Fps : QbufSample(i, fps)) \/ QbufWindow(i)
                 \/ RequirementsExpire(i) \/ StopExpires(i)
        BY <3>4, ClientTells
      <3>5. CASE (\E p \in Planes : QueueSetup(i, p) \/ StreamOn(i, p)) \/ OpenAnswered(i)
        BY <3>5, CallTells
      <3>6. CASE RequirementsAnswered(i) \/ Stopped(i)
        BY <3>6, AnsweredTells, StoppedTells
      <3>7. QED
        BY <2>2, <3>1, <3>2, <3>3, <3>4, <3>5, <3>6 DEF Client
    <2>3. ASSUME NEW i \in Instances, Firmware(i)
          PROVE  AllTold'
      BY <2>3, SeqChangedTells, FileTells DEF Firmware
    <2>4. QED
      BY <2>1, <2>2, <2>3 DEF Next
  <1>3. AllTold => ToldAgrees
    <2> SUFFICES ASSUME AllTold, NEW i \in Instances,
                        Running(inst[i]), inst[i].told.by = "CAPTURE"
                 PROVE  Agrees(inst[i]) /\ Matches(inst[i])
      BY DEF ToldAgrees, Agrees, Matches
    <2>1. QED
      BY DEF AllTold, Told, Running, Flags
  <1>4. QED
    BY <1>1, <1>2, <1>3, Always, LoadAssumption, PTL DEF Spec
=============================================================================
