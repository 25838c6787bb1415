------------------------ MODULE IrisLoadSharedProofs ------------------------
(***************************************************************************)
(* What the decoder instances of one core share: its sessions, its         *)
(* throughput and its two video cores.  What admission adds up is a sum    *)
(* over the instances, so the proofs rest on IrisSums, and on the          *)
(* invariant of IrisLoadProofs for the records.                            *)
(***************************************************************************)
EXTENDS IrisLoadProofs, IrisSums

(* What a step of i may do to the share of i, whose new record is x: take  *)
(* a slot when one is free, a video core when it has none, and load when   *)
(* admission lets it.  The frame stays, or is one that has a size.         *)
Sizes == [w : Nat \ {0}, h : Nat \ {0}]

Sized(q, x) == x.src = q.src \/ x.src \in Sizes

Booked(i, x) ==
  /\ inst[i].resv.fps = 0
  /\ SumFunctionOnSet(RateLoad, Reserved(Instances)) + Load(x) * x.resv.fps <= lim.mbps
  /\ Load(x) >= Class4K => Cardinality(Large(Reserved(Instances))) < lim.max4K

Fair(i, x) ==
  /\ x.slot => inst[i].slot \/ SlotFree(i)
  /\ x.core \in {0, inst[i].core} \/ (inst[i].core = 0 /\ x.core = DecideCore(i))
  /\ x.resv.fps = 0 \/ x.resv = inst[i].resv \/ Booked(i, x)
  /\ Sized(inst[i], x)

Shares(i) == \E x : Set(i, x) /\ Fair(i, x)

-----------------------------------------------------------------------------
(* Every step is one of these.                                             *)

(* The share is left alone, or some of it given back.                      *)
Same(q, x) == x.slot = q.slot /\ x.core = q.core /\ x.resv = q.resv /\ Sized(q, x)
Gone(q, x) == ~x.slot /\ x.core = 0 /\ x.resv = NoLoad /\ Sized(q, x)

LEMMA QuietShares ==
  ASSUME NEW i \in Instances, NEW x, Set(i, x), Same(inst[i], x) \/ Gone(inst[i], x)
  PROVE  Shares(i)
  BY DEF Shares, Fair, Same, Gone, NoLoad, Sized

(* Opening and closing a file.                                             *)
LEMMA FileShares ==
  ASSUME IInv, NEW i \in Instances,
         \/ InstInit(i) \/ Close(i) \/ CloseEnds(i) \/ OpenFailed(i) \/ SessionDies(i)
  PROVE  Shares(i)
  <1> DEFINE q == inst[i]
  <1>1. DOMAIN q = Fields
    BY DEF IInv, Good, Typed
  <1>2. CASE InstInit(i)
    <2> DEFINE x == [Closed EXCEPT !.open = TRUE]
    <2>1. Set(i, x)
      BY <1>2 DEF InstInit, Only
    <2>2. Gone(q, x)
      <3>1. Closed.src = Default /\ Default \in Sizes
        BY DEF Closed, Default, Frame, Sizes
      <3>2. x.src = Default
        BY <3>1 DEF Closed
      <3>3. QED
        BY <3>1, <3>2 DEF Gone, Closed, Sized
    <2>3. QED
      BY <2>1, <2>2, QuietShares
  <1>3. CASE Close(i)
    <2> DEFINE x == [q EXCEPT !.pc = "closing"]
    <2>1. Set(i, x)
      BY <1>3 DEF Close
    <2>2. Same(q, x)
      BY <1>1, AllFields DEF Same, Sized
    <2>3. QED
      BY <2>1, <2>2, QuietShares
  <1>4. CASE CloseEnds(i)
    <2> DEFINE r == ReleaseHole([SessionGone(q) EXCEPT !.dpb = NoPool])
               x == [Closed EXCEPT !.hole = r.hole, !.dpb = r.dpb, !.slot = r.slot,
                                   !.resv = r.resv, !.core = r.core]
    <2>1. Set(i, x)
      BY <1>4 DEF CloseEnds, Only
    <2>2. ~r.slot /\ r.core = 0 /\ r.resv = NoLoad
      BY <1>1, AllFields DEF ReleaseHole, SessionGone, Released
    <2> HIDE DEF r
    <2>3. Closed.src = Default /\ Default \in Sizes
      BY DEF Closed, Default, Frame, Sizes
    <2>5. Gone(q, x)
      BY <2>2, <2>3, AllFields DEF Gone, Fields, Sized
    <2>4. QED
      BY <2>1, <2>5, QuietShares
  <1>5. CASE OpenFailed(i)
    <2> DEFINE r == NoCall(SessionGone(q))
               x == IF q.op \in Planes THEN Fail(r) ELSE r
    <2>1. Set(i, x)
      BY <1>5 DEF OpenFailed
    <2>2. DOMAIN r = Fields /\ Gone(q, r)
      BY <1>1, AllFields DEF NoCall, SessionGone, Released, Gone, Sized
    <2> HIDE DEF r
    <2>3. Gone(q, x)
      BY <2>2, AllFields DEF Gone, Fail, ChangeState, Sized
    <2>4. QED
      BY <2>1, <2>3, QuietShares
  <1>6. CASE SessionDies(i)
    <2>1. Set(i, Fail(q))
      BY <1>6 DEF SessionDies
    <2>2. Same(q, Fail(q))
      BY <1>1, AllFields DEF Same, Fail, ChangeState, Sized
    <2>3. QED
      BY <2>1, <2>2, QuietShares
  <1>7. QED
    BY <1>2, <1>3, <1>4, <1>5, <1>6

(* A size that a client asks for is clamped to one that is not zero.       *)
LEMMA ClampIsPositive ==
  ASSUME NEW a \in Nat
  PROVE  Clamp(a, 96, 8192) \in Nat \ {0}
  <1> DEFINE m == Max({a, 96})
  <1>1. m \in Nat \ {0}
    BY MaxOfTwo
  <1> HIDE DEF m
  <1>2. \A k \in Int : Min({m, k}) = IF m <= k THEN m ELSE k
    BY <1>1, MinOfTwo
  <1>3. Min({m, 8192}) = IF m <= 8192 THEN m ELSE 8192
    BY <1>2
  <1>4. Clamp(a, 96, 8192) = Min({m, 8192})
    BY DEF m, Clamp
  <1>5. QED
    BY <1>1, <1>3, <1>4

(* Formats, freed queues and samples of the input rate.                    *)
LEMMA ClientShares ==
  ASSUME LoadAssumption, IInv, NEW i \in Instances,
         \/ \E c \in Used, d \in Frames : SFmtOutput(i, c, d)
         \/ \E raw \in RawFormats : SFmtCapture(i, raw)
         \/ \E p \in Planes : Free(i, p) \/ StreamOff(i, p)
         \/ (\E fps \in Fps : QbufSample(i, fps)) \/ QbufWindow(i)
         \/ RequirementsExpire(i) \/ StopExpires(i)
  PROVE  Shares(i)
  <1> DEFINE q == inst[i]
  <1>1. DOMAIN q = Fields
    BY DEF IInv, Good, Typed
  <1>2. SUFFICES \E x : Set(i, x) /\ Same(q, x)
    BY QuietShares
  <1>3. ASSUME NEW c \in Used, NEW d0 \in Frames, SFmtOutput(i, c, d0)
        PROVE  \E x : Set(i, x) /\ Same(q, x)
    <2> DEFINE d == Frame(Clamp(d0.w, 96, 8192), Clamp(d0.h, 96, 8192))
               n == IF c = "HEVC" THEN 32 ELSE 16
               s == Frame(Align(d.w, n), Align(d.h, n))
               r == [q EXCEPT !.codec = c, !.src = s]
               x == Captures(r, d, r.raw)
    <2>1. Set(i, x)
      BY ONLY <1>3 DEF SFmtOutput
    <2>5. s \in Sizes
      <3>1. \A a \in Nat : Clamp(a, 96, 8192) \in Nat \ {0}
        BY ClampIsPositive
      <3>2. d0.w \in Nat /\ d0.h \in Nat
        BY DEF LoadAssumption
      <3>3. d.w \in Nat \ {0} /\ d.h \in Nat \ {0}
        BY <3>1, <3>2 DEF Frame
      <3>4. \A a \in Nat \ {0} : Align(a, 16) \in Nat \ {0} /\ Align(a, 32) \in Nat \ {0}
        BY DEF Align, DivUp
      <3> HIDE DEF d
      <3>5. Align(d.w, n) \in Nat \ {0} /\ Align(d.h, n) \in Nat \ {0}
        BY <3>3, <3>4
      <3>6. QED
        BY <3>5 DEF Frame, Sizes
    <2> HIDE DEF d, s
    <2>2. DOMAIN r = Fields /\ Same(q, r)
      BY <1>1, <2>5, AllFields DEF Same, Sized
    <2> HIDE DEF r
    <2>3. Same(q, x)
      BY <2>2, AllFields DEF Same, Captures, Sized
    <2>4. QED
      BY <2>1, <2>3
  <1>4. ASSUME NEW raw \in RawFormats, SFmtCapture(i, raw)
        PROVE  \E x : Set(i, x) /\ Same(q, x)
    <2> DEFINE d == IF "OUTPUT" \in q.on THEN q.src ELSE q.dst
               r == Captures(q, d, raw)
               x == [r EXCEPT !.outMin = OutputMin(q.codec, q.fwMin)]
    <2>1. Set(i, x)
      BY <1>4 DEF SFmtCapture, Captures
    <2> HIDE DEF d
    <2>2. DOMAIN r = Fields /\ Same(q, r)
      BY <1>1, AllFields DEF Same, Captures, Sized
    <2> HIDE DEF r
    <2>3. Same(q, x)
      BY <2>2, AllFields DEF Same, Sized
    <2>4. QED
      BY <2>1, <2>3
  <1>5. ASSUME NEW p \in Planes, Free(i, p)
        PROVE  \E x : Set(i, x) /\ Same(q, x)
    BY <1>1, <1>5, AllFields DEF Free, Unallocated, Same, Sized
  <1>6. ASSUME NEW p \in Planes, StreamOff(i, p)
        PROVE  \E x : Set(i, x) /\ Same(q, x)
    <2> DEFINE x == [q EXCEPT !.pc = "stopping", !.op = p]
    <2>1. Set(i, x)
      BY <1>6 DEF StreamOff
    <2>2. Same(q, x)
      BY <1>1, AllFields DEF Same, Sized
    <2>3. QED
      BY <2>1, <2>2
  <1>7. ASSUME NEW fps \in Fps, QbufSample(i, fps)
        PROVE  \E x : Set(i, x) /\ Same(q, x)
    BY <1>1, <1>7, AllFields DEF QbufSample, Same, Sized
  <1>8. CASE QbufWindow(i)
    <2> DEFINE r == [q EXCEPT !.window = 0]
               t == Target(q.window)
               x == IF r.rate = MaxFps \/ t >= r.rate \/ r.down >= 2
                    THEN [r EXCEPT !.rate = t, !.down = 0]
                    ELSE [r EXCEPT !.down = @ + 1]
    <2>1. Set(i, x)
      BY <1>8 DEF QbufWindow, Only
    <2> HIDE DEF t
    <2>2. DOMAIN r = Fields /\ Same(q, r)
      BY <1>1, AllFields DEF Same, Sized
    <2> HIDE DEF r
    <2>3. Same(q, x)
      BY <2>2, AllFields DEF Same, Sized
    <2>4. QED
      BY <2>1, <2>3
  <1>9. CASE RequirementsExpire(i)
    <2> DEFINE r == Fail(q)
               x == NoCall(r)
    <2>1. Set(i, x)
      BY <1>9 DEF RequirementsExpire
    <2>2. DOMAIN r = Fields /\ Same(q, r)
      BY <1>1, AllFields DEF Same, Fail, ChangeState, Sized
    <2> HIDE DEF r
    <2>3. Same(q, x)
      BY <2>2, AllFields DEF Same, NoCall, Sized
    <2>4. QED
      BY <2>1, <2>3
  <1>10. CASE StopExpires(i)
    <2> DEFINE s == NoCall(q)
               r == Fail(s)
               x == [r EXCEPT !.on = @ \ {q.op}]
    <2>1. Set(i, x)
      BY <1>10 DEF StopExpires
    <2>2. DOMAIN s = Fields /\ Same(q, s)
      BY <1>1, AllFields DEF Same, NoCall, Sized
    <2> HIDE DEF s
    <2>3. DOMAIN r = Fields /\ Same(q, r)
      BY <2>2, AllFields DEF Same, Fail, ChangeState, Sized
    <2> HIDE DEF r
    <2>4. Same(q, x)
      BY <2>3, AllFields DEF Same, Sized
    <2>5. QED
      BY <2>1, <2>4
  <1>11. QED
    BY <1>3, <1>4, <1>5, <1>6, <1>7, <1>8, <1>9, <1>10

(* REQBUFS on a session that is open: the load of CAPTURE is reserved when *)
(* admission finds it free.                                                *)
LEMMA SetupShares ==
  ASSUME NEW i \in Instances, NEW r, NEW p \in Planes,
         DOMAIN r = Fields, Same(inst[i], r), r.resv \in [fps : 0 .. MaxFps, grown : BOOLEAN],
         Load(r) = Load(inst[i]), QueueSetupRest(i, r, p)
  PROVE  Shares(i)
  <1> DEFINE q == inst[i]
  <1>1. CASE p = "OUTPUT"
    <2> DEFINE x == [r EXCEPT !.hole = @ \/ r.codec = "VP9", !.out = TRUE]
    <2>1. Set(i, x)
      BY <1>1 DEF QueueSetupRest, Only
    <2>2. Same(q, x)
      BY AllFields DEF Same, Sized
    <2>3. QED
      BY <2>1, <2>2, QuietShares
  <1>2. CASE Set(i, [r EXCEPT !.rejected = TRUE])
    <2> DEFINE x == [r EXCEPT !.rejected = TRUE]
    <2>1. Same(q, x)
      BY AllFields DEF Same, Sized
    <2>2. QED
      BY <1>2, <2>1, QuietShares
  <1>3. ASSUME NEW n \in Counts, ~(r.resv.fps = 0 /\ ~CanReserve(i, r)),
               Set(i, [(IF r.resv.fps = 0 THEN Reserve(r) ELSE r) EXCEPT !.hole = FALSE,
                         !.cap = [n |-> Max({n, r.capMin}), size |-> r.outSize]])
        PROVE  Shares(i)
    <2> DEFINE c == [n |-> Max({n, r.capMin}), size |-> r.outSize]
               a == AdmissionFps(r)
               y == IF r.resv.fps = 0 THEN Reserve(r) ELSE r
               x == [y EXCEPT !.hole = FALSE, !.cap = c]
    <2>1. Set(i, x)
      BY <1>3
    <2> HIDE DEF c
    <2>2. DOMAIN y = Fields /\ y.slot = q.slot /\ y.core = q.core
          /\ y.src = r.src /\ y.crop = r.crop
          /\ (r.resv.fps # 0 => y.resv = q.resv)
          /\ (r.resv.fps = 0 => y.resv.fps = a)
      BY AllFields DEF Same, Reserve, Sized
    <2> HIDE DEF y, a
    <2>3. x.slot = q.slot /\ x.core = q.core /\ x.resv = y.resv
          /\ x.src = r.src /\ x.crop = r.crop
      BY <2>2, AllFields
    <2>4. Load(x) = Load(r)
      BY <2>3 DEF Load
    <2>5. r.resv.fps = 0 => Booked(i, x)
      BY <1>3, <2>2, <2>3, <2>4 DEF Booked, CanReserve, Same, a, Sized
    <2>6. Fair(i, x)
      BY <2>2, <2>3, <2>5 DEF Fair, Same, Sized
    <2> HIDE DEF x
    <2>7. QED
      BY <2>1, <2>6 DEF Shares
  <1>4. QED
    BY <1>1, <1>2, <1>3 DEF QueueSetupRest, Only

(* A call that needs a session takes a slot when one is free.              *)
LEMMA SlotShares ==
  ASSUME NEW i \in Instances, NEW r, NEW op,
         DOMAIN r = Fields, Same(inst[i], r), SlotFree(i), TakeSlot(i, r, op)
  PROVE  Shares(i)
  <1> DEFINE x == [r EXCEPT !.slot = TRUE, !.pc = "opening", !.op = op]
  <1>1. Set(i, x)
    BY DEF TakeSlot, Only
  <1>2. x.core = inst[i].core /\ x.resv = inst[i].resv /\ Sized(inst[i], x)
    BY AllFields DEF Same, Sized
  <1>3. Fair(i, x)
    BY <1>2 DEF Fair
  <1> HIDE DEF x
  <1>4. QED
    BY <1>1, <1>3 DEF Shares

(* STREAMON: OUTPUT decides on the video core.                             *)
LEMMA StartShares ==
  ASSUME NEW i \in Instances, NEW r, NEW p \in Planes,
         DOMAIN r = Fields, Same(inst[i], r), Only(i, StartStreaming(i, r, p))
  PROVE  Shares(i)
  <1> DEFINE q == inst[i]
             x == StartStreaming(i, r, p)
  <1>1. CASE p = "OUTPUT"
    <2> DEFINE c == DecideCore(i)
               y == [r EXCEPT !.rate = MaxFps, !.down = 0, !.core = c,
                              !.pc = "requirements", !.op = p]
    <2>1. x = TellAll(y)
      BY <1>1 DEF StartStreaming
    <2> HIDE DEF c
    <2>2. DOMAIN y = Fields /\ y.slot = q.slot /\ y.core = c /\ y.resv = q.resv
          /\ Sized(q, y)
      BY AllFields DEF Same, Sized
    <2> HIDE DEF y
    <2>3. PICK t : x = [y EXCEPT !.told = t]
      BY <2>1 DEF TellAll, TellFormat
    <2> HIDE DEF x
    <2>4. x.slot = q.slot /\ x.core = c /\ x.resv = q.resv /\ Sized(q, x)
      BY <2>2, <2>3, AllFields DEF Sized
    <2>5. c = q.core \/ (q.core = 0 /\ c = DecideCore(i))
      BY DEF DecideCore, c
    <2>6. Fair(i, x)
      BY <2>4, <2>5 DEF Fair
    <2>7. QED
      BY <2>6 DEF Shares, Only, x
  <1>2. CASE p # "OUTPUT"
    <2> DEFINE s == [dpb |-> DpbCount(r.fwMin), count |-> r.cap.n]
               y == IF r.changed THEN TellFormat(r) ELSE r
    <2>1. x = [y EXCEPT !.changed = FALSE, !.raced = FALSE, !.pc = "requirements",
                        !.op = p, !.saved = s]
      BY <1>2 DEF StartStreaming
    <2> HIDE DEF s, x
    <2>2. DOMAIN y = Fields /\ Same(q, y)
      <3>1. PICK t : TellFormat(r) = [r EXCEPT !.told = t]
        BY DEF TellFormat
      <3>2. QED
        BY <3>1, AllFields DEF Same, Sized
    <2> HIDE DEF y
    <2>3. Same(q, x)
      BY <2>1, <2>2, AllFields DEF Same, Sized
    <2>4. QED
      BY <2>3, QuietShares DEF Only, x
  <1>3. QED
    BY <1>1, <1>2

(* REQBUFS, STREAMON, and the answer to the open they wait for.            *)
LEMMA CallShares ==
  ASSUME IInv, NEW i \in Instances,
         \/ \E p \in Planes : QueueSetup(i, p) \/ StreamOn(i, p)
         \/ OpenAnswered(i)
  PROVE  Shares(i)
  <1> DEFINE q == inst[i]
  <1>1. DOMAIN q = Fields /\ q.resv \in [fps : 0 .. MaxFps, grown : BOOLEAN]
    BY DEF IInv, Good, Typed
  <1>2. ASSUME NEW p \in Planes, QueueSetup(i, p)
        PROVE  Shares(i)
    <2> DEFINE r == Unallocated(q, p)
    <2>1. /\ DOMAIN r = Fields /\ Same(q, r) /\ r.src = q.src /\ r.crop = q.crop
      BY <1>1, AllFields DEF Unallocated, Same, Sized
    <2>2. \/ QueueSetupRest(i, r, p)
          \/ SlotFree(i) /\ TakeSlot(i, r, Setup(p))
      BY <1>2 DEF QueueSetup
    <2> HIDE DEF r
    <2>3. Load(r) = Load(q) /\ r.resv = q.resv
      BY <2>1 DEF Load, Same, Sized
    <2>4. QED
      BY <1>1, <2>1, <2>2, <2>3, SetupShares, SlotShares
  <1>3. ASSUME NEW p \in Planes, StreamOn(i, p)
        PROVE  Shares(i)
    <2>1. Same(q, q)
      BY DEF Same, Sized
    <2>2. \/ Only(i, StartStreaming(i, q, p))
          \/ SlotFree(i) /\ TakeSlot(i, q, p)
          \/ Only(i, Fail(q))
      BY <1>3 DEF StreamOn
    <2>3. CASE Only(i, Fail(q))
      <3>1. Same(q, Fail(q))
        BY <1>1, AllFields DEF Same, Fail, ChangeState, Sized
      <3>2. QED
        BY <2>3, <3>1, QuietShares DEF Only
    <2>4. QED
      BY <1>1, <2>1, <2>2, <2>3, StartShares, SlotShares
  <1>4. CASE OpenAnswered(i)
    <2> DEFINE c == ChangeState(q, "INIT")
               r == NoCall(c)
    <2>1. DOMAIN c = Fields /\ Same(q, c) /\ c.src = q.src /\ c.crop = q.crop
      BY <1>1, AllFields DEF ChangeState, Same, Sized
    <2>2. \/ \E p \in Planes : QueueSetupRest(i, r, p)
          \/ \E p \in Planes : Only(i, StartStreaming(i, r, p))
      BY <1>4 DEF OpenAnswered, Planes
    <2> HIDE DEF c
    <2>3. DOMAIN r = Fields /\ Same(q, r) /\ r.src = q.src /\ r.crop = q.crop
      BY <2>1, AllFields DEF NoCall, Same, Sized
    <2> HIDE DEF r
    <2>4. Load(r) = Load(q) /\ r.resv = q.resv
      BY <2>3 DEF Load, Same, Sized
    <2>5. QED
      BY <1>1, <2>2, <2>3, <2>4, SetupShares, StartShares
  <1>5. QED
    BY <1>2, <1>3, <1>4

(* A change of the state or the sub-state leaves the share alone.          *)
LEMMA StateSame ==
  ASSUME NEW q, NEW r, DOMAIN r = Fields, Same(q, r), NEW t, NEW clear, NEW set
  PROVE  /\ DOMAIN ChangeState(r, t) = Fields /\ Same(q, ChangeState(r, t))
         /\ DOMAIN ChangeSub(r, clear, set) = Fields /\ Same(q, ChangeSub(r, clear, set))
  <1>1. DOMAIN ChangeState(r, t) = Fields /\ Same(q, ChangeState(r, t))
    BY AllFields DEF ChangeState, Same, Sized
  <1>2. DOMAIN ChangeSub(r, clear, set) = Fields /\ Same(q, ChangeSub(r, clear, set))
    BY AllFields DEF ChangeSub, Same, Sized
  <1>3. QED
    BY <1>1, <1>2

(* The end of STREAMON leaves the share alone.                             *)
LEMMA AnsweredShares ==
  ASSUME IInv, NEW i \in Instances, RequirementsAnswered(i)
  PROVE  Shares(i)
  <1> DEFINE q == inst[i]
             p == q.op
             s == PropertyInfo(q)
             r == NoCall(s)
             a == [r EXCEPT !.sub = @ \ {"INPUT_PAUSE"}]
             z == InternalSizes(r)
             u == TellCapture(r)
             b == [u EXCEPT !.dpb = z]
             y == IF p = "OUTPUT" THEN StreamonInput(a) ELSE StreamonOutput(b)
             x == [y EXCEPT !.on = @ \cup {p}]
  <1>1. DOMAIN q = Fields /\ Same(q, q)
    BY DEF IInv, Good, Typed, Same, Sized
  <1>2. Set(i, x)
    BY DEF RequirementsAnswered, Only
  <1>3. DOMAIN s = Fields /\ Same(q, s)
    BY <1>1, AllFields DEF Same, PropertyInfo, Sized
  <1> HIDE DEF s
  <1>4. DOMAIN r = Fields /\ Same(q, r)
    BY <1>3, AllFields DEF Same, NoCall, Sized
  <1> HIDE DEF r
  <1>5. DOMAIN a = Fields /\ Same(q, a)
    BY <1>4, AllFields DEF Same, Sized
  <1>6. DOMAIN u = Fields /\ Same(q, u)
    <2>1. PICK t : u = [r EXCEPT !.told = t]
      BY DEF TellCapture
    <2> HIDE DEF u
    <2>2. QED
      BY <1>4, <2>1, AllFields DEF Same, Sized
  <1> HIDE DEF u, z
  <1>7. DOMAIN b = Fields /\ Same(q, b)
    BY <1>6, AllFields DEF Same, Sized
  <1> HIDE DEF a, b
  <1>8. DOMAIN StreamonInput(a) = Fields /\ Same(q, StreamonInput(a))
    <2> DEFINE w == [a EXCEPT !.window = 0]
    <2>1. DOMAIN w = Fields /\ Same(q, w)
      BY <1>5, AllFields DEF Same, Sized
    <2> HIDE DEF w
    <2> DEFINE c == ChangeState(w, StreamonTarget(w.state, "OUTPUT"))
    <2>2. DOMAIN c = Fields /\ Same(q, c)
      BY <2>1, StateSame
    <2>3. PICK paused : StreamonInput(a) = ChangeSub(c, {}, paused)
      BY DEF StreamonInput, StateChangeStreamon, w
    <2> HIDE DEF c
    <2>4. QED
      BY <2>2, <2>3, StateSame
  <1>9. DOMAIN StreamonOutput(b) = Fields /\ Same(q, StreamonOutput(b))
    <2> DEFINE c == ChangeState(b, StreamonTarget(b.state, "CAPTURE"))
    <2>1. DOMAIN c = Fields /\ Same(q, c)
      BY <1>7, StateSame
    <2>2. PICK ended : StreamonOutput(b) = ChangeSub(c, ended, {})
      BY DEF StreamonOutput, StateChangeStreamon
    <2> HIDE DEF c
    <2>3. QED
      BY <2>1, <2>2, StateSame
  <1>10. DOMAIN y = Fields /\ Same(q, y)
    BY <1>8, <1>9
  <1> HIDE DEF y
  <1>11. Same(q, x)
    BY <1>10, AllFields DEF Same, Sized
  <1>12. QED
    BY <1>2, <1>11, QuietShares

(* The end of STREAMOFF gives the share back with the last queue, and the  *)
(* reserved load with the CAPTURE queue.                                   *)
LEMMA StoppedShares ==
  ASSUME IInv, NEW i \in Instances, Stopped(i)
  PROVE  Shares(i)
  <1> DEFINE q == inst[i]
             p == q.op
             n == NoCall(q)
             r == [n EXCEPT !.on = @ \ {p}]
             c == ChangeState(r, StreamoffTarget(r.state, p))
             s == StreamoffTail(c)
             x == IF p = "CAPTURE" THEN Released(s) ELSE s
  <1>1. DOMAIN q = Fields
    BY DEF IInv, Good, Typed
  <1>2. Set(i, x)
    BY DEF Stopped, Only, StateChangeStreamoff
  <1>3. DOMAIN n = Fields /\ Same(q, n)
    BY <1>1, AllFields DEF Same, NoCall, Sized
  <1> HIDE DEF n
  <1>4. DOMAIN r = Fields /\ Same(q, r)
    BY <1>3, AllFields DEF Same, Sized
  <1> HIDE DEF r
  <1>5. DOMAIN c = Fields /\ Same(q, c)
    BY <1>4, StateSame
  <1> HIDE DEF c
  <1>6. DOMAIN s = Fields /\ (Same(q, s) \/ Gone(q, s))
    <2>1. CASE c.state = "INIT"
      <3> DEFINE g == SessionGone(c)
                 d == ChangeState(g, "DEINIT")
                 z == NoPool
                 e == [d EXCEPT !.sub = {}, !.dpb = z]
      <3>1. s = e
        BY <2>1 DEF StreamoffTail
      <3>2. DOMAIN g = Fields /\ Gone(q, g) /\ Same(g, g)
        BY <1>5, AllFields DEF Gone, Same, SessionGone, Released, Sized
      <3> HIDE DEF g
      <3>3. DOMAIN d = Fields /\ Same(g, d)
        BY <3>2, StateSame
      <3> HIDE DEF d, z
      <3>4. DOMAIN e = Fields /\ Same(g, e)
        BY <3>3, AllFields DEF Same, Sized
      <3> HIDE DEF e
      <3>5. QED
        BY <3>1, <3>2, <3>4 DEF Gone, Same, Sized
    <2>2. CASE c.state # "INIT"
      BY <1>5, <2>2 DEF StreamoffTail
    <2>3. QED
      BY <2>1, <2>2
  <1> HIDE DEF s
  <1>7. Fair(i, Released(s))
    <2>1. /\ Released(s).slot = s.slot /\ Released(s).core = s.core
          /\ Released(s).resv.fps = 0 /\ Released(s).src = s.src
      BY <1>6, AllFields DEF Released, NoLoad
    <2>2. QED
      BY <1>6, <2>1 DEF Fair, Same, Gone, Sized
  <1>8. Fair(i, s)
    BY <1>6 DEF Fair, Same, Gone, NoLoad, Sized
  <1>9. Fair(i, x)
    BY <1>7, <1>8
  <1> HIDE DEF x
  <1>10. QED
    BY <1>2, <1>9 DEF Shares

(* A change of the stream leaves the share alone.                          *)
LEMMA ChangedShares ==
  ASSUME LoadAssumption, IInv, NEW i \in Instances, NEW d \in Frames, NEW deep \in BOOLEAN,
         NEW m \in Minimums, SeqChanged(i, d, deep, m)
  PROVE  Shares(i)
  <1> DEFINE q == inst[i]
             raw == IF deep THEN "P010" ELSE q.raw
             most == OutputMin(q.codec, m)
             k == Captures(q, d, raw)
             h == [k EXCEPT !.src = d, !.changed = @ \/ raw # q.raw,
                            !.fwMin = m, !.outMin = most, !.capMin = most]
             y == IF StillFits(q, h)
                  THEN ChangeSub(h, {"DRC", "FIRST_IPSC", "INPUT_PAUSE"}, {})
                  ELSE SubChangeDrcLast(SubChangeDrc(ReleaseHole(h)))
             x == [y EXCEPT !.raced = @ \/ q.pc = "requirements"]
  <1>1. DOMAIN q = Fields
    BY DEF IInv, Good, Typed
  <1>2. Set(i, x)
    BY DEF SeqChanged, ReadChangedParams
  <1> HIDE DEF raw, most
  <1>3. DOMAIN k = Fields /\ Same(q, k)
    BY <1>1, AllFields DEF Same, Captures, Sized
  <1> HIDE DEF k
  <1>4. DOMAIN h = Fields /\ Same(q, h)
    <2>1. d \in Sizes
      BY DEF LoadAssumption, Sizes
    <2>2. QED
      BY <1>3, <2>1, AllFields DEF Same, Sized
  <1> HIDE DEF h
  <1>5. DOMAIN y = Fields /\ Same(q, y)
    <2> DEFINE f == ReleaseHole(h)
               g == SubChangeDrc(f)
               l == SubChangeDrcLast(g)
    <2>1. DOMAIN f = Fields /\ Same(q, f)
      BY <1>4, AllFields DEF Same, ReleaseHole, Sized
    <2> HIDE DEF f
    <2>2. DOMAIN g = Fields /\ Same(q, g)
      BY <2>1, StateSame DEF SubChangeDrc
    <2> HIDE DEF g
    <2>3. DOMAIN l = Fields /\ Same(q, l)
      BY <2>2, StateSame DEF SubChangeDrcLast
    <2>4. y = l \/ y = ChangeSub(h, {"DRC", "FIRST_IPSC", "INPUT_PAUSE"}, {})
      BY DEF l, g, f
    <2> HIDE DEF l, y
    <2>5. QED
      BY <1>4, <2>3, <2>4, StateSame
  <1> HIDE DEF y
  <1>6. Same(q, x)
    BY <1>5, AllFields DEF Same, Sized
  <1>7. QED
    BY <1>2, <1>6, QuietShares

(* Every step takes no more than its share.                                *)
LEMMA StepShares ==
  ASSUME LoadAssumption, IInv, NEW i \in Instances, Client(i) \/ Firmware(i)
  PROVE  Shares(i)
  <1>1. CASE Client(i)
    <2>1. CASE InstInit(i) \/ Close(i) \/ CloseEnds(i) \/ OpenFailed(i)
      BY <2>1, FileShares
    <2>2. CASE \/ \E c \in Used, d \in Frames : SFmtOutput(i, c, d)
               \/ \E raw \in RawFormats : SFmtCapture(i, raw)
               \/ \E p \in Planes : Free(i, p) \/ StreamOff(i, p)
               \/ (\E fps \in Fps : QbufSample(i, fps)) \/ QbufWindow(i)
               \/ RequirementsExpire(i) \/ StopExpires(i)
      BY <2>2, ClientShares
    <2>3. CASE (\E p \in Planes : QueueSetup(i, p) \/ StreamOn(i, p)) \/ OpenAnswered(i)
      BY <2>3, CallShares
    <2>4. CASE RequirementsAnswered(i) \/ Stopped(i)
      BY <2>4, AnsweredShares, StoppedShares
    <2>5. QED
      BY <1>1, <2>1, <2>2, <2>3, <2>4 DEF Client
  <1>2. CASE Firmware(i)
    BY <1>2, ChangedShares, FileShares DEF Firmware
  <1>3. QED
    BY <1>1, <1>2

-----------------------------------------------------------------------------
(* The sessions and the reserved load.                                     *)

(* Reservations whose frame has not grown since they were made.            *)
Kept == {j \in Reserved(Instances) : ~inst[j].resv.grown}

(* What a session can grow to is not checked again, so what admission has  *)
(* checked stays true of the others only: this holds also in states where  *)
(* one has grown, and after that one has left.                             *)
KeptFits ==
  /\ Cardinality(Opened(Instances)) <= lim.sessions
  /\ SumFunctionOnSet(RateLoad, Kept) <= lim.mbps
  /\ Cardinality(Large(Kept)) <= lim.max4K

(* The load of a session is a number.                                      *)
LEMMA LoadIsNat ==
  ASSUME NEW r, r.src \in FrameType, r.crop \in FrameType
  PROVE  Load(r) \in Nat
  <1>1. r.src.w \in Nat /\ r.src.h \in Nat /\ r.crop.w \in Nat /\ r.crop.h \in Nat
    BY DEF FrameType
  <1>2. \A a, b \in Nat : Max({a, b}) \in Nat
    BY MaxOfTwo
  <1> DEFINE w == Max({r.src.w, r.crop.w})
             h == Max({r.src.h, r.crop.h})
  <1>3. w \in Nat /\ h \in Nat
    BY <1>1, <1>2
  <1> HIDE DEF w, h
  <1>4. DivUp(w, 16) \in Nat /\ DivUp(h, 16) \in Nat
    BY <1>3 DEF DivUp
  <1>5. \A a, b \in Nat : a * b \in Nat
    OBVIOUS
  <1>6. DivUp(h, 16) * DivUp(w, 16) \in Nat
    BY <1>4, <1>5
  <1>7. QED
    BY <1>6 DEF Load, Mbpf, Mbs, Frame, w, h

(* So is what it reserves.                                                 *)
LEMMA RatesAreNat ==
  ASSUME IInv
  PROVE  \A j \in Instances : Load(inst[j]) \in Nat /\ RateLoad[j] \in Nat
                              /\ RateLoad[j] = Load(inst[j]) * inst[j].resv.fps
                              /\ inst[j].resv.fps \in Nat
  <1> SUFFICES ASSUME NEW j \in Instances
               PROVE  Load(inst[j]) \in Nat /\ Load(inst[j]) * inst[j].resv.fps \in Nat
                      /\ inst[j].resv.fps \in Nat
    BY DEF RateLoad
  <1>1. inst[j].src \in FrameType /\ inst[j].crop \in FrameType /\ inst[j].resv.fps \in Nat
    BY DEF IInv, Good, Typed, MaxFps
  <1>2. Load(inst[j]) \in Nat
    BY <1>1, LoadIsNat
  <1>3. \A a, b \in Nat : a * b \in Nat
    OBVIOUS
  <1>4. QED
    BY <1>1, <1>2, <1>3

(* Set keeps the fields and the load of the record it is given.            *)
LEMMA SetFields ==
  ASSUME NEW i \in Instances, IInv, NEW x, Set(i, x), IInv'
  PROVE  /\ lim' = lim
         /\ \A j \in Others(i) : inst'[j] = inst[j]
         /\ inst'[i].slot = x.slot /\ inst'[i].core = x.core /\ Load(inst'[i]) = Load(x)
         /\ inst'[i].src = x.src
         /\ inst'[i].resv.fps = x.resv.fps
         /\ inst'[i].resv.grown = (x.resv.grown \/ Grown(inst[i], x))
  <1> DEFINE g == x.resv.grown \/ Grown(inst[i], x)
             v == [x.resv EXCEPT !.grown = g]
             y == [x EXCEPT !.resv = v]
  <1>1. inst' = [inst EXCEPT ![i] = y] /\ lim' = lim
    BY DEF Set
  <1>2. inst'[i] = y /\ \A j \in Others(i) : inst'[j] = inst[j]
    BY <1>1 DEF IInv, Others
  <1>3. DOMAIN y = Fields /\ y.resv \in [fps : 0 .. MaxFps, grown : BOOLEAN]
    BY <1>2 DEF IInv, Good, Typed
  <1> HIDE DEF v, g
  <1>4. DOMAIN x = Fields /\ y.resv = v
    BY <1>3, AllFields
  <1>5. y.slot = x.slot /\ y.core = x.core /\ y.src = x.src /\ y.crop = x.crop
    BY <1>4, AllFields
  <1>6. v.fps = x.resv.fps /\ v.grown = g
    BY <1>3, <1>4 DEF v
  <1>7. Load(y) = Load(x)
    BY <1>5 DEF Load
  <1> HIDE DEF y
  <1>8. QED
    BY <1>1, <1>2, <1>4, <1>5, <1>6, <1>7 DEF g

(* No step brings more sessions than there can be.                         *)
LEMMA SlotsKept ==
  ASSUME LoadAssumption, IInv, KeptFits, NEW i \in Instances, NEW x, Set(i, x), Fair(i, x), IInv'
  PROVE  Cardinality(Opened(Instances)') <= lim'.sessions
  <1> DEFINE O == Opened(Instances)
             P == Opened(Instances)'
  <1>1. lim' = lim /\ lim.sessions \in Nat
    BY SetFields DEF IInv, LoadAssumption
  <1>2. O \in SUBSET Instances /\ IsFiniteSet(O) /\ Cardinality(O) \in Nat
        /\ Cardinality(O) <= lim.sessions
    BY FS_Subset, FS_CardinalityType DEF LoadAssumption, Opened, KeptFits
  <1>3. P \subseteq O \cup {i} /\ (x.slot <=> i \in P)
    BY SetFields DEF Opened, Others
  <1>4. i \in P => i \in O \/ Cardinality(O) < lim.sessions
    BY <1>3 DEF Fair, SlotFree, Opened
  <1> HIDE DEF O, P
  <1>5. CASE P \subseteq O
    <2>1. IsFiniteSet(P) /\ Cardinality(P) <= Cardinality(O)
      BY <1>2, <1>5, FS_Subset
    <2>2. Cardinality(P) \in Nat
      BY <2>1, FS_CardinalityType
    <2>3. QED
      BY <1>1, <1>2, <2>1, <2>2 DEF P
  <1>6. CASE ~(P \subseteq O)
    <2>1. Cardinality(O) < lim.sessions /\ i \notin O
      BY <1>3, <1>4, <1>6
    <2>2. IsFiniteSet(O \cup {i}) /\ Cardinality(O \cup {i}) = Cardinality(O) + 1
      BY <1>2, <2>1, FS_AddElement
    <2>3. IsFiniteSet(P) /\ Cardinality(P) <= Cardinality(O \cup {i})
      BY <1>3, <2>2, FS_Subset
    <2>4. Cardinality(P) \in Nat
      BY <2>3, FS_CardinalityType
    <2>5. QED
      BY <1>1, <1>2, <2>1, <2>2, <2>3, <2>4 DEF P
  <1>7. QED
    BY <1>5, <1>6

(* A reservation that is kept over a step is not larger than it was, or it *)
(* has just been made.                                                     *)
LEMMA KeptOrBooked ==
  ASSUME LoadAssumption, IInv, NEW i \in Instances, NEW x, Set(i, x), Fair(i, x), IInv'
  PROVE  /\ \A j \in Others(i) : j \in Kept' => j \in Kept
         /\ i \in Kept' => \/ /\ i \in Kept /\ Load(x) <= Load(inst[i])
                              /\ x.resv.fps = inst[i].resv.fps
                           \/ i \notin Reserved(Instances) /\ Booked(i, x)
  <1> DEFINE q == inst[i]
             y == inst'[i]
  <1>1. \A j \in Others(i) : j \in Kept' => j \in Kept
    BY SetFields DEF Kept, Reserved, Others
  <1>2. y.resv.fps = x.resv.fps /\ y.resv.grown = (x.resv.grown \/ Grown(q, x))
        /\ Load(y) = Load(x)
    BY SetFields
  <1>3. Load(q) \in Nat /\ q.resv.fps \in Nat /\ Load(y) \in Nat /\ y.resv.fps \in Nat
    <2>1. IInv => Load(q) \in Nat /\ q.resv.fps \in Nat
      BY RatesAreNat
    <2>2. Typed(y) => y.src \in FrameType /\ y.crop \in FrameType /\ y.resv.fps \in Nat
      BY DEF Typed, MaxFps
    <2>5. Typed(y)
      BY DEF IInv, Good
    <2> HIDE DEF q, y
    <2>3. Load(y) \in Nat
      BY <2>2, <2>5, LoadIsNat
    <2>4. QED
      BY <2>1, <2>2, <2>3, <2>5
  <1>4. i \in Kept' <=> y.resv.fps > 0 /\ ~y.resv.grown
    BY DEF Kept, Reserved
  <1>5. i \in Kept <=> q.resv.fps > 0 /\ ~q.resv.grown
    BY DEF Kept, Reserved
  <1>6. i \in Reserved(Instances) <=> q.resv.fps > 0
    BY DEF Reserved
  <1> HIDE DEF y, q
  <1>7. ASSUME i \in Kept', x.resv = q.resv
        PROVE  i \in Kept /\ Load(x) <= Load(q) /\ x.resv.fps = q.resv.fps
    <2>1. ~y.resv.grown /\ y.resv.fps > 0 /\ q.resv.fps = x.resv.fps
      BY <1>2, <1>4, <1>7
    <2>2. ~(Load(x) > Load(q)) /\ ~q.resv.grown
      BY <1>2, <1>7, <2>1 DEF Grown
    <2>3. Load(x) <= Load(q)
      BY <1>2, <1>3, <2>2
    <2>4. QED
      BY <1>2, <1>5, <2>1, <2>2, <2>3
  <1>8. ASSUME i \in Kept', Booked(i, x)
        PROVE  i \notin Reserved(Instances)
    BY <1>6, <1>8 DEF Booked, q
  <1>9. i \in Kept' => x.resv.fps # 0
    BY <1>2, <1>4
  <1>10. x.resv.fps = 0 \/ x.resv = q.resv \/ Booked(i, x)
    BY DEF Fair, q
  <1>11. QED
    BY <1>1, <1>7, <1>8, <1>9, <1>10 DEF q

(* The reservations that are kept stay within the throughput.              *)
LEMMA RatesKept ==
  ASSUME LoadAssumption, IInv, KeptFits, NEW i \in Instances, NEW x, Set(i, x), Fair(i, x), IInv'
  PROVE  SumFunctionOnSet(RateLoad', Kept') <= lim'.mbps
  <1> DEFINE F == RateLoad
             G == RateLoad'
             K == Kept
             M == Kept'
             R == M \ {i}
             A == Reserved(Instances)
             Sum(f, s) == SumFunctionOnSet(f, s)
  <1>1. /\ lim' = lim /\ lim.mbps \in Nat
        /\ K \subseteq A /\ A \subseteq Instances /\ M \subseteq Instances /\ R \subseteq K \ {i}
    BY SetFields, KeptOrBooked DEF IInv, LoadAssumption, Kept, Reserved, Others
  <1>2. /\ IsFiniteSet(K) /\ IsFiniteSet(A) /\ IsFiniteSet(M) /\ IsFiniteSet(R)
        /\ IsFiniteSet(K \ {i})
    BY <1>1, FS_Subset DEF LoadAssumption
  <1>3. /\ \A j \in Instances : F[j] \in Nat /\ G[j] \in Nat
        /\ \A j \in Others(i) : G[j] = F[j]
        /\ F[i] = Load(inst[i]) * inst[i].resv.fps
        /\ G[i] = Load(x) * x.resv.fps
    <2>1. \A j \in Instances : F[j] \in Nat
      BY RatesAreNat
    <2>2. \A j \in Instances : G[j] = Load(inst'[j]) * inst'[j].resv.fps
      BY DEF RateLoad
    <2>3. \A j \in Instances : G[j] \in Nat
      <3>1. \A j \in Instances : inst'[j].src \in FrameType /\ inst'[j].crop \in FrameType
                                 /\ inst'[j].resv.fps \in Nat
        <4>1. \A j \in Instances : Typed(inst[j])'
          BY DEF IInv, Good
        <4>2. SUFFICES ASSUME NEW j \in Instances, Typed(inst'[j])
                       PROVE  inst'[j].src \in FrameType /\ inst'[j].crop \in FrameType
                              /\ inst'[j].resv.fps \in Nat
          BY <4>1
        <4>3. QED
          BY <4>2 DEF Typed, MaxFps
      <3>2. \A j \in Instances : Load(inst'[j]) \in Nat
        BY <3>1, LoadIsNat
      <3>3. \A a, b \in Nat : a * b \in Nat
        OBVIOUS
      <3>4. QED
        BY <2>2, <3>1, <3>2, <3>3
    <2>4. \A j \in Others(i) : G[j] = F[j]
      BY SetFields DEF RateLoad, Others
    <2>5. G[i] = Load(x) * x.resv.fps
      BY <2>2, SetFields
    <2>6. F[i] = Load(inst[i]) * inst[i].resv.fps
      BY DEF RateLoad
    <2>7. QED
      BY <2>1, <2>3, <2>4, <2>5, <2>6
  <1>4. Load(inst[i]) \in Nat /\ Load(x) \in Nat /\ inst[i].resv.fps \in Nat
    <2>1. inst'[i].src \in FrameType /\ inst'[i].crop \in FrameType
      BY DEF IInv, Good, Typed
    <2>2. Load(inst'[i]) \in Nat
      BY <2>1, LoadIsNat
    <2>3. QED
      BY <2>2, RatesAreNat, SetFields
  <1>5. Sum(F, K) <= lim.mbps
    BY DEF KeptFits
  <1>6. i \in M => \/ /\ i \in K /\ Load(x) <= Load(inst[i])
                      /\ x.resv.fps = inst[i].resv.fps
                   \/ i \notin A /\ Sum(F, A) + Load(x) * x.resv.fps <= lim.mbps
    BY KeptOrBooked DEF Booked
  <1> HIDE DEF F, G, K, M, A
  <1>7. Sum(G, R) = Sum(F, R) /\ Sum(F, R) \in Nat
    <2>1. \A j \in R : F[j] \in Int /\ G[j] = F[j]
      BY <1>1, <1>3 DEF Others
    <2>2. \A j \in R : F[j] \in Nat
      BY <1>1, <1>3
    <2>3. QED
      BY <1>2, <2>1, <2>2, SumSame, SumIsNat
  <1>8. Sum(F, R) <= Sum(F, K \ {i}) /\ Sum(F, K \ {i}) \in Nat
        /\ Sum(F, K \ {i}) <= Sum(F, K) /\ Sum(F, K) \in Nat
        /\ Sum(F, K) <= Sum(F, A) /\ Sum(F, A) \in Nat
    <2>1. \A j \in A : F[j] \in Nat
      BY <1>1, <1>3
    <2>2. \A j \in K : F[j] \in Nat
      BY <1>1, <1>3
    <2>3. \A j \in K \ {i} : F[j] \in Nat
      BY <2>2
    <2>4. Sum(F, R) <= Sum(F, K \ {i})
      BY <1>1, <1>2, <2>3, SumOfFewer
    <2>5. Sum(F, K \ {i}) <= Sum(F, K)
      BY <1>2, <2>2, SumOfFewer
    <2>6. Sum(F, K) <= Sum(F, A)
      BY <1>1, <1>2, <2>1, SumOfFewer
    <2>7. Sum(F, K \ {i}) \in Nat /\ Sum(F, K) \in Nat /\ Sum(F, A) \in Nat
      BY <1>2, <2>1, <2>2, <2>3, SumIsNat
    <2>8. QED
      BY <2>4, <2>5, <2>6, <2>7
  <1>9. CASE i \notin M
    <2>1. M = R
      BY <1>9
    <2>2. Sum(G, M) <= lim.mbps
      <3>1. Sum(G, M) = Sum(F, R)
        BY <1>7, <2>1
      <3> HIDE DEF Sum, R
      <3>2. QED
        BY <1>1, <1>5, <1>7, <1>8, <3>1
    <2>3. QED
      BY <1>1, <2>2 DEF G, M
  <1>10. CASE i \in M
    <2>1. Sum(G, M) = G[i] + Sum(G, R) /\ G[i] \in Nat /\ F[i] \in Nat
      <3>1. \A j \in M : G[j] \in Int
        BY <1>1, <1>3
      <3>2. QED
        BY <1>2, <1>3, <1>10, <3>1, SumWithout
    <2>2. i \in K => Sum(F, K) = F[i] + Sum(F, K \ {i})
      <3>1. \A j \in K : F[j] \in Int
        BY <1>1, <1>3
      <3>2. QED
        BY <1>2, <3>1, SumWithout
    <2>3. CASE i \in K /\ Load(x) <= Load(inst[i]) /\ x.resv.fps = inst[i].resv.fps
      <3>1. G[i] <= F[i]
        <4>1. inst[i].resv.fps * Load(x) <= inst[i].resv.fps * Load(inst[i])
          BY <1>4, <2>3, MoreLines
        <4>2. \A a, b \in Nat : a * b = b * a
          OBVIOUS
        <4>3. QED
          BY <1>3, <1>4, <2>3, <4>1, <4>2
      <3> HIDE DEF Sum, R
      <3>2. Sum(G, M) <= lim.mbps
        BY <1>1, <1>5, <1>7, <1>8, <2>1, <2>2, <2>3, <3>1
      <3>3. QED
        BY <1>1, <3>2 DEF Sum, G, M
    <2>4. CASE i \notin A /\ Sum(F, A) + Load(x) * x.resv.fps <= lim.mbps
      <3> HIDE DEF Sum, R
      <3>1. Sum(F, A) + G[i] <= lim.mbps
        BY <1>3, <2>4
      <3>2. Sum(G, M) <= lim.mbps
        BY <1>1, <1>7, <1>8, <2>1, <3>1
      <3>3. QED
        BY <1>1, <3>2 DEF Sum, G, M
    <2>5. QED
      BY <1>6, <1>10, <2>3, <2>4
  <1>11. QED
    BY <1>9, <1>10

(* And within the limit of 4K sessions.                                    *)
LEMMA LargeKept ==
  ASSUME LoadAssumption, IInv, KeptFits, NEW i \in Instances, NEW x, Set(i, x), Fair(i, x), IInv'
  PROVE  Cardinality(Large(Kept)') <= lim'.max4K
  <1> DEFINE L == Large(Kept)
             N == Large(Kept)'
             A == Large(Reserved(Instances))
  <1>1. lim' = lim /\ lim.max4K \in Nat /\ Cardinality(L) <= lim.max4K
    BY SetFields DEF IInv, LoadAssumption, KeptFits
  <1>2. L \subseteq A /\ A \subseteq Instances
    BY DEF Large, Kept, Reserved
  <1>3. IsFiniteSet(L) /\ IsFiniteSet(A) /\ Cardinality(L) \in Nat /\ Cardinality(A) \in Nat
        /\ Cardinality(L) <= Cardinality(A)
    BY <1>2, FS_Subset, FS_CardinalityType DEF LoadAssumption
  <1>4. N \subseteq L \cup {i}
    BY SetFields, KeptOrBooked DEF Large, Kept, Reserved, Others
  <1>5. i \in N => Load(x) >= Class4K /\ i \in Kept'
    BY SetFields DEF Large
  <1>6. Load(inst[i]) \in Nat /\ Load(x) \in Nat
    <2>1. inst'[i].src \in FrameType /\ inst'[i].crop \in FrameType
      BY DEF IInv, Good, Typed
    <2>2. Load(inst'[i]) \in Nat
      BY <2>1, LoadIsNat
    <2>3. QED
      BY <2>2, RatesAreNat, SetFields
  <1>7. i \in N => i \in L \/ (i \notin A /\ Cardinality(A) < lim.max4K)
    <2> HAVE i \in N
    <2>1. CASE i \in Kept /\ Load(x) <= Load(inst[i])
      <3>1. Load(inst[i]) >= Class4K
        BY <1>5, <1>6, <2>1 DEF Class4K
      <3>2. QED
        BY <2>1, <3>1 DEF Large
    <2>2. CASE i \notin Reserved(Instances) /\ Booked(i, x)
      BY <1>5, <2>2 DEF Booked, Large
    <2>3. QED
      BY <1>5, <2>1, <2>2, KeptOrBooked
  <1> HIDE DEF L, N, A
  <1>8. CASE N \subseteq L
    <2>1. IsFiniteSet(N) /\ Cardinality(N) <= Cardinality(L)
      BY <1>3, <1>8, FS_Subset
    <2>2. Cardinality(N) \in Nat
      BY <2>1, FS_CardinalityType
    <2>3. QED
      BY <1>1, <1>3, <2>1, <2>2 DEF N
  <1>9. CASE ~(N \subseteq L)
    <2>1. i \notin A /\ Cardinality(A) < lim.max4K /\ N \subseteq A \cup {i}
      BY <1>2, <1>4, <1>7, <1>9
    <2>2. IsFiniteSet(A \cup {i}) /\ Cardinality(A \cup {i}) = Cardinality(A) + 1
      BY <1>3, <2>1, FS_AddElement
    <2>3. IsFiniteSet(N) /\ Cardinality(N) <= Cardinality(A \cup {i})
      BY <2>1, <2>2, FS_Subset
    <2>4. Cardinality(N) \in Nat
      BY <2>3, FS_CardinalityType
    <2>5. QED
      BY <1>1, <1>3, <2>1, <2>2, <2>3, <2>4 DEF N
  <1>10. QED
    BY <1>8, <1>9

(* However opens, refusals, failures and closes of any number of files     *)
(* fall, the sessions stay within their limit and the reserved load within *)
(* the throughput and the limit of 4K sessions, unless a stream that is    *)
(* reserved has grown.                                                     *)
THEOREM Admission == Spec => []ReservedFits
  <1>1. LoadAssumption /\ Init => KeptFits
    <2> SUFFICES ASSUME LoadAssumption, Init
                 PROVE  KeptFits
      OBVIOUS
    <2>1. \A i \in Instances : ~inst[i].slot /\ inst[i].resv.fps = 0
      BY DEF Init, Closed, NoLoad
    <2>2. Opened(Instances) = {} /\ Kept = {} /\ Large(Kept) = {}
      BY <2>1 DEF Opened, Kept, Reserved, Large
    <2>3. lim.sessions \in Nat /\ lim.mbps \in Nat /\ lim.max4K \in Nat
      BY DEF Init, LoadAssumption
    <2>4. Cardinality({}) = 0 /\ SumFunctionOnSet(RateLoad, {}) = 0
      BY FS_EmptySet, SumOfNone
    <2>5. Cardinality(Opened(Instances)) = 0 /\ SumFunctionOnSet(RateLoad, Kept) = 0
          /\ Cardinality(Large(Kept)) = 0
      BY <2>2, <2>4
    <2>6. QED
      BY <2>3, <2>5 DEF KeptFits
  <1>2. LoadAssumption /\ IInv /\ IInv' /\ KeptFits /\ [Next]_vars => KeptFits'
    <2> SUFFICES ASSUME LoadAssumption, IInv, IInv', KeptFits, [Next]_vars
                 PROVE  KeptFits'
      OBVIOUS
    <2>1. CASE UNCHANGED vars
      BY <2>1 DEF vars, KeptFits, Kept, Opened, Reserved, Large, RateLoad
    <2>2. ASSUME NEW i \in Instances, Client(i) \/ Firmware(i)
          PROVE  KeptFits'
      <3>1. PICK x : Set(i, x) /\ Fair(i, x)
        BY <2>2, StepShares DEF Shares
      <3>2. QED
        BY <3>1, SlotsKept, RatesKept, LargeKept DEF KeptFits
    <2>3. QED
      BY <2>1, <2>2 DEF Next
  <1>3. KeptFits => ReservedFits
    <2>1. (\A i \in Reserved(Instances) : ~inst[i].resv.grown) => Kept = Reserved(Instances)
      BY DEF Kept
    <2>2. QED
      BY <2>1 DEF KeptFits, ReservedFits
  <1>4. QED
    BY <1>1, <1>2, <1>3, Always, LoadAssumption, PTL DEF Spec

-----------------------------------------------------------------------------
(* The two video cores.                                                    *)

(* Every file has a frame with a size, so every session counts for the     *)
(* core it runs on.                                                        *)
AllSized == \A i \in Instances : inst[i].src \in Sizes

(* The load of a frame with a size is not zero.                            *)
LEMMA LoadIsPositive ==
  ASSUME NEW r, r.src \in Sizes, r.crop \in FrameType
  PROVE  Load(r) \in Nat \ {0}
  <1>1. r.src.w \in Nat \ {0} /\ r.src.h \in Nat \ {0} /\ r.crop.w \in Nat /\ r.crop.h \in Nat
    BY DEF FrameType, Sizes
  <1>2. \A a \in Nat \ {0}, b \in Nat : Max({a, b}) \in Nat \ {0}
    BY MaxOfTwo
  <1> DEFINE w == Max({r.src.w, r.crop.w})
             h == Max({r.src.h, r.crop.h})
  <1>3. w \in Nat \ {0} /\ h \in Nat \ {0}
    BY <1>1, <1>2
  <1> HIDE DEF w, h
  <1>4. DivUp(w, 16) \in Nat \ {0} /\ DivUp(h, 16) \in Nat \ {0}
    BY <1>3 DEF DivUp
  <1>5. \A a, b \in Nat \ {0} : a * b \in Nat \ {0}
    OBVIOUS
  <1>6. DivUp(h, 16) * DivUp(w, 16) \in Nat \ {0}
    BY <1>4, <1>5
  <1>7. QED
    BY <1>6 DEF Load, Mbpf, Mbs, Frame, w, h

(* With two files, the core decided on is not the one the other file has.  *)
LEMMA DecidesOther ==
  ASSUME IInv, AllSized, Pipes > 1, NEW i \in Instances, NEW j \in Instances,
         Others(i) = {j}, inst[i].core = 0
  PROVE  DecideCore(i) # inst[j].core
  <1> DEFINE q == inst[j]
             v == Load(q) * CoreFps(q)
             f == [k \in Instances |-> Load(inst[k]) * CoreFps(inst[k])]
             On(c) == {k \in Opened(Others(i)) : inst[k].core = c}
  <1>1. DecideCore(i) = IF CoreLoad(i, 1) > CoreLoad(i, 2) THEN 2 ELSE 1
    BY DEF DecideCore
  <1>2. q.core \in 0 .. 2 /\ q.rate \in DefaultFps .. MaxFps /\ q.crop \in FrameType
        /\ q.src \in Sizes /\ (q.core # 0 => q.slot)
    BY DEF IInv, Good, Typed, Held, Bare, AllSized
  <1>3. v \in Nat \ {0}
    <2> DEFINE s == IF q.rate = MaxFps THEN DefaultFps ELSE q.rate
    <2>1. s \in Nat
      BY <1>2 DEF DefaultFps, MaxFps
    <2> HIDE DEF s
    <2>2. Max({s, 1}) \in Nat \ {0}
      BY <2>1, MaxOfTwo
    <2>3. CoreFps(q) \in Nat \ {0}
      BY <2>2 DEF CoreFps, s
    <2>4. Load(q) \in Nat \ {0}
      BY <1>2, LoadIsPositive
    <2>5. \A a, b \in Nat \ {0} : a * b \in Nat \ {0}
      OBVIOUS
    <2>6. QED
      BY <2>3, <2>4, <2>5
  <1>4. \A c : CoreLoad(i, c) = SumFunctionOnSet(f, On(c))
    BY DEF CoreLoad
  <1>5. f[j] = v
    OBVIOUS
  <1>6. ASSUME NEW c, q.core # 0
        PROVE  On(c) = IF q.core = c THEN {j} ELSE {}
    BY <1>2, <1>6 DEF Opened
  <1> HIDE DEF f, v, On
  <1>7. SumFunctionOnSet(f, {}) = 0
    BY SumOfNone
  <1>8. SumFunctionOnSet(f, {j}) = v
    <2>1. IsFiniteSet({j}) /\ {j} \ {j} = {}
      BY FS_Singleton
    <2>2. SumFunctionOnSet(f, {j}) = f[j] + SumFunctionOnSet(f, {j} \ {j})
      <3>1. \A k \in {j} : f[k] \in Int
        BY <1>3, <1>5
      <3>2. j \in {j}
        OBVIOUS
      <3>3. QED
        BY <2>1, <3>1, <3>2, SumWithout
    <2>3. SumFunctionOnSet(f, {j}) = v + 0
      BY <1>5, <1>7, <2>1, <2>2
    <2>4. QED
      BY <1>3, <2>3
  <1>9. CASE q.core = 0
    BY <1>1, <1>9
  <1>10. CASE q.core = 1
    <2>1. CoreLoad(i, 1) = v /\ CoreLoad(i, 2) = 0
      BY <1>4, <1>6, <1>7, <1>8, <1>10
    <2>2. QED
      BY <1>1, <1>3, <1>10, <2>1
  <1>11. CASE q.core = 2
    <2>1. CoreLoad(i, 1) = 0 /\ CoreLoad(i, 2) = v
      BY <1>4, <1>6, <1>7, <1>8, <1>11
    <2>2. QED
      BY <1>1, <1>3, <1>11, <2>1
  <1>12. QED
    BY <1>2, <1>9, <1>10, <1>11

(* Two sessions do not share a video core while the other one is free,     *)
(* whatever the order in which they open, start, stop and reopen.          *)
THEOREM Apart == Spec => []CoresApart
  <1>1. Init => AllSized /\ CoresApart
    <2>1. Closed.src = Default /\ Default \in Sizes /\ Closed.core = 0
      BY DEF Closed, Default, Frame, Sizes
    <2>2. QED
      BY <2>1 DEF Init, AllSized, CoresApart
  <1>2. LoadAssumption /\ IInv /\ IInv' /\ AllSized /\ CoresApart /\ [Next]_vars
          => AllSized' /\ CoresApart'
    <2> SUFFICES ASSUME LoadAssumption, IInv, IInv', AllSized, CoresApart, [Next]_vars
                 PROVE  AllSized' /\ CoresApart'
      OBVIOUS
    <2>1. CASE UNCHANGED vars
      BY <2>1 DEF vars, AllSized, CoresApart
    <2>2. ASSUME NEW i \in Instances, Client(i) \/ Firmware(i)
          PROVE  AllSized' /\ CoresApart'
      <3>1. PICK x : Set(i, x) /\ Fair(i, x)
        BY <2>2, StepShares DEF Shares
      <3>2. /\ inst'[i].src = x.src /\ inst'[i].core = x.core
            /\ \A j \in Instances \ {i} : inst'[j] = inst[j]
        BY <3>1, SetFields DEF Others
      <3>3. AllSized'
        BY <3>1, <3>2 DEF AllSized, Fair, Sized
      <3>4. ASSUME Cardinality(Instances) = 2, Pipes > 1, NEW j \in Instances \ {i},
                   x.core # 0, x.core = inst[j].core
            PROVE  FALSE
        <4>1. inst[i].core = 0 /\ x.core = DecideCore(i)
          BY <3>1, <3>4 DEF Fair, CoresApart
        <4>2. Others(i) = {j}
          <5>1. IsFiniteSet(Others(i)) /\ Cardinality(Others(i)) = 1
            BY <3>4, FS_RemoveElement DEF LoadAssumption, Others
          <5>2. PICK k : Others(i) = {k}
            BY <5>1, FS_Singleton
          <5>3. QED
            BY <3>4, <5>2 DEF Others
        <4>3. QED
          BY <3>4, <4>1, <4>2, DecidesOther
      <3>5. CoresApart'
        <4> SUFFICES ASSUME Cardinality(Instances) = 2, Pipes > 1,
                            NEW a \in Instances, NEW b \in Instances, a # b,
                            inst'[a].core # 0, inst'[a].core = inst'[b].core
                     PROVE  FALSE
          BY DEF CoresApart
        <4>1. CASE a = i
          BY <3>2, <3>4, <4>1
        <4>2. CASE b = i
          BY <3>2, <3>4, <4>2
        <4>3. CASE a # i /\ b # i
          BY <3>2, <4>3 DEF CoresApart
        <4>4. QED
          BY <4>1, <4>2, <4>3
      <3>6. QED
        BY <3>3, <3>5
    <2>3. QED
      BY <2>1, <2>2 DEF Next
  <1>3. QED
    BY <1>1, <1>2, Always, LoadAssumption, PTL DEF Spec
=============================================================================
