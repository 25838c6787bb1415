----------------------- MODULE IrisStreamOwnerProofs ------------------------
(***************************************************************************)
(* What holds of the single buffers of IrisStream for every number of      *)
(* them, of STREAMONs, drains and faults.  Lends: each buffer the firmware *)
(* has or gives back is in one place and marked as queued, and what a      *)
(* STREAMOFF waits for lies before the answer that ends its wait.  Where   *)
(* messages, counts and planes stand is taken from IrisStreamProofs.  From *)
(* all of it follows Smooth: an instance without a fault never fails.      *)
(***************************************************************************)
EXTENDS IrisStreamProofs

-----------------------------------------------------------------------------
(* Single buffers: the messages that carry one of vb2's.                   *)
Carriers(q) == {k \in DOMAIN q : q[k].type \in {"etb", "ftb"} /\ q[k].buf \in Bufs}
Carried(q)  == {q[k].buf : k \in Carriers(q)}
Sole(q)     == \A j, k \in Carriers(q) : q[j].buf = q[k].buf => j = k
Clean(q)    == \A k \in DOMAIN q : q[k].type = "ftb" => ~q[k].bad

Bears(m)    == IF m.type \in {"etb", "ftb"} THEN {m.buf} \cap Bufs ELSE {}

(* What the firmware has, what is with it or on its way back, and what the *)
(* driver believes to be.                                                  *)
InHand(x) == {b \in Bufs : b \in x.outs \/ \E k \in DOMAIN x.inq : x.inq[k] = b}
Lent(x)   == InHand(x) \cup Carried(x.msgs)
Marked(x) == {b \in Bufs : x.own[b] = "active" /\ x.attr[b] = "queued"}

(* No buffer is in two places, and each of those is marked.                *)
Traced(x) ==
  /\ x.held = None /\ Clean(x.msgs) /\ Sole(x.msgs)
  /\ \A j, k \in DOMAIN x.inq : x.inq[j] = x.inq[k] /\ x.inq[j] \in Bufs => j = k
  /\ InHand(x) \cap Carried(x.msgs) = {}
  /\ Lent(x) \subseteq Marked(x)

Exact(x) == Marked(x) \subseteq Lent(x)

(* What lies in a queue of messages has an answer of type T behind it.     *)
Ahead(q, K, T) ==
  \A k \in DOMAIN q : q[k].type \in K => \E j \in DOMAIN q : j > k /\ q[j].type = T

(* A queue joined to another carries what both carry.                      *)
LEMMA CarriedJoined ==
  ASSUME NEW p \in Seq(Message), NEW q \in Seq(Message)
  PROVE  /\ Carried(p \o q) = Carried(p) \cup Carried(q)
         /\ Clean(p) /\ Clean(q) => Clean(p \o q)
         /\ Sole(p) /\ Sole(q) /\ Carried(p) \cap Carried(q) = {} => Sole(p \o q)
         /\ \A K, T : Ahead(p, K, T) /\ Ahead(q, K, T) => Ahead(p \o q, K, T)
  <1> DEFINE r == p \o q
             m == Len(p)
             n == Len(q)
  <1>1. /\ m \in Nat /\ n \in Nat /\ DOMAIN p = 1..m /\ DOMAIN q = 1..n /\ DOMAIN r = 1..(m + n)
        /\ \A k \in 1..m : r[k] = p[k]
        /\ \A k \in 1..n : r[m + k] = q[k]
    OBVIOUS
  <1>2. \A k \in DOMAIN r : \/ k \in DOMAIN p /\ r[k] = p[k]
                            \/ k - m \in DOMAIN q /\ r[k] = q[k - m] /\ k \in Int
    <2> TAKE k \in DOMAIN r
    <2>1. CASE k \in 1..m
      BY <1>1, <2>1
    <2>2. CASE k \notin 1..m
      <3>1. k - m \in 1..n /\ m + (k - m) = k
        BY <1>1, <2>2
      <3>2. QED
        BY <1>1, <3>1
    <2>3. QED
      BY <2>1, <2>2
  <1>3. /\ \A k \in DOMAIN p : k \in DOMAIN r /\ r[k] = p[k]
        /\ \A k \in DOMAIN q : m + k \in DOMAIN r /\ r[m + k] = q[k]
    BY <1>1
  <1>4. m \in Int /\ DOMAIN p \subseteq Int /\ DOMAIN q \subseteq Int
        /\ \A j \in DOMAIN p, k \in DOMAIN q : m + k > j
    BY <1>1
  <1> HIDE DEF r, m, n
  <1>5. Carried(r) = Carried(p) \cup Carried(q)
    <2>1. Carried(r) \subseteq Carried(p) \cup Carried(q)
      BY <1>2 DEF Carried, Carriers
    <2>2. Carried(p) \subseteq Carried(r)
      BY <1>3 DEF Carried, Carriers
    <2>3. Carried(q) \subseteq Carried(r)
      BY <1>3 DEF Carried, Carriers
    <2>4. QED
      BY <2>1, <2>2, <2>3
  <1>6. Clean(p) /\ Clean(q) => Clean(r)
    BY <1>2 DEF Clean
  <1>7. ASSUME Sole(p), Sole(q), Carried(p) \cap Carried(q) = {}
        PROVE  Sole(r)
    <2> SUFFICES ASSUME NEW j \in Carriers(r), NEW k \in Carriers(r), r[j].buf = r[k].buf
                 PROVE  j = k
      BY DEF Sole
    <2>1. \A i \in Carriers(r) : \/ i \in Carriers(p) /\ r[i] = p[i]
                                 \/ i - m \in Carriers(q) /\ r[i] = q[i - m] /\ i \in Int
      BY <1>2 DEF Carriers
    <2>2. \A i \in Carriers(p) : p[i].buf \in Carried(p)
      BY DEF Carried
    <2>3. \A i \in Carriers(q) : q[i].buf \in Carried(q)
      BY DEF Carried
    <2>4. CASE j \in Carriers(p) /\ r[j] = p[j]
      <3>1. k \in Carriers(p) /\ r[k] = p[k]
        BY <1>7, <2>1, <2>2, <2>3, <2>4
      <3>2. QED
        BY <1>7, <2>4, <3>1 DEF Sole
    <2>5. CASE j - m \in Carriers(q) /\ r[j] = q[j - m] /\ j \in Int
      <3>1. k - m \in Carriers(q) /\ r[k] = q[k - m] /\ k \in Int
        BY <1>7, <2>1, <2>2, <2>3, <2>5
      <3>2. j - m = k - m
        BY <1>7, <2>5, <3>1 DEF Sole
      <3>3. QED
        BY <1>4, <2>5, <3>1, <3>2
    <2>6. QED
      BY <2>1, <2>4, <2>5
  <1>8. ASSUME NEW K, NEW T, Ahead(p, K, T), Ahead(q, K, T)
        PROVE  Ahead(r, K, T)
    <2> SUFFICES ASSUME NEW k \in DOMAIN r, r[k].type \in K
                 PROVE  \E j \in DOMAIN r : j > k /\ r[j].type = T
      BY DEF Ahead
    <2>1. CASE k \in DOMAIN p /\ r[k] = p[k]
      BY <1>3, <1>8, <2>1 DEF Ahead
    <2>2. CASE k - m \in DOMAIN q /\ r[k] = q[k - m] /\ k \in Int
      <3>1. PICK j \in DOMAIN q : j > k - m /\ q[j].type = T
        BY <1>8, <2>2 DEF Ahead
      <3>2. m + j > k
        BY <1>4, <2>2, <3>1
      <3>3. QED
        BY <1>3, <3>1, <3>2
    <2>3. QED
      BY <1>2, <2>1, <2>2
  <1>9. QED
    BY <1>5, <1>6, <1>7, <1>8 DEF r

(* Messages that are not buffers carry none.                               *)
LEMMA CarriedFree ==
  ASSUME NEW q, \A k \in DOMAIN q : q[k].type \notin {"etb", "ftb"}
  PROVE  Carried(q) = {} /\ Sole(q) /\ Clean(q) /\ Ahead(q, {"etb", "ftb"}, "flush")
  BY DEF Carried, Carriers, Sole, Clean, Ahead

(* One message.                                                            *)
LEMMA CarriedOne ==
  ASSUME NEW m \in Message
  PROVE  /\ <<m>> \in Seq(Message) /\ Sole(<<m>>)
         /\ Carried(<<m>>) = Bears(m)
         /\ (m.type = "ftb" => ~m.bad) => Clean(<<m>>)
         /\ \A K, T : m.type \notin K => Ahead(<<m>>, K, T)
  <1> DEFINE q == <<m>>
  <1>1. DOMAIN q = {1} /\ q[1] = m /\ q \in Seq(Message)
    OBVIOUS
  <1> HIDE DEF q
  <1>2. Sole(q) /\ ((m.type = "ftb" => ~m.bad) => Clean(q))
    BY <1>1 DEF Sole, Clean, Carriers
  <1>3. Carried(q) = Bears(m)
    BY <1>1 DEF Carried, Carriers, Bears
  <1>4. \A K, T : m.type \notin K => Ahead(q, K, T)
    BY <1>1 DEF Ahead
  <1>5. QED
    BY <1>1, <1>2, <1>3, <1>4 DEF q

(* An answer of the type is behind whatever was there.                     *)
LEMMA AheadOne ==
  ASSUME NEW q \in Seq(Message), NEW m \in Message, NEW K, m.type \notin K
  PROVE  Ahead(q \o <<m>>, K, m.type)
  <1> DEFINE r == q \o <<m>>
  <1>1. /\ Len(q) \in Nat /\ DOMAIN r = 1..(Len(q) + 1) /\ r[Len(q) + 1] = m
    OBVIOUS
  <1> HIDE DEF r
  <1>2. \A k \in DOMAIN r : k = Len(q) + 1 \/ Len(q) + 1 > k
    BY <1>1
  <1>3. QED
    BY <1>1, <1>2 DEF Ahead, r

(* The next message is taken from the queue.                               *)
LEMMA CarriedTail ==
  ASSUME NEW x, Typed(x), x.msgs # << >>
  PROVE  LET h == Head(x.msgs)
             t == Tail(x.msgs)
         IN /\ Clean(x.msgs) => Clean(t) /\ (h.type = "ftb" => ~h.bad)
            /\ Carried(x.msgs)
                 = Carried(t) \cup Bears(h)
            /\ Sole(x.msgs) => Sole(t) /\ (h.type \in {"etb", "ftb"} => h.buf \notin Carried(t))
            /\ \A K, T : Ahead(x.msgs, K, T) => Ahead(t, K, T)
  <1> DEFINE q == x.msgs
             h == Head(q)
             t == Tail(q)
  <1>1. /\ h = q[1] /\ 1 \in DOMAIN q
        /\ Len(t) \in Nat /\ Len(q) = Len(t) + 1 /\ DOMAIN t = 1..Len(t)
        /\ \A k \in DOMAIN t : k \in Nat /\ k + 1 \in DOMAIN q /\ t[k] = q[k + 1]
    BY NextMessage
  <1>2. DOMAIN q = 1..Len(q)
    BY DEF Typed
  <1>3. \A k \in DOMAIN q : k = 1 \/ (k - 1 \in DOMAIN t /\ k \in Int /\ t[k - 1] = q[k])
    <2> TAKE k \in DOMAIN q
    <2>1. k \in 1..(Len(t) + 1)
      BY <1>1, <1>2
    <2>2. k # 1 => k - 1 \in 1..Len(t) /\ k \in Int /\ (k - 1) + 1 = k
      BY <1>1, <2>1
    <2>3. QED
      BY <1>1, <2>2
  <1>4. \A j, k \in DOMAIN t : (j + 1 = k + 1 => j = k) /\ j + 1 # 1
    BY <1>1
  <1> HIDE DEF q, h, t
  <1>5. Clean(q) => Clean(t) /\ (h.type = "ftb" => ~h.bad)
    BY <1>1 DEF Clean
  <1>6. Carried(q) = Carried(t) \cup Bears(h)
    <2>1. \A b \in Carried(q) :
            b \in Carried(t) \cup Bears(h)
      BY <1>1, <1>3 DEF Carried, Carriers, Bears
    <2>2. \A b \in Carried(t) : b \in Carried(q)
      BY <1>1 DEF Carried, Carriers, Bears
    <2>3. h.type \in {"etb", "ftb"} /\ h.buf \in Bufs => h.buf \in Carried(q)
      BY <1>1 DEF Carried, Carriers, Bears
    <2>4. QED
      BY <2>1, <2>2, <2>3 DEF Bears
  <1>7. ASSUME Sole(q)
        PROVE  Sole(t) /\ (h.type \in {"etb", "ftb"} => h.buf \notin Carried(t))
    <2>1. \A k \in Carriers(t) : k \in DOMAIN t /\ k + 1 \in Carriers(q) /\ t[k] = q[k + 1]
      BY <1>1 DEF Carriers
    <2>2. Sole(t)
      BY <1>4, <1>7, <2>1 DEF Sole
    <2>3. ASSUME h.type \in {"etb", "ftb"}, h.buf \in Carried(t)
          PROVE  FALSE
      <3>1. PICK k \in Carriers(t) : t[k].buf = h.buf
        BY <2>3 DEF Carried
      <3>2. t[k].buf \in Bufs
        BY DEF Carriers
      <3>3. 1 \in Carriers(q)
        BY <1>1, <2>3, <3>1, <3>2 DEF Carriers
      <3>4. k + 1 = 1
        BY <1>1, <1>7, <2>1, <3>1, <3>3 DEF Sole
      <3>5. QED
        BY <1>4, <2>1, <3>4
    <2>4. QED
      BY <2>2, <2>3
  <1>8. ASSUME NEW K, NEW T, Ahead(q, K, T)
        PROVE  Ahead(t, K, T)
    <2> SUFFICES ASSUME NEW k \in DOMAIN t, t[k].type \in K
                 PROVE  \E j \in DOMAIN t : j > k /\ t[j].type = T
      BY DEF Ahead
    <2>1. PICK j \in DOMAIN q : j > k + 1 /\ q[j].type = T
      BY <1>1, <1>8 DEF Ahead
    <2>2. j # 1 /\ k \in Nat
      BY <1>1, <2>1
    <2>3. j - 1 \in DOMAIN t /\ j \in Int /\ t[j - 1] = q[j]
      BY <1>3, <2>2
    <2>4. j - 1 > k
      BY <2>1, <2>2, <2>3
    <2>5. QED
      BY <2>1, <2>3, <2>4
  <1>9. QED
    BY <1>5, <1>6, <1>7, <1>8 DEF q, h, t

Free(q) == \A k \in DOMAIN q : q[k].type \notin {"etb", "ftb"}

(* A step that loses no buffer and doubles none.                           *)
Moves(x, y) ==
  Typed(x) /\ Traced(x) => Typed(y) /\ Traced(y) /\ (Exact(x) => Exact(y))

(* A step of the interrupt thread: what it takes from the firmware comes   *)
(* back before the answer to a flush.                                      *)
GivesBack(x, y, d) ==
  /\ d \in Seq(Message) /\ y.msgs = x.msgs \o d
  /\ Ahead(d, {"etb", "ftb"}, "flush")
  /\ x.outs = {} => Free(d)

Returns(x, y) ==
  /\ Moves(x, y)
  /\ Typed(x) /\ Traced(x) =>
       /\ y.inq = x.inq /\ y.outs \subseteq x.outs
       /\ \E d : GivesBack(x, y, d)

(* A step that has nothing to do with the buffers.                         *)
Untouched(x, y) ==
  DOMAIN x = Fields =>
    /\ DOMAIN y = Fields
    /\ y.inq = x.inq /\ y.outs = x.outs /\ y.msgs = x.msgs
    /\ y.own = x.own /\ y.attr = x.attr /\ y.held = x.held

LEMMA ComposeMoves ==
  /\ \A x : Moves(x, x)
  /\ \A x, y, z : Moves(x, y) /\ Moves(y, z) => Moves(x, z)
  BY DEF Moves

LEMMA ComposeReturns ==
  ASSUME NEW x, NEW y, NEW z, Returns(x, y), Returns(y, z)
  PROVE  Returns(x, z)
  <1>1. Moves(x, z)
    BY ComposeMoves DEF Returns
  <1>2. ASSUME Typed(x), Traced(x)
        PROVE  z.inq = x.inq /\ z.outs \subseteq x.outs /\ \E d : GivesBack(x, z, d)
    <2>1. PICK c : GivesBack(x, y, c)
      BY <1>2 DEF Returns
    <2>2. Typed(y) /\ Traced(y) /\ y.inq = x.inq /\ y.outs \subseteq x.outs
      BY <1>2 DEF Returns, Moves
    <2>3. PICK d : GivesBack(y, z, d)
      BY <2>2 DEF Returns
    <2>4. z.inq = x.inq /\ z.outs \subseteq x.outs
      BY <2>2 DEF Returns
    <2>5. x.msgs \in Seq(Message) /\ c \in Seq(Message) /\ d \in Seq(Message)
      BY <1>2, <2>1, <2>3 DEF Typed, GivesBack
    <2>6. c \o d \in Seq(Message) /\ Ahead(c \o d, {"etb", "ftb"}, "flush")
      BY <2>1, <2>3, <2>5, CarriedJoined DEF GivesBack
    <2>7. z.msgs = x.msgs \o (c \o d)
      <3>1. z.msgs = (x.msgs \o c) \o d
        BY <2>1, <2>3 DEF GivesBack
      <3>2. \A p, q, r \in Seq(Message) : (p \o q) \o r = p \o (q \o r)
        BY ConcatAssociative
      <3>3. QED
        BY <2>5, <3>1, <3>2, Zenon
    <2>8. x.outs = {} => Free(c \o d)
      <3> SUFFICES ASSUME x.outs = {} PROVE Free(c \o d)
        OBVIOUS
      <3>1. Free(c) /\ Free(d)
        BY <2>1, <2>2, <2>3 DEF GivesBack
      <3>2. \A k \in DOMAIN (c \o d) :
              \/ k \in DOMAIN c /\ (c \o d)[k] = c[k]
              \/ k - Len(c) \in DOMAIN d /\ (c \o d)[k] = d[k - Len(c)]
        BY <2>5
      <3>3. QED
        BY <3>1, <3>2 DEF Free
    <2>9. QED
      BY <2>4, <2>6, <2>7, <2>8 DEF GivesBack
  <1>3. QED
    BY <1>1, <1>2 DEF Returns

LEMMA UntouchedMoves ==
  /\ \A x : Untouched(x, x)
  /\ \A x, y, z : Untouched(x, y) /\ Untouched(y, z) => Untouched(x, z)
  /\ \A x, y : Untouched(x, y) /\ (Typed(x) => Typed(y)) => Returns(x, y) /\ Moves(x, y)
  <1>1. ASSUME NEW x, NEW y, Untouched(x, y), Typed(x), Typed(x) => Typed(y)
        PROVE  /\ Typed(y) /\ (Traced(x) => Traced(y)) /\ (Exact(x) => Exact(y))
               /\ y.inq = x.inq /\ y.outs \subseteq x.outs
               /\ \E d : GivesBack(x, y, d)
    <2>1. /\ y.inq = x.inq /\ y.outs = x.outs /\ y.msgs = x.msgs
          /\ y.own = x.own /\ y.attr = x.attr /\ y.held = x.held
      BY <1>1 DEF Untouched, Typed
    <2>2. x.msgs \in Seq(Message)
      BY <1>1 DEF Typed
    <2>3. x.msgs \o << >> = x.msgs
      BY <2>2, ConcatEmptySeq
    <2>4. GivesBack(x, y, << >>)
      BY <2>1, <2>3 DEF GivesBack, Ahead, Free
    <2>5. Traced(x) => Traced(y)
      BY <2>1 DEF Traced, InHand, Lent, Marked
    <2>6. Exact(x) => Exact(y)
      BY <2>1 DEF Exact, InHand, Lent, Marked
    <2>7. QED
      BY <1>1, <2>1, <2>4, <2>5, <2>6
  <1>2. QED
    BY <1>1 DEF Untouched, Returns, Moves

(* State, sub-state and DPBs.                                              *)
LEMMA StateUntouched ==
  ASSUME NEW x
  PROVE  /\ Untouched(x, Fail(x)) /\ Untouched(x, SubChangeDrc(x))
         /\ Untouched(x, SubChangeDrainLast(x)) /\ Untouched(x, SubChangeDrcLast(x))
         /\ \A to : Untouched(x, ChangeState(x, to))
         /\ \A clear, set : Untouched(x, ChangeSub(x, clear, set))
         /\ Untouched(x, CreateDpb(x)) /\ Untouched(x, DestroyDpb(x))
         /\ Untouched(x, QueueDpb(x)) /\ Untouched(x, QueueDeferredDpb(x))
         /\ Untouched(x, Restarted(x)) /\ Untouched(x, FwContinue(x))
         /\ Untouched(x, Unmatched(x)) /\ Untouched(x, DpbFtbDone(x))
  <1>1. \A clear, set : Untouched(x, ChangeSub(x, clear, set))
    BY DEF Untouched, ChangeSub, Fields
  <1>2. \A to : Untouched(x, ChangeState(x, to))
    BY DEF Untouched, Fields, ChangeState, ChangeStateOk
  <1>3. Untouched(x, Fail(x)) /\ Untouched(x, x)
    BY <1>2, UntouchedMoves DEF Fail
  <1>4. Untouched(x, SubChangeDrc(x))
    BY <1>1, <1>3 DEF SubChangeDrc
  <1>5. Untouched(x, SubChangeDrainLast(x)) /\ Untouched(x, SubChangeDrcLast(x))
    BY <1>1, <1>3 DEF SubChangeDrainLast, SubChangeDrcLast
  <1>6. \A y, d : Untouched(y, [y EXCEPT !.dpb = d])
    BY DEF Untouched, Fields
  <1>7. \A y, d, n : Untouched(y, [y EXCEPT !.dpb = d, !.pool = n])
    BY DEF Untouched, Fields
  <1>8. \A y, n : Untouched(y, SendDpb(y, n))
    BY DEF Untouched, Fields, SendDpb
  <1>9. Untouched(x, CreateDpb(x)) /\ Untouched(x, DestroyDpb(x))
    BY DEF Untouched, Fields, CreateDpb, DestroyDpb
  <1>10. /\ Untouched(x, [x EXCEPT !.dpb.deferred = 0])
         /\ Untouched(x, [x EXCEPT !.dpb.host = 0, !.dpb.deferred = 0])
         /\ Untouched(x, [x EXCEPT !.dpb.deferred = @ + x.dpb.host, !.dpb.host = 0])
    BY DEF Untouched, Fields
  <1>11. Untouched(x, QueueDpb(x)) /\ Untouched(x, QueueDeferredDpb(x))
    BY <1>8, <1>10, UntouchedMoves DEF QueueDpb, QueueDeferredDpb
  <1>12. Untouched(x, Restarted(x)) /\ Untouched(x, FwContinue(x))
    BY DEF Untouched, Fields, Restarted, FwContinue
  <1>13. Untouched(x, Unmatched(x))
    BY <1>3 DEF Unmatched
  <1>14. Untouched(x, DpbFtbDone(x))
    <2>1. Untouched(x, [x EXCEPT !.dpb.queued = @ - 1, !.dpb.host = @ + 1])
      BY DEF Untouched, Fields
    <2>2. QED
      BY <1>13, <2>1 DEF DpbFtbDone
  <1>15. QED
    BY <1>1, <1>2, <1>3, <1>4, <1>5, <1>9, <1>11, <1>12, <1>13, <1>14

(* What the firmware hands back is in one place afterwards as before.      *)
LEMMA HandedBack ==
  ASSUME NEW x, Typed(x), Traced(x), NEW y, NEW d \in Seq(Message), y.msgs = x.msgs \o d,
         y.held = x.held, y.own = x.own, y.attr = x.attr, Sole(d), Clean(d),
         \A j, k \in DOMAIN y.inq : y.inq[j] = y.inq[k] /\ y.inq[j] \in Bufs => j = k,
         InHand(y) \cup Carried(d) = InHand(x), InHand(y) \cap Carried(d) = {}
  PROVE  Traced(y) /\ (Exact(x) => Exact(y))
  <1>1. x.msgs \in Seq(Message)
    BY DEF Typed
  <1>2. /\ Carried(y.msgs) = Carried(x.msgs) \cup Carried(d)
        /\ Carried(x.msgs) \cap Carried(d) = {}
        /\ Clean(y.msgs) /\ Sole(y.msgs)
    BY <1>1, CarriedJoined DEF Traced
  <1>3. Lent(y) = Lent(x) /\ Marked(y) = Marked(x)
    BY <1>2 DEF Lent, Marked
  <1>4. InHand(y) \cap Carried(y.msgs) = {}
    BY <1>2 DEF Traced
  <1>5. QED
    BY <1>2, <1>3, <1>4 DEF Traced, Exact

(* A flush sent: the firmware's buffers are behind what it sent before,    *)
(* and the answer behind them.                                             *)
LEMMA FlushReturns ==
  ASSUME NEW x, Typed(x), Traced(x), NEW all \in BOOLEAN
  PROVE  LET g == SendFlush(x, all)
         IN /\ Moves(x, g) /\ Lent(g) = Lent(x) /\ g.own = x.own /\ g.attr = x.attr
            /\ ~all => Returns(x, g)
            /\ x.up => /\ g.outs = {} /\ g.inq = (IF all THEN << >> ELSE x.inq)
                       /\ \A K : K \subseteq {"etb", "ftb"} => Ahead(g.msgs, K, "flush")
  <1> DEFINE g == SendFlush(x, all)
  <1>1. /\ x.msgs \in Seq(Message) /\ x.outs \in SUBSET OutBufs
        /\ x.pool \in Nat /\ x.inq \in Seq(InBufs \cup {Eos})
    BY DEF Typed
  <1>2. Typed(g)
    BY FlushStirs DEF Stirs, Tame
  <1>3. CASE ~x.up
    <2>1. g = [x EXCEPT !.flushes = @ + 1]
      BY <1>3 DEF SendFlush, FwFlush
    <2>2. Untouched(x, g)
      BY <2>1 DEF Untouched, Fields
    <2>3. g.own = x.own /\ g.attr = x.attr /\ Lent(g) = Lent(x)
      BY <2>2 DEF Untouched, Typed, Lent, InHand
    <2>4. QED
      BY <1>2, <1>3, <2>2, <2>3, UntouchedMoves
  <1>4. CASE x.up
    <2> DEFINE n == Cardinality(x.outs)
               f == SetToSeq(x.outs)
               b == [k \in 1..n |-> Ftb(f[k], "empty", FALSE, FALSE)]
               c == [k \in 1..x.pool |-> DpbDone]
               h == [k \in DOMAIN x.inq |-> Etb(x.inq[k])]
               a == IF all THEN h ELSE << >>
               l == [type |-> "flush", ok |-> TRUE]
               e == <<l>>
               q == IF all THEN << >> ELSE x.inq
               d == ((a \o b) \o c) \o e
    <2>1. g = [[x EXCEPT !.msgs = (((@ \o a) \o b) \o c) \o e, !.outs = {}, !.pool = 0,
                         !.inq = q]
                 EXCEPT !.flushes = @ + 1]
      BY <1>4 DEF SendFlush, FwFlush
    <2>2. /\ g.msgs = (((x.msgs \o a) \o b) \o c) \o e /\ g.outs = {} /\ g.inq = q
          /\ g.held = x.held /\ g.own = x.own /\ g.attr = x.attr
      BY <2>1 DEF Typed, Fields
    <2>3. /\ a \in Seq(Message) /\ Sole(a) /\ Clean(a)
          /\ Carried(a) = IF all THEN {o \in Bufs : \E k \in DOMAIN x.inq : x.inq[k] = o}
                          ELSE {}
          /\ ~all => Free(a)
      <3>1. CASE ~all
        <4>1. a = << >>
          BY <3>1
        <4>2. QED
          BY <3>1, <4>1 DEF Sole, Clean, Carried, Carriers, Free
      <3>2. CASE all
        <4>1. DOMAIN x.inq = 1..Len(x.inq) /\ Len(x.inq) \in Nat
          BY <1>1
        <4>2. \A o \in InBufs \cup {Eos} : Etb(o) \in Message
          BY DEF Etb, Message, CalmMessage
        <4>3. h \in Seq(Message)
          <5>1. h \in [1..Len(x.inq) -> Message]
            BY <1>1, <4>1, <4>2
          <5>2. QED
            BY <4>1, <5>1
        <4>4. DOMAIN h = DOMAIN x.inq
              /\ \A k \in DOMAIN h : h[k].type = "etb" /\ h[k].buf = x.inq[k]
          BY DEF Etb
        <4> HIDE DEF h
        <4>5. Sole(h) /\ Clean(h)
          BY <4>4 DEF Traced, Sole, Clean, Carriers
        <4>6. Carried(h) = {o \in Bufs : \E k \in DOMAIN x.inq : x.inq[k] = o}
          BY <4>4 DEF Carried, Carriers
        <4>7. QED
          BY <3>2, <4>3, <4>5, <4>6
      <3>3. QED
        BY <3>1, <3>2
    <2>4. /\ b \in Seq(Message) /\ Sole(b) /\ Clean(b) /\ Carried(b) = x.outs
          /\ x.outs = {} => Free(b)
      <3>1. IsFiniteSet(x.outs)
        BY <1>1, FS_Subset, StreamAssumption
      <3>2. /\ f \in Seq(x.outs) /\ Len(f) = n /\ n \in Nat
            /\ \A o \in x.outs : \E k \in 1..n : f[k] = o
            /\ \A j, k \in 1..n : f[j] = f[k] => j = k
        BY <3>1, Listing
      <3> HIDE DEF f
      <3>3. \A k \in 1..n : f[k] \in x.outs /\ f[k] \in OutBufs
        BY <1>1, <3>2
      <3>4. \A k \in 1..n : /\ b[k] \in Message /\ b[k].type = "ftb" /\ b[k].buf = f[k]
                            /\ ~b[k].bad
        BY <3>3 DEF Ftb, Message, CalmMessage, Pictures
      <3>5. b \in Seq(Message) /\ DOMAIN b = 1..n
        <4>1. b \in [1..n -> Message] /\ DOMAIN b = 1..n
          BY <3>4
        <4> HIDE DEF b
        <4>2. QED
          BY <3>2, <4>1
      <3> HIDE DEF b
      <3>6. Sole(b) /\ Clean(b)
        BY <3>2, <3>4, <3>5 DEF Sole, Clean, Carriers
      <3>7. Carried(b) = x.outs
        <4>1. Carried(b) \subseteq x.outs
          BY <3>3, <3>4, <3>5 DEF Carried, Carriers
        <4>2. ASSUME NEW o \in x.outs
              PROVE  o \in Carried(b)
          <5>1. PICK k \in 1..n : f[k] = o
            BY <3>2
          <5>2. k \in Carriers(b) /\ b[k].buf = o
            BY <1>1, <3>4, <3>5, <5>1 DEF Carriers, Bufs
          <5>3. QED
            BY <5>2 DEF Carried
        <4>3. QED
          BY <4>1, <4>2
      <3>8. x.outs = {} => Free(b)
        BY <3>3, <3>5 DEF Free
      <3>9. QED
        BY <3>5, <3>6, <3>7, <3>8
    <2>5. c \in Seq(Message) /\ Free(c)
      <3>1. \A k \in 1..x.pool : c[k] \in Message /\ c[k].type = "dpb"
        BY DEF DpbDone, Message, CalmMessage
      <3>2. c \in [1..x.pool -> Message]
        BY <3>1
      <3> HIDE DEF c
      <3>3. c \in Seq(Message) /\ DOMAIN c = 1..x.pool
        BY <1>1, <3>2
      <3>4. QED
        BY <3>1, <3>3 DEF Free
    <2>6. l \in Message /\ l.type = "flush"
      BY DEF Message, CalmMessage
    <2> HIDE DEF a, b, c, l
    <2>7. e \in Seq(Message) /\ Free(e)
      <3>1. e \in Seq(Message) /\ DOMAIN e = {1} /\ e[1] = l
        BY <2>6
      <3>2. QED
        BY <2>6, <3>1 DEF Free
    <2> DEFINE ab == a \o b
               abc == ab \o c
    <2>0. e = <<l>>
      OBVIOUS
    <2> HIDE DEF e
    <2>8. ab \in Seq(Message) /\ abc \in Seq(Message) /\ d \in Seq(Message)
      BY <2>3, <2>4, <2>5, <2>7
    <2>9. Carried(a) \cap Carried(b) = {} /\ Carried(a) \cup Carried(b) \subseteq InHand(x)
      <3>1. \A o \in Carried(a) : o \in InBufs /\ o \in InHand(x)
        BY <1>1, <2>3, StreamAssumption DEF InHand
      <3>2. \A o \in Carried(b) : o \in OutBufs /\ o \in InHand(x)
        BY <1>1, <2>4 DEF InHand, Bufs
      <3>3. QED
        BY <3>1, <3>2, StreamAssumption
    <2>10. /\ Carried(ab) = Carried(a) \cup Carried(b) /\ Sole(ab) /\ Clean(ab)
           /\ ~all /\ x.outs = {} => Free(ab)
      <3>1. Carried(ab) = Carried(a) \cup Carried(b) /\ Sole(ab) /\ Clean(ab)
        BY <2>3, <2>4, <2>9, CarriedJoined
      <3>2. ~all /\ x.outs = {} => Free(ab)
        <4>1. \A k \in DOMAIN ab : \/ k \in DOMAIN a /\ ab[k] = a[k]
                                   \/ k - Len(a) \in DOMAIN b /\ ab[k] = b[k - Len(a)]
          BY <2>3, <2>4
        <4>2. QED
          BY <2>3, <2>4, <4>1 DEF Free
      <3>3. QED
        BY <3>1, <3>2
    <2> HIDE DEF ab
    <2>11. /\ Carried(abc) = Carried(ab) /\ Sole(abc) /\ Clean(abc)
           /\ Free(ab) => Free(abc)
      <3>1. Carried(c) = {} /\ Sole(c) /\ Clean(c)
        BY <2>5, CarriedFree DEF Free
      <3>2. Carried(abc) = Carried(ab) /\ Sole(abc) /\ Clean(abc)
        BY <2>5, <2>8, <2>10, <3>1, CarriedJoined
      <3>3. Free(ab) => Free(abc)
        <4>1. \A k \in DOMAIN abc : \/ k \in DOMAIN ab /\ abc[k] = ab[k]
                                    \/ k - Len(ab) \in DOMAIN c /\ abc[k] = c[k - Len(ab)]
          BY <2>5, <2>8
        <4>2. QED
          BY <2>5, <4>1 DEF Free
      <3>4. QED
        BY <3>2, <3>3
    <2>12. d = abc \o e
      BY DEF d, abc, ab
    <2>13. /\ Carried(d) = Carried(a) \cup Carried(b) /\ Sole(d) /\ Clean(d)
           /\ Free(abc) => Free(d)
           /\ \A K : K \subseteq {"etb", "ftb"} => Ahead(d, K, "flush")
      <3>1. Carried(e) = {} /\ Sole(e) /\ Clean(e)
        BY <2>7, CarriedFree DEF Free
      <3> HIDE DEF d, abc
      <3>2. Carried(d) = Carried(a) \cup Carried(b) /\ Sole(d) /\ Clean(d)
        BY <2>7, <2>8, <2>10, <2>11, <2>12, <3>1, CarriedJoined
      <3>3. Free(abc) => Free(d)
        <4>1. \A k \in DOMAIN d : \/ k \in DOMAIN abc /\ d[k] = abc[k]
                                  \/ k - Len(abc) \in DOMAIN e /\ d[k] = e[k - Len(abc)]
          BY <2>7, <2>8, <2>12
        <4>2. QED
          BY <2>7, <4>1 DEF Free
      <3>4. \A K : K \subseteq {"etb", "ftb"} => Ahead(d, K, "flush")
        BY <2>0, <2>6, <2>8, <2>12, AheadOne
      <3>5. QED
        BY <3>2, <3>3, <3>4
    <2> HIDE DEF g
    <2>14. g.msgs = x.msgs \o d
      <3> DEFINE p == x.msgs
                 S == Seq(Message)
      <3>1. p \in S /\ a \in S /\ b \in S /\ c \in S /\ e \in S
        BY <1>1, <2>3, <2>4, <2>5, <2>7
      <3>2. ab \in S /\ abc \in S
        BY <2>8
      <3>3. \A u, v, w \in S : (u \o v) \o w = u \o (v \o w)
        BY ConcatAssociative
      <3> HIDE DEF S, p, abc
      <3>4. (p \o a) \o b = p \o ab
        <4>1. p \in S /\ a \in S /\ b \in S
          BY <3>1
        <4>2. (p \o a) \o b = p \o (a \o b)
          BY <4>1, <3>3, Zenon
        <4>3. QED
          BY <4>2 DEF ab
      <3>5. (p \o ab) \o c = p \o abc
        <4>1. p \in S /\ ab \in S /\ c \in S
          BY <3>1, <3>2
        <4>2. (p \o ab) \o c = p \o (ab \o c)
          BY <3>3, <4>1, Zenon
        <4>3. QED
          BY <4>2 DEF abc
      <3>6. (p \o abc) \o e = p \o (abc \o e)
        <4>1. p \in S /\ abc \in S /\ e \in S
          BY <3>1, <3>2
        <4>2. QED
          BY <3>3, <4>1, Zenon
      <3>7. g.msgs = (((p \o a) \o b) \o c) \o e
        BY <2>2 DEF p
      <3> HIDE DEF d
      <3>8. g.msgs = p \o d
        BY <2>12, <3>4, <3>5, <3>6, <3>7
      <3>9. QED
        BY <3>8 DEF p
    <2>15. ~all /\ x.outs = {} => Free(d)
      BY <2>10, <2>11, <2>13
    <2> HIDE DEF d, abc
    <2>16. InHand(g) \cup Carried(d) = InHand(x) /\ InHand(g) \cap Carried(d) = {}
      <3>1. InHand(g) = IF all THEN {} ELSE {o \in Bufs : \E k \in DOMAIN x.inq : x.inq[k] = o}
        BY <2>2 DEF InHand
      <3>2. InHand(x) = (x.outs \cup {o \in Bufs : \E k \in DOMAIN x.inq : x.inq[k] = o})
        BY <1>1 DEF InHand, Bufs
      <3>3. x.outs \cap {o \in Bufs : \E k \in DOMAIN x.inq : x.inq[k] = o} = {}
        BY <1>1, StreamAssumption DEF Bufs
      <3>4. QED
        BY <2>3, <2>4, <2>13, <3>1, <3>2, <3>3
    <2>17. \A j, k \in DOMAIN g.inq : g.inq[j] = g.inq[k] /\ g.inq[j] \in Bufs => j = k
      BY <2>2 DEF Traced
    <2>18. Traced(g) /\ (Exact(x) => Exact(g))
      BY <2>2, <2>8, <2>13, <2>14, <2>16, <2>17, HandedBack
    <2>19. Moves(x, g)
      BY <1>2, <2>18 DEF Moves
    <2>20. ~all => Returns(x, g)
      <3>1. ~all => GivesBack(x, g, d)
        BY <2>8, <2>13, <2>14, <2>15 DEF GivesBack
      <3>2. QED
        BY <2>2, <2>19, <3>1 DEF Returns
    <2>21. \A K : K \subseteq {"etb", "ftb"} => Ahead(g.msgs, K, "flush")
      <3>1. g.msgs = (x.msgs \o abc) \o e
        <4>1. \A u, v, w \in Seq(Message) : (u \o v) \o w = u \o (v \o w)
          BY ConcatAssociative
        <4>2. QED
          BY <1>1, <2>7, <2>8, <2>12, <2>14, <4>1, Zenon
      <3>2. x.msgs \o abc \in Seq(Message)
        BY <1>1, <2>8
      <3>3. QED
        BY <2>0, <2>6, <3>1, <3>2, AheadOne
    <2>22. Lent(g) = Lent(x)
      <3>1. Carried(g.msgs) = Carried(x.msgs) \cup Carried(d)
        BY <1>1, <2>8, <2>14, CarriedJoined
      <3>2. QED
        BY <2>16, <3>1 DEF Lent
    <2>23. QED
      BY <2>2, <2>19, <2>20, <2>21, <2>22 DEF g
  <1>5. QED
    BY <1>3, <1>4 DEF Typed

-----------------------------------------------------------------------------
(* The interrupt thread, a codec without hidden frames: nothing is held.   *)
LEMMA DrainReturns ==
  ASSUME NEW x, Typed(x), Traced(x)
  PROVE  LET y == DrainArm(x)
         IN Returns(x, y) /\ Lent(y) = Lent(x) /\ y.own = x.own /\ y.attr = x.attr
  <1> DEFINE u == [x EXCEPT !.flushed = 0]
             z == SendFlush(u, FALSE)
             y == SubChangeDrainLast(z)
  <1>1. DrainArm(x) = y
    BY DEF DrainArm
  <1>2. Untouched(x, u) /\ Typed(u)
    BY DEF Untouched, Typed, Fields
  <1> HIDE DEF u
  <1>3. Returns(x, u) /\ Traced(u)
    BY <1>2, UntouchedMoves DEF Moves
  <1>4. Returns(u, z) /\ Lent(z) = Lent(u) /\ z.own = u.own /\ z.attr = u.attr
    BY <1>2, <1>3, FlushReturns
  <1>5. Typed(z)
    BY <1>2, FlushStirs DEF Stirs, Tame
  <1> HIDE DEF z
  <1>6. Untouched(z, y) /\ Typed(y)
    BY <1>5, StateUntouched, StateStill DEF Still, Tame
  <1> HIDE DEF y
  <1>7. Returns(z, y)
    BY <1>6, UntouchedMoves
  <1>8. Returns(x, y)
    BY <1>3, <1>4, <1>7, ComposeReturns
  <1>9. /\ Lent(u) = Lent(x) /\ u.own = x.own /\ u.attr = x.attr
        /\ Lent(y) = Lent(z) /\ y.own = z.own /\ y.attr = z.attr
    <2>1. ASSUME NEW v, NEW w, Untouched(v, w), Typed(v)
          PROVE  Lent(w) = Lent(v) /\ w.own = v.own /\ w.attr = v.attr
      <3>1. w.inq = v.inq /\ w.outs = v.outs /\ w.msgs = v.msgs /\ w.own = v.own /\ w.attr = v.attr
        BY <2>1 DEF Untouched, Typed
      <3>2. QED
        BY <3>1 DEF Lent, InHand
    <2>2. QED
      BY <1>2, <1>5, <1>6, <2>1
  <1>10. QED
    BY <1>1, <1>4, <1>8, <1>9

LEMMA SequenceReturns ==
  ASSUME NEW x, Typed(x), Traced(x), NEW m
  PROVE  Returns(x, SeqChanged(x, m))
  <1>1. ASSUME NEW a, Typed(a), Traced(a)
        PROVE  Returns(a, ArmDrc(a))
    <2> DEFINE y == SubChangeDrc(a)
               u == IF y.flushes = 0 THEN [y EXCEPT !.flushed = 0] ELSE y
               z == IF y.state # "ERROR" /\ "FIRST_IPSC" \notin y.sub
                    THEN SendFlush(u, FALSE) ELSE y
    <2>1. ArmDrc(a) \in {a, SubChangeDrcLast(z)}
      BY DEF ArmDrc
    <2>2. Untouched(a, y) /\ Typed(y)
      BY <1>1, StateUntouched, StateStill DEF Still, Tame
    <2> HIDE DEF y
    <2>3. Returns(a, y) /\ Traced(y)
      BY <1>1, <2>2, UntouchedMoves DEF Moves
    <2>4. Untouched(y, u) /\ Typed(u)
      <3> DEFINE v == [y EXCEPT !.flushed = 0]
      <3>1. Untouched(y, v)
        BY DEF Untouched, Fields
      <3>2. Typed(v)
        BY <2>2 DEF Typed, Fields
      <3>3. u \in {y, v}
        OBVIOUS
      <3> HIDE DEF u, v
      <3>4. QED
        BY <2>2, <3>1, <3>2, <3>3, UntouchedMoves
    <2>5. Returns(y, u) /\ Traced(u) /\ Returns(y, y)
      BY <2>2, <2>3, <2>4, UntouchedMoves DEF Moves
    <2> HIDE DEF u
    <2>6. Returns(u, SendFlush(u, FALSE)) /\ Typed(SendFlush(u, FALSE))
      BY <2>4, <2>5, FlushReturns, FlushStirs DEF Stirs, Tame
    <2>7. Returns(y, z) /\ Typed(z)
      BY <2>2, <2>5, <2>6, ComposeReturns
    <2> HIDE DEF z
    <2>8. Untouched(z, SubChangeDrcLast(z)) /\ Typed(SubChangeDrcLast(z))
      BY <2>7, StateUntouched, StateStill DEF Still, Tame
    <2>9. Returns(z, SubChangeDrcLast(z)) /\ Returns(a, a)
      BY <1>1, <2>8, UntouchedMoves
    <2>10. Returns(a, SubChangeDrcLast(z))
      BY <2>3, <2>7, <2>9, ComposeReturns
    <2>11. QED
      BY <2>1, <2>9, <2>10
  <1> DEFINE y == [x EXCEPT !.known = TRUE, !.changed = @ \/ m.kind = "tenbit"]
             z == FwContinue(y)
             C == {"DRC", "FIRST_IPSC", "INPUT_PAUSE"}
             u == ChangeSub(z, C, {})
  <1>2. SeqChanged(x, m) \in {x, u, ArmDrc(y)}
    BY DEF SeqChanged
  <1>3. Untouched(x, y) /\ Typed(y)
    BY DEF Untouched, Typed, Fields
  <1>4. C \in SUBSET SubStates /\ {} \in SUBSET SubStates /\ "LOAD_RESOURCES" \notin C
    BY DEF SubStates
  <1> HIDE DEF y, C
  <1>5. Returns(x, y) /\ Traced(y)
    BY <1>3, UntouchedMoves DEF Moves
  <1>6. Untouched(y, z) /\ Typed(z)
    BY <1>3, StateUntouched, DpbStill DEF Still, Tame
  <1> HIDE DEF z
  <1>7. Untouched(z, u) /\ Typed(u)
    BY <1>4, <1>6, StateUntouched, StateStill DEF Still, Tame
  <1> HIDE DEF u
  <1>8. Untouched(x, u)
    BY <1>3, <1>6, <1>7, UntouchedMoves
  <1>9. Returns(x, u) /\ Returns(x, x)
    BY <1>7, <1>8, UntouchedMoves
  <1>10. Returns(x, ArmDrc(y))
    BY <1>1, <1>3, <1>5, ComposeReturns
  <1>11. QED
    BY <1>2, <1>9, <1>10

(* A buffer that is taken back, from a session that has it no longer.      *)
LEMMA TakenBack ==
  ASSUME NEW x, Typed(x), Traced(x), NEW b \in Bufs, b \notin Lent(x), NEW y, Typed(y),
         y.inq = x.inq, y.outs = x.outs, y.msgs = x.msgs, y.held = x.held,
         y.own = [x.own EXCEPT ![b] = "user"], y.attr = [x.attr EXCEPT ![b] = "done"]
  PROVE  Traced(y) /\ (Marked(x) \subseteq Lent(x) \cup {b} => Exact(y))
  <1>1. x.own \in [Bufs -> {"user", "prepared", "active"}]
        /\ x.attr \in [Bufs -> {"none", "deferred", "queued", "done"}]
    BY DEF Typed
  <1>2. Marked(y) = Marked(x) \ {b}
    BY <1>1 DEF Marked
  <1>3. Lent(y) = Lent(x) /\ InHand(y) = InHand(x)
    BY DEF Lent, InHand
  <1>4. QED
    BY <1>2, <1>3 DEF Traced, Exact

(* The firmware's buffer is the one marked: it goes to userspace.          *)
LEMMA FrameReturns ==
  ASSUME NEW x0, Typed(x0), Traced(x0), codec = "H264", NEW m \in Message, m.type = "ftb",
         ~m.bad, m.buf \notin Lent(x0), m.buf \in Marked(x0)
  PROVE  LET x == IF m.eos /\ m.pic = "empty" THEN DrainArm(x0) ELSE x0
             y == FtbDone(x0, m)
         IN /\ Returns(x0, x) /\ Typed(x) /\ Traced(x) /\ y = FillDone(x, m)
            /\ Typed(y) /\ Traced(y)
            /\ Marked(x0) \subseteq Lent(x0) \cup {m.buf} => Exact(y)
            /\ y.inq = x.inq /\ y.outs = x.outs /\ y.msgs = x.msgs /\ y.state = x.state
  <1> DEFINE x == IF m.eos /\ m.pic = "empty" THEN DrainArm(x0) ELSE x0
             y == [x EXCEPT !.attr[m.buf] = "done", !.drops = IF m.pic = "empty" THEN @ ELSE 0]
             f == FtbDone(x0, m)
  <1>1. Returns(x0, x) /\ Lent(x) = Lent(x0) /\ x.own = x0.own /\ x.attr = x0.attr
    <2>1. Returns(x0, x0)
      BY UntouchedMoves
    <2>2. QED
      BY <2>1, DrainReturns
  <1>2. Typed(x) /\ Traced(x)
    BY <1>1 DEF Returns, Moves
  <1>3. m.buf \in OutBufs /\ m.buf \in Bufs
    BY Letters DEF Bufs
  <1>4. f \in {Unmatched(x), FillDone(SettleHeld(x, m), m)}
        /\ (x.own[m.buf] = "active" /\ x.attr[m.buf] = "queued" /\ ~SettleFails(x, m) =>
              f = FillDone(SettleHeld(x, m), m))
    <2>1. ~SettleFails(x, m)
      BY <1>2 DEF SettleFails, Traced
    <2> HIDE DEF x
    <2>2. f = IF x.own[m.buf] # "active" \/ x.attr[m.buf] # "queued" THEN Unmatched(x)
              ELSE IF SettleFails(x, m)
              THEN Unmatched([x EXCEPT !.held = None, !.last = @ \/ Terminal(x, m)])
              ELSE FillDone(SettleHeld(x, m), m)
      BY DEF FtbDone, x
    <2>3. QED
      BY <2>1, <2>2
  <1> HIDE DEF x
  <1>5. ~SettleFails(x, m) /\ SettleHeld(x, m) = x
    BY <1>2 DEF Traced, SettleFails, SettleHeld
  <1>6. x.own[m.buf] = "active" /\ x.attr[m.buf] = "queued"
    BY <1>1 DEF Marked
  <1>7. f = FillDone(x, m)
    BY <1>4, <1>5, <1>6
  <1>8. \E what : f = DoneCapture(y, m.buf, what)
    BY <1>7 DEF FillDone
  <1>9. /\ y.own = x.own /\ y.attr = [x.attr EXCEPT ![m.buf] = "done"] /\ y.inq = x.inq
        /\ y.outs = x.outs /\ y.msgs = x.msgs /\ y.held = x.held /\ y.state = x.state
        /\ DOMAIN y = Fields
    BY <1>2 DEF Typed, Fields
  <1> HIDE DEF y
  <1>10. /\ f.own = [x.own EXCEPT ![m.buf] = "user"] /\ f.attr = y.attr /\ f.inq = x.inq
         /\ f.outs = x.outs /\ f.msgs = x.msgs /\ f.held = x.held /\ f.state = x.state
    BY <1>8, <1>9 DEF DoneCapture, Fields
  <1>11. Typed(f)
    BY <1>3, FrameStirs DEF Stirs, Tame
  <1> HIDE DEF f
  <1>12. Traced(f) /\ (Marked(x) \subseteq Lent(x) \cup {m.buf} => Exact(f))
    BY <1>1, <1>2, <1>3, <1>9, <1>10, <1>11, TakenBack
  <1>13. Marked(x) = Marked(x0)
    BY <1>1 DEF Marked
  <1>14. QED
    BY <1>1, <1>2, <1>7, <1>10, <1>11, <1>12, <1>13 DEF x, f

(* An input buffer, likewise.                                              *)
LEMMA EmptyReturns ==
  ASSUME NEW x, Typed(x), Traced(x), NEW m \in Message, m.type = "etb", m.buf # Eos,
         m.buf \notin Lent(x), m.buf \in Marked(x)
  PROVE  LET y == EtbDone(x, m)
         IN /\ Typed(y) /\ Traced(y)
            /\ Marked(x) \subseteq Lent(x) \cup {m.buf} => Exact(y)
            /\ y.inq = x.inq /\ y.outs = x.outs /\ y.msgs = x.msgs
            /\ m.ok => y.state = x.state
  <1> DEFINE u == IF m.ok THEN x ELSE Fail(x)
             y == [u EXCEPT !.attr[m.buf] = "done", !.own[m.buf] = "user"]
             f == EtbDone(x, m)
  <1>1. m.buf \in InBufs /\ m.buf \in Bufs
    BY Letters DEF Bufs
  <1>2. /\ u.own = x.own /\ u.attr = x.attr /\ u.inq = x.inq /\ u.outs = x.outs
        /\ u.msgs = x.msgs /\ u.held = x.held /\ DOMAIN u = Fields /\ (m.ok => u.state = x.state)
    BY StateUntouched DEF Typed, Untouched
  <1>3. f = y
    BY <1>2 DEF EtbDone, Marked
  <1> HIDE DEF u
  <1>4. /\ y.own = [x.own EXCEPT ![m.buf] = "user"] /\ y.attr = [x.attr EXCEPT ![m.buf] = "done"]
        /\ y.inq = x.inq /\ y.outs = x.outs /\ y.msgs = x.msgs /\ y.held = x.held
        /\ y.state = u.state
    BY <1>2 DEF Fields
  <1>5. Typed(f)
    BY <1>1, EmptyStill DEF Still, Tame
  <1> HIDE DEF y, f
  <1>6. Traced(f) /\ (Marked(x) \subseteq Lent(x) \cup {m.buf} => Exact(f))
    BY <1>1, <1>3, <1>4, <1>5, TakenBack
  <1>7. QED
    BY <1>2, <1>3, <1>4, <1>5, <1>6 DEF f

(* A message handled, once it is off the queue.                            *)
LEMMA HandleReturns ==
  ASSUME NEW x, Typed(x), Traced(x), codec = "H264", NEW m \in Message,
         m.type = "ftb" => ~m.bad, Bears(m) \cap Lent(x) = {}, Bears(m) \subseteq Marked(x)
  PROVE  LET y == Handle(x, m)
         IN /\ Typed(y) /\ Traced(y) /\ y.up = x.up
            /\ Marked(x) \subseteq Lent(x) \cup Bears(m) => Exact(y)
            /\ y.inq = x.inq /\ y.outs \subseteq x.outs
            /\ \E d : GivesBack(x, y, d)
  <1> DEFINE y == Handle(x, m)
  <1>1. y.up = x.up
    <2>1. CASE m.type = "flush"
      BY <2>1, AnswerTypes DEF Handle, Tame
    <2>2. CASE m.type = "answer"
      BY <2>2, AnswerTypes DEF Handle
    <2>3. CASE m.type \notin {"answer", "flush"}
      BY <2>3, HandleStirs DEF Stirs, Tame
    <2>4. QED
      BY <2>1, <2>2, <2>3
  <1>2. x.msgs \in Seq(Message) /\ x.msgs \o << >> = x.msgs
    <2>1. x.msgs \in Seq(Message)
      BY DEF Typed
    <2>2. QED
      BY <2>1, ConcatEmptySeq
  <1>3. ASSUME Returns(x, y), Bears(m) = {}
        PROVE  /\ Typed(y) /\ Traced(y) /\ (Marked(x) \subseteq Lent(x) => Exact(y))
               /\ y.inq = x.inq /\ y.outs \subseteq x.outs /\ \E d : GivesBack(x, y, d)
    BY <1>3 DEF Returns, Moves, Exact
  <1>4. CASE m.type = "etb"
    <2>1. y = EtbDone(x, m) /\ m.buf \in InBufs \cup {Eos}
      BY <1>4, Letters DEF Handle
    <2>2. CASE m.buf = Eos
      <3>1. y = x /\ Bears(m) = {}
        BY <1>4, <2>1, <2>2, StreamAssumption DEF EtbDone, Bears
      <3>2. Returns(x, y)
        BY <3>1, UntouchedMoves
      <3>3. QED
        BY <1>1, <1>3, <3>1, <3>2
    <2>3. CASE m.buf # Eos
      <3>1. Bears(m) = {m.buf}
        BY <1>4, <2>1, <2>3 DEF Bears, Bufs
      <3> HIDE DEF y
      <3>2. /\ Typed(y) /\ Traced(y) /\ (Marked(x) \subseteq Lent(x) \cup {m.buf} => Exact(y))
            /\ y.inq = x.inq /\ y.outs = x.outs /\ y.msgs = x.msgs
        BY <1>4, <2>1, <2>3, <3>1, EmptyReturns
      <3>3. GivesBack(x, y, << >>)
        BY <1>2, <3>2 DEF GivesBack, Ahead, Free
      <3>4. QED
        BY <1>1, <3>1, <3>2, <3>3 DEF y
    <2>4. QED
      BY <2>2, <2>3
  <1>5. CASE m.type = "ftb"
    <2> DEFINE z == IF m.eos /\ m.pic = "empty" THEN DrainArm(x) ELSE x
    <2>1. y = FtbDone(x, m) /\ m.buf \in OutBufs
      BY <1>5, Letters DEF Handle
    <2>2. Bears(m) = {m.buf}
      BY <1>5, <2>1 DEF Bears, Bufs
    <2>3. /\ Returns(x, z) /\ Typed(y) /\ Traced(y)
          /\ Marked(x) \subseteq Lent(x) \cup {m.buf} => Exact(y)
          /\ y.inq = z.inq /\ y.outs = z.outs /\ y.msgs = z.msgs
      BY <1>5, <2>1, <2>2, FrameReturns
    <2> HIDE DEF y, z
    <2>4. PICK d : GivesBack(x, z, d)
      BY <2>3 DEF Returns
    <2>5. GivesBack(x, y, d)
      BY <2>3, <2>4 DEF GivesBack
    <2>6. y.inq = x.inq /\ y.outs \subseteq x.outs
      BY <2>3 DEF Returns
    <2>7. QED
      BY <1>1, <2>2, <2>3, <2>5, <2>6 DEF y
  <1>6. CASE m.type \notin {"etb", "ftb"}
    <2>1. Bears(m) = {}
      BY <1>6 DEF Bears
    <2>2. CASE m.type = "seq"
      <3>1. Returns(x, y)
        BY <2>2, SequenceReturns DEF Handle
      <3>2. QED
        BY <1>1, <1>3, <2>1, <3>1
    <2>3. CASE m.type # "seq"
      <3>1. Untouched(x, y) /\ Typed(y)
        <4>1. CASE m.type = "dpb"
          BY <4>1, StateUntouched, DpbDoneStill DEF Handle, Still, Tame
        <4>2. CASE m.type = "error"
          BY <4>2, StateUntouched, StateStill DEF Handle, Still, Tame
        <4>3. CASE m.type = "flush"
          <5> DEFINE f == IF m.ok THEN x ELSE Fail(x)
                     u == [f EXCEPT !.flushes = @ - 1]
                     v == [u EXCEPT !.flushed = @ + 1]
          <5>1. y = (IF u.flushes = 0 THEN v ELSE u) /\ Typed(y)
            BY <4>3, AnswerTypes DEF Handle, FlushDone, Tame
          <5>2. Untouched(x, f)
            BY StateUntouched, UntouchedMoves
          <5> HIDE DEF f
          <5>3. Untouched(f, u)
            BY DEF Untouched, Fields
          <5> HIDE DEF u
          <5>4. Untouched(u, v) /\ Untouched(u, u)
            BY DEF Untouched, Fields
          <5> HIDE DEF v, y
          <5>5. QED
            BY <5>1, <5>2, <5>3, <5>4, UntouchedMoves
        <4>4. CASE m.type = "answer"
          <5> DEFINE f == IF m.ok THEN x ELSE Fail(x)
                     u == [f EXCEPT !.resp = IF @ < MaxDone THEN @ + 1 ELSE @]
          <5>1. y = u /\ Typed(y)
            BY <4>4, AnswerTypes DEF Handle, AnswerDone
          <5>2. Untouched(x, f)
            BY StateUntouched, UntouchedMoves
          <5> HIDE DEF f, y
          <5>3. Untouched(f, u)
            BY DEF Untouched, Fields
          <5> HIDE DEF u
          <5>4. QED
            BY <5>1, <5>2, <5>3, UntouchedMoves
        <4>5. QED
          BY <1>6, <2>3, <4>1, <4>2, <4>3, <4>4, Letters
      <3> HIDE DEF y
      <3>2. Returns(x, y)
        BY <3>1, UntouchedMoves
      <3>3. QED
        BY <1>1, <1>3, <2>1, <3>2 DEF y
    <2>4. QED
      BY <2>2, <2>3
  <1>7. QED
    BY <1>4, <1>5, <1>6

-----------------------------------------------------------------------------
(* What an instance that works may rely on of its buffers: between the     *)
(* firmware and the driver each has one place, and the mark says so.  In   *)
(* the wait of a STREAMOFF for its flush what the queue gets back is ahead *)
(* of the answer, and so it is with the answer to STOP.                    *)
Returning(plane) == IF plane = "OUTPUT" THEN {"etb", "ftb"} ELSE {"ftb"}

Lends(x, at, plane) ==
  Serves(x) /\ x.up =>
    /\ Traced(x)
    /\ at \notin {"stop", "unload", "end"} => Exact(x)
    /\ at \in {"flush", "stop", "unload", "end"} => x.outs = {}
    /\ at = "flush" =>
         /\ plane = "OUTPUT" => x.inq = << >>
         /\ Ahead(x.msgs, Returning(plane), "flush")
    /\ at \in {"stop", "unload", "end"} => x.inq = << >>
    /\ at = "stop" => Ahead(x.msgs, {"etb", "ftb"}, "answer")
    /\ at \in {"unload", "end"} => Free(x.msgs)

(* Messages that come behind others.                                       *)
LEMMA JoinedFree ==
  ASSUME NEW p \in Seq(Message), NEW d \in Seq(Message), Free(d)
  PROVE  /\ Free(p) => Free(p \o d)
         /\ \A T : Ahead(p, {"etb", "ftb"}, T) => Ahead(p \o d, {"etb", "ftb"}, T)
  <1>1. \A T : Ahead(d, {"etb", "ftb"}, T)
    BY DEF Free, Ahead
  <1>2. \A T : Ahead(p, {"etb", "ftb"}, T) => Ahead(p \o d, {"etb", "ftb"}, T)
    BY <1>1, CarriedJoined
  <1>3. ASSUME Free(p)
        PROVE  Free(p \o d)
    <2>1. \A k \in DOMAIN (p \o d) : \/ k \in DOMAIN p /\ (p \o d)[k] = p[k]
                                     \/ k - Len(p) \in DOMAIN d /\ (p \o d)[k] = d[k - Len(p)]
      OBVIOUS
    <2>2. QED
      BY <1>3, <2>1 DEF Free
  <1>4. QED
    BY <1>2, <1>3

(* The interrupt thread.                                                   *)
LEMMA LendsInterrupt ==
  ASSUME Typed(s), Lends(s, queue.at, queue.plane), codec = "H264", Interrupt
  PROVE  Lends(s', queue'.at, queue'.plane)
  <1> DEFINE m == Head(s.msgs)
             t == Tail(s.msgs)
             x == [s EXCEPT !.msgs = t]
             y == Handle(x, m)
             at == queue.at
             plane == queue.plane
  <1>1. s' = y /\ queue' = queue /\ s.msgs # << >>
    BY DEF Interrupt
  <1>2. m \in Message /\ t \in Seq(Message) /\ DOMAIN t = 1..Len(t) /\ Len(t) \in Nat
        /\ \A k \in DOMAIN t : k + 1 \in DOMAIN s.msgs /\ t[k] = s.msgs[k + 1]
    BY <1>1, NextMessage
  <1>3. /\ Clean(s.msgs) => Clean(t) /\ (m.type = "ftb" => ~m.bad)
        /\ Carried(s.msgs) = Carried(t) \cup Bears(m)
        /\ Sole(s.msgs) => Sole(t) /\ (m.type \in {"etb", "ftb"} => m.buf \notin Carried(t))
        /\ \A K, T : Ahead(s.msgs, K, T) => Ahead(t, K, T)
    BY <1>1, CarriedTail
  <1> HIDE DEF m, t
  <1>4. Typed(x)
    BY <1>2 DEF Typed, Fields
  <1>5. /\ x.msgs = t /\ x.up = s.up /\ x.state = s.state /\ x.inq = s.inq /\ x.outs = s.outs
        /\ x.own = s.own /\ x.attr = s.attr /\ x.held = s.held
    BY DEF Typed, Fields
  <1> HIDE DEF x
  <1>6. y.state \in {x.state, "ERROR"}
    <2>1. Sound(x) /\ m.type \in {"answer", "etb", "ftb", "dpb", "flush", "seq", "error"}
      BY <1>2, <1>4, Letters DEF Sound, Typed
    <2>2. QED
      BY <2>1, HandleKeeps DEF Keeps
  <1> SUFFICES ASSUME Serves(y), y.up, Serves(s)
               PROVE  Lends(y, at, plane)
    BY <1>1, <1>5, <1>6 DEF Lends, Serves
  <1>7. y.up = x.up
    <2>1. CASE m.type = "flush"
      BY <1>4, <2>1, AnswerTypes DEF Handle, Tame
    <2>2. CASE m.type = "answer"
      BY <1>4, <2>2, AnswerTypes DEF Handle
    <2>3. CASE m.type \notin {"answer", "flush"}
      <3>1. Stirs(x, y)
        BY <1>2, <2>3, HandleStirs
      <3> HIDE DEF y
      <3>2. QED
        BY <1>4, <3>1 DEF Stirs, Tame
    <2>4. QED
      BY <2>1, <2>2, <2>3
  <1>8. /\ Traced(s) /\ (at \notin {"stop", "unload", "end"} => Exact(s))
        /\ at \in {"flush", "stop", "unload", "end"} => s.outs = {}
        /\ at = "flush" =>
             /\ plane = "OUTPUT" => s.inq = << >>
             /\ Ahead(s.msgs, Returning(plane), "flush")
        /\ at \in {"stop", "unload", "end"} => s.inq = << >>
        /\ at = "stop" => Ahead(s.msgs, {"etb", "ftb"}, "answer")
        /\ at \in {"unload", "end"} => Free(s.msgs)
    BY <1>5, <1>7 DEF Lends
  <1>9. InHand(x) = InHand(s) /\ Marked(x) = Marked(s) /\ Lent(x) = InHand(s) \cup Carried(t)
        /\ Lent(s) = Lent(x) \cup Bears(m)
    BY <1>3, <1>5 DEF InHand, Marked, Lent
  <1>10. Traced(x)
    BY <1>3, <1>5, <1>8, <1>9 DEF Traced
  <1>11. Bears(m) \cap Lent(x) = {} /\ Bears(m) \subseteq Marked(x)
    <2>1. Bears(m) \cap Carried(t) = {}
      BY <1>3, <1>8 DEF Traced, Bears
    <2>2. QED
      BY <1>3, <1>8, <1>9, <2>1 DEF Traced
  <1>12. /\ Typed(y) /\ Traced(y)
         /\ Marked(x) \subseteq Lent(x) \cup Bears(m) => Exact(y)
         /\ y.inq = x.inq /\ y.outs \subseteq x.outs
         /\ \E d : GivesBack(x, y, d)
    BY <1>2, <1>3, <1>4, <1>8, <1>10, <1>11, HandleReturns DEF Traced
  <1> HIDE DEF y
  <1>13. PICK d : GivesBack(x, y, d)
    BY <1>12
  <1>14. y.msgs = t \o d /\ d \in Seq(Message) /\ Ahead(d, {"etb", "ftb"}, "flush")
         /\ (s.outs = {} => Free(d))
    BY <1>5, <1>13 DEF GivesBack
  <1>15. at \notin {"stop", "unload", "end"} => Exact(y)
    BY <1>8, <1>9, <1>12 DEF Exact
  <1>16. at = "flush" => Ahead(y.msgs, Returning(plane), "flush")
    <2> SUFFICES ASSUME at = "flush" PROVE Ahead(y.msgs, Returning(plane), "flush")
      OBVIOUS
    <2>1. Ahead(t, Returning(plane), "flush")
      BY <1>3, <1>8
    <2>2. Ahead(d, Returning(plane), "flush")
      BY <1>14 DEF Ahead, Returning
    <2>3. QED
      BY <1>2, <1>14, <2>1, <2>2, CarriedJoined
  <1>17. at = "stop" => Ahead(y.msgs, {"etb", "ftb"}, "answer")
    BY <1>2, <1>3, <1>8, <1>14, JoinedFree
  <1>18. at \in {"unload", "end"} => Free(y.msgs)
    <2>1. Free(s.msgs) => Free(t)
      BY <1>2 DEF Free
    <2>2. QED
      BY <1>2, <1>8, <1>14, <2>1, JoinedFree
  <1>19. QED
    BY <1>5, <1>8, <1>12, <1>15, <1>16, <1>17, <1>18 DEF Lends

-----------------------------------------------------------------------------
(* The firmware: what it uses it gives back.                               *)
LEMMA CarriedPair ==
  ASSUME NEW m \in Message, NEW n \in Message, Bears(m) \cap Bears(n) = {},
         m.type = "ftb" => ~m.bad, n.type = "ftb" => ~n.bad
  PROVE  /\ <<m, n>> \in Seq(Message) /\ Carried(<<m, n>>) = Bears(m) \cup Bears(n)
         /\ Sole(<<m, n>>) /\ Clean(<<m, n>>)
  <1> DEFINE q == <<m, n>>
  <1>1. DOMAIN q = {1, 2} /\ q[1] = m /\ q[2] = n /\ q \in Seq(Message)
    OBVIOUS
  <1> HIDE DEF q
  <1>2. Clean(q)
    BY <1>1 DEF Clean
  <1>3. Carried(q) = Bears(m) \cup Bears(n)
    BY <1>1 DEF Carried, Carriers, Bears
  <1>4. Sole(q)
    <2>1. \A k \in Carriers(q) : \/ k = 1 /\ q[k].buf \in Bears(m)
                                 \/ k = 2 /\ q[k].buf \in Bears(n)
      BY <1>1 DEF Carriers, Bears
    <2>2. QED
      BY <2>1 DEF Sole
  <1>5. QED
    BY <1>1, <1>2, <1>3, <1>4 DEF q

LEMMA InputTaken ==
  ASSUME NEW q \in Seq(InBufs \cup {Eos}), q # << >>,
         \A j, k \in DOMAIN q : q[j] = q[k] /\ q[j] \in Bufs => j = k
  PROVE  LET t == Tail(q)
         IN /\ \A j, k \in DOMAIN t : t[j] = t[k] /\ t[j] \in Bufs => j = k
            /\ {b \in Bufs : \E k \in DOMAIN t : t[k] = b}
                 = {b \in Bufs : \E k \in DOMAIN q : q[k] = b} \ {Head(q)}
            /\ \E k \in DOMAIN q : q[k] = Head(q)
  <1> DEFINE t == Tail(q)
  <1>1. /\ DOMAIN q = 1..Len(q) /\ DOMAIN t = 1..Len(t) /\ Len(q) = Len(t) + 1 /\ Len(t) \in Nat
        /\ Head(q) = q[1] /\ \A k \in 1..Len(t) : t[k] = q[k + 1]
    OBVIOUS
  <1> HIDE DEF t
  <1>2. 1 \in DOMAIN q /\ \A k \in DOMAIN t : k \in Nat /\ k + 1 \in DOMAIN q /\ k + 1 # 1
    BY <1>1
  <1>3. \A k \in DOMAIN q : k = 1 \/ (k - 1 \in DOMAIN t /\ t[k - 1] = q[k])
    <2> TAKE k \in DOMAIN q
    <2>1. k # 1 => k - 1 \in 1..Len(t) /\ (k - 1) + 1 = k
      BY <1>1
    <2>2. QED
      BY <1>1, <2>1
  <1>4. \A j, k \in DOMAIN t : j + 1 = k + 1 => j = k
    BY <1>2
  <1>5. \A j, k \in DOMAIN t : t[j] = t[k] /\ t[j] \in Bufs => j = k
    BY <1>1, <1>2, <1>4
  <1>6. \A b \in Bufs : (\E k \in DOMAIN t : t[k] = b) => (\E k \in DOMAIN q : q[k] = b)
    BY <1>1, <1>2
  <1>7. \A b \in Bufs : (\E k \in DOMAIN t : t[k] = b) => b # Head(q)
    BY <1>1, <1>2
  <1>8. \A b \in Bufs : (\E k \in DOMAIN q : q[k] = b) /\ b # Head(q) =>
                          (\E k \in DOMAIN t : t[k] = b)
    BY <1>1, <1>3
  <1>9. \E k \in DOMAIN q : q[k] = Head(q)
    BY <1>1, <1>2
  <1>10. QED
    BY <1>5, <1>6, <1>7, <1>8, <1>9 DEF t

(* What a step sends, while nobody waits for the firmware to be empty.     *)
LEMMA LendsSent ==
  ASSUME NEW at, NEW plane, NEW x, Typed(x), Lends(x, at, plane), NEW y, NEW d \in Seq(Message),
         Serves(y) => Serves(x), y.up = x.up,
         y.msgs = x.msgs \o d, y.held = x.held, y.own = x.own, y.attr = x.attr,
         x.up => Sole(d) /\ Clean(d),
         Traced(x) =>
           /\ \A j, k \in DOMAIN y.inq : y.inq[j] = y.inq[k] /\ y.inq[j] \in Bufs => j = k
           /\ InHand(y) \cup Carried(d) = InHand(x) /\ InHand(y) \cap Carried(d) = {},
         y.outs \subseteq x.outs, x.inq = << >> => y.inq = << >>,
         \/ Free(d)
         \/ /\ at \notin {"stop", "unload", "end"}
            /\ at = "flush" => \A k \in DOMAIN d : d[k].type \notin Returning(plane)
  PROVE  Lends(y, at, plane)
  <1> SUFFICES ASSUME Serves(y), y.up PROVE Lends(y, at, plane)
    BY DEF Lends
  <1>1. Serves(x) /\ x.up /\ x.msgs \in Seq(Message)
    BY DEF Typed
  <1>2. Traced(x)
    BY <1>1 DEF Lends
  <1>3. Traced(y) /\ (Exact(x) => Exact(y))
    BY <1>1, <1>2, HandedBack
  <1>4. at = "flush" => Ahead(y.msgs, Returning(plane), "flush")
    <2> SUFFICES ASSUME at = "flush" PROVE Ahead(y.msgs, Returning(plane), "flush")
      OBVIOUS
    <2>1. Ahead(x.msgs, Returning(plane), "flush")
      BY <1>1 DEF Lends
    <2>2. Ahead(d, Returning(plane), "flush")
      BY DEF Ahead, Free, Returning
    <2>3. QED
      BY <1>1, <2>1, <2>2, CarriedJoined
  <1>5. at \in {"stop", "unload", "end"} => Free(d)
    OBVIOUS
  <1>6. at = "stop" => Ahead(y.msgs, {"etb", "ftb"}, "answer")
    BY <1>1, <1>5, JoinedFree DEF Lends
  <1>7. at \in {"unload", "end"} => Free(y.msgs)
    BY <1>1, <1>5, JoinedFree DEF Lends
  <1>8. y.outs = {} \/ x.outs # {}
    OBVIOUS
  <1>9. QED
    BY <1>1, <1>3, <1>4, <1>6, <1>7, <1>8 DEF Lends

(* Something that is no buffer.                                            *)
LEMMA LendsTold ==
  ASSUME NEW at, NEW plane, NEW x, Typed(x), Lends(x, at, plane), NEW m \in Message,
         m.type \notin {"etb", "ftb"}, NEW y,
         y.msgs = x.msgs \o <<m>>, y.held = x.held, y.own = x.own, y.attr = x.attr,
         y.inq = x.inq, y.outs = x.outs, y.up = x.up, Serves(y) => Serves(x)
  PROVE  Lends(y, at, plane)
  <1> DEFINE d == <<m>>
  <1>1. d \in Seq(Message) /\ Carried(d) = {} /\ Sole(d) /\ Clean(d)
    BY CarriedOne DEF Bears
  <1>2. Free(d)
    <2>1. DOMAIN d = {1} /\ d[1] = m
      OBVIOUS
    <2>2. QED
      BY <2>1 DEF Free
  <1>3. y.msgs = x.msgs \o d
    OBVIOUS
  <1> HIDE DEF d
  <1>4. InHand(y) = InHand(x)
    BY DEF InHand
  <1>5. QED
    BY <1>1, <1>2, <1>3, <1>4, LendsSent DEF Traced

(* It works on an input buffer.                                            *)
LEMMA LendsUsed ==
  ASSUME NEW at, NEW plane, at \notin {"stop", "unload", "end"},
         NEW x, Typed(x), Lends(x, at, plane), x.inq # << >>,
         NEW d \in Seq(Message), Sole(d), Clean(d), NEW o \in SUBSET x.outs,
         Carried(d) = ({Head(x.inq)} \cap Bufs) \cup o,
         at = "flush" => \A k \in DOMAIN d : d[k].type \notin Returning(plane)
  PROVE  Lends(Used(x, o, d), at, plane)
  <1> DEFINE y == Used(x, o, d)
  <1>1. /\ y.msgs = x.msgs \o d /\ y.up = x.up /\ y.state = x.state /\ y.own = x.own
        /\ y.inq = Tail(x.inq) /\ y.outs = x.outs \ o /\ y.held = x.held /\ y.attr = x.attr
    BY DEF Used, Typed, Fields
  <1> HIDE DEF y
  <1>2. x.inq \in Seq(InBufs \cup {Eos}) /\ x.outs \subseteq OutBufs
    BY DEF Typed
  <1> DEFINE I == {b \in Bufs : \E k \in DOMAIN x.inq : x.inq[k] = b}
             J == {b \in Bufs : \E k \in DOMAIN y.inq : y.inq[k] = b}
  <1>3. Traced(x) =>
          /\ \A j, k \in DOMAIN y.inq : y.inq[j] = y.inq[k] /\ y.inq[j] \in Bufs => j = k
          /\ J = I \ {Head(x.inq)} /\ \E k \in DOMAIN x.inq : x.inq[k] = Head(x.inq)
    <2> SUFFICES ASSUME Traced(x)
                 PROVE /\ \A j, k \in DOMAIN y.inq :
                            y.inq[j] = y.inq[k] /\ y.inq[j] \in Bufs => j = k
                       /\ J = I \ {Head(x.inq)} /\ \E k \in DOMAIN x.inq : x.inq[k] = Head(x.inq)
      OBVIOUS
    <2> DEFINE q == x.inq
    <2>1. /\ q \in Seq(InBufs \cup {Eos}) /\ q # << >>
          /\ \A j, k \in DOMAIN q : q[j] = q[k] /\ q[j] \in Bufs => j = k
      BY <1>2 DEF Traced
    <2>2. /\ y.inq = Tail(q) /\ I = {b \in Bufs : \E k \in DOMAIN q : q[k] = b}
          /\ Head(q) = Head(x.inq) /\ q = x.inq
      BY <1>1
    <2> HIDE DEF q, I
    <2>3. LET t == Tail(q)
          IN /\ \A j, k \in DOMAIN t : t[j] = t[k] /\ t[j] \in Bufs => j = k
             /\ {b \in Bufs : \E k \in DOMAIN t : t[k] = b}
                  = {b \in Bufs : \E k \in DOMAIN q : q[k] = b} \ {Head(q)}
             /\ \E k \in DOMAIN q : q[k] = Head(q)
      BY <2>1, InputTaken
    <2>4. QED
      BY <2>2, <2>3
  <1>4. I \cap x.outs = {}
    <2>1. \A k \in DOMAIN x.inq : x.inq[k] \in InBufs \cup {Eos}
      BY <1>2
    <2>2. QED
      BY <1>2, <2>1, StreamAssumption DEF Bufs
  <1>5. InHand(x) = I \cup x.outs /\ InHand(y) = J \cup (x.outs \ o)
    BY <1>1, <1>2 DEF InHand, Bufs
  <1>6. Traced(x) => {Head(x.inq)} \cap Bufs \subseteq I
    BY <1>3
  <1> HIDE DEF I, J
  <1>7. Traced(x) =>
          InHand(y) \cup Carried(d) = InHand(x) /\ InHand(y) \cap Carried(d) = {}
    <2> SUFFICES ASSUME Traced(x)
                 PROVE  InHand(y) \cup Carried(d) = InHand(x) /\ InHand(y) \cap Carried(d) = {}
      OBVIOUS
    <2> DEFINE h == {Head(x.inq)} \cap Bufs
    <2>1. J = I \ h /\ h \subseteq I /\ Carried(d) = h \cup o
      <3>1. J \subseteq Bufs /\ I \subseteq Bufs
        BY DEF I, J
      <3>2. QED
        BY <1>3, <1>6, <3>1
    <2> HIDE DEF h
    <2>2. QED
      BY <1>4, <1>5, <2>1
  <1>8. QED
    BY <1>1, <1>3, <1>7, LendsSent DEF Serves, y

(* The faults that are counted.                                            *)
Budgeted == budget \in [ons : Nat, stops : Nat, changes : Nat, faults : Nat]

Plain == budget.faults = 0 \/ "corrupt" \notin Events

LEMMA BudgetSteps ==
  ASSUME Budgeted, [Next]_vars
  PROVE  /\ Budgeted' /\ (Plain' => Plain)
         /\ budget'.faults = 0 => budget.faults = 0
  <1>1. ASSUME \/ UNCHANGED budget
               \/ budget' = [budget EXCEPT !.ons = @ + 1]
               \/ budget' = [budget EXCEPT !.stops = @ + 1]
               \/ budget' = [budget EXCEPT !.changes = @ + 1]
               \/ budget' = [budget EXCEPT !.faults = @ + 1]
        PROVE  /\ Budgeted' /\ (Plain' => Plain)
               /\ budget'.faults = 0 => budget.faults = 0
    <2>1. Budgeted' /\ (budget'.faults = 0 => budget.faults = 0)
      BY <1>1 DEF Budgeted
    <2>2. QED
      BY <2>1 DEF Plain
  <1>2. CASE Client
    BY <1>1, <1>2 DEF Client, QBuf, QBufEmpty, StreamOn, StreamOff, DecoderStop, DecoderStart, Charge
  <1>3. CASE Driver
    BY <1>1, <1>3 DEF Driver, Enqueue, StartStreaming, PropsAnswered, LoadAnswered, StartAnswered,
                      ConfigAnswered, ReleaseAnswered, StreamonExpires, ReleaseExpires, StopStreaming,
                      FlushAnswered, FlushExpires, StopEnds, UnloadEnds, EndAnswered, EndExpires,
                      DecoderStartWakes, Expires, Charge
  <1>4. CASE Interrupt \/ Firmware \/ Fault
    BY <1>1, <1>4 DEF Interrupt, Firmware, FwSequence, FwPicture, FwSuperframe, FwEndOfStream,
                      Fault, Hang, SessionError, Reject, Unsupported, Charge
  <1>5. CASE UNCHANGED vars
    BY <1>1, <1>5 DEF vars
  <1>6. QED
    BY <1>2, <1>3, <1>4, <1>5 DEF Next

(* The last message refused.                                               *)
LEMMA LendsRejected ==
  ASSUME NEW at, NEW plane, NEW x, Typed(x), Lends(x, at, plane), x.msgs # << >>,
         Last(x.msgs).type \in {"answer", "flush"},
         NEW y, y = [x EXCEPT !.msgs[Len(x.msgs)].ok = FALSE]
  PROVE  Lends(y, at, plane)
  <1> DEFINE p == x.msgs
             q == y.msgs
             n == Len(p)
             l == p[n]
  <1>1. p \in Seq(Message) /\ DOMAIN p = 1..n /\ n \in DOMAIN p /\ l.type \in {"answer", "flush"}
    BY DEF Typed, Last
  <1>2. q = [p EXCEPT ![n] = [l EXCEPT !.ok = FALSE]]
        /\ y.state = x.state /\ y.up = x.up /\ y.inq = x.inq /\ y.outs = x.outs
        /\ y.own = x.own /\ y.attr = x.attr /\ y.held = x.held
    BY DEF Typed, Fields
  <1> HIDE DEF p, q
  <1>3. [l EXCEPT !.ok = FALSE].type = l.type
    <2>1. l \in Message
      BY <1>1
    <2>2. DOMAIN l \in {{"type", "ok"}, {"type", "cmd", "ok"}}
      BY <1>1, <2>1 DEF Message, CalmMessage
    <2>3. QED
      BY <2>2
  <1>4. DOMAIN q = DOMAIN p /\ \A k \in DOMAIN p : q[k].type = p[k].type /\ (k # n => q[k] = p[k])
    BY <1>1, <1>2, <1>3
  <1> HIDE DEF l, n
  <1>5. \A k \in DOMAIN p : p[k].type \in {"etb", "ftb"} => q[k] = p[k]
    BY <1>1, <1>4 DEF l
  <1>6. Carriers(q) = Carriers(p) /\ \A k \in Carriers(p) : q[k] = p[k]
    BY <1>4, <1>5 DEF Carriers
  <1>7. Carried(q) = Carried(p) /\ (Sole(p) => Sole(q))
    BY <1>6 DEF Carried, Sole
  <1>8. Clean(p) => Clean(q)
    BY <1>4, <1>5 DEF Clean
  <1>9. (Free(p) => Free(q)) /\ \A K, T : Ahead(p, K, T) => Ahead(q, K, T)
    BY <1>4 DEF Free, Ahead
  <1>10. InHand(y) = InHand(x) /\ Marked(y) = Marked(x) /\ Lent(y) = Lent(x)
    BY <1>2, <1>7 DEF InHand, Marked, Lent, p, q
  <1>11. (Traced(x) => Traced(y)) /\ (Exact(x) => Exact(y))
    BY <1>2, <1>7, <1>8, <1>10 DEF Traced, Exact, p, q
  <1>12. QED
    BY <1>2, <1>9, <1>11 DEF Lends, Serves, p, q

LEMMA LendsFirmware ==
  ASSUME Budgeted, Plain', Wired, codec = "H264", Lends(s, queue.at, queue.plane),
         Firmware \/ Fault
  PROVE  Lends(s', queue'.at, queue'.plane)
  <1> DEFINE at == queue.at
             plane == queue.plane
             i == Head(s.inq)
  <1>1. Typed(s)
    BY DEF Wired, Line
  <1>2. queue' = queue
    BY DEF Firmware, FwSequence, FwPicture, FwSuperframe, FwEndOfStream, Fault, Hang,
           SessionError, Reject, Unsupported
  <1> SUFFICES ASSUME Serves(s'), s'.up PROVE Lends(s', at, plane)
    BY <1>2 DEF Lends
  <1>3. s.inq # << >> => i \in InBufs \cup {Eos}
    BY <1>1 DEF Typed
  <1>4. s.outs \subseteq OutBufs
    BY <1>1 DEF Typed
  (* Whoever waits for the firmware to be empty has taken its input. *)
  <1>5. ASSUME s.up, Serves(s), s.inq # << >>
        PROVE  /\ at \notin {"stop", "unload", "end"} /\ (at = "flush" => plane # "OUTPUT")
               /\ s.outs # {} => at # "flush"
    BY <1>5 DEF Lends
  <1>6. CASE Hang
    BY <1>1, <1>6 DEF Hang, Typed, Fields
  <1>7. CASE SessionError
    <2> DEFINE m == [type |-> "error"]
    <2>1. s.up /\ s' = [s EXCEPT !.msgs = Append(s.msgs, m)]
      BY <1>7 DEF SessionError, Send
    <2>2. m \in Message /\ m.type = "error" /\ Append(s.msgs, m) = s.msgs \o <<m>>
      BY <1>1, OwnMessages, AppendIsConcat DEF Typed
    <2> HIDE DEF m
    <2>3. /\ s'.msgs = s.msgs \o <<m>> /\ s'.up = s.up /\ s'.state = s.state
          /\ s'.own = s.own /\ s'.attr = s.attr /\ s'.inq = s.inq /\ s'.outs = s.outs
          /\ s'.held = s.held
      BY <1>1, <2>1, <2>2 DEF Typed, Fields
    <2>4. QED
      BY <1>1, <2>2, <2>3, LendsTold DEF Serves
  <1>8. CASE Reject
    BY <1>1, <1>8, LendsRejected DEF Reject
  <1>9. CASE FwSequence
    <2>1. PICK k \in {"fits", "resize", "tenbit"} :
            /\ s.up
            /\ s' = [Send(s, [type |-> "seq", kind |-> k]) EXCEPT !.paused = TRUE, !.parsed = TRUE]
      BY <1>9 DEF FwSequence, FwReady
    <2> DEFINE m == [type |-> "seq", kind |-> k]
    <2>2. s' = [s EXCEPT !.msgs = Append(s.msgs, m), !.paused = TRUE, !.parsed = TRUE]
      BY <1>1, <2>1 DEF Send, Typed, Fields
    <2>3. m \in Message /\ m.type = "seq" /\ Append(s.msgs, m) = s.msgs \o <<m>>
      BY <1>1, OwnMessages, AppendIsConcat DEF Typed
    <2> HIDE DEF m
    <2>4. /\ s'.msgs = s.msgs \o <<m>> /\ s'.up = s.up /\ s'.state = s.state
          /\ s'.own = s.own /\ s'.attr = s.attr /\ s'.inq = s.inq /\ s'.outs = s.outs
          /\ s'.held = s.held
      BY <1>1, <2>2, <2>3 DEF Typed, Fields
    <2>5. QED
      BY <1>1, <2>3, <2>4, LendsTold DEF Serves
  <1>10. CASE Unsupported
    <2> DEFINE m == [Etb(i) EXCEPT !.ok = FALSE]
               d == <<m>>
    <2>1. s.up /\ s.inq # << >> /\ i # Eos /\ s' = [Send(s, m) EXCEPT !.inq = Tail(@)]
      BY <1>10 DEF Unsupported
    <2>2. m \in Message /\ m.type = "etb" /\ m.buf = i /\ i \in InBufs
      <3> DEFINE e == Etb(i)
                 E == [type : {"etb"}, buf : InBufs \cup {Eos}, ok : BOOLEAN]
      <3>1. e \in E /\ e.buf = i /\ i \in InBufs
        BY <1>3, <2>1 DEF Etb
      <3> HIDE DEF e
      <3>2. [e EXCEPT !.ok = FALSE] \in E /\ [e EXCEPT !.ok = FALSE].type = "etb"
            /\ [e EXCEPT !.ok = FALSE].buf = e.buf
        BY <3>1
      <3>3. E \subseteq Message
        BY DEF Message, CalmMessage
      <3>4. QED
        BY <3>1, <3>2, <3>3 DEF e
    <2> HIDE DEF m
    <2>3. Append(s.msgs, m) = s.msgs \o d /\ Bears(m) = {i} \cap Bufs /\ {i} \cap Bufs = {i}
      <3>1. s.msgs \in Seq(Message)
        BY <1>1 DEF Typed
      <3>2. Append(s.msgs, m) = s.msgs \o d
        BY <2>2, <3>1, AppendIsConcat
      <3>3. QED
        BY <2>2, <3>2 DEF Bears, Bufs
    <2>4. d \in Seq(Message) /\ Sole(d) /\ Clean(d) /\ Carried(d) = Bears(m)
      BY <2>2, CarriedOne
    <2>5. \A k \in DOMAIN d : d[k].type = "etb"
      <3>1. DOMAIN d = {1} /\ d[1] = m
        OBVIOUS
      <3>2. QED
        BY <2>2, <3>1
    <2>6. PICK o \in SUBSET s.outs : o = {}
      OBVIOUS
    <2>7. s' = Used(s, o, d)
      <3>1. s' = [[s EXCEPT !.msgs = Append(@, m)] EXCEPT !.inq = Tail(@)]
        BY <2>1 DEF Send
      <3>2. s' = [s EXCEPT !.msgs = s.msgs \o d, !.inq = Tail(@)]
        BY <1>1, <2>3, <3>1 DEF Typed, Fields
      <3> HIDE DEF d
      <3>3. s.outs \ o = s.outs
        BY <2>6
      <3>4. s' = [s EXCEPT !.inq = Tail(@), !.outs = s.outs, !.msgs = s.msgs \o d]
        BY <1>1, <3>2 DEF Typed, Fields
      <3>5. QED
        BY <3>3, <3>4 DEF Used
    <2> HIDE DEF d, i
    <2>0. s.up /\ s.inq # << >>
      BY <2>1
    <2>8. s'.state = s.state
      BY <1>1, <2>0, <2>4, <2>7, UsedTyped
    <2>9. at \notin {"stop", "unload", "end"}
          /\ (at = "flush" => \A k \in DOMAIN d : d[k].type \notin Returning(plane))
      BY <1>5, <2>0, <2>5, <2>8 DEF Serves, Returning
    <2>10. Carried(d) = ({Head(s.inq)} \cap Bufs) \cup o
      BY <2>3, <2>4, <2>6 DEF i
    <2>11. QED
      BY <1>1, <2>0, <2>4, <2>7, <2>9, <2>10, LendsUsed
  <1>11. ASSUME NEW b \in s.outs, NEW m \in Message, m.type = "ftb", ~m.bad, m.buf = b,
                s.up, s.inq # << >>, s' = Used(s, {b}, <<Etb(i), m>>)
         PROVE  Lends(s', at, plane)
    <2> DEFINE e == Etb(i)
               d == <<e, m>>
    <2>1. /\ e \in Message /\ e.type = "etb" /\ Bears(e) = {i} \cap Bufs
          /\ Bears(m) = {b} /\ b \in Bufs /\ b \notin {i} \cap Bufs
      <3>1. e \in Message /\ e.type = "etb" /\ e.buf = i
        BY <1>3, <1>11, OwnMessages DEF Etb
      <3>2. b \in OutBufs /\ i \in InBufs \cup {Eos}
        BY <1>3, <1>4, <1>11
      <3> HIDE DEF e, i
      <3>3. QED
        BY <1>11, <3>1, <3>2, StreamAssumption DEF Bears, Bufs
    <2> HIDE DEF e
    <2>2. Bears(e) \cap Bears(m) = {}
      BY <2>1
    <2>3. d \in Seq(Message) /\ Carried(d) = Bears(e) \cup Bears(m) /\ Sole(d) /\ Clean(d)
      BY <1>11, <2>1, <2>2, CarriedPair
    <2>4. s' = Used(s, {b}, d)
      BY <1>11 DEF e
    <2> HIDE DEF d
    <2>5. s'.state = s.state
      BY <1>1, <1>11, <2>3, <2>4, UsedTyped
    <2>6. at \notin {"stop", "unload", "end", "flush"}
      BY <1>5, <1>11, <2>5 DEF Serves
    <2>7. Carried(d) = ({Head(s.inq)} \cap Bufs) \cup {b} /\ {b} \in SUBSET s.outs
      BY <2>1, <2>3
    <2>8. QED
      BY <1>1, <1>11, <2>3, <2>4, <2>6, <2>7, LendsUsed
  <1>12. CASE FwPicture
    <2>1. PICK b \in s.outs, bad \in BOOLEAN :
            /\ IF bad THEN Charge("corrupt") ELSE UNCHANGED budget
            /\ s' = [s EXCEPT !.inq = Tail(@), !.outs = @ \ {b},
                      !.msgs = @ \o <<Etb(i), Ftb(b, "single", FALSE, bad)>>]
      BY <1>12 DEF FwPicture
    <2>2. ~bad
      BY <2>1 DEF Charge, Plain, Budgeted
    <2> DEFINE m == Ftb(b, "single", FALSE, bad)
    <2>3. m \in Message
      BY <1>4, OwnMessages DEF Pictures
    <2>4. m.type = "ftb" /\ ~m.bad /\ m.buf = b
      BY <2>2 DEF Ftb
    <2>5. s' = Used(s, {b}, <<Etb(i), m>>)
      BY <2>1 DEF Used
    <2>6. s.up /\ s.inq # << >>
      BY <1>12 DEF FwPicture, FwReady
    <2> HIDE DEF m, i
    <2>7. QED
      BY <1>11, <2>3, <2>4, <2>5, <2>6
  <1>13. CASE FwEndOfStream
    <2>1. PICK b \in s.outs :
            s' = [s EXCEPT !.inq = Tail(@), !.outs = @ \ {b},
                      !.msgs = @ \o <<Etb(Eos), Ftb(b, "empty", TRUE, FALSE)>>]
      BY <1>13 DEF FwEndOfStream
    <2> DEFINE m == Ftb(b, "empty", TRUE, FALSE)
    <2>2. m \in Message
      BY <1>4, OwnMessages DEF Pictures
    <2>3. m.type = "ftb" /\ ~m.bad /\ m.buf = b
      BY DEF Ftb
    <2>4. s.up /\ s.inq # << >> /\ i = Eos
      BY <1>13 DEF FwEndOfStream, FwReady
    <2>5. s' = Used(s, {b}, <<Etb(i), m>>)
      BY <2>1, <2>4 DEF Used
    <2> HIDE DEF m, i
    <2>6. QED
      BY <1>11, <2>2, <2>3, <2>4, <2>5
  <1>14. ~FwSuperframe
    BY DEF FwSuperframe
  <1>15. QED
    BY <1>6, <1>7, <1>8, <1>9, <1>10, <1>12, <1>13, <1>14 DEF Firmware, Fault

-----------------------------------------------------------------------------
(* The calls: the firmware is given what it did not have.                  *)
LEMMA Granted ==
  ASSUME NEW x, Typed(x), Traced(x), NEW D \in SUBSET Bufs, D \cap Lent(x) = {}, NEW y,
         y.msgs = x.msgs, y.held = x.held, InHand(y) = InHand(x) \cup D,
         Marked(y) = Marked(x) \cup D,
         \A j, k \in DOMAIN y.inq : y.inq[j] = y.inq[k] /\ y.inq[j] \in Bufs => j = k
  PROVE  Traced(y) /\ (Exact(x) => Exact(y))
  <1>1. Lent(y) = Lent(x) \cup D
    BY DEF Lent
  <1>2. D \cap Carried(x.msgs) = {}
    BY DEF Lent
  <1>3. QED
    BY <1>1, <1>2 DEF Traced, Exact

(* Input buffers at the end of the line.                                   *)
LEMMA Appended ==
  ASSUME NEW T, NEW p \in Seq(T), NEW f \in Seq(T),
         \A j, k \in DOMAIN p : p[j] = p[k] /\ p[j] \in Bufs => j = k,
         \A j, k \in DOMAIN f : f[j] = f[k] => j = k,
         \A j \in DOMAIN p, k \in DOMAIN f : p[j] # f[k]
  PROVE  LET q == p \o f
         IN /\ \A j, k \in DOMAIN q : q[j] = q[k] /\ q[j] \in Bufs => j = k
            /\ \A b : (\E k \in DOMAIN q : q[k] = b)
                        <=> (\E k \in DOMAIN p : p[k] = b) \/ (\E k \in DOMAIN f : f[k] = b)
  <1> DEFINE q == p \o f
             m == Len(p)
  <1>1. /\ m \in Nat /\ Len(f) \in Nat /\ DOMAIN p = 1..m /\ DOMAIN f = 1..Len(f)
        /\ DOMAIN q = 1..(m + Len(f))
        /\ \A k \in 1..m : q[k] = p[k]
        /\ \A k \in 1..Len(f) : q[m + k] = f[k]
    OBVIOUS
  <1>2. \A k \in DOMAIN q : \/ k \in DOMAIN p /\ q[k] = p[k]
                            \/ k - m \in DOMAIN f /\ q[k] = f[k - m] /\ k \in Int
    <2> TAKE k \in DOMAIN q
    <2>1. CASE k \in 1..m
      BY <1>1, <2>1
    <2>2. CASE k \notin 1..m
      <3>1. k - m \in 1..Len(f) /\ m + (k - m) = k
        BY <1>1, <2>2
      <3>2. QED
        BY <1>1, <3>1
    <2>3. QED
      BY <2>1, <2>2
  <1>3. /\ \A k \in DOMAIN p : k \in DOMAIN q /\ q[k] = p[k]
        /\ \A k \in DOMAIN f : m + k \in DOMAIN q /\ q[m + k] = f[k]
        /\ m \in Int
    BY <1>1
  <1> HIDE DEF q, m
  <1>4. ASSUME NEW j \in DOMAIN q, NEW k \in DOMAIN q, q[j] = q[k], q[j] \in Bufs
        PROVE  j = k
    <2>1. CASE j \in DOMAIN p /\ q[j] = p[j]
      BY <1>2, <1>4, <2>1
    <2>2. CASE j - m \in DOMAIN f /\ q[j] = f[j - m] /\ j \in Int
      <3>1. k - m \in DOMAIN f /\ q[k] = f[k - m] /\ k \in Int
        BY <1>2, <1>4, <2>2
      <3>2. j - m = k - m
        BY <1>4, <2>2, <3>1
      <3>3. QED
        BY <1>3, <2>2, <3>1, <3>2
    <2>3. QED
      BY <1>2, <2>1, <2>2
  <1>5. ASSUME NEW b
        PROVE  (\E k \in DOMAIN q : q[k] = b)
                 <=> (\E k \in DOMAIN p : p[k] = b) \/ (\E k \in DOMAIN f : f[k] = b)
    BY <1>2, <1>3
  <1>6. QED
    BY <1>4, <1>5 DEF q

LEMMA QueueMoves ==
  ASSUME NEW x, NEW b \in Bufs, x.own[b] # "active", NEW streaming
  PROVE  Moves(x, BufQueue(x, b, streaming))
  <1> SUFFICES ASSUME Typed(x), Traced(x)
               PROVE  LET y == BufQueue(x, b, streaming)
                      IN Typed(y) /\ Traced(y) /\ (Exact(x) => Exact(y))
    BY DEF Moves
  <1> DEFINE u == [x EXCEPT !.own[b] = "user"]
             d == DoneCapture(x, b, "last")
             y == [x EXCEPT !.own[b] = "active"]
             z == [y EXCEPT !.attr[b] = "deferred"]
             r == QueueBuffer(y, b)
  <1>1. BufQueue(x, b, streaming) \in {u, d, z, r}
        /\ (BufQueue(x, b, streaming) = d => b \in OutBufs \/ d \in {u, z, r})
    BY DEF BufQueue
  <1>2. Typed(y) /\ Typed(u)
    BY DEF Typed, Fields
  <1>3. Typed(z) /\ Typed(r) /\ Typed(d)
    <2> HIDE DEF y
    <2>1. Typed(z)
      BY <1>2 DEF Typed, Fields
    <2>2. Typed(r) /\ Typed(d)
      BY <1>2, BufferStill DEF Still, Tame
    <2>3. QED
      BY <2>1, <2>2
  <1>4. b \notin Lent(x)
    BY DEF Traced, Marked
  <1>5. x.own \in [Bufs -> {"user", "prepared", "active"}]
        /\ x.attr \in [Bufs -> {"none", "deferred", "queued", "done"}]
        /\ x.inq \in Seq(InBufs \cup {Eos}) /\ x.outs \subseteq OutBufs /\ DOMAIN x = Fields
    BY DEF Typed
  <1>6. ASSUME NEW w, w.msgs = x.msgs, w.held = x.held, w.inq = x.inq, w.outs = x.outs,
               Marked(w) = Marked(x)
        PROVE  Traced(w) /\ (Exact(x) => Exact(w))
    BY <1>6 DEF Traced, Exact, Lent, InHand
  <1>7. Traced(u) /\ (Exact(x) => Exact(u))
    <2>1. /\ u.msgs = x.msgs /\ u.held = x.held /\ u.inq = x.inq /\ u.outs = x.outs
          /\ u.own = [x.own EXCEPT ![b] = "user"] /\ u.attr = x.attr
      BY <1>5 DEF Fields
    <2> HIDE DEF u
    <2>2. Marked(u) = Marked(x)
      BY <1>5, <2>1 DEF Marked
    <2>3. QED
      BY <1>6, <2>1, <2>2
  <1>8. Traced(d) /\ (Exact(x) => Exact(d))
    <2>1. /\ d.msgs = x.msgs /\ d.held = x.held /\ d.inq = x.inq /\ d.outs = x.outs
          /\ d.own = [x.own EXCEPT ![b] = "user"] /\ d.attr = x.attr
      BY <1>5 DEF DoneCapture, Fields
    <2> HIDE DEF d
    <2>2. Marked(d) = Marked(x)
      BY <1>5, <2>1 DEF Marked
    <2>3. QED
      BY <1>6, <2>1, <2>2
  <1>9. Traced(z) /\ (Exact(x) => Exact(z))
    <2>1. /\ z.msgs = x.msgs /\ z.held = x.held /\ z.inq = x.inq /\ z.outs = x.outs
          /\ z.own = [x.own EXCEPT ![b] = "active"] /\ z.attr = [x.attr EXCEPT ![b] = "deferred"]
      BY <1>5 DEF Fields
    <2> HIDE DEF z
    <2>2. Marked(z) = Marked(x)
      BY <1>5, <2>1 DEF Marked
    <2>3. QED
      BY <1>6, <2>1, <2>2
  <1>10. Traced(r) /\ (Exact(x) => Exact(r))
    <2> DEFINE i == IF b \in InBufs THEN Append(x.inq, b) ELSE x.inq
               o == IF b \in OutBufs THEN x.outs \cup {b} ELSE x.outs
    <2>1. /\ r.msgs = x.msgs /\ r.held = x.held /\ r.inq = i /\ r.outs = o
          /\ r.own = [x.own EXCEPT ![b] = "active"] /\ r.attr = [x.attr EXCEPT ![b] = "queued"]
      <3>1. /\ y.msgs = x.msgs /\ y.held = x.held /\ y.inq = x.inq /\ y.outs = x.outs
            /\ y.own = [x.own EXCEPT ![b] = "active"] /\ y.attr = x.attr /\ DOMAIN y = Fields
        BY <1>5 DEF Fields
      <3> HIDE DEF y
      <3>2. QED
        BY <3>1 DEF QueueBuffer, Fields
    <2>2. Marked(r) = Marked(x) \cup {b}
      <3> HIDE DEF r
      <3>1. QED
        BY <1>5, <2>1 DEF Marked
    <2>3. /\ \A j, k \in DOMAIN i : i[j] = i[k] /\ i[j] \in Bufs => j = k
          /\ \A c : (\E k \in DOMAIN i : i[k] = c)
                      <=> (\E k \in DOMAIN x.inq : x.inq[k] = c) \/ (b \in InBufs /\ c = b)
      <3>1. CASE b \notin InBufs
        BY <3>1 DEF Traced
      <3>2. CASE b \in InBufs
        <4> DEFINE f == <<b>>
                   p == x.inq
        <4>1. f \in Seq(InBufs \cup {Eos}) /\ DOMAIN f = {1} /\ f[1] = b
          BY <3>2
        <4>2. i = p \o f
          BY <1>5, <3>2, AppendIsConcat
        <4>3. p \in Seq(InBufs \cup {Eos})
              /\ \A j, k \in DOMAIN p : p[j] = p[k] /\ p[j] \in Bufs => j = k
          BY <1>5 DEF Traced
        <4>4. \A k \in DOMAIN p : p[k] # b
          BY <1>4 DEF Lent, InHand
        <4>5. /\ \A j, k \in DOMAIN f : f[j] = f[k] => j = k
              /\ \A j \in DOMAIN p, k \in DOMAIN f : p[j] # f[k]
          BY <4>1, <4>4
        <4> DEFINE T == InBufs \cup {Eos}
        <4>0. p \in Seq(T) /\ f \in Seq(T)
          BY <4>1, <4>3
        <4> HIDE DEF f, p, i, T
        <4>6. /\ \A j, k \in DOMAIN i : i[j] = i[k] /\ i[j] \in Bufs => j = k
              /\ \A c : (\E k \in DOMAIN i : i[k] = c)
                          <=> (\E k \in DOMAIN p : p[k] = c) \/ (\E k \in DOMAIN f : f[k] = c)
          <5>1. \A j, k \in DOMAIN p : p[j] = p[k] /\ p[j] \in Bufs => j = k
            BY <4>3
          <5>2. LET q == p \o f
                IN /\ \A j, k \in DOMAIN q : q[j] = q[k] /\ q[j] \in Bufs => j = k
                   /\ \A c : (\E k \in DOMAIN q : q[k] = c)
                               <=> (\E k \in DOMAIN p : p[k] = c) \/ (\E k \in DOMAIN f : f[k] = c)
            BY <4>0, <4>5, <5>1, Appended
          <5>3. QED
            BY <4>2, <5>2
        <4>7. \A c : (\E k \in DOMAIN f : f[k] = c) <=> c = b
          BY <4>1
        <4>8. QED
          BY <3>2, <4>6, <4>7 DEF p
      <3>3. QED
        BY <3>1, <3>2
    <2> HIDE DEF i, r
    <2>4. InHand(r) = InHand(x) \cup {b}
      <3>1. \A c \in Bufs : c \in o <=> c \in x.outs \/ (b \in OutBufs /\ c = b)
        OBVIOUS
      <3> HIDE DEF o
      <3>2. b \in InBufs \/ b \in OutBufs
        BY DEF Bufs
      <3>3. QED
        BY <2>1, <2>3, <3>1, <3>2 DEF InHand
    <2> DEFINE D == {b}
    <2>5. D \in SUBSET Bufs /\ D \cap Lent(x) = {}
      BY <1>4
    <2>6. InHand(r) = InHand(x) \cup D /\ Marked(r) = Marked(x) \cup D
      BY <2>2, <2>4
    <2>7. /\ r.msgs = x.msgs /\ r.held = x.held
          /\ \A j, k \in DOMAIN r.inq : r.inq[j] = r.inq[k] /\ r.inq[j] \in Bufs => j = k
      BY <2>1, <2>3
    <2> HIDE DEF D
    <2>8. QED
      BY <2>5, <2>6, <2>7, Granted
  <1>11. QED
    BY <1>1, <1>2, <1>3, <1>7, <1>8, <1>9, <1>10

(* All that waits is given at once.                                        *)
LEMMA DeferredMoves ==
  ASSUME NEW x
  PROVE  /\ \A p \in Planes : Moves(x, QueueDeferred(x, p))
         /\ \A p \in Planes : Moves(x, QueueAllDeferred(x, p))
  <1>1. ASSUME NEW a, NEW p \in Planes
        PROVE  Moves(a, QueueDeferred(a, p))
    <2> SUFFICES ASSUME Typed(a), Traced(a)
                 PROVE  LET y == QueueDeferred(a, p)
                        IN Typed(y) /\ Traced(y) /\ (Exact(a) => Exact(y))
      BY DEF Moves
    <2> DEFINE D == {b \in PlaneBufs(p) : a.own[b] = "active" /\ a.attr[b] = "deferred"}
               f == SetToSeq(D)
               i == IF p = "OUTPUT" THEN a.inq \o f ELSE a.inq
               o == IF p = "CAPTURE" THEN a.outs \cup D ELSE a.outs
               g == [b \in Bufs |-> IF b \in D THEN "queued" ELSE a.attr[b]]
               y == QueueDeferred(a, p)
    <2>1. y = [a EXCEPT !.attr = g, !.inq = i, !.outs = o]
      BY DEF QueueDeferred
    <2>2. Typed(y)
      BY BufferStill DEF Still, Tame
    <2>3. a.own \in [Bufs -> {"user", "prepared", "active"}]
          /\ a.attr \in [Bufs -> {"none", "deferred", "queued", "done"}]
          /\ a.inq \in Seq(InBufs \cup {Eos}) /\ a.outs \subseteq OutBufs /\ DOMAIN a = Fields
      BY DEF Typed
    <2>4. D \subseteq PlaneBufs(p) /\ D \subseteq Bufs /\ D \cap Marked(a) = {}
          /\ \A b \in D : a.own[b] = "active"
      BY DEF PlaneBufs, Bufs, Marked, Planes
    <2>5. D \cap Lent(a) = {}
      BY <2>4 DEF Traced
    <2>6. IsFiniteSet(D)
      BY <2>4, FS_Subset, StreamAssumption DEF PlaneBufs
    <2> HIDE DEF D
    <2>7. f \in Seq(D) /\ DOMAIN f = 1..Cardinality(D)
          /\ (\A b \in D : \E k \in 1..Cardinality(D) : f[k] = b)
          /\ \A j, k \in 1..Cardinality(D) : f[j] = f[k] => j = k
      <3>1. f \in Seq(D) /\ Len(f) = Cardinality(D)
            /\ (\A b \in D : \E k \in 1..Cardinality(D) : f[k] = b)
            /\ \A j, k \in 1..Cardinality(D) : f[j] = f[k] => j = k
        BY <2>6, Listing
      <3> HIDE DEF f
      <3>2. DOMAIN f = 1..Len(f)
        BY <3>1
      <3>3. QED
        BY <3>1, <3>2
    <2> HIDE DEF f, g, y
    <2>8. /\ y.msgs = a.msgs /\ y.held = a.held /\ y.inq = i /\ y.outs = o /\ y.own = a.own
          /\ y.attr = g
      BY <2>1, <2>3 DEF Fields
    <2>9. Marked(y) = Marked(a) \cup D
      BY <2>3, <2>4, <2>8 DEF Marked, g
    <2>10. \A b \in D : \E k \in DOMAIN f : f[k] = b
      BY <2>7
    <2>11. \A k \in DOMAIN f : f[k] \in D
      <3>1. f \in Seq(D)
        BY <2>7
      <3>2. QED
        BY <3>1
    <2>12. /\ \A j, k \in DOMAIN i : i[j] = i[k] /\ i[j] \in Bufs => j = k
           /\ \A c : (\E k \in DOMAIN i : i[k] = c)
                       <=> (\E k \in DOMAIN a.inq : a.inq[k] = c) \/ (p = "OUTPUT" /\ c \in D)
      <3>1. CASE p # "OUTPUT"
        BY <3>1 DEF Traced
      <3>2. CASE p = "OUTPUT"
        <4> DEFINE q == a.inq
        <4>1. f \in Seq(InBufs \cup {Eos})
          <5>1. D \subseteq InBufs \cup {Eos}
            BY <2>4, <3>2 DEF PlaneBufs
          <5>2. QED
            BY <2>7, <5>1, SeqMonotonic
        <4>2. i = q \o f
          BY <3>2
        <4>3. q \in Seq(InBufs \cup {Eos})
              /\ \A j, k \in DOMAIN q : q[j] = q[k] /\ q[j] \in Bufs => j = k
          BY <2>3 DEF Traced
        <4>4. \A k \in DOMAIN q : q[k] \notin D
          BY <2>4, <2>5 DEF Lent, InHand
        <4>5. /\ \A j, k \in DOMAIN f : f[j] = f[k] => j = k
              /\ \A j \in DOMAIN q, k \in DOMAIN f : q[j] # f[k]
          BY <2>7, <2>11, <4>4
        <4> DEFINE T == InBufs \cup {Eos}
        <4>0. q \in Seq(T) /\ f \in Seq(T)
          BY <4>1, <4>3
        <4> HIDE DEF q, i, T
        <4>6. /\ \A j, k \in DOMAIN i : i[j] = i[k] /\ i[j] \in Bufs => j = k
              /\ \A c : (\E k \in DOMAIN i : i[k] = c)
                          <=> (\E k \in DOMAIN q : q[k] = c) \/ (\E k \in DOMAIN f : f[k] = c)
          <5>1. \A j, k \in DOMAIN q : q[j] = q[k] /\ q[j] \in Bufs => j = k
            BY <4>3
          <5>2. LET r == q \o f
                IN /\ \A j, k \in DOMAIN r : r[j] = r[k] /\ r[j] \in Bufs => j = k
                   /\ \A c : (\E k \in DOMAIN r : r[k] = c)
                               <=> (\E k \in DOMAIN q : q[k] = c) \/ (\E k \in DOMAIN f : f[k] = c)
            BY <4>0, <4>5, <5>1, Appended
          <5>3. QED
            BY <4>2, <5>2
        <4>7. \A c : (\E k \in DOMAIN f : f[k] = c) <=> c \in D
          BY <2>10, <2>11
        <4>8. QED
          BY <3>2, <4>6, <4>7 DEF q
      <3>3. QED
        BY <3>1, <3>2
    <2> HIDE DEF i
    <2>13. InHand(y) = InHand(a) \cup D
      <3>1. \A c \in Bufs : c \in o <=> c \in a.outs \/ (p = "CAPTURE" /\ c \in D)
        OBVIOUS
      <3> HIDE DEF o
      <3>2. p = "OUTPUT" \/ p = "CAPTURE"
        BY DEF Planes
      <3>3. QED
        BY <2>4, <2>8, <2>12, <3>1, <3>2 DEF InHand
    <2>14. Traced(y) /\ (Exact(a) => Exact(y))
      BY <2>4, <2>5, <2>8, <2>9, <2>12, <2>13, Granted
    <2>15. QED
      BY <2>2, <2>14 DEF y
  <1>2. ASSUME NEW p \in Planes
        PROVE  Moves(x, QueueAllDeferred(x, p))
    <2> DEFINE y == IF p = "OUTPUT" THEN QueueDeferred(x, "OUTPUT") ELSE x
               z == QueueDeferredDpb(y)
               u == QueueDeferred(z, "CAPTURE")
    <2>1. Moves(x, y)
      BY <1>1, ComposeMoves DEF Planes
    <2>2. QueueAllDeferred(x, p) \in {u, y}
      BY DEF QueueAllDeferred
    <2> HIDE DEF y
    <2>3. Moves(y, z)
      <3>1. Typed(y) => Typed(z)
        BY DpbStill DEF Still, Tame
      <3>2. QED
        BY <3>1, StateUntouched, UntouchedMoves
    <2> HIDE DEF z
    <2>4. Moves(z, u)
      BY <1>1 DEF Planes
    <2>5. QED
      BY <2>1, <2>2, <2>3, <2>4, ComposeMoves
  <1>3. QED
    BY <1>1, <1>2

-----------------------------------------------------------------------------
(* Wherever the queue thread does not wait for the firmware to be empty.   *)
Even(x) == Serves(x) /\ x.up => Traced(x) /\ Exact(x)

Evens(x, y) == Typed(x) => Typed(y) /\ (Even(x) => Even(y))

Calm(at) == at \notin {"flush", "stop", "unload", "end"}

LEMMA ComposeEvens ==
  /\ \A x : Evens(x, x)
  /\ \A x, y, z : Evens(x, y) /\ Evens(y, z) => Evens(x, z)
  /\ \A x, y : Moves(x, y) /\ Still(x, y) => Evens(x, y)
  /\ \A x, y : Untouched(x, y) /\ Still(x, y) => Moves(x, y) /\ Evens(x, y)
  <1>1. ASSUME NEW x, NEW y, Moves(x, y), Still(x, y)
        PROVE  Evens(x, y)
    BY <1>1 DEF Evens, Even, Moves, Still, Tame, Serves
  <1>2. ASSUME NEW x, NEW y, Untouched(x, y), Still(x, y)
        PROVE  Moves(x, y)
    BY <1>2, UntouchedMoves DEF Still, Tame
  <1>3. QED
    BY <1>1, <1>2 DEF Evens

LEMMA EvenLends ==
  ASSUME NEW at, Calm(at), NEW plane, NEW x
  PROVE  Lends(x, at, plane) <=> Even(x)
  BY DEF Lends, Even, Calm

(* The parts of a restart.                                                 *)
LEMMA PartsMove ==
  ASSUME NEW x
  PROVE  /\ \A p \in Planes : Moves(x, StateChangeStreamon(x, p))
         /\ \A clear, set \in SUBSET SubStates :
              "LOAD_RESOURCES" \notin clear => Moves(x, ChangeSub(x, clear, set))
         /\ Moves(x, Restarted(x)) /\ Moves(x, FwContinue(x)) /\ Moves(x, QueueDpb(x))
         /\ Moves(x, Fail(x)) /\ Moves(x, x)
  <1>1. ASSUME NEW p \in Planes
        PROVE  Moves(x, StateChangeStreamon(x, p))
    <2>1. StreamonTarget(x.state, p) \in States
      BY DEF StreamonTarget, States
    <2>2. QED
      BY <2>1, StateStill, StateUntouched, ComposeEvens DEF StateChangeStreamon
  <1>2. ASSUME NEW clear \in SUBSET SubStates, NEW set \in SUBSET SubStates,
               "LOAD_RESOURCES" \notin clear
        PROVE  Moves(x, ChangeSub(x, clear, set))
    BY <1>2, StateStill, StateUntouched, ComposeEvens
  <1>3. Moves(x, Restarted(x)) /\ Moves(x, FwContinue(x)) /\ Moves(x, QueueDpb(x))
    BY DpbStill, StateUntouched, ComposeEvens
  <1>4. Moves(x, Fail(x)) /\ Moves(x, x)
    BY StateStill, StateUntouched, ComposeEvens, ComposeMoves
  <1>5. QED
    BY <1>1, <1>2, <1>3, <1>4

(* The end of a STREAMON, and of a START.                                  *)
LEMMA StreamonMoves ==
  ASSUME NEW x
  PROVE  /\ Evens(x, StreamonInput(x)) /\ Evens(x, Resume(x))
         /\ \A drc, drain : Evens(x, StreamonOutput(x, drc, drain))
  <1>1. Moves(x, StreamonInput(x))
    <2> DEFINE P == {"INPUT_PAUSE"}
               y == ChangeSub(x, P, {})
               pause == IF y.sub \cap {"DRC", "DRAIN", "FIRST_IPSC"} # {}
                        THEN {"INPUT_PAUSE"} ELSE {}
               t == StateChangeStreamon(y, "OUTPUT")
               z == Restarted(t)
               u == ChangeSub(z, {}, pause)
    <2>1. StreamonInput(x) = QueueAllDeferred(u, "OUTPUT")
      BY DEF StreamonInput
    <2>2. /\ P \in SUBSET SubStates /\ {} \in SUBSET SubStates
          /\ pause \in SUBSET SubStates
          /\ "LOAD_RESOURCES" \notin P /\ "LOAD_RESOURCES" \notin {}
      BY DEF SubStates
    <2> HIDE DEF P, pause
    <2>3. Moves(x, y)
      BY <2>2, PartsMove
    <2> HIDE DEF y
    <2>4. Moves(y, t)
      BY PartsMove DEF Planes
    <2> HIDE DEF t
    <2>5. Moves(t, z)
      BY PartsMove
    <2> HIDE DEF z
    <2>6. Moves(z, u)
      BY <2>2, PartsMove
    <2> HIDE DEF u
    <2>7. Moves(u, QueueAllDeferred(u, "OUTPUT"))
      BY DeferredMoves DEF Planes
    <2>8. Moves(x, z) /\ Moves(z, QueueAllDeferred(u, "OUTPUT"))
      BY <2>3, <2>4, <2>5, <2>6, <2>7, ComposeMoves
    <2>9. QED
      BY <2>1, <2>8, ComposeMoves
  <1>2. ASSUME NEW drc, NEW drain
        PROVE  Moves(x, StreamonOutput(x, drc, drain))
    <2> DEFINE resume == x.state = "INPUT_STREAMING" /\ "INPUT_PAUSE" \in x.sub
               clear == (IF drc THEN {"DRC", "DRC_LAST"}
                         ELSE IF drain THEN {"DRAIN", "DRAIN_LAST"} ELSE {})
                        \cup (IF resume THEN {"INPUT_PAUSE"} ELSE {})
                        \cup (x.sub \cap {"FIRST_IPSC", "OUTPUT_PAUSE"})
               y == IF resume /\ ~drain THEN FwContinue(x) ELSE x
               t == StateChangeStreamon(y, "CAPTURE")
               z == Restarted(t)
               u == ChangeSub(z, clear, {})
               w == QueueDpb(u)
    <2>1. StreamonOutput(x, drc, drain) = QueueAllDeferred(w, "CAPTURE")
      BY DEF StreamonOutput
    <2>2. /\ clear \in SUBSET SubStates /\ {} \in SUBSET SubStates
          /\ "LOAD_RESOURCES" \notin clear
      BY DEF SubStates
    <2> HIDE DEF clear
    <2>3. Moves(x, y)
      BY PartsMove
    <2> HIDE DEF y
    <2>4. Moves(y, t)
      BY PartsMove DEF Planes
    <2> HIDE DEF t
    <2>5. Moves(t, z)
      BY PartsMove
    <2> HIDE DEF z
    <2>6. Moves(z, u)
      BY <2>2, PartsMove
    <2> HIDE DEF u
    <2>7. Moves(u, w)
      BY PartsMove
    <2> HIDE DEF w
    <2>8. Moves(w, QueueAllDeferred(w, "CAPTURE"))
      BY DeferredMoves DEF Planes
    <2>9. Moves(x, z) /\ Moves(z, w)
      BY <2>3, <2>4, <2>5, <2>6, <2>7, ComposeMoves
    <2>10. QED
      BY <2>1, <2>8, <2>9, ComposeMoves
  <1>3. Moves(x, Resume(x))
    <2> DEFINE drc == DrcPending(x)
               pauses == x.sub \cap {"INPUT_PAUSE", "OUTPUT_PAUSE"}
               clear == pauses \cup (IF drc THEN {"DRC", "DRC_LAST"}
                                     ELSE {"DRAIN", "DRAIN_LAST"})
               y == IF drc /\ pauses # {} THEN FwContinue(x) ELSE x
               v == ChangeSub(y, clear, {})
               z == Restarted(v)
               q == QueueDpb(z)
               c == QueueDeferred(q, "CAPTURE")
               w == QueueDeferred(c, "OUTPUT")
    <2>1. Resume(x) \in {Fail(x), w, z}
      BY DEF Resume
    <2>2. clear \in SUBSET SubStates /\ "LOAD_RESOURCES" \notin clear /\ {} \in SUBSET SubStates
      BY DEF SubStates
    <2> HIDE DEF clear
    <2>3. Moves(x, y)
      BY PartsMove
    <2> HIDE DEF y
    <2>4. Moves(y, v)
      BY <2>2, PartsMove
    <2> HIDE DEF v
    <2>5. Moves(v, z)
      BY PartsMove
    <2> HIDE DEF z
    <2>6. Moves(z, q)
      BY PartsMove
    <2> HIDE DEF q
    <2>7. Moves(q, c)
      BY DeferredMoves DEF Planes
    <2> HIDE DEF c
    <2>8. Moves(c, w)
      BY DeferredMoves DEF Planes
    <2> HIDE DEF w
    <2>9. Moves(x, z) /\ Moves(z, c)
      BY <2>3, <2>4, <2>5, <2>6, <2>7, ComposeMoves
    <2>10. Moves(x, w) /\ Moves(x, Fail(x))
      BY <2>8, <2>9, ComposeMoves, PartsMove
    <2>11. QED
      BY <2>1, <2>9, <2>10
  <1>4. Evens(x, StreamonInput(x)) /\ \A drc, drain : Evens(x, StreamonOutput(x, drc, drain))
    BY <1>1, <1>2, StreamonStill, ComposeEvens
  <1>5. Evens(x, Resume(x))
    <2>1. Typed(x) => Still(x, Resume(x))
      BY ResumeStill
    <2>2. Still(x, Resume(x))
      BY <2>1 DEF Still
    <2>3. QED
      BY <1>3, <2>2, ComposeEvens
  <1>6. QED
    BY <1>4, <1>5

-----------------------------------------------------------------------------
(* The client's calls.                                                     *)
LEMMA QueueEvens ==
  ASSUME NEW x, NEW b \in Bufs, x.own[b] # "active", NEW streaming \in BOOLEAN,
         NEW at \in {"idle", "enqueue"}, Line(x, at), streaming => x.state # "DEINIT"
  PROVE  Evens(x, BufQueue(x, b, streaming))
  <1> DEFINE y == BufQueue(x, b, streaming)
  <1>1. Typed(x) /\ Line(y, at)
    BY LineQueue DEF Line
  <1>2. Moves(x, y)
    BY QueueMoves
  <1>3. y.up = x.up /\ y.state = x.state
    <2> DEFINE u == [x EXCEPT !.own[b] = "user"]
               d == DoneCapture(x, b, "last")
               v == [x EXCEPT !.own[b] = "active"]
               z == [v EXCEPT !.attr[b] = "deferred"]
               r == QueueBuffer(v, b)
    <2>1. y \in {u, d, z, r}
      BY DEF BufQueue
    <2>2. /\ u.up = x.up /\ u.state = x.state /\ d.up = x.up /\ d.state = x.state
          /\ v.up = x.up /\ v.state = x.state /\ DOMAIN v = Fields
      BY <1>1 DEF Typed, Fields, DoneCapture
    <2> HIDE DEF y, u, d, v
    <2>3. z.up = v.up /\ z.state = v.state /\ r.up = v.up /\ r.state = v.state
      BY <2>2 DEF Fields, QueueBuffer
    <2> HIDE DEF z, r
    <2>4. QED
      BY <2>1, <2>2, <2>3
  <1> HIDE DEF y
  <1>4. Evens(x, y)
    BY <1>1, <1>2, <1>3 DEF Evens, Even, Moves, Serves, Line
  <1>5. QED
    BY <1>4 DEF y

(* The end of the stream is no buffer of vb2.                              *)
LEMMA EosEven ==
  ASSUME NEW x, NEW y, Typed(x),
         y = [x EXCEPT !.inq = IF x.run THEN Append(@, Eos) ELSE @]
  PROVE  Evens(x, y)
  <1> DEFINE p == x.inq
             q == IF x.run THEN Append(p, Eos) ELSE p
  <1>1. p \in Seq(InBufs \cup {Eos}) /\ q \in Seq(InBufs \cup {Eos}) /\ Eos \notin Bufs
    BY StreamAssumption DEF Typed
  <1>2. /\ \A k \in DOMAIN p : k \in DOMAIN q /\ q[k] = p[k]
        /\ \A k \in DOMAIN q : (k \in DOMAIN p /\ q[k] = p[k]) \/ q[k] = Eos
    BY <1>1
  <1>3. y = [x EXCEPT !.inq = q]
    OBVIOUS
  <1> HIDE DEF p, q
  <1>4. /\ y.inq = q /\ y.outs = x.outs /\ y.msgs = x.msgs /\ y.own = x.own
        /\ y.attr = x.attr /\ y.held = x.held /\ y.up = x.up /\ y.state = x.state /\ Typed(y)
    BY <1>1, <1>3 DEF Typed, Fields
  <1>5. \A b \in Bufs : (\E k \in DOMAIN q : q[k] = b) <=> (\E k \in DOMAIN p : p[k] = b)
    BY <1>1, <1>2
  <1>6. InHand(y) = InHand(x)
    BY <1>4, <1>5 DEF InHand, p
  <1>7. (\A j, k \in DOMAIN p : p[j] = p[k] /\ p[j] \in Bufs => j = k)
          => (\A j, k \in DOMAIN q : q[j] = q[k] /\ q[j] \in Bufs => j = k)
    BY <1>1, <1>2
  <1>8. Lent(y) = Lent(x) /\ Marked(y) = Marked(x)
    BY <1>4, <1>6 DEF Lent, Marked
  <1>9. Traced(x) => Traced(y)
    BY <1>4, <1>6, <1>7, <1>8 DEF Traced, p
  <1>10. QED
    BY <1>4, <1>8, <1>9 DEF Evens, Even, Exact, Serves

LEMMA LendsClient ==
  ASSUME ~Careless, Wired, Follows, Stocked, Lends(s, queue.at, queue.plane),
         \/ \E b \in Bufs : QBuf(b) \/ QBufEmpty(b)
         \/ Enqueue \/ DecoderStop \/ DecoderStart \/ DecoderStartWakes
  PROVE  Lends(s', queue'.at, queue'.plane)
  <1>1. queue' = queue /\ Line(s, queue.at) /\ Typed(s)
    BY DEF Wired, Line, QBuf, QBufEmpty, Enqueue, DecoderStop, DecoderStart, DecoderStartWakes
  <1>2. queue.at \in {"idle", "enqueue"}
    BY DEF QBuf, QBufEmpty, Enqueue, DecoderStop, DecoderStart, DecoderStartWakes, At, Alone,
           Stocked
  <1>3. ASSUME Evens(s, s')
        PROVE  Lends(s', queue'.at, queue'.plane)
    <2>1. Calm(queue.at)
      BY <1>2 DEF Calm
    <2>2. Even(s)
      BY <2>1, EvenLends
    <2>3. Even(s')
      BY <1>1, <1>3, <2>2 DEF Evens
    <2>4. QED
      BY <1>1, <2>1, <2>3, EvenLends
  <1>4. Evens(s, Fail(s)) /\ Evens(s, s)
    BY PartsMove, StateStill, ComposeEvens
  <1>5. CASE \E b \in Bufs : QBuf(b) \/ QBufEmpty(b)
    <2>1. PICK b \in Bufs : QBuf(b) \/ QBufEmpty(b)
      BY <1>5
    <2>2. queue.at = "idle" /\ s.own[b] = "user" /\ s.state # "ERROR"
      BY <2>1 DEF QBuf, QBufEmpty, At
    <2>3. CASE QBuf(b) /\ Plane(b) \in on
      <3>1. s' = BufQueue(s, b, TRUE)
        BY <2>3 DEF QBuf
      <3>2. s.state # "DEINIT"
        <4>1. Fits(s.state, on) /\ on \in SUBSET Planes
          BY <2>2 DEF Follows, Placed
        <4>2. on \in {{"OUTPUT"}, {"CAPTURE"}, Planes}
          BY <2>3, <4>1 DEF Planes
        <4>3. QED
          BY <4>1, <4>2 DEF Fits
      <3>3. QED
        BY <1>1, <1>3, <2>2, <3>1, <3>2, QueueEvens
    <2>4. CASE QBuf(b) /\ Plane(b) \notin on
      <3>1. s' = [s EXCEPT !.own[b] = "prepared"]
        BY <2>4 DEF QBuf
      <3>2. /\ s'.msgs = s.msgs /\ s'.up = s.up /\ s'.state = s.state /\ s'.inq = s.inq
            /\ s'.outs = s.outs /\ s'.attr = s.attr /\ s'.held = s.held
            /\ s'.own = [s.own EXCEPT ![b] = "prepared"]
        BY <1>1, <3>1 DEF Typed, Fields
      <3>3. Typed(s')
        BY <1>1, <3>1 DEF Typed, Fields
      <3>4. Marked(s') = Marked(s)
        BY <1>1, <2>2, <3>2 DEF Marked, Typed
      <3>5. InHand(s') = InHand(s) /\ Lent(s') = Lent(s)
        BY <3>2 DEF InHand, Lent
      <3>6. (Traced(s) => Traced(s')) /\ (Exact(s) => Exact(s'))
        BY <3>2, <3>4, <3>5 DEF Traced, Exact
      <3>7. QED
        BY <1>3, <3>2, <3>3, <3>6 DEF Evens, Even, Serves
    <2>5. CASE QBufEmpty(b)
      BY <1>3, <1>4, <2>5 DEF QBufEmpty
    <2>6. QED
      BY <2>1, <2>3, <2>4, <2>5
  <1>6. CASE Enqueue
    <2>1. queue.at = "enqueue"
      BY <1>6 DEF Enqueue, At
    <2>2. PICK b \in PlaneBufs(queue.plane) : s.own[b] = "prepared" /\ s' = BufQueue(s, b, FALSE)
      BY <1>6 DEF Enqueue
    <2>3. b \in Bufs
      BY DEF PlaneBufs, Bufs
    <2>4. QED
      BY <1>1, <1>3, <2>1, <2>2, <2>3, QueueEvens
  <1>7. CASE DecoderStop
    <2> DEFINE x == [s EXCEPT !.inq = IF s.run THEN Append(@, Eos) ELSE @]
               y == ChangeSub(x, {}, {"DRAIN"})
    <2>1. s' = y
      BY <1>7 DEF DecoderStop
    <2>2. Evens(s, x)
      BY <1>1, EosEven
    <2> HIDE DEF x
    <2>3. {} \in SUBSET SubStates /\ {"DRAIN"} \in SUBSET SubStates /\ "LOAD_RESOURCES" \notin {}
      BY DEF SubStates
    <2> DEFINE S == {"DRAIN"}
               N == {}
    <2> HIDE DEF S, N
    <2>4. Evens(x, y)
      <3>1. y = ChangeSub(x, N, S)
        BY DEF N, S
      <3>2. N \in SUBSET SubStates /\ S \in SUBSET SubStates /\ "LOAD_RESOURCES" \notin N
        BY <2>3 DEF N, S
      <3>3. Moves(x, ChangeSub(x, N, S)) /\ Still(x, ChangeSub(x, N, S))
        BY <3>2, PartsMove, StateStill
      <3>4. QED
        BY <3>1, <3>3, ComposeEvens
    <2> HIDE DEF y
    <2>5. QED
      BY <1>3, <2>1, <2>2, <2>4, ComposeEvens
  <1>8. CASE DecoderStart
    <2>1. s' = s \/ s' = Resume(s)
      BY <1>8 DEF DecoderStart
    <2>2. QED
      BY <1>3, <1>4, <2>1, StreamonMoves
  <1>9. CASE DecoderStartWakes
    <2>1. s' = Fail(s) \/ (s.flushed > 0 /\ s' = Resume(Taken(s, "flush")))
      BY <1>9 DEF DecoderStartWakes, Completed
    <2>2. CASE s.flushed > 0 /\ s' = Resume(Taken(s, "flush"))
      <3> DEFINE x == Taken(s, "flush")
      <3>1. Line(x, queue.at)
        BY <1>1, <2>2, LineFlushed
      <3>2. Untouched(s, x) /\ x.up = s.up /\ x.state = s.state
        BY <1>1 DEF Untouched, Taken, Fields, Typed
      <3> HIDE DEF x
      <3>3. Evens(s, x)
        BY <3>1, <3>2, UntouchedMoves DEF Evens, Even, Moves, Serves, Line
      <3>4. s' = Resume(x)
        BY <2>2 DEF x
      <3>5. QED
        BY <1>3, <3>3, <3>4, StreamonMoves, ComposeEvens
    <2>3. QED
      BY <1>3, <1>4, <2>1, <2>2
  <1>10. QED
    BY <1>5, <1>6, <1>7, <1>8, <1>9

-----------------------------------------------------------------------------
(* STREAMON.                                                               *)
LEMMA WaitEvens ==
  ASSUME NEW x
  PROVE  /\ Evens(x, NewWait(x)) /\ Evens(x, CreateDpb(x)) /\ Evens(x, Opened(x))
         /\ \A c \in Commands : Evens(x, Answer(x, c)) /\ Evens(x, FwStart(x))
         /\ x.resp > 0 => \A w \in Asking : Evens(x, Taken(x, w))
  <1>1. ASSUME NEW y, Untouched(x, y), Typed(x) => Typed(y) /\ y.up = x.up /\ y.state = x.state
        PROVE  Evens(x, y)
    BY <1>1, UntouchedMoves DEF Evens, Even, Moves, Serves
  <1>2. Evens(x, NewWait(x))
    <2>1. Untouched(x, NewWait(x))
      BY DEF Untouched, NewWait, Fields
    <2>2. QED
      BY <1>1, <2>1, WaitTyped
  <1>3. Evens(x, CreateDpb(x))
    BY DpbStill, StateUntouched, ComposeEvens
  <1>4. Evens(x, Opened(x))
    <2>1. Still(x, ChangeState(x, "INIT")) /\ Untouched(x, ChangeState(x, "INIT"))
      BY StateStill, StateUntouched DEF States
    <2>2. QED
      BY <2>1, ComposeEvens DEF Opened
  <1>5. ASSUME NEW c \in Commands
        PROVE  Evens(x, Answer(x, c))
    <2> DEFINE m == [type |-> "answer", cmd |-> c, ok |-> TRUE]
               y == Answer(x, c)
    <2>1. CASE ~x.up
      BY <2>1, ComposeEvens DEF Answer, Send
    <2>2. CASE x.up
      <3> SUFFICES ASSUME Typed(x) PROVE Typed(y) /\ (Even(x) => Even(y))
        BY DEF Evens
      <3>1. Typed(y)
        BY AnswerTold DEF Told
      <3>2. m \in Message /\ m.type = "answer"
        BY DEF Message
      <3>3. y = [x EXCEPT !.msgs = Append(x.msgs, m)]
        BY <2>2 DEF Answer, Send
      <3> HIDE DEF m
      <3>4. Append(x.msgs, m) = x.msgs \o <<m>>
        BY <3>2, AppendIsConcat DEF Typed
      <3>5. /\ y.msgs = x.msgs \o <<m>> /\ y.held = x.held /\ y.own = x.own /\ y.attr = x.attr
            /\ y.inq = x.inq /\ y.outs = x.outs /\ y.up = x.up /\ y.state = x.state
        BY <3>3, <3>4 DEF Typed, Fields
      <3> HIDE DEF y
      <3>6. PICK at : at = "idle"
        OBVIOUS
      <3>7. ASSUME Even(x) PROVE Even(y)
        <4>1. Calm(at)
          BY <3>6 DEF Calm
        <4>2. Lends(x, at, "OUTPUT")
          BY <3>7, <4>1, EvenLends
        <4>3. Lends(y, at, "OUTPUT")
          BY <3>2, <3>5, <4>2, LendsTold DEF Serves
        <4>4. QED
          BY <4>1, <4>3, EvenLends
      <3>8. QED
        BY <3>1, <3>7 DEF y
    <2>3. QED
      BY <2>1, <2>2
  <1>6. Evens(x, FwStart(x))
    <2> DEFINE a == Answer(x, "start")
               y == [a EXCEPT !.run = TRUE]
    <2>1. FwStart(x) = y
      BY DEF FwStart
    <2>2. Evens(x, a)
      BY <1>5 DEF Commands
    <2> HIDE DEF a
    <2>3. Typed(a) => Typed(y) /\ y.up = a.up /\ y.state = a.state
      BY DEF Typed, Fields
    <2>4. Untouched(a, y)
      BY DEF Untouched, Fields
    <2>5. Evens(a, y)
      BY <2>3, <2>4, UntouchedMoves DEF Evens, Even, Moves, Serves
    <2>6. QED
      BY <2>1, <2>2, <2>5, ComposeEvens
  <1>7. ASSUME x.resp > 0, NEW w \in Asking
        PROVE  Evens(x, Taken(x, w))
    <2>1. Untouched(x, Taken(x, w))
      BY DEF Untouched, Taken, Fields
    <2>2. QED
      BY <1>1, <1>7, <2>1, WaitTaken
  <1>8. QED
    BY <1>2, <1>3, <1>4, <1>5, <1>6, <1>7

LEMMA FreshEvens ==
  ASSUME NEW a, Typed(a), NEW y,
         \/ y = [a EXCEPT !.off = FALSE, !.held = None, !.heldPic = "none", !.drops = 0]
         \/ y = [a EXCEPT !.off = FALSE, !.changed = FALSE]
  PROVE  Evens(a, y)
  <1>1. Typed(y) /\ y.msgs = a.msgs /\ y.up = a.up /\ y.state = a.state /\ y.own = a.own
    BY FreshTyped
  <1>2. y.inq = a.inq /\ y.outs = a.outs /\ y.attr = a.attr /\ y.held \in {a.held, None}
    <2>1. DOMAIN a = Fields
      BY DEF Typed
    <2>2. CASE y = [a EXCEPT !.off = FALSE, !.held = None, !.heldPic = "none", !.drops = 0]
      BY <2>1, <2>2 DEF Fields
    <2>3. CASE y = [a EXCEPT !.off = FALSE, !.changed = FALSE]
      BY <2>1, <2>3 DEF Fields
    <2>4. QED
      BY <2>2, <2>3
  <1>3. InHand(y) = InHand(a) /\ Lent(y) = Lent(a) /\ Marked(y) = Marked(a)
    BY <1>1, <1>2 DEF InHand, Lent, Marked
  <1>4. (Traced(a) => Traced(y)) /\ (Exact(a) => Exact(y))
    BY <1>1, <1>2, <1>3 DEF Traced, Exact
  <1>5. QED
    BY <1>1, <1>4 DEF Evens, Even, Serves

(* What has failed promises nothing.                                       *)
LEMMA FailedEvens ==
  ASSUME NEW x, Typed(x), queue.plane \in Planes
  PROVE  /\ Evens(x, Fail(x)) /\ Evens(x, FailStart(x))
         /\ Typed(FailStart(x)) /\ ~Serves(FailStart(x))
  <1> DEFINE y == BuffersDone(x, queue.plane, "prepared")
  <1>1. Still(x, y)
    BY BufferStill
  <1> HIDE DEF y
  <1>2. Typed(y) /\ Sound(y)
    BY <1>1 DEF Still, Tame, Typed, Sound
  <1>3. Typed(Fail(y)) /\ Fail(y).state = "ERROR"
    BY <1>2, StateStill, Failing DEF Still, Tame
  <1>4. FailStart(x) = Fail(y)
    BY DEF FailStart, y
  <1>5. QED
    BY <1>3, <1>4, PartsMove, StateStill, ComposeEvens DEF Evens, Even, Serves

LEMMA LendsOn ==
  ASSUME Wired, Follows, Lends(s, queue.at, queue.plane),
         \/ \E p \in Planes : StreamOn(p)
         \/ StartStreaming \/ PropsAnswered \/ LoadAnswered \/ StartAnswered
         \/ ConfigAnswered \/ ReleaseAnswered \/ StreamonExpires
  PROVE  Lends(s', queue'.at, queue'.plane)
  <1>1. /\ queue.plane \in Planes /\ Typed(s)
        /\ DOMAIN queue = {"at", "plane", "drc", "drain", "rollback"}
    BY DEF Follows, Wired, Line
  <1>2. Calm(queue.at)
    BY DEF StreamOn, StartStreaming, PropsAnswered, LoadAnswered, StartAnswered, ConfigAnswered,
           ReleaseAnswered, StreamonExpires, At, Calm
  <1>3. Calm(queue'.at)
    <2>1. Rest => queue'.at = "idle"
      BY DEF Rest, Idle
    <2>2. \A l : Goto(l) => queue'.at = l
      BY <1>1 DEF Goto
    <2>3. (\E p \in Planes : StreamOn(p)) => queue'.at = "enqueue"
      BY DEF StreamOn, Idle
    <2>4. ConfigAnswered => queue'.at \in {"idle", "release"}
      BY <1>1, <2>1 DEF ConfigAnswered, FinishOn
    <2>5. queue'.at \in {"idle", "enqueue", "props", "config", "load", "start", "release"}
      BY <2>1, <2>2, <2>3, <2>4
         DEF StartStreaming, PropsAnswered, LoadAnswered, StartAnswered, ReleaseAnswered,
             StreamonExpires, FinishOn
    <2>6. QED
      BY <2>5 DEF Calm
  <1> SUFFICES Evens(s, s')
    BY <1>1, <1>2, <1>3, EvenLends DEF Evens
  <1>4. CASE \E p \in Planes : StreamOn(p)
    BY <1>4, ComposeEvens DEF StreamOn
  <1>5. CASE StartStreaming
    <2> DEFINE y == Opened(s)
               z == NewWait(y)
    <2>1. CASE s.state = "ERROR"
      BY <1>1, <1>5, <2>1, FailedEvens DEF StartStreaming
    <2>2. CASE s.state # "ERROR"
      <3>1. PICK l \in {"props", "config"} :
              s' = IF l = "props"
                   THEN [Answer(z, "props") EXCEPT !.off = FALSE, !.held = None,
                                                   !.heldPic = "none", !.drops = 0]
                   ELSE [Answer(z, "config") EXCEPT !.off = FALSE, !.changed = FALSE]
        BY <1>5, <2>2 DEF StartStreaming
      <3>2. Evens(s, y)
        BY WaitEvens
      <3> HIDE DEF y
      <3>3. Evens(y, z)
        BY WaitEvens
      <3> HIDE DEF z
      <3> DEFINE a == Answer(z, l)
      <3>4. s' = IF l = "props"
                 THEN [a EXCEPT !.off = FALSE, !.held = None, !.heldPic = "none", !.drops = 0]
                 ELSE [a EXCEPT !.off = FALSE, !.changed = FALSE]
        BY <3>1
      <3>5. Evens(z, a)
        BY WaitEvens DEF Commands
      <3> HIDE DEF a
      <3>6. Evens(s, a)
        BY <3>2, <3>3, <3>5, ComposeEvens
      <3>7. Typed(a)
        BY <1>1, <3>6 DEF Evens
      <3>8. Evens(a, s')
        BY <3>4, <3>7, FreshEvens
      <3>9. QED
        BY <3>6, <3>8, ComposeEvens
    <2>3. QED
      BY <2>1, <2>2
  <1>6. CASE PropsAnswered
    <2>1. s.resp > 0 /\ "props" \in Asking
      BY <1>6 DEF PropsAnswered, Completed, Asking, Waits
    <2>2. s' = StreamonInput(Taken(s, "props")) \/ s' = Answer(NewWait(s), "load")
      BY <1>6 DEF PropsAnswered
    <2>3. Evens(s, Taken(s, "props"))
      BY <2>1, WaitEvens
    <2>4. \A y : Evens(y, StreamonInput(y)) /\ Evens(y, Answer(y, "load"))
      BY StreamonMoves, WaitEvens DEF Commands
    <2>5. Evens(s, NewWait(s))
      BY WaitEvens
    <2>6. QED
      BY <2>2, <2>3, <2>4, <2>5, ComposeEvens
  <1>7. CASE LoadAnswered
    <2>1. s' = FwStart(NewWait(s))
      BY <1>7 DEF LoadAnswered
    <2>2. Evens(s, NewWait(s)) /\ \A y : Evens(y, FwStart(y))
      BY WaitEvens DEF Commands
    <2>3. QED
      BY <2>1, <2>2, ComposeEvens
  <1>8. CASE StartAnswered
    <2> DEFINE t == Taken(s, "start")
               N == {}
               L == {"LOAD_RESOURCES"}
               x == ChangeSub(t, N, L)
    <2>1. s' = StreamonInput(x) /\ s.resp > 0 /\ "start" \in Asking
      BY <1>8 DEF StartAnswered, Completed, Asking, Waits
    <2>2. Evens(s, t)
      BY <2>1, WaitEvens
    <2> HIDE DEF t
    <2>3. N \in SUBSET SubStates /\ L \in SUBSET SubStates /\ "LOAD_RESOURCES" \notin N
      BY DEF SubStates
    <2> HIDE DEF N, L
    <2>4. Moves(t, x) /\ Still(t, x)
      BY <2>3, PartsMove, StateStill
    <2> HIDE DEF x
    <2>5. Evens(t, x) /\ Evens(x, s')
      BY <2>1, <2>4, StreamonMoves, ComposeEvens
    <2>6. QED
      BY <2>2, <2>5, ComposeEvens
  <1>9. CASE ConfigAnswered
    <2> DEFINE t == Taken(s, "config")
               x == CreateDpb(t)
    <2>1. s.resp > 0 /\ "config" \in Asking
      BY <1>9 DEF ConfigAnswered, Completed, Asking, Waits
    <2>2. s' = Answer(x, "release") \/ s' = StreamonOutput(x, DrcPending(x), DrainPending(x))
      BY <1>9 DEF ConfigAnswered
    <2>3. Evens(s, t)
      BY <2>1, WaitEvens
    <2> HIDE DEF t
    <2>4. Evens(t, x)
      BY WaitEvens
    <2> HIDE DEF x
    <2>5. Evens(x, s')
      BY <2>2, StreamonMoves, WaitEvens DEF Commands
    <2>6. QED
      BY <2>3, <2>4, <2>5, ComposeEvens
  <1>10. CASE ReleaseAnswered
    <2> DEFINE x == Taken(s, "release")
    <2>1. /\ s' = StreamonOutput(x, queue.drc, queue.drain) /\ s.resp > 0
          /\ "release" \in Asking
      BY <1>10 DEF ReleaseAnswered, Completed, Asking, Waits
    <2>2. Evens(s, x)
      BY <2>1, WaitEvens
    <2> HIDE DEF x
    <2>3. Evens(x, s')
      BY <2>1, StreamonMoves
    <2>4. QED
      BY <2>2, <2>3, ComposeEvens
  <1>11. CASE StreamonExpires
    <2> DEFINE f == Fail(s)
    <2>1. s' = FailStart(f)
      BY <1>11 DEF StreamonExpires
    <2>2. Evens(s, f)
      BY <1>1, FailedEvens
    <2> HIDE DEF f
    <2>3. Evens(f, FailStart(f))
      BY <1>1, <2>2, FailedEvens DEF Evens
    <2>4. QED
      BY <2>1, <2>2, <2>3, ComposeEvens
  <1>12. QED
    BY <1>4, <1>5, <1>6, <1>7, <1>8, <1>9, <1>10, <1>11

-----------------------------------------------------------------------------
(* STREAMOFF.  vb2 has its buffers back, none of which the firmware has.   *)
LEMMA ClearedLends ==
  ASSUME NEW x, Typed(x), NEW p \in Planes, NEW to \in {"user", "prepared"}
  PROVE  LET y == BuffersDone(x, p, to)
         IN /\ Typed(y) /\ y.state = x.state /\ y.up = x.up
            /\ y.inq = x.inq /\ y.outs = x.outs /\ y.msgs = x.msgs
            /\ Traced(x) /\ Lent(x) \cap PlaneBufs(p) = {} => Traced(y)
            /\ Marked(x) \subseteq Lent(x) \cup PlaneBufs(p) => Exact(y)
  <1> DEFINE o == [b \in Bufs |-> IF b \in PlaneBufs(p) /\ x.own[b] = "active"
                                  THEN to ELSE x.own[b]]
             y == BuffersDone(x, p, to)
  <1>1. Typed(y)
    BY BufferStill DEF Still, Tame
  <1>2. y = [x EXCEPT !.own = o]
    BY DEF BuffersDone
  <1>3. Marked(x) \ PlaneBufs(p) = {b \in Bufs : o[b] = "active" /\ x.attr[b] = "queued"}
    BY DEF Marked
  <1> HIDE DEF o
  <1>4. /\ y.state = x.state /\ y.up = x.up /\ y.inq = x.inq /\ y.outs = x.outs
        /\ y.msgs = x.msgs /\ y.held = x.held /\ y.attr = x.attr /\ y.own = o
    BY <1>2 DEF Typed, Fields
  <1> HIDE DEF y
  <1>5. Lent(y) = Lent(x) /\ InHand(y) = InHand(x) /\ Marked(y) = Marked(x) \ PlaneBufs(p)
    BY <1>3, <1>4 DEF Lent, InHand, Marked
  <1>6. ASSUME Traced(x), Lent(x) \cap PlaneBufs(p) = {}
        PROVE  Traced(y)
    <2>1. Lent(x) \subseteq Marked(x) \ PlaneBufs(p)
      BY <1>6 DEF Traced
    <2>2. QED
      BY <1>4, <1>5, <1>6, <2>1 DEF Traced
  <1>7. Marked(x) \subseteq Lent(x) \cup PlaneBufs(p) => Exact(y)
    BY <1>5 DEF Exact
  <1>8. QED
    BY <1>1, <1>4, <1>6, <1>7 DEF y

(* What was never queued is handed back.                                   *)
LEMMA ShedMoves ==
  ASSUME NEW x, Typed(x), NEW p, NEW r
  PROVE  LET y == FlushDeferred(x, p, r)
         IN /\ Typed(y) /\ y.state = x.state /\ y.up = x.up
            /\ y.inq = x.inq /\ y.outs = x.outs /\ y.msgs = x.msgs
            /\ Lent(y) = Lent(x) /\ Marked(y) = Marked(x)
            /\ (Traced(x) => Traced(y)) /\ (Exact(x) => Exact(y))
  <1> DEFINE o == [b \in Bufs |-> IF b \in PlaneBufs(p) /\ x.own[b] = "active"
                                     /\ x.attr[b] = "deferred"
                                  THEN IF r THEN "prepared" ELSE "user" ELSE x.own[b]]
             y == FlushDeferred(x, p, r)
  <1>1. Typed(y)
    <2>1. \A a, b : Still(x, FlushDeferred(x, a, b))
      BY BufferStill
    <2>2. Still(x, y)
      BY <2>1, Zenon
    <2> HIDE DEF y
    <2>3. QED
      BY <2>2 DEF Still, Tame
  <1>2. y = [x EXCEPT !.own = o]
    BY DEF FlushDeferred
  <1>3. Marked(x) = {b \in Bufs : o[b] = "active" /\ x.attr[b] = "queued"}
    BY DEF Marked
  <1> HIDE DEF o
  <1>4. /\ y.state = x.state /\ y.up = x.up /\ y.inq = x.inq /\ y.outs = x.outs
        /\ y.msgs = x.msgs /\ y.held = x.held /\ y.attr = x.attr /\ y.own = o
    BY <1>2 DEF Typed, Fields
  <1> HIDE DEF y
  <1>5. Lent(y) = Lent(x) /\ InHand(y) = InHand(x) /\ Marked(y) = Marked(x)
    BY <1>3, <1>4 DEF Lent, InHand, Marked
  <1>6. QED
    BY <1>1, <1>4, <1>5 DEF Traced, Exact, y

(* An answer behind a session that is stopped or ended.                    *)
LEMMA DroppedLends ==
  ASSUME NEW x, Typed(x), Traced(x), NEW m \in Message, m.type = "answer", NEW y,
         y.msgs = x.msgs \o <<m>>, y.inq = << >>, y.outs = {},
         y.held = x.held, y.own = x.own, y.attr = x.attr
  PROVE  /\ Traced(y) /\ Ahead(y.msgs, {"etb", "ftb"}, "answer")
         /\ Free(x.msgs) => Free(y.msgs)
  <1> DEFINE p == x.msgs
             e == <<m>>
  <1>1. /\ p \in Seq(Message) /\ e \in Seq(Message) /\ Carried(e) = {} /\ Sole(e) /\ Clean(e)
        /\ Free(e)
    <2>1. p \in Seq(Message) /\ e \in Seq(Message) /\ Sole(e) /\ Clean(e) /\ Carried(e) = Bears(m)
      BY CarriedOne DEF Typed
    <2>2. DOMAIN e = {1} /\ e[1] = m
      OBVIOUS
    <2> HIDE DEF e
    <2>3. Free(e) /\ Bears(m) = {}
      BY <2>2 DEF Free, Bears
    <2>4. QED
      BY <2>1, <2>3
  <1>2. Ahead(p \o e, {"etb", "ftb"}, m.type)
    BY <1>1, AheadOne
  <1>3. y.msgs = p \o e
    OBVIOUS
  <1> HIDE DEF p, e
  <1>4. /\ Carried(y.msgs) = Carried(p)
        /\ Clean(p) => Clean(y.msgs)
        /\ Sole(p) => Sole(y.msgs)
    <2>1. Carried(p) \cap Carried(e) = {}
      BY <1>1
    <2>2. /\ Carried(p \o e) = Carried(p) \cup Carried(e)
          /\ Clean(p) /\ Clean(e) => Clean(p \o e)
          /\ Sole(p) /\ Sole(e) /\ Carried(p) \cap Carried(e) = {} => Sole(p \o e)
      BY <1>1, CarriedJoined
    <2>3. QED
      BY <1>1, <1>3, <2>1, <2>2
  <1>5. Free(p) => Free(y.msgs)
    BY <1>1, <1>3, JoinedFree
  <1>6. InHand(y) = {}
    BY DEF InHand
  <1>7. Lent(y) \subseteq Lent(x) /\ Marked(y) = Marked(x)
    BY <1>4, <1>6 DEF Lent, Marked, p
  <1>8. Traced(y)
    BY <1>4, <1>6, <1>7 DEF Traced, p
  <1>9. QED
    BY <1>2, <1>3, <1>5, <1>8 DEF p

(* The exit.                                                               *)
LEMMA FinishLends ==
  ASSUME queue.plane \in Planes, NEW x, Typed(x), NEW failed \in BOOLEAN,
         NEW q, q.plane = queue.plane, FinishOff(x, failed, q),
         Serves(x) /\ x.up /\ ~failed =>
           /\ Traced(x) /\ Lent(x) \cap PlaneBufs(queue.plane) = {}
           /\ Marked(x) \subseteq Lent(x) \cup PlaneBufs(queue.plane)
  PROVE  Lends(s', queue'.at, queue'.plane)
  <1>1. queue'.at = "idle"
    BY DEF FinishOff, Rest, Idle
  <1> SUFFICES Even(s')
    BY <1>1, EvenLends DEF Calm
  <1>2. CASE q.rollback
    <2>1. s' = FailStart(x)
      BY <1>2 DEF FinishOff
    <2>2. QED
      BY <2>1, FailedEvens DEF Even
  <1>3. CASE ~q.rollback
    <2> DEFINE p == queue.plane
               y == BuffersDone(x, p, "user")
    <2>1. s' = IF failed THEN Fail(y) ELSE y
      BY <1>3 DEF FinishOff
    <2>2. /\ Typed(y) /\ y.state = x.state /\ y.up = x.up
          /\ Traced(x) /\ Lent(x) \cap PlaneBufs(p) = {} => Traced(y)
          /\ Marked(x) \subseteq Lent(x) \cup PlaneBufs(p) => Exact(y)
      BY ClearedLends
    <2> HIDE DEF y
    <2>3. CASE failed
      <3>1. Sound(y)
        BY <2>2 DEF Typed, Sound
      <3>2. s' = Fail(y) /\ Fail(y).state = "ERROR"
        BY <2>1, <2>3, <3>1, Failing
      <3>3. QED
        BY <3>2 DEF Even, Serves
    <2>4. CASE ~failed
      <3>1. s' = y
        BY <2>1, <2>4
      <3>2. QED
        BY <2>2, <2>4, <3>1 DEF Even, Serves
    <2>5. QED
      BY <2>3, <2>4
  <1>4. QED
    BY <1>2, <1>3

LEMMA UntouchedLent ==
  ASSUME NEW x, NEW y, Typed(x), Typed(y), Untouched(x, y)
  PROVE  /\ y.inq = x.inq /\ y.outs = x.outs /\ y.msgs = x.msgs
         /\ Lent(y) = Lent(x) /\ Marked(y) = Marked(x)
         /\ Traced(x) => Traced(y)
         /\ Exact(x) => Exact(y)
  <1>1. /\ y.inq = x.inq /\ y.outs = x.outs /\ y.msgs = x.msgs
        /\ y.own = x.own /\ y.attr = x.attr /\ y.held = x.held
    BY DEF Untouched, Typed
  <1>2. InHand(y) = InHand(x) /\ Marked(y) = Marked(x)
    BY <1>1 DEF InHand, Marked
  <1>3. Lent(y) = Lent(x)
    BY <1>1, <1>2 DEF Lent
  <1>4. QED
    BY <1>1, <1>2, <1>3 DEF Traced, Exact

(* The firmware drops what it has, and answers.                            *)
LEMMA AnswersLast ==
  ASSUME NEW x, Typed(x), NEW c \in {"stop", "end"},
         NEW y, y = IF c = "stop" THEN FwStop(NewWait(x)) ELSE FwEnd(NewWait(x))
  PROVE  /\ y.up = x.up /\ y.state = x.state
         /\ y.up /\ Traced(x) =>
              /\ Traced(y) /\ Ahead(y.msgs, {"etb", "ftb"}, "answer")
              /\ Free(x.msgs) => Free(y.msgs)
              /\ y.inq = << >> /\ y.outs = {}
  <1> DEFINE w == NewWait(x)
             a == Answer(w, c)
             m == [type |-> "answer", cmd |-> c, ok |-> TRUE]
  <1>1. Typed(w) /\ w.up = x.up /\ w.state = x.state
    BY WaitTyped
  <1>2. Untouched(x, w)
    BY DEF Untouched, NewWait, Fields
  <1>3. w.msgs = x.msgs /\ (Traced(x) => Traced(w))
    BY <1>1, <1>2, UntouchedLent
  <1> HIDE DEF w
  <1>4. Told(w, a, c)
    BY <1>1, AnswerTold DEF Commands
  <1>5. a.held = w.held /\ a.attr = w.attr
    BY <1>1 DEF Answer, Send, Typed, Fields
  <1>6. \/ y = [a EXCEPT !.run = FALSE, !.inq = << >>, !.outs = {}, !.pool = 0, !.paused = FALSE]
        \/ y = [a EXCEPT !.run = FALSE, !.parsed = FALSE, !.inq = << >>, !.outs = {},
                         !.pool = 0, !.paused = FALSE]
    BY DEF FwStop, FwEnd, w
  <1> HIDE DEF a
  <1>7. DOMAIN a = Fields
    BY <1>4 DEF Told, Typed
  <1>8. /\ y.msgs = a.msgs /\ y.up = a.up /\ y.state = a.state /\ y.own = a.own
        /\ y.held = a.held /\ y.attr = a.attr /\ y.inq = << >> /\ y.outs = {}
    <2>1. CASE y = [a EXCEPT !.run = FALSE, !.inq = << >>, !.outs = {}, !.pool = 0,
                             !.paused = FALSE]
      BY <1>7, <2>1 DEF Fields
    <2>2. CASE y = [a EXCEPT !.run = FALSE, !.parsed = FALSE, !.inq = << >>, !.outs = {},
                             !.pool = 0, !.paused = FALSE]
      BY <1>7, <2>2 DEF Fields
    <2>3. QED
      BY <1>6, <2>1, <2>2
  <1>9. y.up = x.up /\ y.state = x.state
    BY <1>1, <1>4, <1>8 DEF Told
  <1>10. m \in Message /\ m.type = "answer"
    BY DEF Message, Commands
  <1>11. ASSUME y.up, Traced(x)
         PROVE  /\ Traced(y) /\ Ahead(y.msgs, {"etb", "ftb"}, "answer")
                /\ Free(x.msgs) => Free(y.msgs)
    <2>1. a.msgs = Append(w.msgs, m) /\ a.own = w.own
      BY <1>1, <1>9, <1>11, <1>4 DEF Told
    <2> HIDE DEF m
    <2>2. Append(w.msgs, m) = w.msgs \o <<m>>
      <3>1. w.msgs \in Seq(Message) /\ m \in Message
        BY <1>1, <1>10 DEF Typed
      <3>2. QED
        BY <3>1, AppendIsConcat
    <2>3. /\ y.msgs = w.msgs \o <<m>> /\ y.inq = << >> /\ y.outs = {}
          /\ y.held = w.held /\ y.own = w.own /\ y.attr = w.attr
      BY <1>5, <1>8, <2>1, <2>2
    <2>4. Traced(w)
      BY <1>3, <1>11
    <2>5. /\ Traced(y) /\ Ahead(y.msgs, {"etb", "ftb"}, "answer")
          /\ Free(w.msgs) => Free(y.msgs)
      BY <1>1, <1>10, <2>3, <2>4, DroppedLends
    <2>6. QED
      BY <1>3, <2>5
  <1>12. QED
    BY <1>8, <1>9, <1>11

(* The rest of a STREAMOFF.                                                *)
LEMMA TailLends ==
  ASSUME queue.plane \in Planes, DOMAIN queue = {"at", "plane", "drc", "drain", "rollback"},
         NEW x, Typed(x), NEW q, q.plane = queue.plane, StreamoffTail(x, q),
         Serves(x) /\ x.up =>
           /\ Traced(x)
           /\ \/ StreamoffTarget(x.state, queue.plane) = "INIT" /\ Free(x.msgs)
              \/ /\ StreamoffTarget(x.state, queue.plane) # "INIT" /\ Exact(x)
                 /\ Lent(x) \cap PlaneBufs(queue.plane) = {}
  PROVE  Lends(s', queue'.at, queue'.plane)
  <1> DEFINE p == queue.plane
             t == StateChangeStreamoff(x, p)
             y == FlushDeferred(t, p, q.rollback)
             w == DestroyDpb(y)
  <1>1. IF y.state = "INIT"
        THEN s' = FwEnd(NewWait(w)) /\ Goto("end") /\ UNCHANGED on
        ELSE FinishOff(y, FALSE, q)
    BY DEF StreamoffTail
  <1>2. Sound(x) /\ x.state \in States
    BY DEF Typed, Sound
  <1>3. t.state = StreamoffTarget(x.state, p)
    BY <1>2, Targets
  <1>4. Still(x, t) /\ Untouched(x, t)
    <2>1. StreamoffTarget(x.state, p) \in States
      BY DEF StreamoffTarget, States
    <2>2. QED
      BY <2>1, StateStill, StateUntouched DEF StateChangeStreamoff
  <1> HIDE DEF t
  <1>5. Typed(t) /\ t.up = x.up /\ (Serves(t) => Serves(x))
    BY <1>4 DEF Still, Tame, Serves
  <1>6. /\ t.msgs = x.msgs /\ Lent(t) = Lent(x) /\ Marked(t) = Marked(x)
        /\ (Traced(x) => Traced(t)) /\ (Exact(x) => Exact(t))
    BY <1>4, <1>5, UntouchedLent
  <1>7. /\ Typed(y) /\ y.state = t.state /\ y.up = t.up
        /\ y.msgs = t.msgs /\ Lent(y) = Lent(t) /\ Marked(y) = Marked(t)
        /\ (Traced(t) => Traced(y)) /\ (Exact(t) => Exact(y))
    BY <1>5, ShedMoves
  <1> HIDE DEF y
  <1>8. CASE y.state = "INIT"
    <2>1. s' = FwEnd(NewWait(w)) /\ queue' = [queue EXCEPT !.at = "end"]
      BY <1>1, <1>8 DEF Goto
    <2>2. Still(y, w) /\ Untouched(y, w)
      BY DpbStill, StateUntouched
    <2> HIDE DEF w
    <2>3. Typed(w) /\ w.up = y.up
      BY <1>7, <2>2 DEF Still, Tame
    <2>4. w.msgs = y.msgs /\ (Traced(y) => Traced(w))
      BY <1>7, <2>2, <2>3, UntouchedLent
    <2>5. /\ s'.up = w.up
          /\ s'.up /\ Traced(w) =>
               /\ Traced(s') /\ (Free(w.msgs) => Free(s'.msgs))
               /\ s'.inq = << >> /\ s'.outs = {}
      BY <2>1, <2>3, AnswersLast
    <2>6. queue'.at = "end"
      BY <2>1
    <2>7. ASSUME s'.up
          PROVE  Traced(s') /\ Free(s'.msgs) /\ s'.inq = << >> /\ s'.outs = {}
      <3>1. x.up /\ Serves(t)
        BY <1>5, <1>7, <1>8, <2>3, <2>5, <2>7 DEF Serves
      <3>2. Traced(x) /\ Free(x.msgs)
        BY <1>3, <1>5, <1>7, <1>8, <3>1
      <3>3. QED
        BY <1>6, <1>7, <2>4, <2>5, <2>7, <3>2
    <2>8. QED
      BY <2>6, <2>7 DEF Lends
  <1>9. CASE y.state # "INIT"
    <2>1. FinishOff(y, FALSE, q)
      BY <1>1, <1>9
    <2>2. ASSUME Serves(y), y.up
          PROVE  /\ Traced(y) /\ Lent(y) \cap PlaneBufs(p) = {}
                 /\ Marked(y) \subseteq Lent(y) \cup PlaneBufs(p)
      <3>1. Serves(x) /\ x.up /\ StreamoffTarget(x.state, p) # "INIT"
        BY <1>3, <1>5, <1>7, <1>9, <2>2 DEF Serves
      <3>2. Traced(x) /\ Exact(x) /\ Lent(x) \cap PlaneBufs(p) = {}
        BY <3>1
      <3>3. QED
        BY <1>6, <1>7, <3>2 DEF Exact
    <2>3. QED
      BY <1>7, <2>1, <2>2, FinishLends
  <1>10. QED
    BY <1>8, <1>9

(* All flushes answered: nothing of the plane is under way.                *)
LEMMA FlushedPlane ==
  ASSUME NEW x, Typed(x), NEW plane \in Planes, Lends(x, "flush", plane), Serves(x), x.up,
         \A k \in DOMAIN x.msgs : x.msgs[k].type # "flush"
  PROVE  Traced(x) /\ Exact(x) /\ Lent(x) \cap PlaneBufs(plane) = {}
  <1>1. /\ Traced(x) /\ Exact(x) /\ x.outs = {} /\ (plane = "OUTPUT" => x.inq = << >>)
        /\ Ahead(x.msgs, Returning(plane), "flush")
    BY DEF Lends
  <1>2. \A k \in DOMAIN x.msgs : x.msgs[k].type \notin Returning(plane)
    BY <1>1 DEF Ahead
  <1>3. x.msgs \in Seq(Message) /\ x.inq \in Seq(InBufs \cup {Eos})
    BY DEF Typed
  <1>4. \A k \in DOMAIN x.inq : x.inq[k] \in InBufs \cup {Eos}
    BY <1>3
  <1>5. \A k \in DOMAIN x.msgs : x.msgs[k] \in Message
    BY <1>3
  <1>6. \A k \in Carriers(x.msgs) : x.msgs[k].buf \notin PlaneBufs(plane)
    <2> TAKE k \in Carriers(x.msgs)
    <2>1. /\ k \in DOMAIN x.msgs /\ x.msgs[k] \in Message
          /\ x.msgs[k].type \in {"etb", "ftb"} /\ x.msgs[k].buf \in Bufs
      BY <1>5 DEF Carriers
    <2>2. plane = "CAPTURE" /\ x.msgs[k].type = "etb"
      BY <1>2, <2>1 DEF Returning, Planes
    <2>3. x.msgs[k].buf \in InBufs \cup {Eos}
      BY <2>1, <2>2, Letters
    <2>4. QED
      BY <2>1, <2>2, <2>3, StreamAssumption DEF PlaneBufs, Bufs
  <1>7. Carried(x.msgs) \cap PlaneBufs(plane) = {}
    BY <1>6 DEF Carried
  <1>8. InHand(x) \cap PlaneBufs(plane) = {}
    <2>1. CASE plane = "OUTPUT"
      BY <1>1, <2>1 DEF InHand
    <2>2. CASE plane = "CAPTURE"
      BY <1>1, <1>4, <2>2, StreamAssumption DEF InHand, PlaneBufs, Bufs
    <2>3. QED
      BY <2>1, <2>2 DEF Planes
  <1>9. QED
    BY <1>1, <1>7, <1>8 DEF Lent

(* session_stop() up to its first wait.                                    *)
LEMMA StopsLends ==
  ASSUME queue.plane \in Planes, DOMAIN queue = {"at", "plane", "drc", "drain", "rollback"},
         NEW x, Typed(x), Even(x), NEW q, SessionStop(x, q), q.plane = queue.plane,
         q \in {queue, [queue EXCEPT !.rollback = TRUE]},
         Serves(x) /\ x.state # "STREAMING" /\ ~Loaded(x) =>
           OnlyAnswers(x.msgs) /\ StreamoffTarget(x.state, queue.plane) = "INIT"
  PROVE  Lends(s', queue'.at, queue'.plane)
  <1> DEFINE p == queue.plane
  <1>1. DOMAIN q = {"at", "plane", "drc", "drain", "rollback"}
    OBVIOUS
  <1>2. CASE x.state = "STREAMING"
    <2> DEFINE y == [x EXCEPT !.flushed = 0]
               all == q.plane = "OUTPUT"
    <2>1. s' = SendFlush(y, all) /\ queue' = [q EXCEPT !.at = "flush"]
      BY <1>2 DEF SessionStop
    <2>2. queue'.at = "flush" /\ queue'.plane = p
      BY <1>1, <2>1
    <2>3. Typed(y) /\ y.up = x.up /\ y.state = x.state
      BY DEF Typed, Fields
    <2>4. Untouched(x, y)
      BY DEF Untouched, Fields
    <2> HIDE DEF y
    <2>5. (Traced(x) => Traced(y)) /\ (Exact(x) => Exact(y)) /\ y.inq = x.inq
      BY <2>3, <2>4, UntouchedLent
    <2>6. /\ s'.up = y.up /\ (Serves(s') => Serves(y))
      BY <2>1, <2>3, FlushStirs DEF Stirs, Tame, Serves
    <2>7. ASSUME Serves(s'), s'.up
          PROVE  /\ Traced(s') /\ Exact(s') /\ s'.outs = {}
                 /\ p = "OUTPUT" => s'.inq = << >>
                 /\ Ahead(s'.msgs, Returning(p), "flush")
      <3>1. Traced(y) /\ Exact(y) /\ y.up
        BY <2>3, <2>5, <2>6, <2>7 DEF Even, Serves
      <3>2. all \in BOOLEAN
        OBVIOUS
      <3> HIDE DEF all
      <3>3. /\ Moves(y, s') /\ s'.outs = {} /\ s'.inq = (IF all THEN << >> ELSE y.inq)
            /\ \A K : K \subseteq {"etb", "ftb"} => Ahead(s'.msgs, K, "flush")
        BY <2>1, <2>3, <3>1, <3>2, FlushReturns
      <3>4. Traced(s') /\ Exact(s')
        BY <2>3, <3>1, <3>3 DEF Moves
      <3>5. Ahead(s'.msgs, Returning(p), "flush")
        BY <3>3 DEF Returning
      <3>6. QED
        BY <3>3, <3>4, <3>5 DEF all
    <2>8. QED
      BY <2>2, <2>7 DEF Lends
  <1>3. CASE x.state # "STREAMING" /\ Loaded(x)
    <2>1. s' = FwStop(NewWait(x)) /\ queue' = [q EXCEPT !.at = "stop"]
      BY <1>3 DEF SessionStop, Loaded
    <2>2. queue'.at = "stop"
      BY <1>1, <2>1
    <2>3. /\ s'.up = x.up /\ s'.state = x.state
          /\ s'.up /\ Traced(x) =>
               /\ Traced(s') /\ Ahead(s'.msgs, {"etb", "ftb"}, "answer")
               /\ s'.inq = << >> /\ s'.outs = {}
      BY <2>1, AnswersLast
    <2>4. QED
      BY <2>2, <2>3 DEF Lends, Even, Serves
  <1>4. CASE x.state # "STREAMING" /\ ~Loaded(x)
    <2>1. StreamoffTail(x, q)
      BY <1>4 DEF SessionStop, Loaded
    <2>2. ASSUME Serves(x), x.up
          PROVE  Traced(x) /\ StreamoffTarget(x.state, p) = "INIT" /\ Free(x.msgs)
      BY <1>4, <2>2 DEF Even, Free, OnlyAnswers
    <2>3. QED
      BY <2>1, <2>2, TailLends
  <1>5. QED
    BY <1>2, <1>3, <1>4

(* The steps that fail the instance.                                       *)
LEMMA KillsLends ==
  ASSUME queue.plane \in Planes, NEW x, Typed(x), KillSession(x)
  PROVE  Lends(s', queue'.at, queue'.plane)
  <1> DEFINE e == FwEnd(x)
             f == Fail(e)
             y == FlushDeferred(f, queue.plane, queue.rollback)
  <1>1. FinishOff(y, TRUE, queue)
    BY DEF KillSession
  <1>2. Typed(e)
    BY EndTold DEF Told
  <1> HIDE DEF e
  <1>3. Typed(f)
    BY <1>2, StateStill DEF Still, Tame
  <1> HIDE DEF f
  <1>4. Typed(y)
    BY <1>3, ShedMoves
  <1> HIDE DEF y
  <1>5. QED
    BY <1>1, <1>4, FinishLends

(* The steps of a STREAMOFF and of a STREAMON that is undone.              *)
LEMMA LendsOff ==
  ASSUME Wired, Follows, Stocked, Lends(s, queue.at, queue.plane),
         \/ \E p \in Planes : StreamOff(p)
         \/ StopStreaming \/ ReleaseExpires \/ FlushAnswered \/ FlushExpires
         \/ StopEnds \/ UnloadEnds \/ EndAnswered \/ EndExpires
  PROVE  Lends(s', queue'.at, queue'.plane)
  <1> DEFINE plane == queue.plane
  <1>1. /\ plane \in Planes /\ on \in SUBSET Planes /\ s.state \in States /\ Sound(s)
        /\ DOMAIN queue = {"at", "plane", "drc", "drain", "rollback"}
    BY DEF Follows, Sound
  <1>2. Line(s, queue.at) /\ Listed(s, on, queue) /\ Typed(s)
    BY DEF Wired, Line
  <1>3. s.state # "ERROR" /\ queue.at \in Halting \ {"end"} =>
          /\ s.state \in {"INPUT_STREAMING", "OUTPUT_STREAMING", "STREAMING"}
          /\ Fits(s.state, on) /\ plane \in on
    <2>1. on \in {{}, {"OUTPUT"}, {"CAPTURE"}, {"OUTPUT", "CAPTURE"}}
      BY <1>1 DEF Planes
    <2>2. QED
      BY <1>1, <2>1 DEF Follows, Placed, Fits, Planes, Halting
  <1>4. s.state # "ERROR" /\ queue.at \in Halting \ {"end"} /\ s.state # "STREAMING" =>
          StreamoffTarget(s.state, plane) = "INIT"
    BY <1>1, <1>3, LastPlane
  <1>5. Typed(Fail(s)) /\ Fail(s).state = "ERROR"
    BY <1>1, <1>2, StateStill, Failing DEF Still, Tame
  <1>6. CASE \E p \in Planes : StreamOff(p)
    <2>1. queue.at = "idle" /\ queue'.at = "off" /\ s' = s
      BY <1>6 DEF StreamOff, At, Idle
    <2>2. Even(s)
      BY <2>1, EvenLends DEF Calm
    <2>3. QED
      BY <2>1, <2>2, EvenLends DEF Calm
  <1>7. CASE StopStreaming
    <2> DEFINE h == [s EXCEPT !.held = None, !.heldPic = "none"]
               x == IF plane = "CAPTURE" THEN h ELSE s
               y == [x EXCEPT !.off = TRUE]
    <2>1. queue.at = "off" /\ SessionStop(y, queue)
      BY <1>7 DEF StopStreaming, At
    <2>2. Even(s)
      BY <2>1, EvenLends DEF Calm
    <2>3. /\ Typed(h) /\ h.msgs = s.msgs /\ h.own = s.own /\ h.attr = s.attr /\ h.inq = s.inq
          /\ h.outs = s.outs /\ h.up = s.up /\ h.state = s.state /\ h.sub = s.sub
          /\ h.held = None
      BY <1>2 DEF Typed, Fields
    <2> HIDE DEF h
    <2>4. Even(h)
      <3>1. Lent(h) = Lent(s) /\ Marked(h) = Marked(s) /\ InHand(h) = InHand(s)
        BY <2>3 DEF Lent, Marked, InHand
      <3>2. (Traced(s) => Traced(h)) /\ (Exact(s) => Exact(h))
        BY <2>3, <3>1 DEF Traced, Exact
      <3>3. QED
        BY <2>2, <2>3, <3>2 DEF Even, Serves
    <2>5. Typed(x) /\ Even(x) /\ x.msgs = s.msgs /\ x.state = s.state /\ x.sub = s.sub
      BY <1>2, <2>2, <2>3, <2>4
    <2> HIDE DEF x
    <2>6. Typed(y) /\ y.state = x.state /\ y.up = x.up /\ y.sub = x.sub
      BY <2>5 DEF Typed, Fields
    <2>7. Untouched(x, y)
      BY DEF Untouched, Fields
    <2> HIDE DEF y
    <2>8. y.msgs = x.msgs /\ (Traced(x) => Traced(y)) /\ (Exact(x) => Exact(y))
      BY <2>5, <2>6, <2>7, UntouchedLent
    <2>9. Even(y)
      BY <2>5, <2>6, <2>8 DEF Even, Serves
    <2>10. ASSUME Serves(y), y.state # "STREAMING", ~Loaded(y)
           PROVE  OnlyAnswers(y.msgs) /\ StreamoffTarget(y.state, plane) = "INIT"
      <3>1. s.state # "ERROR" /\ s.state # "STREAMING" /\ ~Loaded(s)
        BY <2>5, <2>6, <2>10 DEF Serves, Loaded
      <3>2. OnlyAnswers(s.msgs)
        BY <1>2, <2>1, <3>1 DEF Line, Unrun
      <3>3. StreamoffTarget(s.state, plane) = "INIT"
        BY <1>4, <2>1, <3>1 DEF Halting
      <3>4. QED
        BY <2>5, <2>6, <2>8, <3>2, <3>3
    <2>11. QED
      BY <1>1, <2>1, <2>6, <2>9, <2>10, StopsLends
  <1>8. CASE ReleaseExpires
    <2> DEFINE f == Fail(s)
               y == [f EXCEPT !.off = TRUE]
               q == [queue EXCEPT !.rollback = TRUE]
    <2>1. SessionStop(y, q)
      BY <1>8 DEF ReleaseExpires
    <2> HIDE DEF f
    <2>2. Typed(y) /\ y.state = "ERROR"
      BY <1>5 DEF Typed, Fields, f
    <2> HIDE DEF y
    <2>3. q.plane = plane
      BY <1>1
    <2>4. QED
      BY <1>1, <2>1, <2>2, <2>3, StopsLends DEF Even, Serves
  <1>9. CASE FlushAnswered
    <2> DEFINE n == s.flushed - 1
               x == [s EXCEPT !.flushed = n]
    <2>1. queue.at = "flush" /\ StreamoffTail(x, queue) /\ s.flushed > 0
      BY <1>9 DEF FlushAnswered, At, Completed, Taken
    <2>2. n \in Nat
      BY <1>2, <2>1 DEF Typed
    <2> HIDE DEF n
    <2>3. Typed(x) /\ x.state = s.state /\ x.up = s.up
      BY <1>2, <2>2 DEF Typed, Fields
    <2>4. Untouched(s, x)
      BY DEF Untouched, Fields
    <2> HIDE DEF x
    <2>5. /\ Lent(x) = Lent(s) /\ (Traced(s) => Traced(x)) /\ (Exact(s) => Exact(x))
      BY <1>2, <2>3, <2>4, UntouchedLent
    <2>6. ASSUME Serves(x), x.up
          PROVE  /\ Traced(x) /\ Exact(x) /\ Lent(x) \cap PlaneBufs(plane) = {}
                 /\ StreamoffTarget(x.state, plane) # "INIT"
      <3>1. Serves(s) /\ s.up /\ s.state = "STREAMING"
        BY <1>2, <2>1, <2>3, <2>6 DEF Serves, Line
      <3>2. s.flushes = 0
        BY <2>1, <3>1 DEF Stocked, Pooled
      <3>3. Count(s.msgs, "flush") = 0 /\ s.msgs \in Seq(Message)
        BY <1>2, <3>1, <3>2 DEF Line, Counted, Typed
      <3>4. \A k \in DOMAIN s.msgs : s.msgs[k].type # "flush"
        BY <3>3, CountZero
      <3>5. Lends(s, "flush", plane)
        BY <2>1
      <3>6. Traced(s) /\ Exact(s) /\ Lent(s) \cap PlaneBufs(plane) = {}
        BY <1>1, <1>2, <3>1, <3>4, <3>5, FlushedPlane
      <3>7. StreamoffTarget(s.state, plane) # "INIT"
        BY <3>1 DEF StreamoffTarget
      <3>8. QED
        BY <2>3, <2>5, <3>6, <3>7
    <2>7. QED
      BY <1>1, <2>1, <2>3, <2>6, TailLends
  <1>10. CASE FlushExpires
    <2>1. KillSession(Fail(s))
      BY <1>10 DEF FlushExpires
    <2>2. QED
      BY <1>1, <1>5, <2>1, KillsLends
  <1>11. CASE StopEnds
    <2>1. queue.at = "stop" /\ queue' = [queue EXCEPT !.at = "unload"]
      BY <1>11 DEF StopEnds, At, Goto
    <2>2. queue'.at = "unload"
      BY <1>1, <2>1
    <2>3. CASE s.resp > 0 /\ s' = Answer(NewWait(s), "unload")
      <3> DEFINE w == NewWait(s)
                 m == [type |-> "answer", cmd |-> "unload", ok |-> TRUE]
      <3>1. Typed(w) /\ w.up = s.up /\ w.state = s.state
        BY <1>2, WaitTyped
      <3>2. Untouched(s, w)
        BY DEF Untouched, NewWait, Fields
      <3>3. s' = Answer(w, "unload")
        BY <2>3
      <3> HIDE DEF w
      <3>4. /\ w.msgs = s.msgs /\ w.inq = s.inq /\ w.outs = s.outs
            /\ (Traced(s) => Traced(w))
        BY <1>2, <3>1, <3>2, UntouchedLent
      <3>5. /\ s'.held = w.held /\ s'.attr = w.attr /\ s'.own = w.own /\ s'.inq = w.inq
            /\ s'.outs = w.outs /\ s'.up = w.up /\ s'.state = w.state
            /\ s'.msgs = IF w.up THEN Append(w.msgs, m) ELSE w.msgs
        BY <3>1, <3>3 DEF Answer, Send, Typed, Fields
      <3>6. m \in Message /\ m.type = "answer"
        BY DEF Message, Commands
      <3> HIDE DEF m
      <3>7. ASSUME Serves(s'), s'.up
            PROVE  Traced(s') /\ s'.outs = {} /\ s'.inq = << >> /\ Free(s'.msgs)
        <4>1. Serves(s) /\ s.up
          BY <3>1, <3>5, <3>7 DEF Serves
        <4>2. Traced(s) /\ s.outs = {} /\ s.inq = << >> /\ Ahead(s.msgs, {"etb", "ftb"}, "answer")
          BY <2>1, <4>1 DEF Lends
        <4>3. \A k \in DOMAIN s.msgs : s.msgs[k].type # "answer"
          <5>1. Line(s, "stop")
            BY <1>2, <2>1
          <5>2. QED
            BY <2>3, <4>1, <5>1, NoneOut DEF Serves
        <4>4. Free(w.msgs)
          BY <3>4, <4>2, <4>3 DEF Ahead, Free
        <4>5. Append(w.msgs, m) = w.msgs \o <<m>>
          <5>1. w.msgs \in Seq(Message) /\ m \in Message
            BY <3>1, <3>6 DEF Typed
          <5>2. QED
            BY <5>1, AppendIsConcat
        <4>6. s'.msgs = w.msgs \o <<m>>
          BY <3>5, <3>7, <4>5
        <4>7. Traced(w) /\ s'.inq = << >> /\ s'.outs = {}
          BY <3>4, <3>5, <4>2
        <4>8. QED
          BY <3>1, <3>5, <3>6, <4>4, <4>6, <4>7, DroppedLends
      <3>8. QED
        BY <2>2, <3>7 DEF Lends
    <2>4. CASE s' = Answer(NewWait(Fail(s)), "unload")
      <3> DEFINE f == Fail(s)
      <3>1. s' = Answer(NewWait(f), "unload") /\ Typed(f) /\ f.state = "ERROR"
        BY <1>5, <2>4
      <3> HIDE DEF f
      <3>2. Typed(NewWait(f)) /\ NewWait(f).state = "ERROR"
        BY <3>1, WaitTyped
      <3>3. s'.state = "ERROR"
        BY <3>1, <3>2, AnswerTold DEF Told, Commands
      <3>4. QED
        BY <3>3 DEF Lends, Serves
    <2>5. QED
      BY <1>11, <2>3, <2>4 DEF StopEnds, Completed
  <1>12. CASE UnloadEnds
    <2>1. /\ queue.at = "unload"
          /\ \/ s.resp > 0 /\ StreamoffTail(Unloaded(Taken(s, "unload")), queue)
             \/ KillSession(Unloaded(Fail(s)))
      BY <1>12 DEF UnloadEnds, At, Completed
    <2>2. CASE s.resp > 0 /\ StreamoffTail(Unloaded(Taken(s, "unload")), queue)
      <3> DEFINE n == s.resp - 1
                 t == [s EXCEPT !.resp = n]
                 x == Unloaded(t)
      <3>1. n \in 0..MaxDone
        <4>1. MaxDone \in Nat
          BY StreamAssumption
        <4>2. QED
          BY <1>2, <2>2, <4>1 DEF Typed
      <3>2. StreamoffTail(x, queue)
        BY <2>2 DEF Taken
      <3> HIDE DEF n
      <3>3. Typed(t) /\ t.up = s.up /\ t.state = s.state
        BY <1>2, <3>1 DEF Typed, Fields
      <3>4. Untouched(s, t)
        BY DEF Untouched, Fields
      <3> HIDE DEF t
      <3>5. /\ t.msgs = s.msgs /\ t.inq = s.inq /\ t.outs = s.outs
            /\ (Traced(s) => Traced(t))
        BY <1>2, <3>3, <3>4, UntouchedLent
      <3>6. /\ Typed(x) /\ x.msgs = t.msgs /\ x.up = t.up /\ x.state = t.state
        BY <3>3, UnloadedTyped
      <3>7. x.inq = t.inq /\ x.outs = t.outs /\ x.held = t.held
        BY <3>3 DEF Unloaded, BuffersDone, ChangeSub, Typed, Fields
      <3> HIDE DEF x
      <3>8. ASSUME Serves(x), x.up
            PROVE  /\ Traced(x) /\ Free(x.msgs)
                   /\ StreamoffTarget(x.state, plane) = "INIT"
        <4>1. Serves(s) /\ s.up /\ s.state # "ERROR"
          BY <3>3, <3>6, <3>8 DEF Serves
        <4>2. s.outs = {} /\ s.inq = << >> /\ Traced(s)
          BY <2>1, <4>1 DEF Lends
        <4>3. s.msgs = << >> /\ s.state # "STREAMING"
          BY <1>2, <2>1, <2>2, <4>1 DEF Line, Unloading
        <4>4. StreamoffTarget(s.state, plane) = "INIT"
          BY <1>4, <2>1, <4>1, <4>3 DEF Halting
        <4>5. x.outs = {} /\ x.inq = << >> /\ x.msgs = << >> /\ x.held = None
          BY <3>5, <3>6, <3>7, <4>2, <4>3 DEF Traced
        <4>6. Traced(x) /\ Free(x.msgs)
          <5>1. InHand(x) = {} /\ Carriers(x.msgs) = {}
            BY <4>5 DEF InHand, Carriers
          <5>2. QED
            BY <4>5, <5>1 DEF Traced, Free, Lent, Carried, Sole, Clean
        <4>7. QED
          BY <3>3, <3>6, <4>4, <4>6
      <3>9. QED
        BY <1>1, <3>2, <3>6, <3>8, TailLends
    <2>3. CASE KillSession(Unloaded(Fail(s)))
      <3> DEFINE f == Fail(s)
                 x == Unloaded(f)
      <3>1. KillSession(x) /\ Typed(f)
        BY <1>5, <2>3
      <3> HIDE DEF f
      <3>2. Typed(x)
        BY <3>1, UnloadedTyped
      <3> HIDE DEF x
      <3>3. QED
        BY <1>1, <3>1, <3>2, KillsLends
    <2>4. QED
      BY <2>1, <2>2, <2>3
  <1>13. CASE EndAnswered
    <2> DEFINE n == s.resp - 1
               t == [s EXCEPT !.resp = n]
               c == ChangeState(t, "DEINIT")
               x == SessionGone(c)
               failed == s.state = "ERROR"
    <2>1. /\ queue.at = "end" /\ FinishOff(x, failed, queue) /\ s.resp > 0
      BY <1>13 DEF EndAnswered, At, Completed, Taken
    <2>2. n \in 0..MaxDone
      <3>1. MaxDone \in Nat
        BY StreamAssumption
      <3>2. QED
        BY <1>2, <2>1, <3>1 DEF Typed
    <2> HIDE DEF n
    <2>3. Typed(t) /\ t.up = s.up
      BY <1>2, <2>2 DEF Typed, Fields
    <2>4. Untouched(s, t)
      BY DEF Untouched, Fields
    <2> HIDE DEF t
    <2>5. Still(t, c) /\ Untouched(t, c)
      BY StateStill, StateUntouched DEF States
    <2> HIDE DEF c
    <2>6. Typed(c) /\ c.up = t.up
      BY <2>3, <2>5 DEF Still, Tame
    <2>7. Typed(x) /\ x.up = c.up
      BY <2>6 DEF Typed, Fields, SessionGone
    <2>8. Untouched(c, x)
      BY DEF Untouched, Fields, SessionGone
    <2> HIDE DEF x
    <2>9. Untouched(s, x)
      BY <2>4, <2>5, <2>8, UntouchedMoves
    <2>10. /\ x.inq = s.inq /\ x.outs = s.outs /\ x.msgs = s.msgs
           /\ Lent(x) = Lent(s) /\ Marked(x) = Marked(s)
           /\ Traced(s) => Traced(x)
      BY <1>2, <2>7, <2>9, UntouchedLent
    <2>11. ASSUME Serves(x), x.up, ~failed
           PROVE  /\ Traced(x) /\ Lent(x) \cap PlaneBufs(plane) = {}
                  /\ Marked(x) \subseteq Lent(x) \cup PlaneBufs(plane)
      <3>1. Serves(s) /\ s.up
        BY <2>3, <2>6, <2>7, <2>11 DEF Serves
      <3>2. s.outs = {} /\ s.inq = << >> /\ Traced(s) /\ Free(s.msgs)
        BY <2>1, <3>1 DEF Lends
      <3>3. Lent(s) = {}
        <4>1. Carriers(s.msgs) = {}
          BY <3>2 DEF Carriers, Free
        <4>2. QED
          BY <3>2, <4>1 DEF Lent, InHand, Carried
      <3>4. on = {plane}
        BY <2>1, <3>1 DEF Follows, Placed, Serves
      <3>5. Marked(s) \subseteq PlaneBufs(plane)
        <4>1. \A b \in Marked(s) : b \in Bufs /\ Plane(b) = plane
          BY <1>2, <3>4 DEF Listed, Marked
        <4>2. QED
          BY <4>1 DEF Plane, PlaneBufs, Bufs
      <3>6. QED
        BY <2>10, <3>2, <3>3, <3>5
    <2>12. failed \in BOOLEAN
      OBVIOUS
    <2> HIDE DEF failed
    <2>13. QED
      BY <1>1, <2>1, <2>7, <2>11, <2>12, FinishLends
  <1>14. CASE EndExpires
    <2> DEFINE f == Fail(s)
               x == SessionGone(f)
    <2>1. FinishOff(x, TRUE, queue)
      BY <1>14 DEF EndExpires
    <2>2. Typed(f)
      BY <1>5
    <2> HIDE DEF f
    <2>3. Typed(x)
      BY <2>2 DEF Typed, Fields, SessionGone
    <2> HIDE DEF x
    <2>4. QED
      BY <1>1, <2>1, <2>3, FinishLends
  <1>15. QED
    BY <1>6, <1>7, <1>8, <1>9, <1>10, <1>11, <1>12, <1>13, <1>14

-----------------------------------------------------------------------------
(* All steps.                                                              *)
Lending == /\ Budgeted
           /\ codec = "H264" /\ Plain => Lends(s, queue.at, queue.plane)

(* A behaviour is of one codec.                                            *)
LEMMA CodecKept == [Next]_vars => codec' = codec
  <1> SUFFICES ASSUME [Next]_vars PROVE codec' = codec
    OBVIOUS
  <1>1. CASE UNCHANGED vars
    BY <1>1 DEF vars
  <1>2. CASE Client
    BY <1>2 DEF Client, QBuf, QBufEmpty, StreamOn, StreamOff, DecoderStop, DecoderStart,
                Others
  <1>3. CASE Driver
    BY <1>3 DEF Driver, Enqueue, StartStreaming, PropsAnswered, LoadAnswered,
                StartAnswered, ConfigAnswered, ReleaseAnswered, StreamonExpires,
                ReleaseExpires, StopStreaming, FlushAnswered, FlushExpires, StopEnds,
                UnloadEnds, EndAnswered, EndExpires, DecoderStartWakes, Others
  <1>4. CASE Interrupt \/ Firmware \/ Fault
    BY <1>4 DEF Interrupt, Firmware, FwSequence, FwPicture, FwSuperframe, FwEndOfStream,
                Fault, Hang, SessionError, Reject, Unsupported
  <1>5. QED
    BY <1>1, <1>2, <1>3, <1>4 DEF Next

LEMMA LendingNext ==
  ASSUME ~Careless, Stocked, Wired, Follows, Lending, [Next]_vars
  PROVE  Lending'
  <1>1. Budgeted' /\ (Plain' => Plain)
    BY BudgetSteps DEF Lending
  <1>2. codec' = codec
    BY CodecKept
  <1>3. ASSUME codec = "H264", Plain'
        PROVE  Lends(s', queue'.at, queue'.plane)
    <2>1. Lends(s, queue.at, queue.plane) /\ Budgeted /\ Typed(s)
      BY <1>1, <1>3 DEF Lending, Wired, Line
    <2>2. CASE UNCHANGED vars
      <3>1. s' = s /\ queue' = queue
        BY <2>2 DEF vars
      <3>2. QED
        BY <2>1, <3>1
    <2>3. CASE \/ \E b \in Bufs : QBuf(b) \/ QBufEmpty(b)
               \/ Enqueue \/ DecoderStop \/ DecoderStart \/ DecoderStartWakes
      BY <2>1, <2>3, LendsClient
    <2>4. CASE \/ \E p \in Planes : StreamOn(p)
               \/ StartStreaming \/ PropsAnswered \/ LoadAnswered \/ StartAnswered
               \/ ConfigAnswered \/ ReleaseAnswered \/ StreamonExpires
      BY <2>1, <2>4, LendsOn
    <2>5. CASE \/ \E p \in Planes : StreamOff(p)
               \/ StopStreaming \/ ReleaseExpires \/ FlushAnswered \/ FlushExpires
               \/ StopEnds \/ UnloadEnds \/ EndAnswered \/ EndExpires
      BY <2>1, <2>5, LendsOff
    <2>6. CASE Interrupt
      BY <1>3, <2>1, <2>6, LendsInterrupt
    <2>7. CASE Firmware \/ Fault
      BY <1>3, <2>1, <2>7, LendsFirmware
    <2>8. QED
      BY <2>2, <2>3, <2>4, <2>5, <2>6, <2>7 DEF Next, Client, Driver
  <1>4. QED
    BY <1>1, <1>2, <1>3 DEF Lending

LEMMA LendingInit == Init => Lending
  <1> SUFFICES ASSUME Init PROVE Lending
    OBVIOUS
  <1>1. s = Closed /\ queue.at = "idle" /\ Budgeted
    BY DEF Init, Idle, Budgeted
  <1>2. /\ s.held = None /\ s.inq = << >> /\ s.outs = {} /\ s.msgs = << >>
        /\ \A b \in Bufs : s.own[b] # "active"
    BY <1>1 DEF Closed
  <1>3. InHand(s) = {} /\ Carriers(s.msgs) = {} /\ Marked(s) = {}
    BY <1>2 DEF InHand, Carriers, Marked
  <1>4. Traced(s) /\ Exact(s)
    BY <1>2, <1>3 DEF Traced, Exact, Lent, Carried, Sole, Clean
  <1>5. QED
    BY <1>1, <1>4 DEF Lending, Lends

(* Lends is about the very buffers Ownership names.                        *)
LEMMA LendsOwns ==
  ASSUME Wired, codec = "H264" => Lends(s, queue.at, queue.plane)
  PROVE  Ownership
  <1> SUFFICES ASSUME codec = "H264", Working, queue.at \notin {"stop", "unload", "end"},
                      NEW b \in Bufs
               PROVE  AtFirmware(b) <=> s.own[b] = "active" /\ s.attr[b] = "queued"
    BY DEF Ownership
  <1>1. Traced(s) /\ Exact(s)
    BY DEF Lends, Working, Serves
  <1>2. Lent(s) = Marked(s)
    BY <1>1 DEF Traced, Exact
  <1>3. b \in Range(s.inq) <=> \E k \in DOMAIN s.inq : s.inq[k] = b
    BY DEF Range
  <1>4. (\E k \in Messages("etb") \cup Messages("ftb") : s.msgs[k].buf = b)
          <=> b \in Carried(s.msgs)
    BY DEF Messages, Carried, Carriers
  <1>5. AtFirmware(b) <=> b \in Lent(s)
    BY <1>3, <1>4 DEF AtFirmware, Lent, InHand
  <1>6. QED
    BY <1>2, <1>5 DEF Marked

(* BUF_ATTR_QUEUED marks exactly the buffers the firmware has or is giving *)
(* back, of a client that issues one call at a time, for as long as no     *)
(* picture can have been flagged as corrupt: the handler of such a picture *)
(* queues its buffer again, in the wait of a STREAMOFF for its flush too,  *)
(* and the STREAMOFF then hands userspace what the firmware has.           *)
THEOREM OwnedPlain ==
  ASSUME ~Careless
  PROVE  Spec => [](Plain => Ownership)
  <1>1. Init => Lending
    BY LendingInit
  <1>2. Stocked /\ Wired /\ Follows /\ Lending /\ [Next]_vars => Lending'
    BY LendingNext
  <1>3. Lending /\ Wired => (Plain => Ownership)
    BY LendsOwns DEF Lending
  <1>4. Init => Stocked
    BY StockedInit
  <1>5. Stocked /\ Wired /\ Follows /\ [Next]_vars => Stocked'
    BY StockedNext
  <1>6. QED
    BY <1>1, <1>2, <1>3, <1>4, <1>5, StateFollows, WiredAlways, PTL DEF Spec

(* The same where no picture is ever flagged, whatever else goes wrong:    *)
(* late answers, refused commands, a firmware that stops, session errors.  *)
THEOREM Owned ==
  ASSUME ~Careless, "corrupt" \notin Events
  PROVE  Spec => []Ownership
  <1>1. Plain
    BY DEF Plain
  <1>2. (Plain => Ownership) => Ownership
    BY <1>1
  <1>3. Spec => [](Plain => Ownership)
    BY OwnedPlain
  <1>4. QED
    BY <1>2, <1>3, PTL

-----------------------------------------------------------------------------
(* No legal order of calls fails an instance.  What the messages of a      *)
(* session without a fault are.                                            *)
Sure == {m \in Message : /\ m.type # "error"
                         /\ m.type \in {"etb", "flush", "answer"} => m.ok}

(* The wait for a flush will be completed, or is.                          *)
Due(x) == x.flushed > 0 \/ x.flushes > 0

(* A step that has nothing to do with messages and flushes, and one that   *)
(* does not touch the state either.                                        *)
Silent(x, y) ==
  DOMAIN x = Fields =>
    /\ DOMAIN y = Fields
    /\ y.up = x.up /\ y.msgs = x.msgs /\ y.flushes = x.flushes /\ y.flushed = x.flushed

Steady(x, y) == Silent(x, y) /\ (DOMAIN x = Fields => y.state = x.state)

LEMMA ComposeSteady ==
  /\ \A x : Steady(x, x)
  /\ \A x, y, z : Steady(x, y) /\ Steady(y, z) => Steady(x, z)
  /\ \A x, y, z : Silent(x, y) /\ Silent(y, z) => Silent(x, z)
  /\ \A x, y : Steady(x, y) => Silent(x, y)
  BY DEF Steady, Silent

(* Sub-state, DPBs and buffers.                                            *)
LEMMA PartsSteady ==
  ASSUME NEW x
  PROVE  /\ Steady(x, SubChangeDrc(x))
         /\ Steady(x, SubChangeDrainLast(x)) /\ Steady(x, SubChangeDrcLast(x))
         /\ \A clear, set : Steady(x, ChangeSub(x, clear, set))
         /\ \A to : Silent(x, ChangeState(x, to))
         /\ Steady(x, CreateDpb(x)) /\ Steady(x, DestroyDpb(x))
         /\ Steady(x, QueueDpb(x)) /\ Steady(x, QueueDeferredDpb(x))
         /\ Steady(x, Restarted(x)) /\ Steady(x, FwContinue(x)) /\ Steady(x, NewWait(x))
         /\ \A w : w # "flush" => Steady(x, Taken(x, w))
         /\ \A b : Steady(x, QueueBuffer(x, b))
         /\ \A p : Steady(x, QueueDeferred(x, p))
         /\ \A p, to : Steady(x, BuffersDone(x, p, to))
         /\ \A p, back : Steady(x, FlushDeferred(x, p, back))
         /\ \A b, what : Steady(x, DoneCapture(x, b, what))
  <1>1. \A clear, set : Steady(x, ChangeSub(x, clear, set))
    BY DEF Steady, Silent, ChangeSub, Fields
  <1>2. \A to : Silent(x, ChangeState(x, to))
    BY DEF Silent, Fields, ChangeState, ChangeStateOk
  <1>3. Steady(x, x)
    BY ComposeSteady
  <1>4. Steady(x, SubChangeDrc(x))
    BY <1>1, <1>3 DEF SubChangeDrc
  <1>5. Steady(x, SubChangeDrainLast(x)) /\ Steady(x, SubChangeDrcLast(x))
    BY <1>1, <1>3 DEF SubChangeDrainLast, SubChangeDrcLast
  <1>6. \A y, n : Steady(y, SendDpb(y, n))
    BY DEF Steady, Silent, Fields, SendDpb
  <1>7. Steady(x, CreateDpb(x)) /\ Steady(x, DestroyDpb(x))
    BY DEF Steady, Silent, Fields, CreateDpb, DestroyDpb
  <1>8. /\ Steady(x, [x EXCEPT !.dpb.deferred = 0])
        /\ Steady(x, [x EXCEPT !.dpb.host = 0, !.dpb.deferred = 0])
        /\ Steady(x, [x EXCEPT !.dpb.deferred = @ + x.dpb.host, !.dpb.host = 0])
    BY DEF Steady, Silent, Fields
  <1>9. Steady(x, QueueDpb(x)) /\ Steady(x, QueueDeferredDpb(x))
    BY <1>6, <1>8, ComposeSteady DEF QueueDpb, QueueDeferredDpb
  <1>10. Steady(x, Restarted(x)) /\ Steady(x, FwContinue(x)) /\ Steady(x, NewWait(x))
    BY DEF Steady, Silent, Fields, Restarted, FwContinue, NewWait
  <1>11. \A w : w # "flush" => Steady(x, Taken(x, w))
    BY DEF Steady, Silent, Fields, Taken
  <1>12. \A b : Steady(x, QueueBuffer(x, b))
    BY DEF Steady, Silent, Fields, QueueBuffer
  <1>13. \A p : Steady(x, QueueDeferred(x, p))
    <2>1. \A a, b, c : Steady(x, [x EXCEPT !.attr = a, !.inq = b, !.outs = c])
      BY DEF Steady, Silent, Fields
    <2>2. QED
      BY <2>1 DEF QueueDeferred
  <1>14. \A a : Steady(x, [x EXCEPT !.own = a])
    BY DEF Steady, Silent, Fields
  <1>15. \A p, to : Steady(x, BuffersDone(x, p, to))
    BY <1>14 DEF BuffersDone
  <1>16. \A p, back : Steady(x, FlushDeferred(x, p, back))
    BY <1>14 DEF FlushDeferred
  <1>17. \A b, what : Steady(x, DoneCapture(x, b, what))
    BY DEF Steady, Silent, Fields, DoneCapture
  <1>18. QED
    BY <1>1, <1>2, <1>4, <1>5, <1>7, <1>9, <1>10, <1>11, <1>12, <1>13, <1>15, <1>16, <1>17

(* A buffer queued, a restart, the end of a STREAMON.                      *)
LEMMA QueueSteady ==
  ASSUME NEW x
  PROVE  /\ \A p : Steady(x, QueueAllDeferred(x, p))
         /\ \A b, streaming : DOMAIN x = Fields /\ x.state # "ERROR" =>
              Steady(x, BufQueue(x, b, streaming))
         /\ Pending(x) => Steady(x, Resume(x))
  <1>1. \A y, p : Steady(y, QueueAllDeferred(y, p))
    <2> SUFFICES ASSUME NEW y, NEW p PROVE Steady(y, QueueAllDeferred(y, p))
      OBVIOUS
    <2> DEFINE u == IF p = "OUTPUT" THEN QueueDeferred(y, "OUTPUT") ELSE y
               v == QueueDeferredDpb(u)
    <2>1. QueueAllDeferred(y, p) \in {u, QueueDeferred(v, "CAPTURE")}
      BY DEF QueueAllDeferred
    <2>2. Steady(y, u)
      BY PartsSteady, ComposeSteady
    <2> HIDE DEF u
    <2>3. Steady(u, v)
      BY PartsSteady
    <2> HIDE DEF v
    <2>4. Steady(v, QueueDeferred(v, "CAPTURE"))
      BY PartsSteady
    <2>5. QED
      BY <2>1, <2>2, <2>3, <2>4, ComposeSteady
  <1>2. ASSUME NEW b, NEW streaming, DOMAIN x = Fields, x.state # "ERROR"
        PROVE  Steady(x, BufQueue(x, b, streaming))
    <2> DEFINE y == [x EXCEPT !.own[b] = "active"]
               z == [y EXCEPT !.attr[b] = "deferred"]
    <2>1. BufQueue(x, b, streaming) \in {DoneCapture(x, b, "last"), QueueBuffer(y, b), z}
      BY <1>2 DEF BufQueue
    <2>2. Steady(x, y)
      BY DEF Steady, Silent, Fields
    <2> HIDE DEF y
    <2>3. Steady(y, z)
      BY DEF Steady, Silent, Fields
    <2> HIDE DEF z
    <2>4. Steady(x, DoneCapture(x, b, "last")) /\ Steady(y, QueueBuffer(y, b))
      BY PartsSteady
    <2>5. QED
      BY <2>1, <2>2, <2>3, <2>4, ComposeSteady
  <1>3. ASSUME Pending(x)
        PROVE  Steady(x, Resume(x))
    <2> DEFINE drc == DrcPending(x)
               pauses == x.sub \cap {"INPUT_PAUSE", "OUTPUT_PAUSE"}
               y == IF drc /\ pauses # {} THEN FwContinue(x) ELSE x
               clear == pauses \cup (IF drc THEN {"DRC", "DRC_LAST"} ELSE {"DRAIN", "DRAIN_LAST"})
               u == ChangeSub(y, clear, {})
               z == Restarted(u)
               v == QueueDpb(z)
               w == QueueDeferred(v, "CAPTURE")
               r == QueueDeferred(w, "OUTPUT")
    <2>1. Resume(x) \in {z, r}
      BY <1>3 DEF Resume, Pending
    <2>2. Steady(x, y)
      BY PartsSteady, ComposeSteady
    <2> HIDE DEF y, clear
    <2>3. Steady(y, u)
      BY PartsSteady
    <2> HIDE DEF u
    <2>4. Steady(u, z)
      BY PartsSteady
    <2> HIDE DEF z
    <2>5. Steady(z, v)
      BY PartsSteady
    <2> HIDE DEF v
    <2>6. Steady(v, w)
      BY PartsSteady
    <2> HIDE DEF w
    <2>7. Steady(w, r)
      BY PartsSteady
    <2> HIDE DEF r
    <2>8. Steady(x, z) /\ Steady(z, r)
      BY <2>2, <2>3, <2>4, <2>5, <2>6, <2>7, ComposeSteady
    <2>9. QED
      BY <2>1, <2>8, ComposeSteady
  <1>4. QED
    BY <1>1, <1>2, <1>3

(* Both STREAMONs lead where the table says.                               *)
LEMMA StreamonSilent ==
  ASSUME NEW x, Sound(x)
  PROVE  /\ Silent(x, StreamonInput(x))
         /\ StreamonInput(x).state = StreamonTarget(x.state, "OUTPUT")
         /\ \A drc, drain :
              /\ Silent(x, StreamonOutput(x, drc, drain))
              /\ StreamonOutput(x, drc, drain).state = StreamonTarget(x.state, "CAPTURE")
  <1>1. ASSUME NEW y, Steady(x, y), NEW p \in Planes, NEW z,
               Steady(StateChangeStreamon(y, p), z)
        PROVE  Silent(x, z) /\ z.state = StreamonTarget(x.state, p)
    <2> DEFINE t == StateChangeStreamon(y, p)
    <2>1. Sound(y) /\ y.state = x.state /\ Silent(x, y)
      BY <1>1 DEF Steady, Silent, Sound
    <2>2. Silent(y, t)
      BY PartsSteady DEF StateChangeStreamon
    <2>3. Sound(t) /\ t.state = StreamonTarget(x.state, p)
      BY <2>1, Targets
    <2> HIDE DEF t
    <2>4. Silent(x, t)
      BY <2>1, <2>2, ComposeSteady
    <2>5. Steady(t, z)
      BY <1>1 DEF t
    <2>6. QED
      BY <2>3, <2>4, <2>5, ComposeSteady DEF Steady, Sound
  <1>2. Silent(x, StreamonInput(x))
        /\ StreamonInput(x).state = StreamonTarget(x.state, "OUTPUT")
    <2> DEFINE y == ChangeSub(x, {"INPUT_PAUSE"}, {})
               pause == IF y.sub \cap {"DRC", "DRAIN", "FIRST_IPSC"} # {}
                        THEN {"INPUT_PAUSE"} ELSE {}
               t == StateChangeStreamon(y, "OUTPUT")
               z == Restarted(t)
               u == ChangeSub(z, {}, pause)
    <2>1. StreamonInput(x) = QueueAllDeferred(u, "OUTPUT")
      BY DEF StreamonInput
    <2>2. Steady(x, y)
      BY PartsSteady
    <2> HIDE DEF y, pause
    <2>3. Steady(t, z)
      BY PartsSteady
    <2> HIDE DEF z
    <2>4. Steady(z, u)
      BY PartsSteady
    <2> HIDE DEF u
    <2>5. Steady(u, QueueAllDeferred(u, "OUTPUT"))
      BY QueueSteady
    <2>6. Steady(t, StreamonInput(x))
      BY <2>1, <2>3, <2>4, <2>5, ComposeSteady
    <2>7. QED
      BY <1>1, <2>2, <2>6 DEF Planes
  <1>3. ASSUME NEW drc, NEW drain
        PROVE  /\ Silent(x, StreamonOutput(x, drc, drain))
               /\ StreamonOutput(x, drc, drain).state = StreamonTarget(x.state, "CAPTURE")
    <2> DEFINE resume == x.state = "INPUT_STREAMING" /\ "INPUT_PAUSE" \in x.sub
               clear == (IF drc THEN {"DRC", "DRC_LAST"}
                         ELSE IF drain THEN {"DRAIN", "DRAIN_LAST"} ELSE {})
                        \cup (IF resume THEN {"INPUT_PAUSE"} ELSE {})
                        \cup (x.sub \cap {"FIRST_IPSC", "OUTPUT_PAUSE"})
               y == IF resume /\ ~drain THEN FwContinue(x) ELSE x
               t == StateChangeStreamon(y, "CAPTURE")
               z == Restarted(t)
               u == ChangeSub(z, clear, {})
               w == QueueDpb(u)
    <2>1. StreamonOutput(x, drc, drain) = QueueAllDeferred(w, "CAPTURE")
      BY DEF StreamonOutput
    <2>2. Steady(x, y)
      BY PartsSteady, ComposeSteady
    <2> HIDE DEF y, clear
    <2>3. Steady(t, z)
      BY PartsSteady
    <2> HIDE DEF z
    <2>4. Steady(z, u)
      BY PartsSteady
    <2> HIDE DEF u
    <2>5. Steady(u, w)
      BY PartsSteady
    <2> HIDE DEF w
    <2>6. Steady(w, QueueAllDeferred(w, "CAPTURE"))
      BY QueueSteady
    <2>7. Steady(t, StreamonOutput(x, drc, drain))
      BY <2>1, <2>3, <2>4, <2>5, <2>6, ComposeSteady
    <2>8. QED
      BY <1>1, <2>2, <2>7 DEF Planes
  <1>4. QED
    BY <1>2, <1>3

-----------------------------------------------------------------------------
(* A session without a fault, and a step that leaves it so.                *)
Tidy(x) == DOMAIN x = Fields /\ x.up /\ x.msgs \in Seq(Sure)

Hale(x) == Tidy(x) /\ Typed(x) /\ x.state # "ERROR" /\ x.flushes \in Nat

Fares(x, y) ==
  Tidy(x) => Tidy(y) /\ y.state = x.state /\ (Due(x) => Due(y))

LEMMA ComposeFares ==
  /\ \A x, y : Steady(x, y) => Fares(x, y)
  /\ \A x, y, z : Fares(x, y) /\ Fares(y, z) => Fares(x, z)
  /\ \A x, y : Silent(x, y) /\ Tidy(x) => Tidy(y)
  BY DEF Steady, Silent, Tidy, Fares, Due

LEMMA SureMessages ==
  /\ Sure \subseteq Message
  /\ \A c \in Commands : [type |-> "answer", cmd |-> c, ok |-> TRUE] \in Sure
  /\ \A b \in InBufs \cup {Eos} : Etb(b) \in Sure
  /\ \A b \in OutBufs, pic \in Pictures, eos \in BOOLEAN, bad \in BOOLEAN :
       Ftb(b, pic, eos, bad) \in Sure
  /\ DpbDone \in Sure /\ [type |-> "flush", ok |-> TRUE] \in Sure
  /\ \A k \in {"fits", "resize", "tenbit"} : [type |-> "seq", kind |-> k] \in Sure
  <1>1. \A c \in Commands : [type |-> "answer", cmd |-> c, ok |-> TRUE] \in Sure
    BY DEF Sure, Message
  <1>2. \A b \in InBufs \cup {Eos} : Etb(b) \in Sure
    BY DEF Sure, Message, CalmMessage, Etb
  <1>3. \A b \in OutBufs, pic \in Pictures, eos \in BOOLEAN, bad \in BOOLEAN :
          Ftb(b, pic, eos, bad) \in Sure
    BY DEF Sure, Message, Ftb
  <1>4. DpbDone \in Sure /\ [type |-> "flush", ok |-> TRUE] \in Sure
    BY DEF Sure, Message, CalmMessage, DpbDone
  <1>5. \A k \in {"fits", "resize", "tenbit"} : [type |-> "seq", kind |-> k] \in Sure
    BY DEF Sure, Message
  <1>6. QED
    BY <1>1, <1>2, <1>3, <1>4, <1>5 DEF Sure

(* Commands sent.                                                          *)
LEMMA SentFares ==
  ASSUME NEW x, NEW c \in Commands
  PROVE  /\ Fares(x, Answer(x, c)) /\ Fares(x, FwStop(x)) /\ Fares(x, FwEnd(x))
         /\ Fares(x, FwStart(x))
  <1>1. ASSUME NEW d \in Commands
        PROVE  Fares(x, Answer(x, d))
    <2> SUFFICES ASSUME Tidy(x)
                 PROVE  LET y == Answer(x, d)
                        IN Tidy(y) /\ y.state = x.state /\ (Due(x) => Due(y))
      BY DEF Fares
    <2> DEFINE m == [type |-> "answer", cmd |-> d, ok |-> TRUE]
               q == Append(x.msgs, m)
    <2>1. m \in Sure
      BY <1>1, SureMessages
    <2>2. Answer(x, d) = [x EXCEPT !.msgs = q]
      BY DEF Answer, Send, Tidy
    <2> HIDE DEF m
    <2>3. q \in Seq(Sure)
      BY <2>1 DEF Tidy
    <2> HIDE DEF q
    <2>4. QED
      BY <2>2, <2>3 DEF Tidy, Fields, Due
  <1>2. \A y : /\ Steady(y, [y EXCEPT !.run = FALSE, !.inq = <<>>, !.outs = {},
                                      !.pool = 0, !.paused = FALSE])
               /\ Steady(y, [y EXCEPT !.run = FALSE, !.parsed = FALSE, !.inq = <<>>,
                                      !.outs = {}, !.pool = 0, !.paused = FALSE])
               /\ Steady(y, [y EXCEPT !.run = TRUE])
    BY DEF Steady, Silent, Fields
  <1>3. "stop" \in Commands /\ "end" \in Commands /\ "start" \in Commands
    BY DEF Commands
  <1>4. \A d \in Commands : \A z : Steady(Answer(x, d), z) => Fares(x, z)
    BY <1>1, ComposeFares
  <1>5. QED
    BY <1>1, <1>2, <1>3, <1>4 DEF FwStop, FwEnd, FwStart

(* A flush sent: what comes back bears no error, and it is answered.       *)
LEMMA FlushFares ==
  ASSUME NEW x, Hale(x), NEW all \in BOOLEAN
  PROVE  LET g == SendFlush(x, all)
         IN Hale(g) /\ g.state = x.state /\ Due(g)
  <1> DEFINE g == SendFlush(x, all)
             n == Cardinality(x.outs)
             b == [k \in 1..n |-> Ftb(SetToSeq(x.outs)[k], "empty", FALSE, FALSE)]
             c == [k \in 1..x.pool |-> DpbDone]
             a == IF all THEN [k \in DOMAIN x.inq |-> Etb(x.inq[k])] ELSE << >>
             e == <<[type |-> "flush", ok |-> TRUE]>>
             q == (((x.msgs \o a) \o b) \o c) \o e
  <1>1. x.msgs \in Seq(Sure) /\ x.outs \in SUBSET OutBufs /\ x.pool \in Nat
        /\ x.inq \in Seq(InBufs \cup {Eos}) /\ x.flushes \in Nat /\ x.up
    BY DEF Hale, Tidy, Typed
  <1>2. /\ g.msgs = q /\ g.state = x.state /\ g.up = x.up /\ g.flushes = x.flushes + 1
    <2>1. g = [[x EXCEPT !.msgs = (((@ \o a) \o b) \o c) \o e, !.outs = {}, !.pool = 0,
                         !.inq = IF all THEN << >> ELSE @]
                 EXCEPT !.flushes = @ + 1]
      BY <1>1 DEF SendFlush, FwFlush
    <2>2. DOMAIN x = Fields
      BY DEF Hale, Typed
    <2> HIDE DEF a, b, c, e, g
    <2>3. QED
      BY <2>1, <2>2 DEF Fields
  <1>3. a \in Seq(Sure)
    <2>1. CASE all
      <3> DEFINE h == [k \in DOMAIN x.inq |-> Etb(x.inq[k])]
      <3>1. DOMAIN x.inq = 1..Len(x.inq) /\ Len(x.inq) \in Nat
        BY <1>1
      <3>2. \A k \in DOMAIN x.inq : x.inq[k] \in InBufs \cup {Eos}
        BY <1>1
      <3>3. \A k \in DOMAIN x.inq : Etb(x.inq[k]) \in Sure
        BY <3>2, SureMessages
      <3>4. h \in [1..Len(x.inq) -> Sure]
        BY <3>1, <3>3
      <3> HIDE DEF h
      <3>5. h \in Seq(Sure)
        BY <3>1, <3>4
      <3>6. QED
        BY <2>1, <3>5 DEF h
    <2>2. CASE ~all
      BY <2>2
    <2>3. QED
      BY <2>1, <2>2
  <1>4. b \in Seq(Sure)
    <2>1. IsFiniteSet(x.outs)
      BY <1>1, FS_Subset, StreamAssumption
    <2>2. SetToSeq(x.outs) \in Seq(x.outs) /\ Len(SetToSeq(x.outs)) = n /\ n \in Nat
      BY <2>1, Listing
    <2>3. \A k \in 1..n : SetToSeq(x.outs)[k] \in OutBufs
      BY <1>1, <2>2
    <2>4. \A k \in 1..n : b[k] \in Sure
      BY <2>3, SureMessages DEF Pictures
    <2>5. b \in [1..n -> Sure]
      BY <2>4
    <2> HIDE DEF b
    <2>6. QED
      BY <2>2, <2>5
  <1>5. c \in Seq(Sure)
    <2>1. c \in [1..x.pool -> Sure]
      BY SureMessages
    <2> HIDE DEF c
    <2>2. QED
      BY <1>1, <2>1
  <1>6. e \in Seq(Sure)
    BY SureMessages
  <1> HIDE DEF a, b, c, e
  <1>7. q \in Seq(Sure)
    BY <1>1, <1>3, <1>4, <1>5, <1>6
  <1>8. Typed(g)
    <2>1. Stirs(x, g)
      BY FlushStirs
    <2>2. QED
      BY <2>1 DEF Stirs, Tame, Hale
  <1> HIDE DEF g, q
  <1>9. g.flushes \in Nat /\ g.flushes > 0
    BY <1>1, <1>2
  <1>10. QED
    BY <1>1, <1>2, <1>7, <1>8, <1>9 DEF Hale, Tidy, Typed, Due, g

(* The end of a drain, a source change.                                    *)
LEMMA ArmsFare ==
  ASSUME NEW x, Hale(x)
  PROVE  /\ Fares(x, DrainArm(x))
         /\ \A m : Fares(x, SeqChanged(x, m))
  <1>1. \A y : Hale(y) => LET z == [y EXCEPT !.flushed = 0]
                          IN Hale(z) /\ z.state = y.state
    <2> SUFFICES ASSUME NEW y, Hale(y), NEW z, z = [y EXCEPT !.flushed = 0]
                 PROVE  Hale(z) /\ z.state = y.state
      OBVIOUS
    <2>1. Typed(z)
      BY DEF Hale, Typed, Fields
    <2>2. /\ z.state = y.state /\ z.up = y.up /\ z.msgs = y.msgs /\ z.flushes = y.flushes
          /\ DOMAIN z = Fields
      BY DEF Hale, Typed, Fields
    <2>3. QED
      BY <2>1, <2>2 DEF Hale, Tidy
  <1>2. \A y, z : Hale(y) /\ Steady(y, z) /\ Still(y, z) => Hale(z) /\ Fares(y, z)
    <2> SUFFICES ASSUME NEW y, NEW z, Hale(y), Steady(y, z), Still(y, z)
                 PROVE  Hale(z) /\ Fares(y, z)
      OBVIOUS
    <2>1. Fares(y, z) /\ Tidy(z)
      BY ComposeFares DEF Hale, Steady
    <2>2. DOMAIN y = Fields /\ Typed(y) /\ y.state # "ERROR" /\ y.flushes \in Nat
      BY DEF Hale, Tidy
    <2>3. Typed(z) /\ z.state = y.state /\ z.flushes = y.flushes
      BY <2>2 DEF Steady, Silent, Still, Tame
    <2>4. QED
      BY <2>1, <2>2, <2>3 DEF Hale
  <1>3. ASSUME NEW y, NEW z, Hale(z), Hale(y), y.state = z.state
        PROVE  Fares(z, SendFlush(y, FALSE))
    <2> DEFINE g == SendFlush(y, FALSE)
    <2>1. Hale(g) /\ g.state = y.state /\ Due(g)
      BY <1>3, FlushFares
    <2> HIDE DEF g
    <2>2. QED
      BY <1>3, <2>1 DEF Fares, Hale, g
  <1>4. Fares(x, DrainArm(x))
    <2> DEFINE y == [x EXCEPT !.flushed = 0]
               z == SendFlush(y, FALSE)
    <2>1. DrainArm(x) = SubChangeDrainLast(z)
      BY DEF DrainArm
    <2>2. Hale(y) /\ y.state = x.state
      BY <1>1
    <2> HIDE DEF y
    <2>3. Fares(x, z)
      BY <1>3, <2>2
    <2> HIDE DEF z
    <2>4. Steady(z, SubChangeDrainLast(z))
      BY PartsSteady
    <2>5. QED
      BY <2>1, <2>3, <2>4, ComposeFares
  <1>5. ASSUME NEW w, Hale(w)
        PROVE  Fares(w, ArmDrc(w))
    <2> DEFINE y == SubChangeDrc(w)
               u == IF y.flushes = 0 THEN [y EXCEPT !.flushed = 0] ELSE y
               z == IF y.state # "ERROR" /\ "FIRST_IPSC" \notin y.sub
                    THEN SendFlush(u, FALSE) ELSE y
    <2>1. ArmDrc(w) \in {w, SubChangeDrcLast(z)}
      BY DEF ArmDrc
    <2>2. Steady(w, y) /\ Still(w, y)
      BY PartsSteady, StateStill
    <2> HIDE DEF y
    <2>3. Hale(y) /\ Fares(w, y)
      BY <1>2, <1>5, <2>2
    <2>4. Hale(u) /\ u.state = y.state
      BY <1>1, <2>3
    <2> HIDE DEF u
    <2>5. Fares(y, SendFlush(u, FALSE))
      BY <1>3, <2>3, <2>4
    <2>6. Fares(w, z)
      BY <2>3, <2>5, ComposeFares
    <2> HIDE DEF z
    <2>7. Steady(z, SubChangeDrcLast(z)) /\ Steady(w, w)
      BY PartsSteady, ComposeSteady
    <2>8. QED
      BY <2>1, <2>6, <2>7, ComposeFares
  <1>6. ASSUME NEW m
        PROVE  Fares(x, SeqChanged(x, m))
    <2> DEFINE y == [x EXCEPT !.known = TRUE, !.changed = @ \/ m.kind = "tenbit"]
               z == FwContinue(y)
               u == ChangeSub(z, {"DRC", "FIRST_IPSC", "INPUT_PAUSE"}, {})
    <2>1. SeqChanged(x, m) \in {x, u, ArmDrc(y)}
      BY DEF SeqChanged
    <2>2. Steady(x, y) /\ Still(x, y)
      BY DEF Steady, Silent, Still, Tame, Typed, Loaded, Fields
    <2> HIDE DEF y
    <2>3. Fares(x, ArmDrc(y))
      BY <1>2, <1>5, <2>2, ComposeFares
    <2>4. Steady(y, z)
      BY PartsSteady
    <2> HIDE DEF z
    <2>5. Steady(z, u)
      BY PartsSteady
    <2> HIDE DEF u
    <2>6. Steady(x, u) /\ Steady(x, x)
      BY <2>2, <2>4, <2>5, ComposeSteady
    <2>7. QED
      BY <2>1, <2>3, <2>6, ComposeFares
  <1>7. QED
    BY <1>4, <1>6

(* A buffer handed on.                                                     *)
LEMMA FillSteady ==
  ASSUME NEW x, NEW m
  PROVE  Steady(x, FillDone(x, m))
  <1> DEFINE y == [x EXCEPT !.attr[m.buf] = "done",
                            !.drops = IF m.pic = "empty" THEN @ ELSE 0]
             z == [x EXCEPT !.drops = @ + 1]
             h == [y EXCEPT !.held = m.buf, !.heldPic = m.pic]
  <1>1. \/ FillDone(x, m) = QueueBuffer(z, m.buf)
        \/ FillDone(x, m) = h
        \/ \E what : FillDone(x, m) = DoneCapture(y, m.buf, what)
    BY DEF FillDone
  <1>2. Steady(x, z) /\ Steady(x, y)
    BY DEF Steady, Silent, Fields
  <1>3. Steady(y, h)
    BY DEF Steady, Silent, Fields
  <1> HIDE DEF y, z, h
  <1>4. Steady(z, QueueBuffer(z, m.buf)) /\ \A what : Steady(y, DoneCapture(y, m.buf, what))
    BY PartsSteady
  <1>5. QED
    BY <1>1, <1>2, <1>3, <1>4, ComposeSteady

(* A message handled, once it is off the queue: the checks that fail an    *)
(* instance find what they ask for.                                        *)
LEMMA HandleFares ==
  ASSUME NEW x, Hale(x), Traced(x), codec = "H264", NEW m \in Sure,
         m.type = "ftb" => ~m.bad, Bears(m) \cap Lent(x) = {}, Bears(m) \subseteq Marked(x),
         m.type = "dpb" => x.dpb.queued # 0, m.type = "flush" => x.flushes > 0
  PROVE  Fares(x, Handle(x, m))
  <1>1. m \in Message /\ Typed(x) /\ Steady(x, x)
    BY ComposeSteady DEF Sure, Hale
  <1>2. CASE m.type = "etb"
    <2>1. Handle(x, m) = EtbDone(x, m) /\ m.ok /\ m.buf \in InBufs \cup {Eos}
      BY <1>1, <1>2, Letters DEF Handle, Sure
    <2>2. CASE m.buf = Eos
      BY <1>1, <2>1, <2>2, ComposeFares DEF EtbDone
    <2>3. CASE m.buf # Eos
      <3> DEFINE y == [x EXCEPT !.attr[m.buf] = "done", !.own[m.buf] = "user"]
      <3>1. m.buf \in Marked(x)
        BY <1>2, <2>1, <2>3 DEF Bears, Bufs
      <3>2. Handle(x, m) = y
        BY <2>1, <2>3, <3>1 DEF EtbDone, Marked
      <3>3. Steady(x, y)
        BY DEF Steady, Silent, Fields
      <3>4. QED
        BY <3>2, <3>3, ComposeFares
    <2>4. QED
      BY <2>2, <2>3
  <1>3. CASE m.type = "ftb"
    <2> DEFINE z == IF m.eos /\ m.pic = "empty" THEN DrainArm(x) ELSE x
    <2>1. Handle(x, m) = FtbDone(x, m) /\ m.buf \in OutBufs
      BY <1>1, <1>3, Letters DEF Handle
    <2>2. Bears(m) = {m.buf}
      BY <1>3, <2>1 DEF Bears, Bufs
    <2>3. m.buf \notin Lent(x) /\ m.buf \in Marked(x) /\ ~m.bad
      BY <1>3, <2>2
    <2>4. FtbDone(x, m) = FillDone(z, m)
      BY <1>1, <1>3, <2>3, FrameReturns
    <2>5. Fares(x, z)
      BY <1>1, ArmsFare, ComposeFares
    <2> HIDE DEF z
    <2>6. Steady(z, FillDone(z, m))
      BY FillSteady
    <2>7. QED
      BY <2>1, <2>4, <2>5, <2>6, ComposeFares
  <1>4. CASE m.type = "dpb"
    <2> DEFINE y == [x EXCEPT !.dpb.queued = @ - 1, !.dpb.host = @ + 1]
    <2>1. Handle(x, m) = y
      BY <1>4 DEF Handle, DpbFtbDone
    <2>2. Steady(x, y)
      BY DEF Steady, Silent, Fields
    <2>3. QED
      BY <2>1, <2>2, ComposeFares
  <1>5. CASE m.type = "seq"
    BY <1>5, ArmsFare DEF Handle
  <1>6. CASE m.type = "flush"
    <2> DEFINE n == x.flushes - 1
               y == [x EXCEPT !.flushes = n]
               z == [y EXCEPT !.flushed = @ + 1]
    <2>1. m.ok
      BY <1>6 DEF Sure
    <2>2. Handle(x, m) = FlushDone(x, m)
      BY <1>6 DEF Handle
    <2>3. Handle(x, m) = IF y.flushes = 0 THEN z ELSE y
      BY <2>1, <2>2 DEF FlushDone
    <2>4. n \in Nat /\ x.flushed \in Nat
      BY <1>6 DEF Hale, Typed
    <2> HIDE DEF n
    <2>5. /\ y.state = x.state /\ y.up = x.up /\ y.msgs = x.msgs /\ y.flushes = n
          /\ y.flushed = x.flushed /\ DOMAIN y = Fields
      BY DEF Hale, Tidy, Fields
    <2> HIDE DEF y
    <2>6. /\ z.state = y.state /\ z.up = y.up /\ z.msgs = y.msgs /\ z.flushes = y.flushes
          /\ z.flushed = y.flushed + 1 /\ DOMAIN z = Fields
      BY <2>5 DEF Fields
    <2> HIDE DEF z
    <2>7. CASE n = 0
      <3>1. Handle(x, m) = z
        BY <2>3, <2>5, <2>7
      <3>2. z.flushed > 0
        BY <2>4, <2>5, <2>6
      <3>3. Fares(x, z)
        BY <2>5, <2>6, <3>2 DEF Fares, Tidy, Due, Hale
      <3>4. QED
        BY <3>1, <3>3
    <2>8. CASE n # 0
      <3>1. Handle(x, m) = y
        BY <2>3, <2>5, <2>8
      <3>2. y.flushes > 0
        BY <2>4, <2>5, <2>8
      <3>3. Fares(x, y)
        BY <2>5, <3>2 DEF Fares, Tidy, Due, Hale
      <3>4. QED
        BY <3>1, <3>3
    <2>9. QED
      BY <2>7, <2>8
  <1>7. CASE m.type = "answer"
    <2> DEFINE y == [x EXCEPT !.resp = IF @ < MaxDone THEN @ + 1 ELSE @]
    <2>1. Handle(x, m) = y
      BY <1>7 DEF Handle, AnswerDone, Sure
    <2>2. Steady(x, y)
      BY DEF Steady, Silent, Fields
    <2>3. QED
      BY <2>1, <2>2, ComposeFares
  <1>8. QED
    BY <1>1, <1>2, <1>3, <1>4, <1>5, <1>6, <1>7, Letters DEF Sure

(* The message at the head of the queue is off it before it is handled.    *)
LEMMA HeadLent ==
  ASSUME NEW x, Typed(x), Traced(x), x.msgs # << >>
  PROVE  LET m == Head(x.msgs)
             y == [x EXCEPT !.msgs = Tail(@)]
         IN /\ m \in Message /\ (m.type = "ftb" => ~m.bad) /\ Typed(y) /\ Traced(y)
            /\ Bears(m) \cap Lent(y) = {} /\ Bears(m) \subseteq Marked(y)
  <1> DEFINE m == Head(x.msgs)
             t == Tail(x.msgs)
             y == [x EXCEPT !.msgs = t]
  <1>1. m \in Message /\ t \in Seq(Message)
    BY NextMessage
  <1>2. /\ Clean(x.msgs) => Clean(t) /\ (m.type = "ftb" => ~m.bad)
        /\ Carried(x.msgs) = Carried(t) \cup Bears(m)
        /\ Sole(x.msgs) => Sole(t) /\ (m.type \in {"etb", "ftb"} => m.buf \notin Carried(t))
    BY CarriedTail
  <1> HIDE DEF m, t
  <1>3. Typed(y)
    BY <1>1 DEF Typed, Fields
  <1>4. /\ y.msgs = t /\ y.inq = x.inq /\ y.outs = x.outs
        /\ y.own = x.own /\ y.attr = x.attr /\ y.held = x.held
    BY DEF Typed, Fields
  <1> HIDE DEF y
  <1>5. InHand(y) = InHand(x) /\ Marked(y) = Marked(x) /\ Lent(y) = InHand(x) \cup Carried(t)
        /\ Lent(x) = Lent(y) \cup Bears(m)
    BY <1>2, <1>4 DEF InHand, Marked, Lent
  <1>6. Traced(y)
    BY <1>2, <1>4, <1>5 DEF Traced
  <1>7. Bears(m) \cap Carried(t) = {}
    BY <1>2 DEF Traced, Bears
  <1>8. Bears(m) \cap Lent(y) = {} /\ Bears(m) \subseteq Marked(y)
    BY <1>2, <1>5, <1>7 DEF Traced
  <1>9. QED
    BY <1>1, <1>2, <1>3, <1>6, <1>8 DEF m, t, y, Traced

(* The interrupt thread.                                                   *)
LEMMA InterruptFares ==
  ASSUME Hale(s), Traced(s), Counted(s), Pooled(s), codec = "H264", Interrupt
  PROVE  Fares(s, s')
  <1> DEFINE m == Head(s.msgs)
             x == [s EXCEPT !.msgs = Tail(@)]
  <1>1. s' = Handle(x, m) /\ s.msgs # << >> /\ Typed(s)
    BY DEF Interrupt, Hale
  <1>2. m \in Sure /\ Tail(s.msgs) \in Seq(Sure)
    BY <1>1 DEF Hale, Tidy
  <1>3. /\ (m.type = "ftb" => ~m.bad) /\ Typed(x) /\ Traced(x)
        /\ Bears(m) \cap Lent(x) = {} /\ Bears(m) \subseteq Marked(x)
    BY <1>1, HeadLent
  <1>4. /\ x.state = s.state /\ x.up = s.up /\ x.flushes = s.flushes /\ x.flushed = s.flushed
        /\ x.msgs = Tail(s.msgs) /\ x.dpb = s.dpb
    BY <1>1 DEF Typed, Fields
  <1>5. \A T : /\ Count(s.msgs, T) = Count(Tail(s.msgs), T) + (IF m.type = T THEN 1 ELSE 0)
               /\ Count(Tail(s.msgs), T) \in Nat
    BY <1>1, NextMessage
  <1> HIDE DEF m, x
  <1>6. Hale(x)
    BY <1>2, <1>3, <1>4 DEF Hale, Tidy, Typed
  <1>7. m.type = "flush" => x.flushes > 0
    BY <1>4, <1>5 DEF Counted, Hale
  <1>8. m.type = "dpb" => x.dpb.queued # 0
    <2>1. s.pool \in Nat /\ s.dpb.queued = s.pool + Dpbs(s)
      BY <1>1 DEF Pooled, Serves, Hale, Typed
    <2>2. m.type = "dpb" => Dpbs(s) \in Nat /\ Dpbs(s) > 0
      BY <1>5 DEF Dpbs
    <2>3. QED
      BY <1>4, <2>1, <2>2
  <1>9. Fares(x, s')
    BY <1>1, <1>2, <1>3, <1>6, <1>7, <1>8, HandleFares
  <1>10. QED
    BY <1>4, <1>6, <1>9 DEF Fares, Hale, Due

-----------------------------------------------------------------------------
(* The invariant: no instance without a fault has failed, and no wait of   *)
(* it runs out.                                                            *)
Smooth ==
  /\ s.state # "ERROR" /\ Tidy(s) /\ ~queue.rollback
  /\ queue.at = "flush" \/ command = "flush" => Due(s)
  /\ command = "flush" => Pending(s)

LEMMA Uncharged ==
  ASSUME Budgeted, [Next]_vars, budget'.faults = 0
  PROVE  /\ budget.faults = 0 /\ \A f : ~Charge(f)
         /\ ~(\E b \in Bufs : QBufEmpty(b)) /\ ~Fault
  <1>1. budget.faults = 0
    BY BudgetSteps
  <1>2. \A f : ~Charge(f)
    BY <1>1 DEF Charge, Budgeted
  <1>3. QED
    BY <1>1, <1>2 DEF QBufEmpty, Fault, Hang, SessionError, Reject, Unsupported

(* What is waited for comes.                                               *)
LEMMA NeverExpires ==
  ASSUME Smooth, Wired, \A f : ~Charge(f), NEW w,
         \/ w = "flush" /\ (queue.at = "flush" \/ command = "flush")
         \/ w = queue.at /\ w \in Asking
  PROVE  ~Expires(w)
  <1> SUFFICES ASSUME ~Completed(w), s.msgs = << >>
               PROVE  FALSE
    BY DEF Expires
  <1>1. Typed(s) /\ Counted(s) /\ Answered(s, queue.at) /\ s.up /\ s.state # "ERROR"
    BY DEF Wired, Line, Smooth, Tidy
  <1>2. Count(s.msgs, "flush") = 0 /\ Count(s.msgs, "answer") = 0
    BY CountNone
  <1>3. CASE w = "flush"
    <2>1. s.flushed \in Nat /\ ~(s.flushed > 0)
      BY <1>1, <1>3 DEF Completed, Typed
    <2>2. s.flushes = 0
      BY <1>1, <1>2 DEF Counted
    <2>3. Due(s)
      BY <1>3 DEF Smooth, Asking
    <2>4. QED
      BY <2>1, <2>2, <2>3 DEF Due
  <1>4. CASE w # "flush"
    <2>1. w = queue.at /\ w \in Asking
      BY <1>4
    <2>2. s.resp \in Nat /\ ~(s.resp > 0)
      <3>1. MaxDone \in Nat
        BY StreamAssumption
      <3>2. QED
        BY <1>1, <1>4, <3>1 DEF Completed, Typed
    <2>3. s.resp = 1
      BY <1>1, <1>2, <2>1, <2>2 DEF Answered
    <2>4. QED
      BY <2>2, <2>3
  <1>5. QED
    BY <1>3, <1>4

(* A step that fails nothing, while no restart waits for a flush.          *)
LEMMA SmoothWhen ==
  ASSUME s'.state # "ERROR", Tidy(s'), command' = "idle", ~queue'.rollback,
         queue'.at = "flush" => Due(s')
  PROVE  Smooth'
  BY DEF Smooth

(* The client and DECODER_CMD.                                             *)
LEMMA SmoothClient ==
  ASSUME ~Careless, Smooth, Wired, Stocked, \A f : ~Charge(f),
         \/ \E b \in Bufs : QBuf(b)
         \/ Enqueue \/ DecoderStop \/ DecoderStart \/ DecoderStartWakes
  PROVE  Smooth'
  <1>1. Typed(s) /\ Tidy(s) /\ s.state # "ERROR" /\ DOMAIN s = Fields /\ ~queue.rollback
        /\ command \in {"idle", "flush"}
    BY DEF Wired, Line, Smooth, Tidy
  <1>2. ASSUME Steady(s, s'), Owing(s, s'), queue' = queue, command' \in {"idle", command}
        PROVE  Smooth'
    <2>1. Tidy(s') /\ s'.state = s.state /\ (Due(s) => Due(s'))
      BY <1>1, <1>2, ComposeFares DEF Fares
    <2>2. Pending(s) => Pending(s')
      BY <1>1, <1>2 DEF Owing
    <2>3. QED
      BY <1>1, <1>2, <2>1, <2>2 DEF Smooth
  <1>3. \A b, streaming : Steady(s, BufQueue(s, b, streaming)) /\ Owing(s, BufQueue(s, b, streaming))
    <2> SUFFICES ASSUME NEW b, NEW streaming
                 PROVE  Steady(s, BufQueue(s, b, streaming)) /\ Owing(s, BufQueue(s, b, streaming))
      OBVIOUS
    <2> DEFINE y == [s EXCEPT !.own[b] = "active"]
               z == [y EXCEPT !.attr[b] = "deferred"]
    <2>1. BufQueue(s, b, streaming) \in {DoneCapture(s, b, "last"), QueueBuffer(y, b), z}
      BY <1>1 DEF BufQueue
    <2>2. Owing(s, y)
      BY ComposeOwing DEF Fields
    <2> HIDE DEF y
    <2>3. Owing(y, z)
      BY ComposeOwing DEF Fields
    <2> HIDE DEF z
    <2>4. Owing(s, DoneCapture(s, b, "last")) /\ Owing(y, QueueBuffer(y, b))
      BY BufferOwing
    <2>5. Owing(s, BufQueue(s, b, streaming))
      BY <2>1, <2>2, <2>3, <2>4, ComposeOwing
    <2>6. QED
      BY <1>1, <2>5, QueueSteady
  <1>4. CASE \E b \in Bufs : QBuf(b)
    <2>1. PICK b \in Bufs : QBuf(b)
      BY <1>4
    <2>2. /\ queue' = queue /\ command' = command
          /\ s' \in {BufQueue(s, b, TRUE), [s EXCEPT !.own[b] = "prepared"]}
      BY <2>1 DEF QBuf, Others
    <2>3. LET y == [s EXCEPT !.own[b] = "prepared"] IN Steady(s, y) /\ Owing(s, y)
      BY ComposeOwing DEF Steady, Silent, Fields
    <2>4. QED
      BY <1>2, <1>3, <2>2, <2>3
  <1>5. CASE Enqueue
    <2>1. PICK b \in PlaneBufs(queue.plane) : s' = BufQueue(s, b, FALSE)
      BY <1>5 DEF Enqueue
    <2>2. queue' = queue /\ command' = command
      BY <1>5 DEF Enqueue, Others
    <2>3. QED
      BY <1>2, <1>3, <2>1, <2>2
  <1>6. CASE DecoderStop
    <2> DEFINE y == [s EXCEPT !.inq = IF s.run THEN Append(@, Eos) ELSE @]
    <2>1. s' = ChangeSub(y, {}, {"DRAIN"}) /\ queue' = queue /\ command' = command
      BY <1>6 DEF DecoderStop
    <2>2. Steady(s, y) /\ Owing(s, y)
      BY ComposeOwing DEF Steady, Silent, Fields
    <2> HIDE DEF y
    <2>3. Steady(y, s') /\ Owing(y, s')
      BY <2>1, PartsSteady, StateOwing
    <2>4. QED
      BY <1>2, <2>1, <2>2, <2>3, ComposeSteady, ComposeOwing
  <1>7. CASE DecoderStart
    <2>1. Pending(s) /\ queue.at = "idle" /\ queue' = queue
      BY <1>7 DEF DecoderStart, AllowStart, Pending, Alone, At
    <2>2. CASE s.flushes # 0
      <3>1. s' = s /\ command' = "flush"
        BY <1>7, <2>2 DEF DecoderStart
      <3>2. s.flushes > 0
        <4>1. Count(s.msgs, "flush") \in Nat /\ s.flushes \in Int
              /\ Count(s.msgs, "flush") <= s.flushes
          <5>1. Counted(s) /\ s.msgs \in Seq(Message) /\ s.flushes \in Int
            BY DEF Wired, Line, Typed
          <5>2. QED
            BY <5>1, CountSteps DEF Counted
        <4>2. QED
          BY <2>2, <4>1
      <3>3. QED
        BY <1>1, <2>1, <3>1, <3>2 DEF Smooth, Due
    <2>3. CASE s.flushes = 0
      <3>1. s' = Resume(s) /\ command' = "idle"
        BY <1>7, <2>3 DEF DecoderStart
      <3>2. Tidy(s') /\ s'.state = s.state
        BY <1>1, <2>1, <3>1, QueueSteady, ComposeFares DEF Fares
      <3>3. QED
        BY <1>1, <2>1, <3>1, <3>2, SmoothWhen
    <2>4. QED
      BY <2>2, <2>3
  <1>8. CASE DecoderStartWakes
    <2>1. command = "flush" /\ queue' = queue /\ command' = "idle" /\ queue.at = "idle"
      BY <1>8 DEF DecoderStartWakes, Stocked
    <2>2. ~Expires("flush")
      BY <2>1, NeverExpires
    <2> DEFINE t == Taken(s, "flush")
    <2>3. s' = Resume(t)
      BY <1>8, <2>2 DEF DecoderStartWakes
    <2>4. Tidy(t) /\ t.state = s.state /\ t.sub = s.sub
      BY <1>1 DEF Taken, Tidy, Fields
    <2>5. Pending(t)
      BY <2>1, <2>4 DEF Smooth, Pending, DrcPending, DrainPending
    <2> HIDE DEF t
    <2>6. Tidy(s') /\ s'.state = s.state
      BY <2>3, <2>4, <2>5, QueueSteady, ComposeFares DEF Fares
    <2>7. QED
      BY <1>1, <2>1, <2>6, SmoothWhen
  <1>9. QED
    BY <1>4, <1>5, <1>6, <1>7, <1>8

-----------------------------------------------------------------------------
(* STREAMON.  The table has a state for the plane that starts.             *)
LEMMA StreamonLeads ==
  ASSUME Follows, s.state # "ERROR", queue.at \in Running
  PROVE  StreamonTarget(s.state, queue.plane) # "ERROR"
  <1>1. /\ Fits(s.state, on) /\ s.state # "DEINIT" /\ queue.plane \notin on
        /\ queue.plane \in Planes /\ on \in SUBSET Planes /\ s.state \in States \ {"ERROR"}
    BY DEF Follows, Placed, Running, Sound
  <1> DEFINE to == StreamonTarget(s.state, queue.plane)
  <1>2. Fits(to, on \cup {queue.plane})
    BY <1>1, Table
  <1> HIDE DEF to
  <1>3. on \cup {queue.plane} \in {{"OUTPUT"}, {"CAPTURE"}, Planes}
    BY <1>1 DEF Planes
  <1>4. to # "ERROR"
    BY <1>2, <1>3 DEF Fits
  <1>5. QED
    BY <1>4 DEF to

(* The end of a STREAMON.                                                  *)
LEMMA SmoothStarted ==
  ASSUME Follows, s.state # "ERROR", queue.at \in Running, command' = "idle", FinishOn,
         NEW x, Sound(x), Tidy(x), x.state = s.state,
         \/ queue.plane = "OUTPUT" /\ s' = StreamonInput(x)
         \/ queue.plane = "CAPTURE" /\ \E drc, drain : s' = StreamonOutput(x, drc, drain)
  PROVE  Smooth'
  <1>1. s'.state = StreamonTarget(s.state, queue.plane) /\ Silent(x, s')
    BY StreamonSilent
  <1>2. s'.state # "ERROR"
    BY <1>1, StreamonLeads
  <1>3. Tidy(s')
    BY <1>1, ComposeFares
  <1>4. queue'.at = "idle" /\ ~queue'.rollback
    BY DEF FinishOn, Rest, Idle
  <1>5. QED
    BY <1>2, <1>3, <1>4, SmoothWhen

(* A step to the next wait.                                                *)
LEMMA SmoothGoes ==
  ASSUME Follows, Smooth, command' = "idle", Tidy(s'), s'.state # "ERROR", NEW l, l # "flush",
         Goto(l)
  PROVE  Smooth'
  <1>1. queue'.at = l /\ queue'.rollback = queue.rollback
    BY DEF Follows, Goto
  <1>2. QED
    BY <1>1, SmoothWhen DEF Smooth

LEMMA SmoothOn ==
  ASSUME ~Careless, Smooth, Wired, Stocked, Follows, \A f : ~Charge(f),
         \/ \E p \in Planes : StreamOn(p)
         \/ StartStreaming \/ PropsAnswered \/ LoadAnswered \/ StartAnswered
         \/ ConfigAnswered \/ ReleaseAnswered \/ StreamonExpires
  PROVE  Smooth'
  <1>1. /\ Sound(s) /\ Tidy(s) /\ s.state # "ERROR" /\ DOMAIN s = Fields /\ ~queue.rollback
        /\ DOMAIN queue = {"at", "plane", "drc", "drain", "rollback"} /\ queue.plane \in Planes
    BY DEF Follows, Smooth, Tidy
  <1>2. command = "idle" /\ command' = "idle"
    <2>1. command' = command
      BY DEF StreamOn, StartStreaming, PropsAnswered, LoadAnswered, StartAnswered,
             ConfigAnswered, ReleaseAnswered, StreamonExpires, Others
    <2>2. (\E p \in Planes : StreamOn(p)) => command = "idle"
      BY DEF StreamOn, Alone
    <2>3. queue.at # "idle" => command = "idle"
      BY DEF Stocked, Wired
    <2>4. QED
      BY <2>1, <2>2, <2>3 DEF StartStreaming, PropsAnswered, LoadAnswered, StartAnswered,
                              ConfigAnswered, ReleaseAnswered, StreamonExpires, At
  <1>3. \A x : /\ Steady(x, NewWait(x)) /\ Steady(x, CreateDpb(x))
               /\ \A w : w # "flush" => Steady(x, Taken(x, w))
               /\ \A set : Steady(x, ChangeSub(x, {}, set))
               /\ Steady(x, [x EXCEPT !.off = FALSE, !.held = None, !.heldPic = "none",
                                      !.drops = 0])
               /\ Steady(x, [x EXCEPT !.off = FALSE, !.changed = FALSE])
    BY PartsSteady DEF Steady, Silent, Fields
  <1>4. \A x, c : c \in Commands => Fares(x, Answer(x, c)) /\ Fares(x, FwStart(x))
    BY SentFares
  <1>5. /\ "props" \in Commands /\ "config" \in Commands /\ "load" \in Commands
        /\ "start" \in Commands /\ "release" \in Commands
    BY DEF Commands
  <1>6. ASSUME NEW x, Steady(s, x)
        PROVE  Sound(x) /\ Tidy(x) /\ x.state = s.state
    BY <1>1, <1>6, ComposeFares DEF Fares, Sound, Tidy
  <1>7. ASSUME NEW x, Steady(s, x), NEW l \in {"load", "release"}, s' = Answer(x, l)
        PROVE  Tidy(s') /\ s'.state # "ERROR"
    BY <1>1, <1>4, <1>5, <1>6, <1>7 DEF Fares
  <1>8. CASE \E p \in Planes : StreamOn(p)
    <2>1. queue'.at = "enqueue" /\ ~queue'.rollback /\ s' = s
      BY <1>8 DEF StreamOn, Idle
    <2>2. QED
      BY <1>1, <1>2, <2>1, SmoothWhen
  <1>9. CASE StartStreaming
    <2> DEFINE y == Opened(s)
               z == NewWait(y)
    <2>1. PICK l \in {"props", "config"} :
            /\ s' = IF l = "props"
                    THEN [Answer(z, "props") EXCEPT !.off = FALSE, !.held = None,
                                                    !.heldPic = "none", !.drops = 0]
                    ELSE [Answer(z, "config") EXCEPT !.off = FALSE, !.changed = FALSE]
            /\ Goto(l)
      BY <1>1, <1>9 DEF StartStreaming
    <2>2. Tidy(y) /\ y.state # "ERROR"
      <3>1. Silent(s, y)
        BY PartsSteady, ComposeSteady DEF Opened
      <3>2. y.state # "ERROR"
        BY <1>1 DEF Opened, Fields, ChangeState, ChangeStateOk
      <3>3. QED
        BY <1>1, <3>1, <3>2, ComposeFares
    <2> HIDE DEF y
    <2>3. Steady(y, z)
      BY <1>3
    <2> HIDE DEF z
    <2> DEFINE a == Answer(z, l)
    <2>4. Fares(z, a)
      BY <1>4, <1>5
    <2>5. s' = IF l = "props"
               THEN [a EXCEPT !.off = FALSE, !.held = None, !.heldPic = "none", !.drops = 0]
               ELSE [a EXCEPT !.off = FALSE, !.changed = FALSE]
      BY <2>1
    <2> HIDE DEF a
    <2>6. Steady(a, s')
      BY <1>3, <2>5
    <2>7. Fares(y, s')
      BY <2>3, <2>4, <2>6, ComposeFares
    <2>8. QED
      BY <1>2, <2>1, <2>2, <2>7, SmoothGoes DEF Fares
  <1>10. CASE PropsAnswered
    <2> DEFINE t == Taken(s, "props")
               w == NewWait(s)
    <2>1. queue.at = "props" /\ queue.plane = "OUTPUT"
      BY <1>10 DEF PropsAnswered, At, Follows
    <2>2. \/ s' = StreamonInput(t) /\ FinishOn
          \/ s' = Answer(w, "load") /\ Goto("load")
      BY <1>10 DEF PropsAnswered
    <2>3. Steady(s, t) /\ Steady(s, w)
      BY <1>3
    <2> HIDE DEF t, w
    <2>4. CASE s' = StreamonInput(t) /\ FinishOn
      BY <1>1, <1>2, <1>6, <2>1, <2>3, <2>4, SmoothStarted DEF Running
    <2>5. CASE s' = Answer(w, "load") /\ Goto("load")
      BY <1>2, <1>7, <2>3, <2>5, SmoothGoes
    <2>6. QED
      BY <2>2, <2>4, <2>5
  <1>11. CASE LoadAnswered
    <2> DEFINE w == NewWait(s)
    <2>1. s' = FwStart(w) /\ Goto("start")
      BY <1>11 DEF LoadAnswered
    <2>2. Steady(s, w)
      BY <1>3
    <2> HIDE DEF w
    <2>3. Fares(s, s')
      BY <1>4, <1>5, <2>1, <2>2, ComposeFares
    <2>4. QED
      BY <1>1, <1>2, <2>1, <2>3, SmoothGoes DEF Fares
  <1>12. CASE StartAnswered
    <2> DEFINE t == Taken(s, "start")
               x == ChangeSub(t, {}, {"LOAD_RESOURCES"})
    <2>1. /\ s' = StreamonInput(x) /\ FinishOn
          /\ queue.at = "start" /\ queue.plane = "OUTPUT"
      BY <1>12 DEF StartAnswered, At, Follows
    <2>2. Steady(s, t)
      BY <1>3
    <2> HIDE DEF t
    <2>3. Steady(t, x)
      BY <1>3
    <2> HIDE DEF x
    <2>4. Steady(s, x)
      BY <2>2, <2>3, ComposeSteady
    <2>5. QED
      BY <1>1, <1>2, <1>6, <2>1, <2>4, SmoothStarted DEF Running
  <1>13. CASE ConfigAnswered
    <2> DEFINE t == Taken(s, "config")
               x == CreateDpb(t)
    <2>1. queue.at = "config" /\ queue.plane = "CAPTURE"
      BY <1>13 DEF ConfigAnswered, At, Follows
    <2>2. \/ /\ s' = Answer(x, "release")
             /\ queue' = [queue EXCEPT !.at = "release", !.drc = DrcPending(x),
                                       !.drain = DrainPending(x)]
          \/ s' = StreamonOutput(x, DrcPending(x), DrainPending(x)) /\ FinishOn
      BY <1>13 DEF ConfigAnswered
    <2>3. Steady(s, t)
      BY <1>3
    <2> HIDE DEF t
    <2>4. Steady(t, x)
      BY <1>3
    <2> HIDE DEF x
    <2>5. Steady(s, x)
      BY <2>3, <2>4, ComposeSteady
    <2>6. CASE /\ s' = Answer(x, "release")
               /\ queue' = [queue EXCEPT !.at = "release", !.drc = DrcPending(x),
                                         !.drain = DrainPending(x)]
      <3>1. queue'.at = "release" /\ queue'.rollback = queue.rollback
        BY <1>1, <2>6
      <3>2. Tidy(s') /\ s'.state # "ERROR"
        BY <1>7, <2>5, <2>6
      <3>3. QED
        BY <1>1, <1>2, <3>1, <3>2, SmoothWhen
    <2>7. CASE s' = StreamonOutput(x, DrcPending(x), DrainPending(x)) /\ FinishOn
      BY <1>1, <1>2, <1>6, <2>1, <2>5, <2>7, SmoothStarted DEF Running
    <2>8. QED
      BY <2>2, <2>6, <2>7
  <1>14. CASE ReleaseAnswered
    <2> DEFINE x == Taken(s, "release")
    <2>1. /\ s' = StreamonOutput(x, queue.drc, queue.drain) /\ FinishOn
          /\ queue.at = "release" /\ queue.plane = "CAPTURE"
      BY <1>14 DEF ReleaseAnswered, At, Follows
    <2>2. Steady(s, x)
      BY <1>3
    <2> HIDE DEF x
    <2>3. QED
      BY <1>1, <1>2, <1>6, <2>1, <2>2, SmoothStarted DEF Running
  <1>15. CASE StreamonExpires
    BY <1>15, NeverExpires DEF StreamonExpires, Asking, Waits
  <1>16. QED
    BY <1>8, <1>9, <1>10, <1>11, <1>12, <1>13, <1>14, <1>15

-----------------------------------------------------------------------------
(* STREAMOFF.  The table has a state for the plane that stops.             *)
LEMMA StreamoffLeads ==
  ASSUME Follows, s.state # "ERROR", queue.at \in Halting \ {"end"}
  PROVE  StreamoffTarget(s.state, queue.plane) # "ERROR"
  <1>1. /\ Fits(s.state, on) /\ queue.plane \in on
        /\ queue.plane \in Planes /\ on \in SUBSET Planes /\ s.state \in States \ {"ERROR"}
    BY DEF Follows, Placed, Halting, Sound
  <1> DEFINE to == StreamoffTarget(s.state, queue.plane)
  <1>2. Fits(to, on \ {queue.plane})
    BY <1>1, Table
  <1> HIDE DEF to
  <1>3. on \ {queue.plane} \in {{}, {"OUTPUT"}, {"CAPTURE"}}
    BY <1>1 DEF Planes
  <1>4. to # "ERROR"
    BY <1>2, <1>3 DEF Fits
  <1>5. QED
    BY <1>4 DEF to

(* Its end.                                                                *)
LEMMA SmoothExit ==
  ASSUME NEW x, Tidy(x), x.state # "ERROR", NEW q, ~q.rollback, command' = "idle",
         FinishOff(x, FALSE, q)
  PROVE  Smooth'
  <1> DEFINE y == BuffersDone(x, q.plane, "user")
  <1>1. s' = y /\ Rest
    BY DEF FinishOff
  <1>2. Steady(x, y)
    BY PartsSteady
  <1> HIDE DEF y
  <1>3. Tidy(s') /\ s'.state # "ERROR"
    BY <1>1, <1>2, ComposeFares DEF Fares
  <1>4. queue'.at = "idle" /\ ~queue'.rollback
    BY <1>1 DEF Rest, Idle
  <1>5. QED
    BY <1>3, <1>4, SmoothWhen

(* The rest of it, once the session has stopped.                           *)
LEMMA SmoothTail ==
  ASSUME Follows, Smooth, queue.at \in Halting \ {"end"}, command' = "idle",
         NEW x, Sound(x), Tidy(x), x.state = s.state, StreamoffTail(x, queue)
  PROVE  Smooth'
  <1> DEFINE t == StateChangeStreamoff(x, queue.plane)
             y == FlushDeferred(t, queue.plane, queue.rollback)
             d == DestroyDpb(y)
             w == NewWait(d)
  <1>1. IF y.state = "INIT" THEN s' = FwEnd(w) /\ Goto("end") ELSE FinishOff(y, FALSE, queue)
    BY DEF StreamoffTail
  <1>2. t.state = StreamoffTarget(s.state, queue.plane)
    BY Targets DEF Follows
  <1>3. t.state # "ERROR"
    BY <1>2, StreamoffLeads DEF Smooth
  <1>4. Silent(x, t)
    BY PartsSteady DEF StateChangeStreamoff
  <1> HIDE DEF t
  <1>5. Tidy(t)
    BY <1>4, ComposeFares
  <1>6. Steady(t, y)
    BY PartsSteady
  <1> HIDE DEF y
  <1>7. Tidy(y) /\ y.state # "ERROR"
    BY <1>3, <1>5, <1>6, ComposeFares DEF Fares
  <1>8. Steady(y, d)
    BY PartsSteady
  <1> HIDE DEF d
  <1>9. Steady(d, w)
    BY PartsSteady
  <1> HIDE DEF w
  <1>10. CASE y.state = "INIT"
    <2>1. s' = FwEnd(w) /\ Goto("end")
      BY <1>1, <1>10
    <2>2. Fares(w, FwEnd(w))
      BY SentFares DEF Commands
    <2>3. Fares(y, s')
      BY <1>8, <1>9, <2>1, <2>2, ComposeFares
    <2>4. QED
      BY <1>7, <2>1, <2>3, SmoothGoes DEF Fares
  <1>11. CASE y.state # "INIT"
    BY <1>1, <1>7, <1>11, SmoothExit DEF Smooth
  <1>12. QED
    BY <1>10, <1>11

(* The session stops.                                                      *)
LEMMA SmoothStops ==
  ASSUME Follows, Smooth, queue.at = "off", command' = "idle",
         NEW x, Sound(x), Hale(x), x.state = s.state, SessionStop(x, queue)
  PROVE  Smooth'
  <1>1. DOMAIN queue = {"at", "plane", "drc", "drain", "rollback"} /\ Tidy(x)
        /\ x.state # "ERROR" /\ ~queue.rollback
    BY DEF Follows, Hale, Smooth
  <1>2. CASE x.state = "STREAMING"
    <2> DEFINE y == [x EXCEPT !.flushed = 0]
               all == queue.plane = "OUTPUT"
               g == SendFlush(y, all)
    <2>1. s' = g /\ queue' = [queue EXCEPT !.at = "flush"]
      BY <1>2 DEF SessionStop
    <2>2. Hale(y)
      BY DEF Hale, Tidy, Typed, Fields
    <2>3. all \in BOOLEAN
      OBVIOUS
    <2> HIDE DEF y, all
    <2>4. Hale(g) /\ Due(g)
      BY <2>2, <2>3, FlushFares
    <2> HIDE DEF g
    <2>5. queue'.rollback = queue.rollback
      BY <1>1, <2>1
    <2>6. QED
      BY <1>1, <2>1, <2>4, <2>5, SmoothWhen DEF Hale
  <1>3. CASE x.state # "STREAMING" /\ "LOAD_RESOURCES" \in x.sub
    <2> DEFINE w == NewWait(x)
    <2>1. s' = FwStop(w) /\ queue' = [queue EXCEPT !.at = "stop"]
      BY <1>3 DEF SessionStop
    <2>2. Steady(x, w)
      BY PartsSteady
    <2> HIDE DEF w
    <2>3. Fares(w, FwStop(w))
      BY SentFares DEF Commands
    <2>4. Fares(x, s')
      BY <2>1, <2>2, <2>3, ComposeFares
    <2>5. QED
      BY <1>1, <2>1, <2>4, SmoothGoes DEF Fares, Goto
  <1>4. CASE x.state # "STREAMING" /\ "LOAD_RESOURCES" \notin x.sub
    <2>1. StreamoffTail(x, queue)
      BY <1>4 DEF SessionStop
    <2>2. QED
      BY <1>1, <2>1, SmoothTail DEF Halting
  <1>5. QED
    BY <1>2, <1>3, <1>4

LEMMA SmoothOff ==
  ASSUME ~Careless, Smooth, Wired, Stocked, Follows, \A f : ~Charge(f),
         \/ \E p \in Planes : StreamOff(p)
         \/ StopStreaming \/ ReleaseExpires \/ FlushAnswered \/ FlushExpires
         \/ StopEnds \/ UnloadEnds \/ EndAnswered \/ EndExpires
  PROVE  Smooth'
  <1>1. /\ Sound(s) /\ Tidy(s) /\ s.state # "ERROR" /\ DOMAIN s = Fields /\ ~queue.rollback
        /\ DOMAIN queue = {"at", "plane", "drc", "drain", "rollback"} /\ queue.plane \in Planes
        /\ Typed(s)
    BY DEF Follows, Smooth, Tidy, Wired, Line
  <1>2. command = "idle" /\ command' = "idle"
    <2>1. command' = command
      BY DEF StreamOff, StopStreaming, ReleaseExpires, FlushAnswered, FlushExpires,
             StopEnds, UnloadEnds, EndAnswered, EndExpires, Others
    <2>2. (\E p \in Planes : StreamOff(p)) => command = "idle"
      BY DEF StreamOff, Alone
    <2>3. queue.at # "idle" => command = "idle"
      BY DEF Stocked, Wired
    <2>4. QED
      BY <2>1, <2>2, <2>3 DEF StopStreaming, ReleaseExpires, FlushAnswered, FlushExpires,
                              StopEnds, UnloadEnds, EndAnswered, EndExpires, At
  <1>3. CASE \E p \in Planes : StreamOff(p)
    <2>1. queue'.at = "off" /\ ~queue'.rollback /\ s' = s
      BY <1>3 DEF StreamOff, Idle
    <2>2. QED
      BY <1>1, <1>2, <2>1, SmoothWhen
  <1>4. CASE StopStreaming
    <2> DEFINE x == IF queue.plane = "CAPTURE"
                    THEN [s EXCEPT !.held = None, !.heldPic = "none"] ELSE s
               y == [x EXCEPT !.off = TRUE]
    <2>1. queue.at = "off" /\ SessionStop(y, queue)
      BY <1>4 DEF StopStreaming, At
    <2>2. Hale(s)
      <3>1. s.flushes \in Nat
        <4>1. Counted(s) /\ s.msgs \in Seq(Message) /\ s.flushes \in Int
          BY DEF Wired, Line, Typed
        <4>2. Count(s.msgs, "flush") \in Nat
          BY <4>1, CountSteps
        <4>3. QED
          BY <4>1, <4>2 DEF Counted
      <3>2. QED
        BY <1>1, <3>1 DEF Hale
    <2>3. Hale(x) /\ x.state = s.state
      <3> DEFINE h == [s EXCEPT !.held = None, !.heldPic = "none"]
      <3>1. Hale(h) /\ h.state = s.state
        BY <2>2 DEF Hale, Tidy, Typed, Fields
      <3>2. x \in {h, s}
        OBVIOUS
      <3> HIDE DEF h, x
      <3>3. QED
        BY <2>2, <3>1, <3>2
    <2> HIDE DEF x
    <2>4. Hale(y) /\ y.state = s.state
      BY <2>3 DEF Hale, Tidy, Typed, Fields
    <2> HIDE DEF y
    <2>5. Sound(y)
      BY <1>1, <2>4 DEF Sound, Hale, Tidy
    <2>6. QED
      BY <1>2, <2>1, <2>4, <2>5, SmoothStops
  <1>5. CASE ReleaseExpires \/ FlushExpires \/ EndExpires
    BY <1>5, NeverExpires DEF ReleaseExpires, FlushExpires, EndExpires, At, Asking, Waits
  <1>6. CASE FlushAnswered
    <2> DEFINE x == Taken(s, "flush")
    <2>1. queue.at = "flush" /\ StreamoffTail(x, queue)
      BY <1>6 DEF FlushAnswered, At
    <2>2. Sound(x) /\ Tidy(x) /\ x.state = s.state
      BY <1>1 DEF Taken, Sound, Tidy, Fields
    <2> HIDE DEF x
    <2>3. QED
      BY <1>2, <2>1, <2>2, SmoothTail DEF Halting
  <1>7. CASE StopEnds
    <2> DEFINE w == NewWait(s)
    <2>1. queue.at = "stop"
      BY <1>7 DEF StopEnds, At
    <2>2. ~Expires("stop")
      BY <2>1, NeverExpires DEF Asking, Waits
    <2>3. s' = Answer(w, "unload") /\ Goto("unload")
      BY <1>7, <2>2 DEF StopEnds
    <2>4. Steady(s, w)
      BY PartsSteady
    <2> HIDE DEF w
    <2>5. Fares(w, Answer(w, "unload"))
      BY SentFares DEF Commands
    <2>6. Fares(s, s')
      BY <2>3, <2>4, <2>5, ComposeFares
    <2>7. QED
      BY <1>1, <1>2, <2>3, <2>6, SmoothGoes DEF Fares
  <1>8. CASE UnloadEnds
    <2> DEFINE t == Taken(s, "unload")
               c == ChangeSub(t, {"LOAD_RESOURCES"}, {})
               d == BuffersDone(c, "OUTPUT", "user")
               x == BuffersDone(d, "CAPTURE", "user")
    <2>1. queue.at = "unload"
      BY <1>8 DEF UnloadEnds, At
    <2>2. ~Expires("unload")
      BY <2>1, NeverExpires DEF Asking, Waits
    <2>3. StreamoffTail(x, queue)
      BY <1>8, <2>2 DEF UnloadEnds, Unloaded
    <2>4. Steady(s, t)
      BY PartsSteady
    <2> HIDE DEF t
    <2>5. Steady(t, c)
      BY PartsSteady
    <2> HIDE DEF c
    <2>6. Steady(c, d)
      BY PartsSteady
    <2> HIDE DEF d
    <2>7. Steady(d, x)
      BY PartsSteady
    <2> HIDE DEF x
    <2>8. Steady(s, x)
      BY <2>4, <2>5, <2>6, <2>7, ComposeSteady
    <2>9. Sound(x) /\ Tidy(x) /\ x.state = s.state
      BY <1>1, <2>8, ComposeFares DEF Fares, Sound, Tidy
    <2>10. QED
      BY <1>2, <2>1, <2>3, <2>9, SmoothTail DEF Halting
  <1>9. CASE EndAnswered
    <2> DEFINE t == Taken(s, "end")
               c == ChangeState(t, "DEINIT")
               x == SessionGone(c)
    <2>1. queue.at = "end" /\ FinishOff(x, FALSE, queue)
      BY <1>1, <1>9 DEF EndAnswered, At
    <2>2. Steady(s, t)
      BY PartsSteady
    <2> HIDE DEF t
    <2>3. Tidy(t) /\ t.state = "INIT"
      BY <1>1, <2>1, <2>2, ComposeFares DEF Fares, Follows, Placed
    <2>4. c.state = "DEINIT"
      BY <2>3 DEF Tidy, Fields, ChangeState, ChangeStateOk, AllowState
    <2>5. Silent(t, c)
      BY PartsSteady
    <2> HIDE DEF c
    <2>6. Tidy(c)
      BY <2>3, <2>5, ComposeFares
    <2>7. Tidy(x) /\ x.state # "ERROR"
      BY <2>4, <2>6 DEF SessionGone, Tidy, Fields
    <2> HIDE DEF x
    <2>8. QED
      BY <1>1, <1>2, <2>1, <2>7, SmoothExit
  <1>10. QED
    BY <1>3, <1>4, <1>5, <1>6, <1>7, <1>8, <1>9

-----------------------------------------------------------------------------
(* The firmware of a session without a fault reports none.                 *)
LEMMA SmoothFirmware ==
  ASSUME Smooth, Wired, codec = "H264", Firmware
  PROVE  Smooth'
  <1>1. /\ Typed(s) /\ Tidy(s) /\ DOMAIN s = Fields /\ s.msgs \in Seq(Sure)
        /\ s.inq \in Seq(InBufs \cup {Eos}) /\ s.outs \subseteq OutBufs
    BY DEF Wired, Line, Smooth, Tidy, Typed
  <1>2. queue' = queue /\ command' = command
    BY DEF Firmware, FwSequence, FwPicture, FwSuperframe, FwEndOfStream
  <1>3. ASSUME s'.up, s'.msgs \in Seq(Sure), DOMAIN s' = Fields, s'.state = s.state,
               s'.sub = s.sub, s'.flushes = s.flushes, s'.flushed = s.flushed
        PROVE  Smooth'
    BY <1>2, <1>3 DEF Smooth, Tidy, Due, Pending, DrcPending, DrainPending
  <1>4. ASSUME NEW o, NEW e \in Sure, NEW f \in Sure,
               s' = [s EXCEPT !.inq = Tail(@), !.outs = @ \ o, !.msgs = @ \o <<e, f>>]
        PROVE  Smooth'
    <2> DEFINE q == s.msgs \o <<e, f>>
               a == Tail(s.inq)
               u == s.outs \ o
    <2>1. q \in Seq(Sure)
      BY <1>1, <1>4
    <2>2. s' = [s EXCEPT !.inq = a, !.outs = u, !.msgs = q]
      BY <1>4
    <2> HIDE DEF q, a, u
    <2>3. /\ s'.up = s.up /\ s'.msgs = q /\ DOMAIN s' = Fields /\ s'.state = s.state
          /\ s'.sub = s.sub /\ s'.flushes = s.flushes /\ s'.flushed = s.flushed
      BY <1>1, <2>2 DEF Fields
    <2>4. QED
      BY <1>1, <1>3, <2>1, <2>3 DEF Tidy
  <1>5. CASE FwSequence
    <2>1. PICK k \in {"fits", "resize", "tenbit"} :
            s' = [Send(s, [type |-> "seq", kind |-> k])
                    EXCEPT !.paused = TRUE, !.parsed = TRUE]
      BY <1>5 DEF FwSequence
    <2> DEFINE m == [type |-> "seq", kind |-> k]
               q == Append(s.msgs, m)
    <2>2. m \in Sure
      BY SureMessages
    <2>3. s' = [[s EXCEPT !.msgs = q] EXCEPT !.paused = TRUE, !.parsed = TRUE]
      BY <1>1, <2>1 DEF Send, Tidy
    <2> HIDE DEF m
    <2>4. q \in Seq(Sure)
      BY <1>1, <2>2
    <2> HIDE DEF q
    <2>5. /\ s'.up = s.up /\ s'.msgs = q /\ DOMAIN s' = Fields /\ s'.state = s.state
          /\ s'.sub = s.sub /\ s'.flushes = s.flushes /\ s'.flushed = s.flushed
      BY <1>1, <2>3 DEF Fields
    <2>6. QED
      BY <1>1, <1>3, <2>4, <2>5 DEF Tidy
  <1>6. CASE FwPicture
    <2>1. PICK b \in s.outs, bad \in BOOLEAN :
            s' = [s EXCEPT !.inq = Tail(@), !.outs = @ \ {b},
                           !.msgs = @ \o <<Etb(Head(s.inq)), Ftb(b, "single", FALSE, bad)>>]
      BY <1>6 DEF FwPicture
    <2>2. Head(s.inq) \in InBufs \cup {Eos}
      BY <1>1, <1>6 DEF FwPicture, FwReady
    <2>3. Etb(Head(s.inq)) \in Sure /\ Ftb(b, "single", FALSE, bad) \in Sure
      BY <1>1, <2>2, SureMessages DEF Pictures
    <2>4. QED
      BY <1>4, <2>1, <2>3
  <1>7. CASE FwEndOfStream
    <2>1. PICK b \in s.outs :
            s' = [s EXCEPT !.inq = Tail(@), !.outs = @ \ {b},
                           !.msgs = @ \o <<Etb(Eos), Ftb(b, "empty", TRUE, FALSE)>>]
      BY <1>7 DEF FwEndOfStream
    <2>2. Etb(Eos) \in Sure /\ Ftb(b, "empty", TRUE, FALSE) \in Sure
      BY <1>1, SureMessages DEF Pictures
    <2>3. QED
      BY <1>4, <2>1, <2>2
  <1>8. QED
    BY <1>5, <1>6, <1>7 DEF Firmware, FwSuperframe

(* The interrupt thread.                                                   *)
LEMMA SmoothInterrupt ==
  ASSUME Smooth, Wired, Stocked, codec = "H264", Lends(s, queue.at, queue.plane), Interrupt
  PROVE  Smooth'
  <1>1. /\ Typed(s) /\ Tidy(s) /\ DOMAIN s = Fields /\ s.state # "ERROR" /\ Counted(s)
        /\ Pooled(s)
    BY DEF Wired, Line, Smooth, Tidy, Stocked
  <1>2. Hale(s)
    <2>1. Count(s.msgs, "flush") \in Nat /\ s.flushes \in Int
          /\ Count(s.msgs, "flush") <= s.flushes
      BY <1>1, CountSteps DEF Typed, Counted
    <2>2. QED
      BY <1>1, <2>1 DEF Hale
  <1>3. Traced(s)
    BY <1>1 DEF Lends, Serves, Tidy
  <1>4. Fares(s, s')
    BY <1>1, <1>2, <1>3, InterruptFares
  <1>5. Owing(s, s')
    <2> DEFINE x == [s EXCEPT !.msgs = Tail(@)]
    <2>1. s' = Handle(x, Head(s.msgs))
      BY DEF Interrupt
    <2>2. Owing(s, x)
      BY ComposeOwing DEF Fields
    <2> HIDE DEF x
    <2>3. QED
      BY <2>1, <2>2, HandleOwing, ComposeOwing
  <1>6. queue' = queue /\ command' = command
    BY DEF Interrupt
  <1>7. QED
    BY <1>1, <1>4, <1>5, <1>6 DEF Smooth, Fares, Owing

-----------------------------------------------------------------------------
Thriving == codec = "H264" /\ budget.faults = 0 => Smooth

LEMMA ThrivingInit == Init => Thriving
  <1> SUFFICES ASSUME Init PROVE Smooth
    BY DEF Thriving
  <1>1. s = Closed /\ queue.at = "idle" /\ ~queue.rollback /\ command = "idle"
    BY DEF Init, Idle
  <1>2. DOMAIN s = Fields
    BY <1>1 DEF Closed, Fields
  <1>3. s.state = "DEINIT" /\ s.up /\ s.msgs = << >>
    BY <1>1 DEF Closed
  <1>4. QED
    BY <1>1, <1>2, <1>3 DEF Smooth, Tidy

LEMMA ThrivingNext ==
  ASSUME ~Careless, Stocked, Wired, Follows, Lending, Thriving, [Next]_vars
  PROVE  Thriving'
  <1> SUFFICES ASSUME codec' = "H264", budget'.faults = 0
               PROVE  Smooth'
    BY DEF Thriving
  <1>1. /\ budget.faults = 0 /\ \A f : ~Charge(f)
        /\ ~(\E b \in Bufs : QBufEmpty(b)) /\ ~Fault
    BY Uncharged DEF Lending
  <1>2. codec' = codec
    BY CodecKept
  <1>3. codec = "H264" /\ Smooth
    BY <1>1, <1>2 DEF Thriving
  <1>4. Lends(s, queue.at, queue.plane)
    BY <1>1, <1>3 DEF Lending, Plain
  <1>5. CASE UNCHANGED vars
    <2>1. s' = s /\ queue' = queue /\ command' = command
      BY <1>5 DEF vars
    <2>2. QED
      BY <1>3, <2>1 DEF Smooth
  <1>6. CASE \/ \E b \in Bufs : QBuf(b)
             \/ Enqueue \/ DecoderStop \/ DecoderStart \/ DecoderStartWakes
    BY <1>1, <1>3, <1>6, SmoothClient
  <1>7. CASE \/ \E p \in Planes : StreamOn(p)
             \/ StartStreaming \/ PropsAnswered \/ LoadAnswered \/ StartAnswered
             \/ ConfigAnswered \/ ReleaseAnswered \/ StreamonExpires
    BY <1>1, <1>3, <1>7, SmoothOn
  <1>8. CASE \/ \E p \in Planes : StreamOff(p)
             \/ StopStreaming \/ ReleaseExpires \/ FlushAnswered \/ FlushExpires
             \/ StopEnds \/ UnloadEnds \/ EndAnswered \/ EndExpires
    BY <1>1, <1>3, <1>8, SmoothOff
  <1>9. CASE Interrupt
    BY <1>3, <1>4, <1>9, SmoothInterrupt
  <1>10. CASE Firmware
    BY <1>3, <1>10, SmoothFirmware
  <1>11. QED
    BY <1>1, <1>5, <1>6, <1>7, <1>8, <1>9, <1>10 DEF Next, Client, Driver

(* Without a fault no legal order of calls, pictures, source changes and   *)
(* flushes brings an H.264 instance into ERROR: no buffer that comes back  *)
(* is unmatched, no STREAMON or STREAMOFF finds a state that is not in the *)
(* table, no restart finds nothing to restart, and no wait runs out, as    *)
(* long as the client issues one call at a time.  A VP9 instance may hold  *)
(* an output back beyond a restart of CAPTURE and is left out.             *)
THEOREM Health ==
  ASSUME ~Careless
  PROVE  Spec => [](codec = "H264" => Healthy)
  <1>1. Init => Thriving /\ Lending /\ Stocked
    BY ThrivingInit, LendingInit, StockedInit
  <1>2. Stocked /\ Wired /\ Follows /\ Lending /\ Thriving /\ [Next]_vars
          => Thriving' /\ Lending'
    BY ThrivingNext, LendingNext
  <1>3. Stocked /\ Wired /\ Follows /\ [Next]_vars => Stocked'
    BY StockedNext
  <1>4. Thriving => (codec = "H264" => Healthy)
    BY DEF Thriving, Smooth, Healthy
  <1>5. QED
    BY <1>1, <1>2, <1>3, <1>4, StateFollows, WiredAlways, PTL DEF Spec
=============================================================================
