--------------------------- MODULE HfiQueueProofs ---------------------------
(***************************************************************************)
(* What holds of HfiQueue for every ring size, packet size and number of   *)
(* threads: indices and copies stay inside the ring; core->lock keeps the  *)
(* queue allocated under whoever works on it; and the ring implements a    *)
(* FIFO of packets, which the reader gets whole, once and in order.        *)
(***************************************************************************)
EXTENDS HfiQueue, IrisSums, SequenceTheorems, TLAPS

-----------------------------------------------------------------------------
(* Moving an index by at most one lap keeps it inside the ring.            *)
LEMMA StepInRing ==
  ASSUME NEW i \in Slots, NEW n \in 0 .. Size
  PROVE  Step(i, n) \in Slots
  BY QueueAssumption DEF Slots, Step

(* The distance between two indices is less than a lap.                    *)
LEMMA GapInRing ==
  ASSUME NEW i \in Slots, NEW j \in Slots
  PROVE  Gap(i, j) \in Slots
  BY QueueAssumption DEF Slots, Gap

(* No packet is longer than the ring.                                      *)
LEMMA SizeInRing ==
  ASSUME NEW p \in Packets \cup {Blank}
  PROVE  p.size \in 0 .. Size
  <1>1. CASE p \in Packets
    <2>1. p.size \in CmdSizes \cup MsgSizes
      BY <1>1 DEF Packets
    <2>2. CmdSizes \cup MsgSizes \subseteq 1 .. Size /\ Size \in Nat
      BY QueueAssumption
    <2>3. QED
      BY <2>1, <2>2
  <1>2. CASE p = Blank
    BY <1>2, QueueAssumption DEF Blank
  <1>3. QED
    BY <1>1, <1>2

(* The numbering of packets stays in its range.                            *)
LEMMA NextIdInRange ==
  ASSUME NEW n \in 0 .. Ids - 1
  PROVE  (n + 1) % Ids \in 0 .. Ids - 1
  BY QueueAssumption

(* A step of the writer keeps every variable's type: iris_hfi_queue_write()*)
(* stays inside the ring, wrapped or not.                                  *)
LEMMA WriterKeepsType ==
  ASSUME TypeOK, NEW w \in Writers, WriteStart(w) \/ WriterStep(w)
  PROVE  TypeOK'
  <1>0. w \in Threads
    BY DEF Writers, Threads
  <1> USE <1>0 DEF Forget, Goto, Acquire, Release, indices, locals
  <1>1. CASE WriteStart(w)
    <2>1. PICK n \in Sizes : packet' = [packet EXCEPT ![w] = [id |-> nextId, size |-> n]]
      BY <1>1 DEF WriteStart
    <2>2. [id |-> nextId, size |-> n] \in Packets
      BY <2>1 DEF Sizes, Packets, TypeOK
    <2>3. nextId' \in 0 .. Ids - 1
      BY <1>1, NextIdInRange DEF WriteStart, TypeOK
    <2>4. QED
      BY <1>1, <2>1, <2>2, <2>3 DEF WriteStart, TypeOK, Busy
  <1>2. CASE WriteCopy(w)
    <2>1. \A i \in Slots : Word(packet[w], Gap(at[w], i)) \in Words
      BY GapInRing DEF TypeOK, Word, Words
    <2>2. ring' \in [Slots -> Words]
      BY <1>2, <2>1 DEF WriteCopy, TypeOK
    <2>3. QED
      BY <1>2, <2>2 DEF WriteCopy, TypeOK, Busy
  <1>3. CASE WritePublish(w)
    <2>1. Step(at[w], packet[w].size) \in Slots
      BY StepInRing, SizeInRing DEF TypeOK
    <2>2. QED
      BY <1>3, <2>1 DEF WritePublish, TypeOK, Busy
  <1>4. CASE WriteRing(w)
    <2>1. 0 \in Slots
      BY QueueAssumption DEF Slots
    <2>2. QED
      BY <1>4, <2>1 DEF WriteRing, TypeOK, Busy
  <1>5. QED
    BY <1>1, <1>2, <1>3, <1>4 DEF WriterStep

(* A step of the reader keeps every variable's type: iris_hfi_queue_read() *)
(* never reads past the end of the ring.                                   *)
LEMMA ReaderKeepsType ==
  ASSUME TypeOK, NEW r \in Threads, ReaderStep(r)
  PROVE  TypeOK'
  <1>0. 0 \in Slots
    BY QueueAssumption DEF Slots
  <1> USE DEF Goto, Acquire, Release, indices, locals
  <1>1. CASE Wake(r)
    BY <1>1 DEF Wake, TypeOK, Busy
  <1>2. CASE ReadNothing(r)
    BY <1>2 DEF ReadNothing, TypeOK, Busy
  <1>3. CASE ReadStart(r)
    BY <1>3 DEF ReadStart, TypeOK, Busy
  <1>4. CASE ReadCopy(r)
    <2> DEFINE n == ring[at[r]].pkt.size
               copy == [k \in 1 .. n |-> ring[Step(at[r], k - 1)]]
    <2>1. n \in 0 .. Size
      BY SizeInRing DEF TypeOK, Words
    <2>2. \A k \in 1 .. n : Step(at[r], k - 1) \in Slots
      <3> SUFFICES ASSUME NEW k \in 1 .. n
                   PROVE  Step(at[r], k - 1) \in Slots
        OBVIOUS
      <3>1. k - 1 \in 0 .. Size /\ at[r] \in Slots
        BY <2>1, QueueAssumption DEF TypeOK
      <3>2. QED
        BY <3>1, StepInRing
    <2>3. copy \in Seq(Words) /\ Len(copy) <= Size
      <3>1. n \in Nat /\ n <= Size
        BY <2>1, QueueAssumption
      <3>2. \A k \in 1 .. n : ring[Step(at[r], k - 1)] \in Words
        BY <2>2 DEF TypeOK
      <3> HIDE DEF n
      <3>3. copy \in [1 .. n -> Words]
        BY <3>2
      <3>4. QED
        BY <3>1, <3>3
    <2>4. words' \in Seq(Words) /\ Len(words') <= Size
      <3>1. words' = copy \/ words' = <<>>
        BY <1>4 DEF ReadCopy
      <3>2. <<>> \in Seq(Words) /\ Len(<<>>) <= Size
        BY QueueAssumption
      <3>3. QED
        BY <2>3, <3>1, <3>2
    <2>5. QED
      BY <1>4, <2>4 DEF ReadCopy, TypeOK, Busy
  <1>5. CASE ReadAdvance(r)
    <2>1. Step(at[r], Len(words)) \in Slots
      BY StepInRing, QueueAssumption DEF TypeOK
    <2>2. words' \in Seq(Words) /\ Len(words') <= Size
      BY <1>5, QueueAssumption DEF ReadAdvance
    <2>3. QED
      BY <1>0, <1>5, <2>1, <2>2 DEF ReadAdvance, TypeOK, Busy
  <1>6. QED
    BY <1>1, <1>2, <1>3, <1>4, <1>5, ReaderStep(r) DEF ReaderStep

-----------------------------------------------------------------------------
(* Every variable keeps its type, and no read or write leaves the ring,    *)
(* for every ring and packet size and however many threads there are.      *)
THEOREM TypeCorrect == Spec => []TypeOK
  <1>1. Init => TypeOK
    <2>1. 0 \in Slots /\ 0 \in 0 .. Ids - 1 /\ 0 <= Size
      BY QueueAssumption DEF Slots
    <2>2. Word(Blank, 0) \in Words
      BY <2>1 DEF Word, Words
    <2>3. <<>> \in Seq(Words) /\ Len(<<>>) <= Size
      BY <2>1
    <2>4. Init => /\ queue \in {"cmd", "msg"}
                  /\ up \in BOOLEAN /\ bell \in BOOLEAN
                  /\ lock \in Threads \cup {NoThread}
                  /\ ring \in [Slots -> Words]
                  /\ pc \in [Threads -> Busy \cup {"idle", "check"}]
                  /\ at \in [Threads -> Slots]
                  /\ packet \in [Threads -> Packets \cup {Blank}]
      BY <2>1, <2>2 DEF Init
    <2>5. QED
      BY <2>1, <2>3, <2>4 DEF Init, TypeOK
  <1>2. TypeOK /\ [Next]_vars => TypeOK'
    <2> SUFFICES ASSUME TypeOK, [Next]_vars
                 PROVE  TypeOK'
      OBVIOUS
    <2>1. ASSUME NEW w \in Writers, WriteStart(w) \/ WriterStep(w)
          PROVE  TypeOK'
      BY <2>1, WriterKeepsType
    <2>2. CASE ReaderStep(Reader)
      <3>1. Reader \in Threads
        BY DEF Reader, Threads
      <3>2. QED
        BY <2>2, <3>1, ReaderKeepsType
    <2>3. CASE Deinit
      <3>1. 0 \in Slots
        BY QueueAssumption DEF Slots
      <3>2. QED
        BY <2>3, <3>1 DEF Deinit, Forget, Goto, indices, TypeOK, Busy
    <2>4. CASE QueuesInit
      <3>1. 0 \in Slots
        BY QueueAssumption DEF Slots
      <3>2. Word(Blank, 0) \in Words
        BY <3>1 DEF Word, Words
      <3>3. QED
        BY <2>4, <3>1, <3>2 DEF QueuesInit, locals, TypeOK, Busy
    <2>5. CASE UNCHANGED vars
      BY <2>5 DEF vars, indices, locals, TypeOK
    <2>6. QED
      BY <2>1, <2>2, <2>3, <2>4, <2>5 DEF Next
  <1>3. QED
    BY <1>1, <1>2, PTL DEF Spec

-----------------------------------------------------------------------------
(* Whoever works on the queue holds core->lock, or is the firmware; both   *)
(* keep the queue allocated.  This is MappedAccess made inductive.         *)
Exclusion ==
  /\ \A t \in Threads \ {Firmware} : pc[t] \in Busy => lock = t
  /\ lock # NoThread => up
  /\ pc[Firmware] \in Busy => up

(* A writer takes core->lock, and finds the queues mapped, before it works.*)
LEMMA WriterKeepsExclusion ==
  ASSUME Unlocked = {}, TypeOK, Exclusion,
         NEW w \in Writers, WriteStart(w) \/ WriterStep(w)
  PROVE  Exclusion'
  <1>0. w \in Threads /\ Locks(w) = (w # Firmware)
    BY DEF Writers, Threads, Locks
  <1> USE <1>0, QueueAssumption
          DEF Exclusion, Forget, Goto, Acquire, Release, Busy, TypeOK, Threads
  <1>1. CASE WriteStart(w)
    BY <1>1 DEF WriteStart
  <1>2. CASE WriteCopy(w)
    BY <1>2 DEF WriteCopy
  <1>3. CASE WritePublish(w)
    BY <1>3 DEF WritePublish
  <1>4. CASE WriteRing(w)
    BY <1>4 DEF WriteRing
  <1>5. QED
    BY <1>1, <1>2, <1>3, <1>4 DEF WriterStep

(* The interrupt thread works under core->lock; a firmware that has been   *)
(* powered off does not work.                                              *)
LEMMA ReaderKeepsExclusion ==
  ASSUME Unlocked = {}, TypeOK, Exclusion,
         NEW r \in {IrqThread, Firmware}, ReaderStep(r)
  PROVE  Exclusion'
  <1>0. r \in Threads /\ Locks(r) = (r # Firmware)
    BY DEF Threads, Locks
  <1> USE <1>0, QueueAssumption
          DEF Exclusion, Goto, Acquire, Release, Busy, TypeOK, Threads
  <1>1. CASE Wake(r)
    BY <1>1 DEF Wake
  <1>2. CASE ReadNothing(r)
    BY <1>2 DEF ReadNothing
  <1>3. CASE ReadStart(r)
    BY <1>3 DEF ReadStart
  <1>4. CASE ReadCopy(r)
    BY <1>4 DEF ReadCopy
  <1>5. CASE ReadAdvance(r)
    BY <1>5 DEF ReadAdvance
  <1>6. QED
    BY <1>1, <1>2, <1>3, <1>4, <1>5 DEF ReaderStep

LEMMA LockAlways ==
  ASSUME Unlocked = {}
  PROVE  Spec => []Exclusion
  <1>1. Init => Exclusion
    BY DEF Init, Exclusion, Busy, Threads
  <1>2. TypeOK /\ Exclusion /\ [Next]_vars => Exclusion'
    <2> SUFFICES ASSUME TypeOK, Exclusion, [Next]_vars
                 PROVE  Exclusion'
      OBVIOUS
    <2>1. ASSUME NEW w \in Writers, WriteStart(w) \/ WriterStep(w)
          PROVE  Exclusion'
      BY <2>1, WriterKeepsExclusion
    <2>2. CASE ReaderStep(Reader)
      <3>1. Reader \in {IrqThread, Firmware}
        BY DEF Reader
      <3>2. QED
        BY <2>2, <3>1, ReaderKeepsExclusion
    <2>3. CASE Deinit
      BY <2>3, QueueAssumption
         DEF Deinit, Forget, Goto, Exclusion, Busy, TypeOK, Threads
    <2>4. CASE QueuesInit
      BY <2>4 DEF QueuesInit, locals, Exclusion
    <2>5. CASE UNCHANGED vars
      BY <2>5 DEF vars, locals, Exclusion
    <2>6. QED
      BY <2>1, <2>2, <2>3, <2>4, <2>5 DEF Next
  <1>3. QED
    BY <1>1, <1>2, TypeCorrect, PTL DEF Spec

(* When every host thread takes core->lock, nobody reads or writes a queue *)
(* that iris_hfi_queues_deinit() has freed.                                *)
THEOREM AccessMapped ==
  ASSUME Unlocked = {}
  PROVE  Spec => []MappedAccess
  <1>1. Exclusion => MappedAccess
    BY QueueAssumption DEF Exclusion, MappedAccess, Threads
  <1>2. QED
    BY <1>1, LockAlways, PTL

-----------------------------------------------------------------------------
(* The last g words before index i are whole packets.                      *)
Bounds(mem, i, n) == n = 0 \/ mem[Back(i, n)].at = 0

Laid(mem, i, g) ==
  /\ Bounds(mem, i, g)
  /\ \A n \in 1 .. g : mem[Back(i, n)].at = 0 =>
       LET p == mem[Back(i, n)].pkt
       IN  /\ p \in Packets /\ p.size <= n
           /\ \A k \in 0 .. p.size - 1 : mem[Back(i, n - k)] = Word(p, k)
           /\ Bounds(mem, i, n - p.size)

Full == Gap(read_idx, write_idx)

(* What a writer has checked and written stays so until it publishes it.   *)
Written ==
  \A w \in Writers : pc[w] \in {"copy", "publish"} =>
    /\ at[w] = write_idx /\ packet[w] \in Packets /\ packet[w].size < Size - Full
    /\ pc[w] = "publish" =>
         \A k \in 0 .. packet[w].size - 1 : ring[Step(write_idx, k)] = Word(packet[w], k)

(* What the reader has seen is there, up to the end of a packet.           *)
Seen ==
  pc[Reader] \in {"copy", "advance"} =>
    /\ at[Reader] = read_idx /\ Full > 0
    /\ Gap(limit, write_idx) < Full /\ Bounds(ring, write_idx, Gap(limit, write_idx))
    /\ pc[Reader] = "advance" =>
         LET p == ring[read_idx].pkt
         IN  words = IF p.size <= MaxPacket THEN [k \in 1 .. p.size |-> Word(p, k - 1)] ELSE << >>

Whole == (up => Laid(ring, write_idx, Full)) /\ Written /\ Seen

(* Every packet takes words, and not more than there are.                  *)
LEMMA PacketSize ==
  ASSUME NEW p \in Packets
  PROVE  p.size \in 1 .. Size
  <1>1. p.size \in CmdSizes \cup MsgSizes
    BY DEF Packets
  <1>2. QED
    BY <1>1, QueueAssumption

(* Every memory of the ring, and what one function satisfies that reads    *)
(* packets backwards.                                                      *)
Pkts == Packets \cup {Blank}

ReadBack(mem, i, it, n) ==
  IF n = 0 THEN << >>
  ELSE LET p == mem[Back(i, n)].pkt
       IN  <<p>> \o IF p.size \in 1 .. n - 1 THEN it[n - p.size] ELSE << >>

Reads(mem, i, it) == it = [n \in 0 .. Size |-> ReadBack(mem, i, it, n)]

(* Walking back from an index stays in the ring, and undoes walking on.    *)
LEMMA BackInRing ==
  ASSUME NEW i \in Slots, NEW n \in 1 .. Size
  PROVE  Back(i, n) \in Slots
  BY QueueAssumption DEF Slots, Back

LEMMA BackStep ==
  ASSUME NEW i \in Slots, NEW m \in 0 .. Size, NEW n \in 1 .. Size, n + m <= Size
  PROVE  Back(Step(i, m), n + m) = Back(i, n)
  BY QueueAssumption DEF Slots, Back, Step

LEMMA BackOfStep ==
  ASSUME NEW i \in Slots, NEW m \in 1 .. Size, NEW k \in 0 .. m - 1
  PROVE  Back(Step(i, m), m - k) = Step(i, k)
  BY QueueAssumption DEF Slots, Back, Step

LEMMA BackOfGap ==
  ASSUME NEW i \in Slots, NEW j \in Slots, NEW k \in 0 .. Size - 1, k < Gap(i, j)
  PROVE  /\ Gap(i, j) - k \in 1 .. Size
         /\ Back(j, Gap(i, j) - k) = Step(i, k)
  BY QueueAssumption DEF Slots, Back, Step, Gap

(* The gap closes as the reader goes on, and opens as the writer does.     *)
LEMMA GapSteps ==
  ASSUME NEW i \in Slots, NEW j \in Slots
  PROVE  /\ Gap(i, i) = 0
         /\ \A n \in 0 .. Size : n <= Gap(i, j) => Gap(Step(i, n), j) = Gap(i, j) - n
         /\ \A n \in 0 .. Size : n < Size - Gap(i, j) => Gap(i, Step(j, n)) = Gap(i, j) + n
  BY QueueAssumption DEF Slots, Step, Gap

(* A slot in the gap is a number of steps back.                            *)
LEMMA GapOutside ==
  ASSUME NEW i \in Slots, NEW j \in Slots, NEW m \in 0 .. Size, m < Size - Gap(i, j),
         NEW n \in 1 .. Size, n <= Gap(i, j)
  PROVE  ~ (Gap(j, Back(j, n)) < m)
  BY QueueAssumption DEF Slots, Back, Gap

(* A packet in front of packets.                                           *)
LEMMA PacketFirst ==
  ASSUME NEW p \in Pkts, NEW s \in Seq(Pkts)
  PROVE  <<p>> \o s \in Seq(Pkts)
  <1> DEFINE a == <<p>>
  <1>1. a \in Seq(Pkts)
    OBVIOUS
  <1> HIDE DEF a
  <1>2. a \o s \in Seq(Pkts)
    BY <1>1, ConcatProperties
  <1>3. QED
    BY <1>2 DEF a

(* What is read back are packets.                                          *)
LEMMA ReadBackType ==
  ASSUME NEW mem \in [Slots -> Words], NEW i \in Slots, NEW it \in [0 .. Size -> Seq(Pkts)],
         NEW n \in 0 .. Size
  PROVE  ReadBack(mem, i, it, n) \in Seq(Pkts)
  <1>1. CASE n = 0
    BY <1>1, EmptySeq DEF ReadBack
  <1>2. CASE n # 0
    <2> DEFINE p == mem[Back(i, n)].pkt
               rest == IF p.size \in 1 .. n - 1 THEN it[n - p.size] ELSE << >>
    <2>1. p \in Pkts
      BY <1>2, BackInRing DEF Words, Pkts
    <2>2. rest \in Seq(Pkts)
      <3>1. CASE p.size \in 1 .. n - 1
        <4>0. \A z \in 1 .. n - 1 : n - z \in 0 .. Size
          BY QueueAssumption
        <4>1. n - p.size \in 0 .. Size
          BY <3>1, <4>0
        <4>2. QED
          BY <3>1, <4>1
      <3>2. QED
        BY <3>1, EmptySeq
    <2>3. ReadBack(mem, i, it, n) = <<p>> \o rest
      BY <1>2 DEF ReadBack
    <2> HIDE DEF p, rest
    <2>4. QED
      BY <2>1, <2>2, <2>3, PacketFirst
  <1>3. QED
    BY <1>1, <1>2

(* Some function satisfies the equation.                                   *)
LEMMA ReadsExists ==
  ASSUME NEW mem \in [Slots -> Words], NEW i \in Slots
  PROVE  \E it \in [0 .. Size -> Seq(Pkts)] : Reads(mem, i, it)
  <1> DEFINE F == [0 .. Size -> Seq(Pkts)]
             Upto(k, it) == \A n \in 0 .. Size : n <= k => it[n] = ReadBack(mem, i, it, n)
             Q == {k \in Nat : \E it \in F : Upto(k, it)}
  <1>1. 0 \in Q
    <2> DEFINE it == [n \in 0 .. Size |-> << >>]
    <2>1. it \in F
      BY EmptySeq
    <2>2. Upto(0, it)
      BY DEF ReadBack
    <2> HIDE DEF it, F, Upto
    <2>3. QED
      BY <2>1, <2>2
  <1>2. ASSUME NEW k \in Nat, k \in Q
        PROVE  k + 1 \in Q
    <2>1. PICK it \in F : Upto(k, it)
      BY <1>2
    <2> DEFINE new == [n \in 0 .. Size |-> IF n <= k THEN it[n] ELSE ReadBack(mem, i, it, n)]
    <2>2. new \in F
      <3>1. \A n \in 0 .. Size : it[n] \in Seq(Pkts) /\ ReadBack(mem, i, it, n) \in Seq(Pkts)
        BY <2>1, ReadBackType
      <3>2. QED
        BY <3>1
    <2>3. ASSUME NEW n \in 0 .. Size, n <= k + 1
          PROVE  new[n] = ReadBack(mem, i, new, n)
      <3> DEFINE p == mem[Back(i, n)].pkt
      <3>1. new[n] = ReadBack(mem, i, it, n)
        BY <2>1
      <3>2. ASSUME p.size \in 1 .. n - 1
            PROVE  new[n - p.size] = it[n - p.size]
        <4>0. \A z \in 1 .. n - 1 : n - z \in 0 .. Size /\ n - z <= k
          BY <2>3, QueueAssumption
        <4>1. n - p.size \in 0 .. Size /\ n - p.size <= k
          BY <3>2, <4>0
        <4>2. QED
          BY <4>1
      <3> HIDE DEF new
      <3>3. QED
        BY <3>1, <3>2 DEF ReadBack
    <2> HIDE DEF new, F
    <2>4. QED
      BY <2>2, <2>3
  <1>3. Nat \subseteq Q
    <2> HIDE DEF Q
    <2>1. QED
      BY <1>1, <1>2, InductionOnNat
  <1>4. PICK it \in F : Upto(Size, it)
    BY <1>3, QueueAssumption
  <1>5. it = [n \in 0 .. Size |-> ReadBack(mem, i, it, n)]
    BY <1>4, QueueAssumption
  <1>6. QED
    BY <1>4, <1>5 DEF Reads

(* Packeted is the one that does.                                          *)
LEMMA PacketedReads ==
  ASSUME NEW mem \in [Slots -> Words], NEW i \in Slots
  PROVE  Reads(mem, i, Packeted(mem, i))
  <1>1. PICK it : Reads(mem, i, it)
    BY ReadsExists
  <1>2. Packeted(mem, i) = CHOOSE jt : Reads(mem, i, jt)
    BY DEF Packeted, Reads, ReadBack
  <1>3. QED
    BY <1>1, <1>2

(* Strong induction up to the size of the ring, the predicate being a set. *)
LEMMA InductionInRing ==
  ASSUME NEW Q, \A n \in 0 .. Size : (\A m \in 0 .. n - 1 : m \in Q) => n \in Q
  PROVE  0 .. Size \subseteq Q
  <1> DEFINE R == {n \in Nat : \A m \in 0 .. n : m <= Size => m \in Q}
  <1>1. 0 \in R
    <2>1. 0 \in Q
      BY QueueAssumption
    <2>2. QED
      BY <2>1
  <1>2. ASSUME NEW n \in Nat, n \in R
        PROVE  n + 1 \in R
    <2>1. n + 1 <= Size => n + 1 \in Q
      <3>1. \A m \in 0 .. n : m <= Size => m \in Q
        BY <1>2
      <3>2. SUFFICES ASSUME n + 1 <= Size PROVE n + 1 \in Q
        OBVIOUS
      <3>3. n + 1 \in 0 .. Size /\ \A m \in 0 .. (n + 1) - 1 : m \in Q
        BY <3>1, <3>2, QueueAssumption
      <3>4. QED
        BY <3>3
    <2>2. QED
      BY <1>2, <2>1
  <1>3. Nat \subseteq R
    <2> HIDE DEF R
    <2>1. QED
      BY <1>1, <1>2, InductionOnNat
  <1>4. QED
    BY <1>3, QueueAssumption

(* One packet and what lies behind it.                                     *)
LEMMA PacketedStep ==
  ASSUME NEW mem \in [Slots -> Words], NEW i \in Slots, NEW n \in 0 .. Size
  PROVE  /\ Packeted(mem, i)[n] \in Seq(Pkts)
         /\ n = 0 => Packeted(mem, i)[n] = << >>
         /\ n # 0 => mem[Back(i, n)].pkt \in Pkts
         /\ n # 0 /\ mem[Back(i, n)].pkt.size \in 1 .. n =>
              Packeted(mem, i)[n] = <<mem[Back(i, n)].pkt>>
                                      \o Packeted(mem, i)[n - mem[Back(i, n)].pkt.size]
         /\ n # 0 /\ mem[Back(i, n)].pkt.size \notin 1 .. n =>
              Packeted(mem, i)[n] = <<mem[Back(i, n)].pkt>> \o << >>
  <1> DEFINE F == Packeted(mem, i)
  <1>1. F = [k \in 0 .. Size |-> ReadBack(mem, i, F, k)]
    BY PacketedReads DEF Reads
  <1>2. \A k \in 0 .. Size : F[k] = ReadBack(mem, i, F, k)
    BY <1>1
  <1> HIDE DEF F
  <1>3. F[n] \in Seq(Pkts)
    <2> DEFINE Q == {k \in 0 .. Size : F[k] \in Seq(Pkts)}
    <2>1. ASSUME NEW k \in 0 .. Size, \A m \in 0 .. k - 1 : m \in Q
          PROVE  k \in Q
      <3> DEFINE p == mem[Back(i, k)].pkt
                 rest == IF p.size \in 1 .. k - 1 THEN F[k - p.size] ELSE << >>
      <3>1. CASE k = 0
        BY <1>2, <3>1, EmptySeq DEF ReadBack
      <3>2. CASE k # 0
        <4>1. p \in Pkts
          BY <3>2, BackInRing DEF Words, Pkts
        <4>2. rest \in Seq(Pkts)
          BY <2>1, EmptySeq
        <4>3. F[k] = <<p>> \o rest
          BY <1>2, <3>2 DEF ReadBack
        <4> HIDE DEF p, rest
        <4>4. QED
          BY <4>1, <4>2, <4>3, PacketFirst
      <3>3. QED
        BY <3>1, <3>2
    <2> HIDE DEF Q
    <2>2. 0 .. Size \subseteq Q
      BY <2>1, InductionInRing
    <2>3. QED
      BY <2>2 DEF Q
  <1>4. n = 0 => F[n] = << >>
    BY <1>2 DEF ReadBack
  <1>5. ASSUME n # 0
        PROVE  /\ mem[Back(i, n)].pkt \in Pkts
               /\ mem[Back(i, n)].pkt.size \in 1 .. n =>
                    F[n] = <<mem[Back(i, n)].pkt>> \o F[n - mem[Back(i, n)].pkt.size]
               /\ mem[Back(i, n)].pkt.size \notin 1 .. n => F[n] = <<mem[Back(i, n)].pkt>> \o << >>
    <2> DEFINE p == mem[Back(i, n)].pkt
    <2>1. p \in Pkts
      BY <1>5, BackInRing DEF Words, Pkts
    <2>2. F[n] = <<p>> \o IF p.size \in 1 .. n - 1 THEN F[n - p.size] ELSE << >>
      BY <1>2, <1>5 DEF ReadBack
    <2>3. F[0] = << >>
      <3>1. 0 \in 0 .. Size
        BY QueueAssumption
      <3>2. QED
        BY <1>2, <3>1 DEF ReadBack
    <2> HIDE DEF p
    <2>4. ASSUME p.size \in 1 .. n
          PROVE  (IF p.size \in 1 .. n - 1 THEN F[n - p.size] ELSE << >>) = F[n - p.size]
      <3>1. p.size = n => n - p.size = 0
        BY <2>4
      <3>2. p.size # n => p.size \in 1 .. n - 1
        BY <2>4
      <3>3. QED
        BY <2>3, <3>1, <3>2
    <2>5. ASSUME p.size \notin 1 .. n
          PROVE  p.size \notin 1 .. n - 1
      BY <2>5
    <2>6. QED
      BY <2>1, <2>2, <2>4, <2>5 DEF p
  <1>6. QED
    BY <1>3, <1>4, <1>5 DEF F

(* The packets depend on the words they lie in only.                       *)
LEMMA SamePackets ==
  ASSUME NEW mem \in [Slots -> Words], NEW new \in [Slots -> Words], NEW i \in Slots,
         NEW g \in 0 .. Size, \A n \in 1 .. g : new[Back(i, n)] = mem[Back(i, n)]
  PROVE  /\ Packeted(new, i)[g] = Packeted(mem, i)[g]
         /\ Laid(mem, i, g) => Laid(new, i, g)
  <1>1. Packeted(new, i)[g] = Packeted(mem, i)[g]
    <2> DEFINE F == Packeted(mem, i)
               G == Packeted(new, i)
               Q == {n \in 0 .. Size : n <= g => G[n] = F[n]}
    <2>1. ASSUME NEW n \in 0 .. Size, \A m \in 0 .. n - 1 : m \in Q
          PROVE  n \in Q
      <3>1. CASE n = 0
        <4>1. F[n] = << >> /\ G[n] = << >>
          BY <3>1, PacketedStep
        <4>2. QED
          BY <4>1
      <3>2. CASE n # 0 /\ n <= g
        <4> DEFINE p == mem[Back(i, n)].pkt
        <4>1. new[Back(i, n)].pkt = p
          BY <3>2
        <4>2. CASE p.size \in 1 .. n
          <5>1. F[n] = <<p>> \o F[n - p.size] /\ G[n] = <<p>> \o G[n - p.size]
            <6>1. F[n] = <<p>> \o F[n - p.size]
              BY <3>2, <4>2, PacketedStep
            <6>2. new[Back(i, n)].pkt.size \in 1 .. n
              BY <4>1, <4>2
            <6>3. G[n] = <<new[Back(i, n)].pkt>> \o G[n - new[Back(i, n)].pkt.size]
              BY <3>2, <6>2, PacketedStep
            <6>4. QED
              BY <4>1, <6>1, <6>3
          <5>2. n - p.size \in 0 .. n - 1 /\ n - p.size <= g
            BY <3>2, <4>2
          <5>3. F[n - p.size] = G[n - p.size]
            BY <2>1, <5>2
          <5>4. QED
            BY <5>1, <5>3
        <4>3. CASE p.size \notin 1 .. n
          <5>1. F[n] = <<p>> \o << >>
            BY <3>2, <4>3, PacketedStep
          <5>3. new[Back(i, n)].pkt.size \notin 1 .. n
            BY <4>1, <4>3
          <5>4. G[n] = <<new[Back(i, n)].pkt>> \o << >>
            BY <3>2, <5>3, PacketedStep
          <5>2. QED
            BY <4>1, <5>1, <5>4
        <4>4. QED
          BY <4>2, <4>3
      <3>3. QED
        BY <3>1, <3>2
    <2> HIDE DEF Q
    <2>2. 0 .. Size \subseteq Q
      BY <2>1, InductionInRing
    <2>3. g \in Q
      BY <2>2
    <2>4. QED
      BY <2>3 DEF Q
  <1>2. ASSUME Laid(mem, i, g)
        PROVE  Laid(new, i, g)
    <2>1. \A n \in 0 .. g : Bounds(new, i, n) <=> Bounds(mem, i, n)
      BY DEF Bounds
    <2>2. Bounds(new, i, g)
      BY <1>2, <2>1 DEF Laid
    <2>3. ASSUME NEW n \in 1 .. g, new[Back(i, n)].at = 0
          PROVE  /\ new[Back(i, n)].pkt \in Packets /\ new[Back(i, n)].pkt.size <= n
                 /\ \A k \in 0 .. new[Back(i, n)].pkt.size - 1 :
                      new[Back(i, n - k)] = Word(new[Back(i, n)].pkt, k)
                 /\ Bounds(new, i, n - new[Back(i, n)].pkt.size)
      <3> DEFINE p == mem[Back(i, n)].pkt
      <3>1. new[Back(i, n)] = mem[Back(i, n)] /\ mem[Back(i, n)].at = 0
        BY <2>3
      <3>2. /\ p \in Packets /\ p.size <= n
            /\ \A k \in 0 .. p.size - 1 : mem[Back(i, n - k)] = Word(p, k)
            /\ Bounds(mem, i, n - p.size)
        BY <1>2, <3>1 DEF Laid
      <3>3. p.size \in 1 .. Size
        BY <3>2, PacketSize
      <3> HIDE DEF p
      <3>4. ASSUME NEW k \in 0 .. p.size - 1
            PROVE  new[Back(i, n - k)] = Word(p, k)
        <4>1. n - k \in 1 .. g
          BY <3>2, <3>3, QueueAssumption
        <4>2. QED
          BY <3>2, <4>1
      <3>5. n - p.size \in 0 .. g
        BY <3>2, <3>3, QueueAssumption
      <3>6. QED
        BY <2>1, <3>1, <3>2, <3>4, <3>5 DEF p
    <2>4. QED
      BY <2>2, <2>3 DEF Laid
  <1>3. QED
    BY <1>1, <1>2

LEMMA Concatenation ==
  \A a, b, c \in Seq(Pkts) : a \o (b \o c) = (a \o b) \o c
  BY ConcatAssociative

(* What lies behind a bound is whole packets, the first of them there.     *)
LEMMA FirstPacket ==
  ASSUME NEW mem \in [Slots -> Words], NEW i \in Slots, NEW g \in 0 .. Size, Laid(mem, i, g),
         NEW n \in 0 .. g, Bounds(mem, i, n)
  PROVE  /\ Laid(mem, i, n)
         /\ n # 0 => LET p == mem[Back(i, n)].pkt
                     IN  /\ p \in Packets /\ p.size \in 1 .. n
                         /\ \A k \in 0 .. p.size - 1 : mem[Back(i, n - k)] = Word(p, k)
                         /\ Bounds(mem, i, n - p.size)
                         /\ Packeted(mem, i)[n] = <<p>> \o Packeted(mem, i)[n - p.size]
  <1>1. Laid(mem, i, n)
    BY DEF Laid
  <1>2. ASSUME n # 0
        PROVE  LET p == mem[Back(i, n)].pkt
               IN  /\ p \in Packets /\ p.size \in 1 .. n
                   /\ \A k \in 0 .. p.size - 1 : mem[Back(i, n - k)] = Word(p, k)
                   /\ Bounds(mem, i, n - p.size)
                   /\ Packeted(mem, i)[n] = <<p>> \o Packeted(mem, i)[n - p.size]
    <2> DEFINE p == mem[Back(i, n)].pkt
    <2>1. n \in 1 .. g /\ n \in 0 .. Size /\ mem[Back(i, n)].at = 0
      BY <1>2, QueueAssumption DEF Bounds
    <2>2. /\ p \in Packets /\ p.size <= n
          /\ \A k \in 0 .. p.size - 1 : mem[Back(i, n - k)] = Word(p, k)
          /\ Bounds(mem, i, n - p.size)
      BY <2>1 DEF Laid
    <2>3. p.size \in 1 .. n
      <3>1. p.size \in 1 .. Size
        BY <2>2, PacketSize
      <3>2. QED
        BY <2>1, <2>2, <3>1
    <2>4. Packeted(mem, i)[n] = <<p>> \o Packeted(mem, i)[n - p.size]
      BY <1>2, <2>1, <2>3, PacketedStep
    <2>5. QED
      BY <2>2, <2>3, <2>4
  <1>3. QED
    BY <1>1, <1>2

(* The packets behind a bound are the last of them all.                    *)
LEMMA LastPackets ==
  ASSUME NEW mem \in [Slots -> Words], NEW i \in Slots, NEW g \in 0 .. Size, Laid(mem, i, g),
         NEW n \in 0 .. g, Bounds(mem, i, n)
  PROVE  \E a \in Seq(Pkts) : /\ Packeted(mem, i)[g] = a \o Packeted(mem, i)[n]
                              /\ n < g => a # << >>
  <1> DEFINE F == Packeted(mem, i)
             Q == {m \in 0 .. Size : n <= m /\ m <= g /\ Bounds(mem, i, m) =>
                     \E a \in Seq(Pkts) : F[m] = a \o F[n] /\ (n < m => a # << >>)}
  <1>0. \A m \in 0 .. Size : F[m] \in Seq(Pkts)
    BY PacketedStep
  <1> HIDE DEF F
  <1>1. ASSUME NEW m \in 0 .. Size, \A k \in 0 .. m - 1 : k \in Q
        PROVE  m \in Q
    <2> SUFFICES ASSUME n <= m, m <= g, Bounds(mem, i, m)
                 PROVE  \E a \in Seq(Pkts) : F[m] = a \o F[n] /\ (n < m => a # << >>)
      OBVIOUS
    <2>1. CASE m = n
      <3>1. << >> \in Seq(Pkts) /\ F[m] = << >> \o F[n]
        BY <1>0, <2>1, EmptySeq, ConcatEmptySeq
      <3>2. ~ (n < m)
        BY <2>1
      <3>3. QED
        BY <3>1, <3>2
    <2>2. CASE m # n
      <3> DEFINE p == mem[Back(i, m)].pkt
      <3>0. m \in 0 .. g /\ m # 0
        BY <2>2
      <3>1. /\ p \in Packets /\ p.size \in 1 .. m
            /\ \A k \in 0 .. p.size - 1 : mem[Back(i, m - k)] = Word(p, k)
            /\ Bounds(mem, i, m - p.size)
            /\ F[m] = <<p>> \o F[m - p.size]
        BY <3>0, FirstPacket DEF F
      <3> HIDE DEF p
      <3>2. n <= m - p.size
        <4> SUFFICES ASSUME m - p.size < n
                     PROVE  FALSE
          BY <3>1
        <4>1. m - n \in 0 .. p.size - 1 /\ m - n # 0 /\ m - (m - n) = n /\ n # 0
          BY <2>2, <3>1
        <4>2. mem[Back(i, n)] = Word(p, m - n)
          BY <3>1, <4>1
        <4>3. QED
          BY <4>1, <4>2 DEF Bounds, Word
      <3>3. m - p.size \in 0 .. m - 1 /\ m - p.size \in 0 .. Size /\ m - p.size <= g
        <4>1. \A z \in 1 .. m : m - z \in 0 .. m - 1 /\ m - z \in 0 .. Size /\ m - z <= g
          BY QueueAssumption
        <4>2. QED
          BY <3>1, <4>1
      <3>4. PICK a \in Seq(Pkts) : F[m - p.size] = a \o F[n]
        BY <1>1, <3>1, <3>2, <3>3
      <3>5. <<p>> \in Seq(Pkts)
        BY <3>1 DEF Pkts
      <3>9. n \in 0 .. Size
        BY QueueAssumption
      <3>10. F[n] \in Seq(Pkts) /\ F[m] = <<p>> \o (a \o F[n])
        BY <1>0, <3>1, <3>4, <3>9
      <3> HIDE DEF Q
      <3>11. F[m] = (<<p>> \o a) \o F[n]
        <4> DEFINE one == <<p>>
        <4>1. one \in Seq(Pkts) /\ F[m] = one \o (a \o F[n])
          BY <3>5, <3>10
        <4> HIDE DEF one
        <4>2. F[m] = (one \o a) \o F[n]
          BY <3>10, <4>1, Concatenation
        <4>3. QED
          BY <4>2 DEF one
      <3>12. Len(<<p>>) = 1
        OBVIOUS
      <3>6. F[m] = (<<p>> \o a) \o F[n] /\ <<p>> \o a \in Seq(Pkts) /\ Len(<<p>> \o a) = 1 + Len(a)
        BY <3>5, <3>11, <3>12, ConcatProperties
      <3>7. <<p>> \o a # << >>
        BY <3>6, LenProperties
      <3>8. QED
        BY <3>6, <3>7
    <2>3. QED
      BY <2>1, <2>2
  <1>2. 0 .. Size \subseteq Q
    <2> HIDE DEF Q
    <2>1. QED
      BY <1>1, InductionInRing
  <1>3. g \in Q /\ Bounds(mem, i, g)
    BY <1>2 DEF Laid
  <1>4. QED
    BY <1>3 DEF F

(* A packet behind the others is the last of them.                         *)
LEMMA OnePacketMore ==
  ASSUME NEW mem \in [Slots -> Words], NEW i \in Slots, NEW g \in 0 .. Size, Laid(mem, i, g),
         NEW p \in Packets, p.size < Size - g,
         \A k \in 0 .. p.size - 1 : mem[Step(i, k)] = Word(p, k)
  PROVE  LET j == Step(i, p.size)
         IN  /\ Laid(mem, j, g + p.size)
             /\ Packeted(mem, j)[g + p.size] = Append(Packeted(mem, i)[g], p)
             /\ \A n \in 0 .. g : Bounds(mem, i, n) => Bounds(mem, j, n + p.size)
  <1> DEFINE m == p.size
             j == Step(i, m)
             F == Packeted(mem, i)
             G == Packeted(mem, j)
  <1>0. m \in 1 .. Size /\ g + m < Size /\ j \in Slots
    <2>1. m \in 1 .. Size
      BY PacketSize
    <2>2. QED
      BY <2>1, StepInRing, QueueAssumption
  <1>1. \A k \in 0 .. m - 1 : mem[Back(j, m - k)] = Word(p, k)
    BY <1>0, BackOfStep
  <1>2. \A n \in 1 .. g : Back(j, n + m) = Back(i, n)
    BY <1>0, BackStep, QueueAssumption
  <1>3. mem[Back(j, m)] = Word(p, 0)
    <2>1. 0 \in 0 .. m - 1 /\ m - 0 = m
      BY <1>0
    <2>2. QED
      BY <1>1, <2>1
  <1>4. mem[Back(j, m)].pkt = p /\ mem[Back(j, m)].at = 0
    BY <1>3 DEF Word
  <1> HIDE DEF m, j, F, G
  <1>5. \A n \in 0 .. g : Bounds(mem, i, n) => Bounds(mem, j, n + m)
    <2> SUFFICES ASSUME NEW n \in 0 .. g, Bounds(mem, i, n)
                 PROVE  mem[Back(j, n + m)].at = 0
      BY DEF Bounds
    <2>1. CASE n = 0
      <3>1. n + m = m
        BY <1>0, <2>1
      <3>2. QED
        BY <1>4, <3>1
    <2>2. CASE n # 0
      BY <1>2, <2>2 DEF Bounds
    <2>3. QED
      BY <2>1, <2>2
  <1>6. /\ \A n \in 0 .. Size : F[n] \in Seq(Pkts) /\ G[n] \in Seq(Pkts)
        /\ F[0] = << >> /\ G[0] = << >>
    <2>1. 0 \in 0 .. Size
      BY QueueAssumption
    <2>2. QED
      BY <1>0, <2>1, PacketedStep DEF F, G
  <1>7. G[m] = <<p>>
    <2>1. m \in 0 .. Size /\ m # 0 /\ m \in 1 .. m /\ m - m = 0
      BY <1>0
    <2>2. mem[Back(j, m)].pkt.size = m
      BY <1>4 DEF m
    <2>3. G[m] = <<p>> \o G[m - m]
      BY <1>0, <1>4, <2>1, <2>2, PacketedStep DEF G
    <2>4. <<p>> \in Seq(Pkts)
      BY DEF Pkts
    <2>5. QED
      BY <1>6, <2>1, <2>3, <2>4, ConcatEmptySeq
  <1>8. G[g + m] = F[g] \o <<p>>
    <2> DEFINE Q == {n \in 0 .. Size : n <= g /\ Bounds(mem, i, n) => G[n + m] = F[n] \o <<p>>}
    <2>0. <<p>> \in Seq(Pkts)
      BY DEF Pkts
    <2>1. ASSUME NEW n \in 0 .. Size, \A k \in 0 .. n - 1 : k \in Q
          PROVE  n \in Q
      <3> SUFFICES ASSUME n <= g, Bounds(mem, i, n)
                   PROVE  G[n + m] = F[n] \o <<p>>
        OBVIOUS
      <3>1. CASE n = 0
        <4>1. n + m = m
          BY <1>0, <3>1
        <4>2. QED
          BY <1>6, <1>7, <2>0, <3>1, <4>1, ConcatEmptySeq
      <3>2. CASE n # 0
        <4> DEFINE q == mem[Back(i, n)].pkt
        <4>0. n \in 0 .. g /\ n \in 1 .. g
          BY <3>2
        <4>1. /\ q \in Packets /\ q.size \in 1 .. n /\ Bounds(mem, i, n - q.size)
              /\ F[n] = <<q>> \o F[n - q.size]
          BY <3>2, <4>0, FirstPacket DEF F
        <4>2. mem[Back(j, n + m)].pkt = q
          BY <1>2, <4>0
        <4>3. /\ n + m \in 0 .. Size /\ n + m # 0 /\ q.size \in 1 .. n + m
              /\ (n + m) - q.size = (n - q.size) + m
              /\ n - q.size \in 0 .. n - 1 /\ n - q.size <= g /\ n - q.size \in 0 .. Size
          <5>1. \A z \in 1 .. n :
                  /\ n + m \in 0 .. Size /\ n + m # 0 /\ z \in 1 .. n + m
                  /\ (n + m) - z = (n - z) + m
                  /\ n - z \in 0 .. n - 1 /\ n - z <= g /\ n - z \in 0 .. Size
            BY <1>0, <4>0, QueueAssumption
          <5>2. QED
            BY <4>1, <5>1
        <4>4. G[n + m] = <<q>> \o G[(n - q.size) + m]
          <5>1. mem[Back(j, n + m)].pkt.size \in 1 .. n + m
            BY <4>2, <4>3
          <5>2. G[n + m] = <<mem[Back(j, n + m)].pkt>> \o G[(n + m) - mem[Back(j, n + m)].pkt.size]
            BY <1>0, <4>3, <5>1, PacketedStep DEF G
          <5>3. QED
            BY <4>2, <4>3, <5>2
        <4>5. G[(n - q.size) + m] = F[n - q.size] \o <<p>>
          BY <2>1, <4>1, <4>3
        <4>6. <<q>> \in Seq(Pkts) /\ F[n - q.size] \in Seq(Pkts)
          <5>1. q \in Pkts
            BY <4>1 DEF Pkts
          <5>2. F[n - q.size] \in Seq(Pkts)
            BY <1>6, <4>3
          <5> HIDE DEF q
          <5>3. <<q>> \in Seq(Pkts)
            BY <5>1
          <5>4. QED
            BY <5>2, <5>3
        <4> HIDE DEF q, Q
        <4>7. G[n + m] = <<q>> \o (F[n - q.size] \o <<p>>)
          BY <4>4, <4>5
        <4>8. G[n + m] = (<<q>> \o F[n - q.size]) \o <<p>>
          <5> DEFINE a == <<q>>
                     c == <<p>>
          <5>1. a \in Seq(Pkts) /\ c \in Seq(Pkts) /\ G[n + m] = a \o (F[n - q.size] \o c)
            BY <2>0, <4>6, <4>7
          <5> HIDE DEF a, c
          <5>2. G[n + m] = (a \o F[n - q.size]) \o c
            BY <4>6, <5>1, Concatenation
          <5>3. QED
            BY <5>2 DEF a, c
        <4>9. QED
          BY <4>1, <4>8
      <3>3. QED
        BY <3>1, <3>2
    <2> HIDE DEF Q
    <2>2. 0 .. Size \subseteq Q
      BY <2>1, InductionInRing
    <2>3. g \in Q
      BY <2>2
    <2>4. QED
      BY <2>3 DEF Q, Laid
  <1>9. Laid(mem, j, g + m)
    <2>1. Bounds(mem, j, g + m)
      BY <1>5 DEF Laid
    <2>2. ASSUME NEW n \in 1 .. g + m, mem[Back(j, n)].at = 0
          PROVE  /\ mem[Back(j, n)].pkt \in Packets /\ mem[Back(j, n)].pkt.size <= n
                 /\ \A k \in 0 .. mem[Back(j, n)].pkt.size - 1 :
                      mem[Back(j, n - k)] = Word(mem[Back(j, n)].pkt, k)
                 /\ Bounds(mem, j, n - mem[Back(j, n)].pkt.size)
      <3>1. CASE n > m
        <4> DEFINE b == n - m
                   q == mem[Back(i, b)].pkt
        <4>1. b \in 1 .. g /\ n = b + m
          BY <1>0, <3>1
        <4>2. Back(j, n) = Back(i, b)
          BY <1>2, <4>1
        <4> HIDE DEF b
        <4>3. b \in 0 .. g /\ b # 0 /\ Bounds(mem, i, b)
          BY <2>2, <4>1, <4>2 DEF Bounds
        <4>4. /\ q \in Packets /\ q.size \in 1 .. b
              /\ \A k \in 0 .. q.size - 1 : mem[Back(i, b - k)] = Word(q, k)
              /\ Bounds(mem, i, b - q.size)
          BY <4>3, FirstPacket
        <4> HIDE DEF q
        <4>5. ASSUME NEW k \in 0 .. q.size - 1
              PROVE  mem[Back(j, n - k)] = Word(q, k)
          <5>1. b - k \in 1 .. g /\ n - k = (b - k) + m
            BY <1>0, <4>1, <4>4
          <5>2. QED
            BY <1>2, <4>4, <5>1
        <4>6. Bounds(mem, j, n - q.size)
          <5>1. b - q.size \in 0 .. g /\ n - q.size = (b - q.size) + m
            BY <1>0, <4>1, <4>4
          <5>2. QED
            BY <1>5, <4>4, <5>1
        <4>7. q.size <= n
          BY <1>0, <4>1, <4>4
        <4>8. QED
          BY <4>2, <4>4, <4>5, <4>6, <4>7 DEF q
      <3>2. CASE n <= m
        <4>1. m - n \in 0 .. m - 1 /\ m - (m - n) = n
          BY <1>0, <3>2
        <4>2. mem[Back(j, n)] = Word(p, m - n)
          BY <1>1, <4>1
        <4>8. m - n = 0
          BY <2>2, <4>2 DEF Word
        <4>3. n = m
          BY <1>0, <4>8
        <4>4. m - m = 0
          BY <1>0
        <4>5. Bounds(mem, j, m - m)
          BY <4>4 DEF Bounds
        <4>6. p.size = m /\ m <= m
          BY <1>0 DEF m
        <4>9. QED
          BY <1>1, <1>4, <4>3, <4>5, <4>6
      <3>3. QED
        BY <1>0, <3>1, <3>2
    <2>3. QED
      BY <2>1, <2>2 DEF Laid
  <1>10. Append(F[g], p) = F[g] \o <<p>>
    <2>1. F[g] \in Seq(Pkts) /\ p \in Pkts
      BY <1>6 DEF Pkts
    <2>2. QED
      BY <2>1, AppendIsConcat
  <1>11. QED
    BY <1>5, <1>8, <1>9, <1>10 DEF m, j, F, G

-----------------------------------------------------------------------------
(* Each step of the queue against the promise.                             *)

(* A slot is as many steps on as its gap says.                             *)
LEMMA GapOfStep ==
  ASSUME NEW i \in Slots, NEW k \in 0 .. Size - 1
  PROVE  Step(i, k) \in Slots /\ Gap(i, Step(i, k)) = k /\ Step(i, 0) = i
  BY QueueAssumption DEF Slots, Step, Gap

LEMMA GapOpen ==
  ASSUME NEW i \in Slots, NEW j \in Slots
  PROVE  /\ i # j => Gap(i, j) > 0
         /\ Gap(i, j) \in 0 .. Size /\ Gap(i, j) < Size
         /\ (IF j < i THEN i - j ELSE Size - (j - i)) = Size - Gap(i, j)
  BY QueueAssumption DEF Slots, Gap

(* Reader and writers are different threads, and two who work on the queue *)
(* are the same or on different sides of it.                               *)
LEMMA OneWriter ==
  ASSUME Exclusion, NEW w \in Writers, pc[w] \in Busy
  PROVE  \A v \in Writers : pc[v] \in Busy => v = w
  BY QueueAssumption DEF Exclusion, Writers, Threads

LEMMA Roles ==
  /\ Reader \in Threads /\ Reader \notin Writers
  /\ \A w \in Writers : w \in Threads /\ w # Reader
  BY QueueAssumption DEF Reader, Writers, Threads

LEMMA BusyUp ==
  ASSUME Exclusion, NEW t \in Threads, pc[t] \in Busy
  PROVE  up
  BY QueueAssumption DEF Exclusion, Threads

(* The queue keeps its promise in a step.                                  *)
Kept == Whole' /\ (Fifo!FifoNext \/ UNCHANGED <<Unread, got>>)

(* A step that touches neither ring nor indices changes nothing that was   *)
(* promised.                                                               *)
LEMMA SameUnread ==
  ASSUME UNCHANGED <<queue, up, indices, ring>>
  PROVE  /\ Unread' = Unread /\ Full' = Full
         /\ Laid(ring, write_idx, Full)' <=> Laid(ring, write_idx, Full)
         /\ Writers' = Writers /\ Reader' = Reader
         /\ \A n : Bounds(ring', write_idx', n) <=> Bounds(ring, write_idx, n)
  BY DEF Unread, indices, Full, Writers, Reader

(* A writer has the space it has checked until it publishes.               *)
LEMMA KeptWriteStart ==
  ASSUME TypeOK, ~MayFill, Whole, NEW w \in Writers, WriteStart(w)
  PROVE  Kept
  <1>1. w \in Threads /\ w # Reader
    BY Roles
  <1>2. PICK n \in Sizes : Fits(n) /\ packet' = [packet EXCEPT ![w] = [id |-> nextId, size |-> n]]
    BY DEF WriteStart
  <1>3. /\ UNCHANGED <<queue, up, indices, ring, limit, words, got>>
        /\ pc' = [pc EXCEPT ![w] = "copy"] /\ at' = [at EXCEPT ![w] = write_idx]
    BY DEF WriteStart, Goto
  <1>4. [id |-> nextId, size |-> n] \in Packets
    BY DEF Sizes, Packets, TypeOK
  <1>5. n < Size - Full
    <2>1. read_idx \in Slots /\ write_idx \in Slots
      BY DEF TypeOK
    <2>2. EmptySpace = Size - Full /\ Full \in 0 .. Size
      BY <2>1, GapOpen DEF EmptySpace, Full
    <2>3. n \in Nat
      BY QueueAssumption DEF Sizes
    <2>4. QED
      BY <1>2, <2>2, <2>3, QueueAssumption DEF Fits
  <1>6. Written'
    <2> SUFFICES ASSUME NEW v \in Writers, pc'[v] \in {"copy", "publish"}
                 PROVE  /\ at'[v] = write_idx' /\ packet'[v] \in Packets /\ packet'[v].size < Size - Full'
                        /\ pc'[v] = "publish" =>
                             \A k \in 0 .. packet'[v].size - 1 :
                               ring'[Step(write_idx', k)] = Word(packet'[v], k)
      BY <1>3, SameUnread DEF Written
    <2>0. Full' = Full /\ write_idx' = write_idx /\ ring' = ring /\ v \in Threads
      BY <1>3, SameUnread, Roles DEF indices
    <2>1. CASE v = w
      <3>1. packet'[w] = [id |-> nextId, size |-> n] /\ at'[w] = write_idx /\ pc'[w] = "copy"
        BY <1>1, <1>2, <1>3 DEF TypeOK
      <3>2. QED
        BY <1>4, <1>5, <2>0, <2>1, <3>1
    <2>2. CASE v # w
      <3>1. packet'[v] = packet[v] /\ at'[v] = at[v] /\ pc'[v] = pc[v]
        BY <1>2, <1>3, <2>0, <2>2 DEF TypeOK
      <3>2. QED
        BY <2>0, <3>1 DEF Whole, Written
    <2>3. QED
      BY <2>1, <2>2
  <1>7. Seen'
    <2>1. pc'[Reader] = pc[Reader] /\ at'[Reader] = at[Reader]
      BY <1>1, <1>3, Roles DEF TypeOK
    <2>2. Reader' = Reader /\ Full' = Full /\ (\A n_1 : Bounds(ring', write_idx', n_1) <=> Bounds(ring, write_idx, n_1))
      BY <1>3, SameUnread
    <2>3. QED
      BY <1>3, <2>1, <2>2 DEF Whole, Seen, indices
  <1>8. QED
    BY <1>3, <1>6, <1>7, SameUnread DEF Kept, Whole

(* The copy goes to words that are not part of the queue.                  *)
LEMMA KeptWriteCopy ==
  ASSUME TypeOK, TypeOK', Exclusion, Whole, NEW w \in Writers, WriteCopy(w)
  PROVE  Kept
  <1>1. w \in Threads /\ w # Reader /\ pc[w] = "copy"
    BY Roles DEF WriteCopy
  <1>2. /\ UNCHANGED <<queue, up, indices, limit, words, got, at, packet>>
        /\ pc' = [pc EXCEPT ![w] = "publish"]
        /\ ring' = [i \in Slots |-> IF Gap(at[w], i) < packet[w].size
                                    THEN Word(packet[w], Gap(at[w], i)) ELSE ring[i]]
    BY DEF WriteCopy, Goto
  <1>3. at[w] = write_idx /\ packet[w] \in Packets /\ packet[w].size < Size - Full
    BY <1>1 DEF Whole, Written
  <1>4. read_idx \in Slots /\ write_idx \in Slots /\ ring \in [Slots -> Words] /\ ring' \in [Slots -> Words]
    BY DEF TypeOK
  <1>5. packet[w].size \in 1 .. Size /\ Full \in 0 .. Size /\ Full < Size
    BY <1>3, <1>4, PacketSize, GapOpen DEF Full
  <1>6. up
    BY <1>1, BusyUp DEF Busy
  <1>7. \A n \in 1 .. Full : ring'[Back(write_idx, n)] = ring[Back(write_idx, n)]
    <2> SUFFICES ASSUME NEW n \in 1 .. Full
                 PROVE  ring'[Back(write_idx, n)] = ring[Back(write_idx, n)]
      OBVIOUS
    <2>1. n \in 1 .. Size /\ packet[w].size \in 0 .. Size
      BY <1>5, QueueAssumption
    <2>2. Back(write_idx, n) \in Slots
      BY <1>4, <2>1, BackInRing
    <2>3. ~ (Gap(write_idx, Back(write_idx, n)) < packet[w].size)
      BY <1>3, <1>4, <2>1, GapOutside DEF Full
    <2>4. QED
      BY <1>2, <1>3, <2>2, <2>3
  <1>8. Full' = Full /\ write_idx' = write_idx /\ read_idx' = read_idx /\ Writers' = Writers /\ Reader' = Reader
    BY <1>2 DEF Full, indices, Writers, Reader
  <1>9. Laid(ring, write_idx, Full)
    BY <1>6 DEF Whole
  <1>10. /\ Packeted(ring', write_idx)[Full] = Packeted(ring, write_idx)[Full]
         /\ Laid(ring', write_idx, Full)
    BY <1>4, <1>5, <1>7, <1>9, SamePackets
  <1>11. Unread' = Unread
    BY <1>2, <1>8, <1>10 DEF Unread, Full
  <1>12. Written'
    <2> SUFFICES ASSUME NEW v \in Writers, pc'[v] \in {"copy", "publish"}
                 PROVE  /\ at[v] = write_idx /\ packet[v] \in Packets /\ packet[v].size < Size - Full
                        /\ \A k \in 0 .. packet[v].size - 1 :
                             ring'[Step(write_idx, k)] = Word(packet[v], k)
      BY <1>2, <1>8 DEF Written
    <2>1. v = w
      <3>1. v \in Threads
        BY Roles
      <3>2. pc[v] \in Busy /\ pc[w] \in Busy
        BY <1>1, <1>2, <3>1 DEF Busy, TypeOK
      <3>3. QED
        BY <3>2, OneWriter
    <2>2. ASSUME NEW k \in 0 .. packet[w].size - 1
          PROVE  ring'[Step(write_idx, k)] = Word(packet[w], k)
      <3>1. k \in 0 .. Size - 1
        BY <1>5, QueueAssumption
      <3>2. Step(write_idx, k) \in Slots /\ Gap(write_idx, Step(write_idx, k)) = k
        BY <1>4, <3>1, GapOfStep
      <3>3. k < packet[w].size
        BY <1>5
      <3>4. QED
        BY <1>2, <1>3, <3>2, <3>3
    <2>3. QED
      BY <1>3, <2>1, <2>2
  <1>13. Seen'
    <2> SUFFICES ASSUME pc'[Reader] \in {"copy", "advance"}
                 PROVE  /\ at'[Reader] = read_idx /\ Full > 0
                        /\ Gap(limit, write_idx) < Full /\ Bounds(ring', write_idx, Gap(limit, write_idx))
                        /\ pc'[Reader] = "advance" =>
                             LET p == ring'[read_idx].pkt
                             IN  words = IF p.size <= MaxPacket THEN [k \in 1 .. p.size |-> Word(p, k - 1)]
                                         ELSE << >>
      <3>1. limit' = limit /\ words' = words
        BY <1>2
      <3>2. QED
        BY <1>8, <3>1 DEF Seen
    <2>1. pc'[Reader] = pc[Reader] /\ at'[Reader] = at[Reader]
      BY <1>1, <1>2, Roles DEF TypeOK
    <2>2. /\ at[Reader] = read_idx /\ Full > 0
          /\ Gap(limit, write_idx) < Full /\ Bounds(ring, write_idx, Gap(limit, write_idx))
      BY <2>1 DEF Whole, Seen
    <2>3. Gap(limit, write_idx) \in Nat
      BY <1>4, GapOpen DEF TypeOK
    <2>4. Bounds(ring', write_idx, Gap(limit, write_idx))
      BY <1>5, <1>7, <2>2, <2>3 DEF Bounds
    <2>5. ring'[read_idx] = ring[read_idx]
      <3>1. Back(write_idx, Full - 0) = Step(read_idx, 0) /\ Step(read_idx, 0) = read_idx /\ Full - 0 = Full
        BY <1>4, <1>5, <2>2, BackOfGap, GapOfStep, QueueAssumption DEF Full
      <3>2. Full \in 1 .. Full
        BY <1>5, <2>2
      <3>3. QED
        BY <1>7, <3>1, <3>2
    <2>6. QED
      BY <1>2, <2>1, <2>2, <2>4, <2>5 DEF Whole, Seen
  <1>14. QED
    BY <1>2, <1>8, <1>10, <1>11, <1>12, <1>13 DEF Kept, Whole

(* The index makes one packet of it.                                       *)
LEMMA KeptWritePublish ==
  ASSUME TypeOK, TypeOK', Exclusion, Whole, NEW w \in Writers, WritePublish(w)
  PROVE  Kept
  <1> DEFINE p == packet[w]
  <1>1. w \in Threads /\ w # Reader /\ pc[w] = "publish"
    BY Roles DEF WritePublish
  <1>2. /\ UNCHANGED <<queue, up, read_idx, ring, limit, words, got, at, packet>>
        /\ pc' = [pc EXCEPT ![w] = "ring"]
        /\ write_idx' = Step(at[w], p.size)
    BY DEF WritePublish, Goto
  <1>3. /\ at[w] = write_idx /\ p \in Packets /\ p.size < Size - Full
        /\ \A k \in 0 .. p.size - 1 : ring[Step(write_idx, k)] = Word(p, k)
    BY <1>1 DEF Whole, Written
  <1>4. read_idx \in Slots /\ write_idx \in Slots /\ ring \in [Slots -> Words]
    BY DEF TypeOK
  <1>5. p.size \in 1 .. Size /\ Full \in 0 .. Size /\ Full < Size
    BY <1>3, <1>4, PacketSize, GapOpen DEF Full
  <1>6. up
    BY <1>1, BusyUp DEF Busy
  <1>7. Laid(ring, write_idx, Full)
    BY <1>6 DEF Whole
  <1> HIDE DEF p
  <1>8. write_idx' = Step(write_idx, p.size)
    BY <1>2, <1>3
  <1>9. Full' = Full + p.size
    <2>1. p.size \in 0 .. Size
      BY <1>5
    <2>2. QED
      BY <1>2, <1>3, <1>4, <1>8, <2>1, GapSteps DEF Full
  <1>10. /\ Laid(ring, write_idx', Full + p.size)
         /\ Packeted(ring, write_idx')[Full + p.size] = Append(Packeted(ring, write_idx)[Full], p)
         /\ \A n \in 0 .. Full : Bounds(ring, write_idx, n) => Bounds(ring, write_idx', n + p.size)
    BY <1>3, <1>4, <1>5, <1>7, <1>8, OnePacketMore
  <1>11. Unread' = Append(Unread, p)
    BY <1>2, <1>6, <1>9, <1>10 DEF Unread, Full
  <1>12. Fifo!FifoNext
    BY <1>2, <1>3, <1>11 DEF Fifo!FifoNext, Fifo!Put
  <1>13. Written'
    <2> SUFFICES ASSUME NEW v \in Writers, pc'[v] \in {"copy", "publish"}
                 PROVE  FALSE
      BY <1>2 DEF Written, Writers
    <2>1. v \in Threads
      BY Roles
    <2>2. v = w
      <3>2. pc[v] \in Busy /\ pc[w] \in Busy
        BY <1>1, <1>2, <2>1 DEF Busy, TypeOK
      <3>3. QED
        BY <3>2, OneWriter
    <2>3. QED
      BY <1>1, <1>2, <2>2 DEF TypeOK
  <1>14. Seen'
    <2> SUFFICES ASSUME pc'[Reader] \in {"copy", "advance"}
                 PROVE  /\ at[Reader] = read_idx /\ Full + p.size > 0
                        /\ Gap(limit, write_idx') < Full + p.size
                        /\ Bounds(ring, write_idx', Gap(limit, write_idx'))
                        /\ pc'[Reader] = "advance" =>
                             LET q == ring[read_idx].pkt
                             IN  words = IF q.size <= MaxPacket THEN [k \in 1 .. q.size |-> Word(q, k - 1)]
                                         ELSE << >>
      BY <1>2, <1>9 DEF Seen, Reader
    <2>1. pc'[Reader] = pc[Reader]
      BY <1>1, <1>2, Roles DEF TypeOK
    <2>2. /\ at[Reader] = read_idx /\ Full > 0
          /\ Gap(limit, write_idx) < Full /\ Bounds(ring, write_idx, Gap(limit, write_idx))
      BY <2>1 DEF Whole, Seen
    <2>3. Gap(limit, write_idx) \in 0 .. Size /\ limit \in Slots
      BY <1>4, GapOpen DEF TypeOK
    <2>4. Gap(limit, write_idx) \in 0 .. Full
      BY <1>5, <2>2, <2>3
    <2>5. p.size \in 0 .. Size /\ p.size < Size - Gap(limit, write_idx)
      BY <1>3, <1>5, <2>2, <2>3, QueueAssumption
    <2>6. Gap(limit, write_idx') = Gap(limit, write_idx) + p.size
      BY <1>4, <1>8, <2>3, <2>5, GapSteps
    <2>7. Bounds(ring, write_idx', Gap(limit, write_idx'))
      BY <1>10, <2>2, <2>4, <2>6
    <2>8. Full + p.size > 0 /\ Gap(limit, write_idx) + p.size < Full + p.size
      BY <1>5, <2>2, <2>3
    <2>9. QED
      BY <2>1, <2>2, <2>6, <2>7, <2>8 DEF Whole, Seen
  <1>15. QED
    BY <1>2, <1>9, <1>10, <1>12, <1>13, <1>14 DEF Kept, Whole

(* The doorbell is nothing to the queue.                                   *)
LEMMA KeptWriteRing ==
  ASSUME TypeOK, Whole, NEW w \in Writers, WriteRing(w)
  PROVE  Kept
  <1>1. w \in Threads /\ w # Reader
    BY Roles
  <1>2. /\ UNCHANGED <<queue, up, indices, ring, limit, words, got>>
        /\ pc' = [pc EXCEPT ![w] = "idle"] /\ at' = [at EXCEPT ![w] = 0]
        /\ packet' = [packet EXCEPT ![w] = Blank]
    BY DEF WriteRing, Goto, Forget
  <1>3. /\ Full' = Full /\ write_idx' = write_idx /\ read_idx' = read_idx /\ ring' = ring
        /\ Writers' = Writers /\ Reader' = Reader
    BY <1>2, SameUnread DEF indices
  <1>4. Written'
    <2> SUFFICES ASSUME NEW v \in Writers, pc'[v] \in {"copy", "publish"}
                 PROVE  /\ at'[v] = write_idx /\ packet'[v] \in Packets /\ packet'[v].size < Size - Full
                        /\ pc'[v] = "publish" =>
                             \A k \in 0 .. packet'[v].size - 1 : ring[Step(write_idx, k)] = Word(packet'[v], k)
      BY <1>3 DEF Written
    <2>1. v # w /\ v \in Threads
      BY <1>1, <1>2, Roles DEF TypeOK
    <2>2. packet'[v] = packet[v] /\ at'[v] = at[v] /\ pc'[v] = pc[v]
      BY <1>2, <2>1 DEF TypeOK
    <2>3. QED
      BY <2>2 DEF Whole, Written
  <1>5. Seen'
    <2>1. pc'[Reader] = pc[Reader] /\ at'[Reader] = at[Reader]
      BY <1>1, <1>2, Roles DEF TypeOK
    <2>2. QED
      BY <1>2, <1>3, <2>1 DEF Whole, Seen
  <1>6. QED
    BY <1>2, <1>4, <1>5, SameUnread DEF Kept, Whole

(* What the reader finds at its index is the first packet of the queue.    *)
LEMMA HeadPacket ==
  ASSUME TypeOK, Whole, up, Full > 0
  PROVE  LET p == ring[read_idx].pkt
         IN  /\ p \in Packets /\ p.size \in 1 .. Full
             /\ \A k \in 0 .. p.size - 1 : ring[Step(read_idx, k)] = Word(p, k)
             /\ Bounds(ring, write_idx, Full - p.size)
             /\ Unread = <<p>> \o Packeted(ring, write_idx)[Full - p.size]
  <1>1. read_idx \in Slots /\ write_idx \in Slots /\ ring \in [Slots -> Words]
    BY DEF TypeOK
  <1>2. Full \in 0 .. Size /\ Full < Size /\ Full \in 0 .. Full /\ Full # 0
    BY <1>1, GapOpen DEF Full
  <1>3. Laid(ring, write_idx, Full) /\ Bounds(ring, write_idx, Full)
    BY DEF Whole, Laid
  <1>4. \A k \in 0 .. Full - 1 : Back(write_idx, Full - k) = Step(read_idx, k)
    <2> SUFFICES ASSUME NEW k \in 0 .. Full - 1
                 PROVE  Back(write_idx, Full - k) = Step(read_idx, k)
      OBVIOUS
    <2>1. k \in 0 .. Size - 1 /\ k < Full
      BY <1>2, QueueAssumption
    <2>2. QED
      BY <1>1, <2>1, BackOfGap DEF Full
  <1>5. Back(write_idx, Full) = read_idx
    <2>1. 0 \in 0 .. Full - 1 /\ Full - 0 = Full /\ 0 \in 0 .. Size - 1
      BY <1>2, QueueAssumption
    <2>2. Back(write_idx, Full - 0) = Step(read_idx, 0)
      BY <1>4, <2>1
    <2>3. Step(read_idx, 0) = read_idx
      BY <1>1, <2>1, GapOfStep
    <2>4. QED
      BY <2>1, <2>2, <2>3
  <1> DEFINE p == ring[read_idx].pkt
  <1>6. /\ p \in Packets /\ p.size \in 1 .. Full
        /\ \A k \in 0 .. p.size - 1 : ring[Back(write_idx, Full - k)] = Word(p, k)
        /\ Bounds(ring, write_idx, Full - p.size)
        /\ Packeted(ring, write_idx)[Full] = <<p>> \o Packeted(ring, write_idx)[Full - p.size]
    BY <1>1, <1>2, <1>3, <1>5, FirstPacket
  <1>7. ASSUME NEW k \in 0 .. p.size - 1
        PROVE  ring[Step(read_idx, k)] = Word(p, k)
    <2>1. k \in 0 .. Full - 1
      BY <1>2, <1>6
    <2>2. QED
      BY <1>4, <1>6, <2>1
  <1>8. QED
    BY <1>6, <1>7 DEF Unread, Full

(* While the reader goes on without moving its index nothing changes for   *)
(* the writers.                                                            *)
LEMMA ReaderKeepsWritten ==
  ASSUME TypeOK, Whole, UNCHANGED <<queue, up, indices, ring, packet>>,
         NEW l, pc' = [pc EXCEPT ![Reader] = l],
         at' = at \/ (\E i : at' = [at EXCEPT ![Reader] = i])
  PROVE  Written'
  <1> SUFFICES ASSUME NEW v \in Writers, pc'[v] \in {"copy", "publish"}
               PROVE  /\ at'[v] = write_idx /\ packet[v] \in Packets /\ packet[v].size < Size - Full
                      /\ pc'[v] = "publish" =>
                           \A k \in 0 .. packet[v].size - 1 : ring[Step(write_idx, k)] = Word(packet[v], k)
    BY SameUnread DEF Written, indices
  <1>1. v # Reader /\ v \in Threads /\ Reader \in Threads
    BY Roles
  <1>2. pc'[v] = pc[v] /\ at'[v] = at[v]
    BY <1>1 DEF TypeOK
  <1>3. QED
    BY <1>2 DEF Whole, Written

LEMMA KeptWake ==
  ASSUME TypeOK, Whole, Wake(Reader) \/ ReadNothing(Reader)
  PROVE  Kept
  <1>1. /\ UNCHANGED <<queue, up, indices, ring, packet, at, got>>
        /\ \E l \in {"check", "idle"} : pc' = [pc EXCEPT ![Reader] = l]
    BY DEF Wake, ReadNothing, Goto
  <1>2. Written'
    BY <1>1, ReaderKeepsWritten
  <1>3. Seen'
    BY <1>1, Roles DEF Seen, TypeOK, Reader
  <1>4. QED
    BY <1>1, <1>2, <1>3, SameUnread DEF Kept, Whole

LEMMA KeptReadStart ==
  ASSUME TypeOK, Whole, ReadStart(Reader)
  PROVE  Kept
  <1>1. /\ UNCHANGED <<queue, up, indices, ring, packet, got>> /\ up /\ read_idx # write_idx
        /\ pc' = [pc EXCEPT ![Reader] = "copy"] /\ at' = [at EXCEPT ![Reader] = read_idx]
        /\ limit' = write_idx
    BY DEF ReadStart, Goto
  <1>2. Written'
    BY <1>1, ReaderKeepsWritten
  <1>3. Seen'
    <2>1. pc'[Reader] = "copy" /\ at'[Reader] = read_idx
      BY <1>1, Roles DEF TypeOK
    <2>2. Full > 0 /\ Gap(write_idx, write_idx) = 0
      BY <1>1, GapOpen, GapSteps DEF Full, TypeOK
    <2>3. Full' = Full /\ Reader' = Reader /\ write_idx' = write_idx /\ read_idx' = read_idx
      BY <1>1, SameUnread DEF indices
    <2>4. QED
      BY <1>1, <2>1, <2>2, <2>3 DEF Seen, Bounds
  <1>4. QED
    BY <1>1, <1>2, <1>3, SameUnread DEF Kept, Whole

(* What the reader copies is the first packet.                             *)
LEMMA KeptReadCopy ==
  ASSUME TypeOK, Exclusion, Whole, ReadCopy(Reader)
  PROVE  Kept
  <1> DEFINE p == ring[read_idx].pkt
  <1>1. /\ UNCHANGED <<queue, up, indices, ring, packet, got, at, limit>> /\ pc[Reader] = "copy"
        /\ pc' = [pc EXCEPT ![Reader] = "advance"]
    BY DEF ReadCopy, Goto
  <1>2. Written'
    BY <1>1, ReaderKeepsWritten
  <1>3. /\ at[Reader] = read_idx /\ Full > 0
        /\ Gap(limit, write_idx) < Full /\ Bounds(ring, write_idx, Gap(limit, write_idx))
    BY <1>1 DEF Whole, Seen
  <1>4. up
    BY <1>1, BusyUp, Roles DEF Busy
  <1>5. words' = IF p.size <= MaxPacket THEN [k \in 1 .. p.size |-> ring[Step(read_idx, k - 1)]]
                 ELSE << >>
    BY <1>3 DEF ReadCopy
  <1>6. p.size \in Nat /\ \A k \in 0 .. p.size - 1 : ring[Step(read_idx, k)] = Word(p, k)
    BY <1>3, <1>4, HeadPacket
  <1> HIDE DEF p
  <1>7. [k \in 1 .. p.size |-> ring[Step(read_idx, k - 1)]] = [k \in 1 .. p.size |-> Word(p, k - 1)]
    <2>1. \A k \in 1 .. p.size : k - 1 \in 0 .. p.size - 1
      BY <1>6
    <2>2. \A k \in 1 .. p.size : ring[Step(read_idx, k - 1)] = Word(p, k - 1)
      BY <1>6, <2>1
    <2>3. QED
      BY <2>2
  <1>8. words' = IF p.size <= MaxPacket THEN [k \in 1 .. p.size |-> Word(p, k - 1)] ELSE << >>
    BY <1>5, <1>7
  <1>9. Seen'
    <2>1. Full' = Full /\ Reader' = Reader /\ write_idx' = write_idx /\ read_idx' = read_idx
      BY <1>1, SameUnread DEF indices
    <2>2. QED
      BY <1>1, <1>3, <1>8, <2>1 DEF Seen, p
  <1>10. QED
    BY <1>1, <1>2, <1>9, SameUnread DEF Kept, Whole

(* Behind the reader's new index the writers have no less space.           *)
LEMMA AdvanceKeepsWritten ==
  ASSUME TypeOK, Whole, UNCHANGED <<queue, write_idx, ring, packet>>,
         Full' <= Full, Full' \in Nat,
         NEW l, pc' = [pc EXCEPT ![Reader] = l], at' = [at EXCEPT ![Reader] = 0]
  PROVE  Written'
  <1> SUFFICES ASSUME NEW v \in Writers, pc'[v] \in {"copy", "publish"}
               PROVE  /\ at'[v] = write_idx /\ packet[v] \in Packets /\ packet[v].size < Size - Full'
                      /\ pc'[v] = "publish" =>
                           \A k \in 0 .. packet[v].size - 1 : ring[Step(write_idx, k)] = Word(packet[v], k)
    BY DEF Written, Writers
  <1>1. v # Reader /\ v \in Threads /\ Reader \in Threads
    BY Roles
  <1>2. pc'[v] = pc[v] /\ at'[v] = at[v]
    BY <1>1 DEF TypeOK
  <1>3. /\ at[v] = write_idx /\ packet[v] \in Packets /\ packet[v].size < Size - Full
        /\ pc[v] = "publish" =>
             \A k \in 0 .. packet[v].size - 1 : ring[Step(write_idx, k)] = Word(packet[v], k)
    BY <1>2 DEF Whole, Written
  <1>4. packet[v].size \in 1 .. Size /\ Full \in 0 .. Size
    BY <1>3, PacketSize, GapOpen DEF Full, TypeOK
  <1>5. packet[v].size < Size - Full'
    BY <1>3, <1>4, QueueAssumption
  <1>6. QED
    BY <1>2, <1>3, <1>5

(* The reader takes the first packet, or gives up what it had seen.        *)
LEMMA KeptReadAdvance ==
  ASSUME TypeOK, TypeOK', Exclusion, Whole, ReadAdvance(Reader)
  PROVE  Kept
  <1> DEFINE p == ring[read_idx].pkt
             F == Packeted(ring, write_idx)
             L == Gap(limit, write_idx)
  <1>1. /\ UNCHANGED <<queue, up, write_idx, ring, packet>> /\ pc[Reader] = "advance"
        /\ \E l \in {"check", "idle"} : pc' = [pc EXCEPT ![Reader] = l]
        /\ at' = [at EXCEPT ![Reader] = 0]
    BY DEF ReadAdvance, Goto
  <1>2. /\ at[Reader] = read_idx /\ Full > 0 /\ L < Full /\ Bounds(ring, write_idx, L)
        /\ words = IF p.size <= MaxPacket THEN [k \in 1 .. p.size |-> Word(p, k - 1)] ELSE << >>
    BY <1>1 DEF Whole, Seen
  <1>3. up
    BY <1>1, BusyUp, Roles DEF Busy
  <1>4. /\ p \in Packets /\ p.size \in 1 .. Full
        /\ Bounds(ring, write_idx, Full - p.size)
        /\ Unread = <<p>> \o F[Full - p.size]
    BY <1>2, <1>3, HeadPacket
  <1>5. read_idx \in Slots /\ write_idx \in Slots /\ limit \in Slots /\ ring \in [Slots -> Words]
    BY DEF TypeOK
  <1>6. Full \in 0 .. Size /\ Full < Size /\ L \in 0 .. Full
    <2>1. Full \in 0 .. Size /\ Full < Size /\ L \in 0 .. Size
      BY <1>5, GapOpen DEF Full
    <2>2. QED
      BY <1>2, <2>1
  <1>7. Laid(ring, write_idx, Full)
    BY <1>3 DEF Whole
  <1>8. \A n \in 0 .. Size : F[n] \in Seq(Pkts)
    BY <1>5, PacketedStep
  <1>9. Seen'
    BY <1>1, Roles DEF Seen, TypeOK, Reader
  <1>10. p.size \in 0 .. Size /\ Full - p.size \in 0 .. Full /\ Full - p.size \in 0 .. Size
    <2>1. \A z \in 1 .. Full : z \in 0 .. Size /\ Full - z \in 0 .. Full /\ Full - z \in 0 .. Size
      BY <1>6, QueueAssumption
    <2>2. QED
      BY <1>4, <2>1
  <1>11. <<p>> \in Seq(Pkts) /\ p \in Pkts
    BY <1>4 DEF Pkts
  <1> HIDE DEF p, F, L
  <1>12. CASE p.size <= MaxPacket
    <2>1. words = [k \in 1 .. p.size |-> Word(p, k - 1)] /\ p.size \in Nat
      BY <1>2, <1>4, <1>12
    <2>2. Len(words) = p.size
      BY <2>1
    <2>3. words # << >>
      BY <1>4, <2>2
    <2>4. read_idx' = Step(read_idx, p.size) /\ got' = words
      BY <1>2, <2>2, <2>3 DEF ReadAdvance
    <2>5. Full' = Full - p.size
      BY <1>1, <1>4, <1>5, <1>10, <2>4, GapSteps DEF Full
    <2>6. Laid(ring, write_idx, Full - p.size)
      BY <1>4, <1>5, <1>6, <1>7, <1>10, FirstPacket
    <2>7. Unread' = F[Full - p.size]
      BY <1>1, <1>3, <2>5 DEF Unread, Full, F
    <2>8. Fifo!Take
      <3> DEFINE rest == F[Full - p.size]
      <3>1. rest \in Seq(Pkts) /\ Unread = <<p>> \o rest
        BY <1>4, <1>8, <1>10
      <3> HIDE DEF rest
      <3>2. Unread # << >> /\ Head(Unread) = p /\ Tail(Unread) = rest
        BY <1>11, <3>1
      <3>3. got' = [k \in 1 .. p.size |-> [pkt |-> p, at |-> k - 1]]
        BY <2>1, <2>4 DEF Word
      <3>4. QED
        BY <1>12, <2>7, <3>2, <3>3 DEF Fifo!Take, Fifo!WordsOf, rest
    <2>9. Written'
      <3>1. Full' <= Full /\ Full' \in Nat
        BY <1>4, <1>6, <2>5
      <3>2. QED
        BY <1>1, <3>1, AdvanceKeepsWritten
    <2>10. QED
      BY <1>1, <1>9, <2>5, <2>6, <2>8, <2>9 DEF Kept, Whole, Fifo!FifoNext
  <1>13. CASE ~(p.size <= MaxPacket)
    <2>1. read_idx' = limit /\ got' = got
      BY <1>2, <1>13 DEF ReadAdvance
    <2>2. Full' = L
      BY <1>1, <2>1 DEF Full, L
    <2>3. Laid(ring, write_idx, L)
      BY <1>2, <1>5, <1>6, <1>7, FirstPacket
    <2>4. PICK a \in Seq(Pkts) : F[Full] = a \o F[L] /\ a # << >>
      BY <1>2, <1>5, <1>6, <1>7, LastPackets DEF F
    <2>5. Unread' = F[L] /\ Unread = F[Full]
      BY <1>1, <1>3, <2>2 DEF Unread, Full, F
    <2>6. F[L] \in Seq(Pkts) /\ F[Full] \in Seq(Pkts)
      BY <1>6, <1>8, QueueAssumption
    <2>7. Fifo!Skip
      <3> DEFINE rest == F[Full - p.size]
                 back == F[L]
      <3>1. rest \in Seq(Pkts) /\ Unread = <<p>> \o rest
        BY <1>4, <1>8, <1>10
      <3>2. back \in Seq(Pkts) /\ Unread = a \o back /\ Unread' = back
        BY <2>4, <2>5, <2>6
      <3> HIDE DEF rest, back
      <3>3. Unread # << >> /\ Head(Unread) = p
        BY <1>11, <3>1
      <3>4. Head(Unread).size > MaxPacket
        BY <1>4, <1>13, <3>3, QueueAssumption
      <3>5. Len(a) \in 1 .. Len(Unread) /\ Len(Unread) = Len(a) + Len(back)
        BY <2>4, <3>2, ConcatProperties, LenProperties, EmptySeq
      <3>6. SubSeq(Unread, Len(a) + 1, Len(Unread)) = back
        <4>1. Len(a) \in Nat /\ Len(back) \in Nat /\ Unread \in Seq(Pkts)
              /\ \A k \in 1 .. Len(a) + Len(back) :
                   Unread[k] = IF k <= Len(a) THEN a[k] ELSE back[k - Len(a)]
          BY <3>2, ConcatProperties, LenProperties
        <4> DEFINE z == SubSeq(Unread, Len(a) + 1, Len(Unread))
        <4>2. z \in Seq(Pkts) /\ Len(z) = Len(back)
              /\ \A k \in 1 .. Len(back) : z[k] = Unread[Len(a) + 1 + k - 1]
          BY <3>5, <4>1
        <4>3. \A k \in 1 .. Len(back) : z[k] = back[k]
          BY <4>1, <4>2
        <4> HIDE DEF z
        <4>4. z = back
          BY <3>2, <4>2, <4>3, SeqEqual
        <4>5. QED
          BY <4>4 DEF z
      <3>7. QED
        BY <2>1, <3>2, <3>3, <3>4, <3>5, <3>6 DEF Fifo!Skip
    <2>8. Written'
      <3>1. Full' <= Full /\ Full' \in Nat
        BY <1>6, <2>2
      <3>2. QED
        BY <1>1, <3>1, AdvanceKeepsWritten
    <2>9. QED
      BY <1>1, <1>9, <2>2, <2>3, <2>7, <2>8 DEF Kept, Whole, Fifo!FifoNext
  <1>14. QED
    BY <1>12, <1>13

(* Tearing the queue down drops what is in it; nobody works on it then.    *)
LEMMA KeptDeinit ==
  ASSUME TypeOK, Exclusion, Deinit
  PROVE  Kept
  <1>1. /\ up' = FALSE /\ lock = NoThread /\ UNCHANGED <<queue, got>>
        /\ pc' = [pc EXCEPT ![Firmware] = "idle"]
    BY DEF Deinit, Forget, Goto
  <1>2. \A t \in Threads : pc'[t] \notin Busy
    BY <1>1, QueueAssumption DEF Exclusion, TypeOK, Threads, Busy
  <1>3. Written' /\ Seen'
    BY <1>1, <1>2, Roles DEF Written, Seen, Writers, Reader, Busy
  <1>4. Fifo!Drop
    BY <1>1 DEF Fifo!Drop, Unread
  <1>5. QED
    BY <1>1, <1>3, <1>4 DEF Kept, Whole, Fifo!FifoNext

(* A new queue is empty.                                                   *)
LEMMA KeptQueuesInit ==
  ASSUME TypeOK, TypeOK', Exclusion, QueuesInit
  PROVE  Kept
  <1>1. /\ ~up /\ read_idx' = 0 /\ write_idx' = 0 /\ UNCHANGED <<queue, pc, got>>
        /\ ring' \in [Slots -> Words]
    BY DEF QueuesInit, locals, TypeOK
  <1>2. \A t \in Threads : pc[t] \notin Busy
    BY <1>1, BusyUp
  <1>3. Written' /\ Seen'
    BY <1>1, <1>2, Roles DEF Written, Seen, Writers, Reader, Busy
  <1>4. 0 \in Slots /\ 0 \in 0 .. Size
    BY QueueAssumption DEF Slots
  <1>5. Full' = 0
    BY <1>1, <1>4, GapSteps DEF Full
  <1>6. Laid(ring, write_idx, Full)'
    BY <1>5 DEF Laid, Bounds
  <1>7. Unread' = << >> /\ Unread = << >>
    <2>1. Packeted(ring', 0)[0] = << >>
      BY <1>1, <1>4, PacketedStep
    <2>2. QED
      BY <1>1, <1>5, <2>1 DEF Unread, Full
  <1>8. QED
    BY <1>1, <1>3, <1>6, <1>7 DEF Kept, Whole

(* Packets come out of the queue whole, once and in order, whatever the    *)
(* sizes of ring and packets and however many threads write, when they     *)
(* take core->lock and no packet fills the ring to its last word; what is  *)
(* lost is what lies behind a packet too large for the reader when that    *)
(* was found, or what is in a queue that is torn down.                     *)
THEOREM PacketsInOrder ==
  ASSUME Unlocked = {}, ~MayFill
  PROVE  Spec => ImplementsFifo
  <1>1. Init => Whole /\ Fifo!FifoInit
    <2> SUFFICES ASSUME Init PROVE Whole /\ Fifo!FifoInit
      OBVIOUS
    <2>1. 0 \in Slots /\ 0 \in 0 .. Size
      BY QueueAssumption DEF Slots
    <2>2. ring \in [Slots -> Words]
      <3>1. Word(Blank, 0) \in Words
        BY <2>1 DEF Word, Words
      <3>2. QED
        BY <3>1 DEF Init
    <2>3. Full = 0
      BY <2>1, GapSteps DEF Init, Full
    <2>4. Laid(ring, write_idx, Full)
      BY <2>3 DEF Laid, Bounds
    <2>5. Written /\ Seen
      BY Roles DEF Init, Written, Seen
    <2>6. Unread = << >>
      <3>1. Packeted(ring, 0)[0] = << >>
        BY <2>1, <2>2, PacketedStep
      <3>2. QED
        BY <2>3, <3>1 DEF Init, Unread, Full
    <2>7. got = << >>
      BY DEF Init
    <2>8. QED
      BY <2>4, <2>5, <2>6, <2>7 DEF Whole, Fifo!FifoInit
  <1>2. TypeOK /\ TypeOK' /\ Exclusion /\ Whole /\ [Next]_vars => Kept
    <2> SUFFICES ASSUME TypeOK, TypeOK', Exclusion, Whole, [Next]_vars
                 PROVE  Kept
      OBVIOUS
    <2>1. ASSUME NEW w \in Writers, WriteStart(w) \/ WriterStep(w)
          PROVE  Kept
      BY <2>1, KeptWriteStart, KeptWriteCopy, KeptWritePublish, KeptWriteRing DEF WriterStep
    <2>2. CASE ReaderStep(Reader)
      BY <2>2, KeptWake, KeptReadStart, KeptReadCopy, KeptReadAdvance DEF ReaderStep
    <2>3. CASE Deinit
      BY <2>3, KeptDeinit
    <2>4. CASE QueuesInit
      BY <2>4, KeptQueuesInit
    <2>5. CASE UNCHANGED vars
      <3>1. UNCHANGED <<queue, up, indices, ring, pc, at, packet, limit, words, got>>
        BY <2>5 DEF vars, locals
      <3>2. Written' /\ Seen'
        BY <3>1, SameUnread DEF Whole, Written, Seen, indices
      <3>3. QED
        BY <3>1, <3>2, SameUnread DEF Kept, Whole
    <2>6. QED
      BY <2>1, <2>2, <2>3, <2>4, <2>5 DEF Next
  <1>3. Kept => Whole' /\ [Fifo!FifoNext]_(Fifo!fifoVars)
    BY DEF Kept, Fifo!fifoVars
  <1>4. QED
    BY <1>1, <1>2, <1>3, TypeCorrect, LockAlways, PTL DEF Spec, ImplementsFifo, Fifo!FifoSpec
=============================================================================
