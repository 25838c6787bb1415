------------------------------ MODULE HfiQueue ------------------------------
(***************************************************************************)
(* One queue in the memory the driver shares with the firmware: the        *)
(* command queue (host threads write, the firmware reads) or the message   *)
(* queue (the firmware writes, the interrupt thread reads).  Both sides    *)
(* follow iris_hfi_queue_write() and iris_hfi_queue_read(), one step per   *)
(* access to what they share; indices count words.                         *)
(*                                                                         *)
(* A refused write (queue full, core not initialised) changes nothing and  *)
(* is no step.                                                             *)
(***************************************************************************)
EXTENDS Integers, Sequences, FiniteSets

CONSTANTS
  HostThreads,  \* threads that send commands
  Unlocked,     \* those that call cmd_write_locked() without core->lock
  IrqThread,    \* the threaded interrupt handler
  Firmware,     \* the firmware
  NoThread,     \* "nobody holds core->lock"
  Size,         \* words in the ring
  CmdSizes,     \* sizes of commands, in words
  MsgSizes,     \* sizes of messages, in words
  MaxPacket,    \* words in core->response_packet
  Ids,          \* packets are numbered modulo Ids
  MayFill       \* FALSE: no packet fills the ring to its last word

ASSUME QueueAssumption ==
  /\ IrqThread \notin HostThreads
  /\ Firmware \notin HostThreads \cup {IrqThread}
  /\ NoThread \notin HostThreads \cup {IrqThread, Firmware}
  /\ Unlocked \subseteq HostThreads
  /\ Size \in Nat \ {0}
  /\ CmdSizes \subseteq 1 .. Size
  /\ MsgSizes \subseteq 1 .. Size
  /\ MaxPacket \in Nat
  /\ Ids \in Nat \ {0}
  /\ MayFill \in BOOLEAN

VARIABLES
  queue,        \* queue_type: "cmd" or "msg", chosen once
  up,           \* the queues are allocated and the core is in INIT
  lock,         \* core->lock
  read_idx, write_idx, ring,
  bell,         \* the reader has been interrupted
  pc,           \* per thread: where it is in write or read
  at,           \* per thread: the index it read first
  packet,       \* per writer: the packet it writes
  limit,        \* the reader's copy of write_idx
  words,        \* what the reader has copied
  got,          \* the last packet the reader returned
  nextId        \* number of the next packet

indices == <<read_idx, write_idx>>
locals  == <<pc, at, packet, limit, words>>
vars == <<queue, up, lock, indices, ring, bell, locals, got, nextId>>

Threads == HostThreads \cup {IrqThread, Firmware}
Writers == IF queue = "cmd" THEN HostThreads ELSE {Firmware}
Reader  == IF queue = "cmd" THEN Firmware ELSE IrqThread
Sizes   == IF queue = "cmd" THEN CmdSizes ELSE MsgSizes

Slots   == 0 .. Size - 1
Packets == [id: 0 .. Ids - 1, size: CmdSizes \cup MsgSizes]
Blank   == [id |-> 0, size |-> 0]
Word(p, k) == [pkt |-> p, at |-> k]
Words   == [pkt: Packets \cup {Blank}, at: Slots]

-----------------------------------------------------------------------------
(* Mutant of Step: the index does not wrap.                                *)
StepOn(i, n) == i + n

(* Index arithmetic.  Equal indices mean an empty queue.                   *)
Step(i, n) == IF i + n < Size THEN i + n ELSE i + n - Size
Gap(i, j)  == IF j >= i THEN j - i ELSE Size - (i - j)

EmptySpace == IF write_idx < read_idx THEN read_idx - write_idx
                                      ELSE Size - (write_idx - read_idx)

(* Labels at which a thread works on the queue.                            *)
Busy == {"copy", "publish", "ring", "advance"}

Locks(t)   == t \notin Unlocked \cup {Firmware}
Acquire(t) == IF Locks(t) THEN lock = NoThread /\ lock' = t
                          ELSE UNCHANGED lock
Release(t) == lock' = IF Locks(t) THEN NoThread ELSE lock
Goto(t, label) == pc' = [pc EXCEPT ![t] = label]

(* The call returns and its local variables with it.                       *)
Forget(t) ==
  /\ Goto(t, "idle")
  /\ at' = [at EXCEPT ![t] = 0]
  /\ packet' = [packet EXCEPT ![t] = Blank]

Init ==
  /\ queue \in {"cmd", "msg"}
  /\ up = TRUE
  /\ lock = NoThread
  /\ read_idx = 0
  /\ write_idx = 0
  /\ ring = [i \in Slots |-> Word(Blank, 0)]
  /\ bell = FALSE
  /\ pc = [t \in Threads |-> "idle"]
  /\ at = [t \in Threads |-> 0]
  /\ packet = [t \in Threads |-> Blank]
  /\ limit = 0
  /\ words = <<>>
  /\ got = <<>>
  /\ nextId = 0

-----------------------------------------------------------------------------
(* iris_hfi_queue_cmd_write(): check the space, copy the packet, publish   *)
(* the index, ring the doorbell.                                           *)

(* Mutant of Fits: off by one.                                             *)
FitsTightly(n) == EmptySpace + 1 >= n

Fits(n) == EmptySpace >= n /\ (EmptySpace = n => MayFill)

WriteStart(w) ==
  /\ pc[w] = "idle"
  /\ up
  /\ Acquire(w)
  /\ \E n \in Sizes :
       /\ Fits(n)
       /\ packet' = [packet EXCEPT ![w] = [id |-> nextId, size |-> n]]
  /\ at' = [at EXCEPT ![w] = write_idx]
  /\ nextId' = (nextId + 1) % Ids
  /\ Goto(w, "copy")
  /\ UNCHANGED <<queue, up, indices, ring, bell, limit, words, got>>

WriteCopy(w) ==
  /\ pc[w] = "copy"
  /\ ring' = [i \in Slots |->
                IF Gap(at[w], i) < packet[w].size
                THEN Word(packet[w], Gap(at[w], i)) ELSE ring[i]]
  /\ Goto(w, "publish")
  /\ UNCHANGED <<queue, up, lock, indices, bell, at, packet, limit, words,
                 got, nextId>>

WritePublish(w) ==
  /\ pc[w] = "publish"
  /\ write_idx' = Step(at[w], packet[w].size)
  /\ Goto(w, "ring")
  /\ UNCHANGED <<queue, up, lock, read_idx, ring, bell, at, packet, limit,
                 words, got, nextId>>

(* Mutant of WriteRing: a reader that is at work is not interrupted.       *)
WriteRingIdle(w) ==
  /\ pc[w] = "ring"
  /\ bell' = (bell \/ pc[Reader] = "idle")
  /\ Release(w)
  /\ Forget(w)
  /\ UNCHANGED <<queue, up, indices, ring, limit, words, got, nextId>>

WriteRing(w) ==
  /\ pc[w] = "ring"
  /\ bell' = TRUE
  /\ Release(w)
  /\ Forget(w)
  /\ UNCHANGED <<queue, up, indices, ring, limit, words, got, nextId>>

WriterStep(w) == WriteCopy(w) \/ WritePublish(w) \/ WriteRing(w)

-----------------------------------------------------------------------------
(* The interrupted reader: iris_hfi_queue_msg_read() until it fails.       *)

Wake(r) ==
  /\ pc[r] = "idle"
  /\ bell
  /\ bell' = FALSE
  /\ Goto(r, "check")
  /\ UNCHANGED <<queue, up, lock, indices, ring, at, packet, limit, words,
                 got, nextId>>

ReadNothing(r) ==
  /\ pc[r] = "check"
  /\ Locks(r) => lock = NoThread
  /\ ~up \/ read_idx = write_idx
  /\ Goto(r, "idle")
  /\ UNCHANGED <<queue, up, lock, indices, ring, bell, at, packet, limit,
                 words, got, nextId>>

ReadStart(r) ==
  /\ pc[r] = "check"
  /\ Acquire(r)
  /\ up
  /\ read_idx # write_idx
  /\ at' = [at EXCEPT ![r] = read_idx]
  /\ limit' = write_idx
  /\ Goto(r, "copy")
  /\ UNCHANGED <<queue, up, indices, ring, bell, packet, words, got, nextId>>

(* The first word says how many to copy; a packet that does not fit in     *)
(* response_packet is not copied.                                          *)
ReadCopy(r) ==
  /\ pc[r] = "copy"
  /\ LET n == ring[at[r]].pkt.size
     IN  words' = IF n <= MaxPacket
                  THEN [k \in 1 .. n |-> ring[Step(at[r], k - 1)]] ELSE <<>>
  /\ Goto(r, "advance")
  /\ UNCHANGED <<queue, up, lock, indices, ring, bell, at, packet, limit,
                 got, nextId>>

(* Skip a packet that was copied and go on; give up everything seen        *)
(* otherwise (-EBADMSG ends the loop of the response handler).             *)
ReadAdvance(r) ==
  /\ pc[r] = "advance"
  /\ IF words # <<>>
     THEN /\ read_idx' = Step(at[r], Len(words))
          /\ got' = words
          /\ Goto(r, "check")
     ELSE /\ read_idx' = limit
          /\ Goto(r, "idle")
          /\ UNCHANGED got
  /\ at' = [at EXCEPT ![r] = 0]
  /\ limit' = 0
  /\ words' = <<>>
  /\ Release(r)
  /\ UNCHANGED <<queue, up, write_idx, ring, bell, packet, nextId>>

ReaderStep(r) ==
  Wake(r) \/ ReadNothing(r) \/ ReadStart(r) \/ ReadCopy(r) \/ ReadAdvance(r)

-----------------------------------------------------------------------------
(* iris_core_deinit() powers the firmware off and frees the queues;        *)
(* iris_core_init() allocates them again.  Both hold core->lock.           *)

(* Mutant of Deinit: core->lock is not taken.                              *)
DeinitUnlocked ==
  /\ up
  /\ up' = FALSE
  /\ bell' = FALSE
  /\ Forget(Firmware)
  /\ UNCHANGED <<queue, lock, indices, ring, limit, words, got, nextId>>

Deinit ==
  /\ up
  /\ lock = NoThread
  /\ up' = FALSE
  /\ bell' = FALSE
  /\ Forget(Firmware)
  /\ UNCHANGED <<queue, lock, indices, ring, limit, words, got, nextId>>

QueuesInit ==
  /\ ~up
  /\ lock = NoThread
  /\ up' = TRUE
  /\ read_idx' = 0
  /\ write_idx' = 0
  /\ ring' = [i \in Slots |-> Word(Blank, 0)]
  /\ UNCHANGED <<queue, lock, bell, locals, got, nextId>>

Next ==
  \/ \E w \in Writers : WriteStart(w) \/ WriterStep(w)
  \/ ReaderStep(Reader)
  \/ Deinit
  \/ QueuesInit

Spec == Init /\ [][Next]_vars

(* Threads that write go on, and an interrupted reader runs; core->lock is *)
(* a mutex, which hands itself over to whoever has waited long enough.     *)
FairSpec ==
  /\ Spec
  /\ \A t \in Threads : WF_vars(t \in Writers /\ WriterStep(t))
  /\ SF_vars(ReaderStep(Reader))

-----------------------------------------------------------------------------
(* Properties.                                                             *)

(* Every variable keeps its type; no index leaves the ring.                *)
TypeOK ==
  /\ queue \in {"cmd", "msg"}
  /\ up \in BOOLEAN
  /\ lock \in Threads \cup {NoThread}
  /\ read_idx \in Slots
  /\ write_idx \in Slots
  /\ ring \in [Slots -> Words]
  /\ bell \in BOOLEAN
  /\ pc \in [Threads -> Busy \cup {"idle", "check"}]
  /\ at \in [Threads -> Slots]
  /\ packet \in [Threads -> Packets \cup {Blank}]
  /\ limit \in Slots
  /\ words \in Seq(Words) /\ Len(words) <= Size
  /\ got \in Seq(Words)
  /\ nextId \in 0 .. Ids - 1

(* The packets in the last words before index i, read as                   *)
(* iris_hfi_queue_read() would.                                            *)
Back(i, n) == IF n <= i THEN i - n ELSE i - n + Size

Packeted(mem, i) ==
  LET last[n \in 0 .. Size] ==
        IF n = 0 THEN << >>
        ELSE LET p == mem[Back(i, n)].pkt
             IN  <<p>> \o IF p.size \in 1 .. n - 1 THEN last[n - p.size] ELSE << >>
  IN  last

Unread == IF up THEN Packeted(ring, write_idx)[Gap(read_idx, write_idx)] ELSE << >>

(* The queue is a FIFO: no packet is lost, duplicated, torn or reordered   *)
(* by the wrap-around, by concurrent writers or by the reader.             *)
Fifo == INSTANCE HfiFifo WITH fifo <- Unread
ImplementsFifo == Fifo!FifoSpec

(* Whatever the reader may look at consists of whole packets.              *)
WholePackets ==
  up => \A n \in 0 .. Gap(read_idx, write_idx) - 1 :
          LET w == ring[Step(read_idx, n)]
          IN  /\ w.at <= n
              /\ ring[Step(read_idx, n - w.at)] = Word(w.pkt, 0)
              /\ n - w.at + w.pkt.size <= Gap(read_idx, write_idx)

(* Nobody touches the queue once iris_hfi_queues_deinit() has freed it.    *)
MappedAccess ==
  \A t \in Threads : pc[t] \in Busy => up

(* A packet that was queued is read, or the queue is torn down: publishing *)
(* and ringing leave no packet behind that nobody looks for.               *)
QueuedIsRead ==
  \A n \in 0 .. Ids - 1 :
    (\E i \in 1 .. Len(Unread) : Unread[i].id = n)
      ~> ~(\E i \in 1 .. Len(Unread) : Unread[i].id = n)

=============================================================================
