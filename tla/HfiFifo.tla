------------------------------ MODULE HfiFifo ------------------------------
(***************************************************************************)
(* What a host-firmware-interface queue promises: packets come out whole,  *)
(* once, and in the order they were put in.  A packet larger than the      *)
(* reader's buffer takes with it what was queued behind it when it was     *)
(* found, and tearing the queue down drops what was not read.              *)
(***************************************************************************)
EXTENDS Naturals, Sequences

CONSTANTS
  Packets,    \* records with a size, in words
  MaxPacket   \* the largest packet the reader's buffer holds

VARIABLES
  fifo,       \* packets put in and not read
  got         \* words of the last packet read

fifoVars == <<fifo, got>>

WordsOf(p) == [k \in 1 .. p.size |-> [pkt |-> p, at |-> k - 1]]

FifoInit == fifo = <<>> /\ got = <<>>

Put(p) ==
  /\ fifo' = Append(fifo, p)
  /\ UNCHANGED got

Take ==
  /\ fifo # <<>>
  /\ Head(fifo).size <= MaxPacket
  /\ got' = WordsOf(Head(fifo))
  /\ fifo' = Tail(fifo)

Skip ==
  /\ fifo # <<>>
  /\ Head(fifo).size > MaxPacket
  /\ \E k \in 1 .. Len(fifo) : fifo' = SubSeq(fifo, k + 1, Len(fifo))
  /\ UNCHANGED got

Drop ==
  /\ fifo' = <<>>
  /\ UNCHANGED got

FifoNext == (\E p \in Packets : Put(p)) \/ Take \/ Skip \/ Drop

FifoSpec == FifoInit /\ [][FifoNext]_fifoVars

=============================================================================
