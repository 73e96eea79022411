------------------------------ MODULE FastPath ------------------------------
(***************************************************************************)
(* The UPF's fast path (5g-simulator/src/upf_fastpath): DpdkPath, driven   *)
(* as benchmark.cpp drives it.  A producer takes a buffer from MbufPool,   *)
(* copies a packet into it and pushes its address into a lock-free ring    *)
(* (SPSCRing); one lcore pops bursts and applies the PDR and the FAR.      *)
(* Packets are numbered from 1 and buffers from 0.  Each atomic access to  *)
(* head_ and tail_, and each access to a slot, is a step of its own; the   *)
(* release stores and acquire loads make a slot's contents visible with    *)
(* the index that covers it, so steps interleave.                          *)
(***************************************************************************)
EXTENDS Naturals, Sequences, FiniteSets

CONSTANTS
  RingSize,     \* N of SPSCRing (4096)
  BurstSize,    \* BURST_SIZE (32)
  PoolSize,     \* buffers in MbufPool (65536)
  MaxPackets,   \* bound: packets the producer sends
  MaxRetries,   \* bound: pushes that find the ring full
  NoPdr,        \* packets no PDR matches
  FarDrop       \* packets whose FAR is missing or says DROP

Packets == 1 .. MaxPackets
Mbufs   == 0 .. PoolSize - 1
Slots   == 0 .. RingSize - 1

(* The pool is larger than everything that can be in flight at a time. *)
ASSUME FastPathAssumption ==
  /\ RingSize \in Nat \ {0, 1} /\ BurstSize \in Nat \ {0}
  /\ PoolSize \in Nat /\ PoolSize > RingSize + BurstSize
  /\ MaxPackets \in Nat \ {0} /\ MaxRetries \in Nat
  /\ NoPdr \subseteq Packets /\ FarDrop \subseteq Packets

VARIABLES
  next,            \* MbufPool next_
  mbuf,            \* the packet each buffer holds; 0 before the first
  head, tail,      \* SPSCRing head_, tail_
  buf,             \* SPSCRing buf_
  prod,            \* the producer's thread: rx_enqueue, with its locals
  lcore,           \* the lcore's thread: lcore_poll_loop, with its locals
  running,         \* DpdkPath running_
  main,            \* the main thread of the benchmark
  stats            \* PathStats

ringVars == <<head, tail, buf>>
vars == <<next, mbuf, ringVars, prod, lcore, running, main, stats>>
----------------------------------------------------------------------------
(* The threads' program counters and locals, and the counters. *)
ProducerThread ==
  [pc : {"alloc", "fill", "room", "slot", "publish", "done"},
   pkt : 1 .. MaxPackets + 1, m : Mbufs, retries : 0 .. MaxRetries]

LcoreThread ==
  [pc : {"check", "poll", "read", "release", "work", "exited"},
   draining : BOOLEAN, n : 0 .. BurstSize, out : Seq(Mbufs),
   burst : Seq(Mbufs), at : Nat]

Counters == [rx : Nat, fwd : Nat, drop : Nat, noPdr : Nat]

TypeOK ==
  /\ next \in 0 .. PoolSize
  /\ mbuf \in [Mbufs -> 0 .. MaxPackets]
  /\ head \in Slots /\ tail \in Slots
  /\ buf \in [Slots -> Mbufs]
  /\ prod \in ProducerThread
  /\ lcore \in LcoreThread /\ lcore.at <= Len(lcore.burst)
  /\ running \in BOOLEAN
  /\ main \in {"produce", "wait", "join", "done"}
  /\ stats \in Counters

(* start() has set running_ and launched the lcore. *)
Init ==
  /\ next = 0
  /\ mbuf = [m \in Mbufs |-> 0]
  /\ head = 0 /\ tail = 0
  /\ buf = [s \in Slots |-> 0]
  /\ prod = [pc |-> "alloc", pkt |-> 1, m |-> 0, retries |-> 0]
  /\ lcore = [pc |-> "check", draining |-> FALSE, n |-> 0, out |-> << >>,
              burst |-> << >>, at |-> 0]
  /\ running = TRUE
  /\ main = "produce"
  /\ stats = [rx |-> 0, fwd |-> 0, drop |-> 0, noPdr |-> 0]

(* Positions in the ring: x & (N - 1) for the x < 2N that occur, and the    *)
(* number of items between two of them.                                     *)
Wrap(x)       == IF x < RingSize THEN x ELSE x - RingSize
Between(t, h) == Wrap(h + RingSize - t)
----------------------------------------------------------------------------
(***************************************************************************)
(* The producer: rx_enqueue for every packet, again when it returned false *)
(***************************************************************************)
(* Mutant: buffer 0 is returned past the end, the counter not reset. *)
AllocNotReset ==
  /\ prod.pc = "alloc" /\ prod.pkt <= MaxPackets
  /\ prod' = [prod EXCEPT !.pc = "fill", !.m = IF next >= PoolSize THEN 0 ELSE next]
  /\ next' = next + 1
  /\ stats' = [stats EXCEPT !.rx = @ + 1]
  /\ UNCHANGED <<mbuf, ringVars, lcore, running, main>>

(* pkts_rx is counted and a buffer taken: next_ is incremented, or reset    *)
(* when it is past the end, where buffer 0 is the one returned.             *)
Alloc ==
  /\ prod.pc = "alloc" /\ prod.pkt <= MaxPackets
  /\ IF next >= PoolSize
       THEN next' = 0 /\ prod' = [prod EXCEPT !.pc = "fill", !.m = 0]
       ELSE next' = next + 1 /\ prod' = [prod EXCEPT !.pc = "fill", !.m = next]
  /\ stats' = [stats EXCEPT !.rx = @ + 1]
  /\ UNCHANGED <<mbuf, ringVars, lcore, running, main>>

(* m->pkt = pkt. *)
Fill ==
  /\ prod.pc = "fill"
  /\ mbuf' = [mbuf EXCEPT ![prod.m] = prod.pkt]
  /\ prod' = [prod EXCEPT !.pc = "room"]
  /\ UNCHANGED <<next, ringVars, lcore, running, main, stats>>

(* push: the next position must not be the consumer's. *)
Full == Wrap(head + 1) = tail

(* Mutant: the slot that tells full from empty is used as well. *)
FindRoomForOneMore ==
  /\ prod.pc = "room"
  /\ prod' = [prod EXCEPT !.pc = "slot"]
  /\ UNCHANGED <<next, mbuf, ringVars, lcore, running, main, stats>>

FindRoom ==
  /\ prod.pc = "room" /\ ~Full
  /\ prod' = [prod EXCEPT !.pc = "slot"]
  /\ UNCHANGED <<next, mbuf, ringVars, lcore, running, main, stats>>

(* push returned false: the buffer is freed, the packet counted as dropped, *)
(* and the producer tries again with another buffer.                        *)
RingFull ==
  /\ prod.pc = "room" /\ Full /\ prod.retries < MaxRetries
  /\ prod' = [prod EXCEPT !.pc = "alloc", !.retries = @ + 1]
  /\ stats' = [stats EXCEPT !.drop = @ + 1]
  /\ UNCHANGED <<next, mbuf, ringVars, lcore, running, main>>

WriteSlot ==
  /\ prod.pc = "slot"
  /\ buf' = [buf EXCEPT ![head] = prod.m]
  /\ prod' = [prod EXCEPT !.pc = "publish"]
  /\ UNCHANGED <<next, mbuf, head, tail, lcore, running, main, stats>>

(* head_.store: the consumer sees the slot. *)
PublishHead ==
  /\ prod.pc = "publish"
  /\ head' = Wrap(head + 1)
  /\ prod' = [prod EXCEPT !.pc = IF prod.pkt = MaxPackets THEN "done" ELSE "alloc",
                          !.pkt = @ + 1]
  /\ UNCHANGED <<next, mbuf, tail, buf, lcore, running, main, stats>>

Producer == Alloc \/ Fill \/ FindRoom \/ RingFull \/ WriteSlot \/ PublishHead
----------------------------------------------------------------------------
(***************************************************************************)
(* The lcore: poll until running_ is false, then drain the ring.           *)
(***************************************************************************)
CheckRunning ==
  /\ lcore.pc = "check"
  /\ lcore' = [lcore EXCEPT !.pc = "poll", !.draining = ~running]
  /\ UNCHANGED <<next, mbuf, ringVars, prod, running, main, stats>>

(* pop_burst: head_ is loaded once, and decides how many items are taken.   *)
PollSome ==
  /\ lcore.pc = "poll" /\ head # tail
  /\ LET avail == Between(tail, head)
     IN  lcore' = [lcore EXCEPT !.pc = "read", !.out = << >>,
                                !.n = IF avail < BurstSize THEN avail ELSE BurstSize]
  /\ UNCHANGED <<next, mbuf, ringVars, prod, running, main, stats>>

(* Mutant: the lcore ends when it sees running_ = false. *)
ExitUndrained ==
  /\ lcore.pc = "poll" /\ (head = tail \/ lcore.draining)
  /\ lcore' = [lcore EXCEPT !.pc = IF lcore.draining THEN "exited" ELSE "check"]
  /\ UNCHANGED <<next, mbuf, ringVars, prod, running, main, stats>>

(* Mutant: the loop that drains the ring goes on when it is empty. *)
DrainForever ==
  /\ lcore.pc = "poll" /\ head = tail
  /\ lcore' = [lcore EXCEPT !.pc = IF lcore.draining THEN "poll" ELSE "check"]
  /\ UNCHANGED <<next, mbuf, ringVars, prod, running, main, stats>>

(* pop_burst returns 0: poll again, or exit if the ring was being drained.  *)
PollNothing ==
  /\ lcore.pc = "poll" /\ head = tail
  /\ lcore' = [lcore EXCEPT !.pc = IF lcore.draining THEN "exited" ELSE "check"]
  /\ UNCHANGED <<next, mbuf, ringVars, prod, running, main, stats>>

ReadSlot ==
  /\ lcore.pc = "read"
  /\ LET out == Append(lcore.out, buf[Wrap(tail + Len(lcore.out))])
     IN  lcore' = [lcore EXCEPT !.out = out,
                                !.pc = IF Len(out) = lcore.n THEN "release" ELSE "read"]
  /\ UNCHANGED <<next, mbuf, ringVars, prod, running, main, stats>>

(* tail_.store: the producer may use the slots again. *)
ReleaseSlots ==
  /\ lcore.pc = "release"
  /\ tail' = Wrap(tail + lcore.n)
  /\ lcore' = [lcore EXCEPT !.pc = "work", !.burst = lcore.out, !.at = 0]
  /\ UNCHANGED <<next, mbuf, head, buf, prod, running, main, stats>>

(* What the rules say of the packet in a buffer.  If the producer is        *)
(* copying another packet into it meanwhile, what is read may be any mix.   *)
Verdict(m) ==
  IF prod.pc = "fill" /\ prod.m = m THEN {"forward", "noPdr", "drop"}
  ELSE IF mbuf[m] \in NoPdr THEN {"noPdr"}
  ELSE IF mbuf[m] \in FarDrop THEN {"drop"}
  ELSE {"forward"}

(* Mutant: a packet without a PDR is counted apart and not as dropped. *)
CountedApart(v) ==
  CASE v = "forward" -> [stats EXCEPT !.fwd = @ + 1]
    [] v = "noPdr"   -> [stats EXCEPT !.noPdr = @ + 1]
    [] v = "drop"    -> [stats EXCEPT !.drop = @ + 1]

Counted(v) ==
  CASE v = "forward" -> [stats EXCEPT !.fwd = @ + 1]
    [] v = "noPdr"   -> [stats EXCEPT !.noPdr = @ + 1, !.drop = @ + 1]
    [] v = "drop"    -> [stats EXCEPT !.drop = @ + 1]

(* process_burst, one packet: PDR, FAR, and the buffer is freed. *)
ProcessOne ==
  /\ lcore.pc = "work"
  /\ \E v \in Verdict(lcore.burst[lcore.at + 1]) : stats' = Counted(v)
  /\ lcore' = [lcore EXCEPT !.at = @ + 1,
       !.pc = IF lcore.at + 1 < Len(lcore.burst) THEN "work"
              ELSE IF lcore.draining THEN "poll" ELSE "check"]
  /\ UNCHANGED <<next, mbuf, ringVars, prod, running, main>>

Lcore ==
  \/ CheckRunning \/ PollSome \/ PollNothing \/ ReadSlot \/ ReleaseSlots \/ ProcessOne
----------------------------------------------------------------------------
(***************************************************************************)
(* The benchmark: join the producer, wait until as many packets as it sent *)
(* are counted forwarded or dropped or 60 s are over, stop().              *)
(***************************************************************************)
JoinProducer ==
  /\ main = "produce" /\ prod.pc = "done"
  /\ main' = "wait"
  /\ UNCHANGED <<next, mbuf, ringVars, prod, lcore, running, stats>>

Stop ==
  /\ main' = "join"
  /\ running' = FALSE
  /\ UNCHANGED <<next, mbuf, ringVars, prod, lcore, stats>>

AllCounted  == main = "wait" /\ stats.fwd + stats.drop >= MaxPackets /\ Stop
WaitTimeout == main = "wait" /\ Stop

JoinLcore ==
  /\ main = "join" /\ lcore.pc = "exited"
  /\ main' = "done"
  /\ UNCHANGED <<next, mbuf, ringVars, prod, lcore, running, stats>>

Main == JoinProducer \/ AllCounted \/ JoinLcore

Next == Producer \/ Lcore \/ Main \/ WaitTimeout

Spec == Init /\ [][Next]_vars

FairSpec == Spec /\ WF_vars(Producer) /\ WF_vars(Lcore) /\ WF_vars(Main)
----------------------------------------------------------------------------
(* The ring is a bounded FIFO although nothing is locked and its indices    *)
(* wrap around: what the producer publishes reaches the lcore's bursts in   *)
(* order, once each, and no slot is written before it has been read.        *)
Fifo == INSTANCE BoundedFifo
  WITH Item <- Mbufs, Capacity <- RingSize - 1, Burst <- BurstSize,
       q   <- [i \in 1 .. Between(tail, head) |-> buf[Wrap(tail + i - 1)]],
       got <- lcore.burst

ImplementsFifo == Fifo!Spec

(* The statistics lose no packet: every call of rx_enqueue is counted       *)
(* forwarded or dropped, or is with the producer, in the ring or in the     *)
(* burst being processed.                                                   *)
WithProducer == IF prod.pc \in {"fill", "room", "slot", "publish"} THEN 1 ELSE 0

Conserved ==
  stats.rx = stats.fwd + stats.drop + WithProducer
             + Between(tail, head) + (Len(lcore.burst) - lcore.at)

(* When stop() has returned nothing is left behind: dpdk_path.h:297, "Drain *)
(* whatever is left in the ring", also when the wait ended early.           *)
Drained == main = "done" => head = tail /\ stats.rx = stats.fwd + stats.drop

(* The benchmark ends: the producer finds room, the lcore empties the ring  *)
(* and stop() returns, without the help of the time-out.                    *)
BenchmarkEnds == <>(main = "done")

(* dpdk_path.h:183: rx_enqueue returns false if "mbuf pool is exhausted",    *)
(* and mbuf_pool.h:221, "Get a free mbuf from the pool": a buffer that is    *)
(* handed out is not one whose packet is still to be processed.              *)
InFlight ==
  {buf[Wrap(tail + i - 1)] : i \in 1 .. Between(tail, head)}
  \cup {lcore.burst[i] : i \in lcore.at + 1 .. Len(lcore.burst)}

AllocGivesFree == prod.pc = "fill" => prod.m \notin InFlight
=============================================================================
