-------------------------- MODULE FastPath_proofs --------------------------
(***************************************************************************)
(* Proofs about FastPath, for every size of the ring, the burst and the    *)
(* pool and any number of packets and retries: the counters lose nothing,  *)
(* stop() leaves nothing behind, and the ring implements BoundedFifo.      *)
(***************************************************************************)
EXTENDS FastPath, SequenceTheorems, TLAPS

(* The producer writes only where there is room, and what it publishes is   *)
(* its own buffer.                                                          *)
ProducerInv ==
  /\ prod.pc \notin {"alloc", "done"} => prod.pkt <= MaxPackets
  /\ prod.pc \in {"slot", "publish"} => ~Full
  /\ prod.pc = "publish" => buf[head] = prod.m

(* The lcore reads only what has been published, and nobody has changed     *)
(* what it has read so far.                                                 *)
LcoreInv ==
  /\ lcore.pc \in {"read", "release"} =>
       /\ lcore.n >= 1 /\ lcore.n <= Between(tail, head)
       /\ Len(lcore.out) <= lcore.n
       /\ \A i \in 1 .. Len(lcore.out) : lcore.out[i] = buf[Wrap(tail + i - 1)]
  /\ lcore.pc = "read" => Len(lcore.out) < lcore.n
  /\ lcore.pc = "release" => Len(lcore.out) = lcore.n
  /\ lcore.pc = "work" => lcore.at < Len(lcore.burst)
  /\ lcore.pc # "work" => lcore.at = Len(lcore.burst)

(* The order in which the threads end. *)
StopInv ==
  /\ main # "produce" => prod.pc = "done"
  /\ ~running => main \in {"join", "done"}
  /\ lcore.draining => ~running
  /\ lcore.pc = "exited" => lcore.draining /\ head = tail
  /\ main = "done" => lcore.pc = "exited"

Inv == TypeOK /\ ProducerInv /\ LcoreInv /\ Conserved /\ StopInv
----------------------------------------------------------------------------
(* What lies between two indices: at most N - 1 items, none when they are   *)
(* equal.                                                                   *)
LEMMA BetweenType ==
  ASSUME NEW h \in Slots, NEW t \in Slots
  PROVE  /\ Between(t, h) \in Nat /\ Between(t, h) <= RingSize - 1
         /\ Between(t, h) = 0 <=> h = t
BY FastPathAssumption DEF Between, Wrap, Slots

(* The ring is full when N - 1 items lie between the indices. *)
LEMMA FullFacts ==
  ASSUME NEW h \in Slots, NEW t \in Slots
  PROVE  /\ Wrap(h + 1) = t <=> Between(t, h) = RingSize - 1
         /\ Wrap(t + Between(t, h)) = h
BY FastPathAssumption DEF Between, Wrap, Slots

(* The same of the ring's own indices. *)
LEMMA RingFacts ==
  ASSUME TypeOK
  PROVE  /\ head \in Slots /\ tail \in Slots /\ head \in Nat /\ tail \in Nat
         /\ Between(tail, head) \in Nat /\ Between(tail, head) <= RingSize - 1
         /\ Between(tail, head) = 0 <=> head = tail
         /\ Full <=> Between(tail, head) = RingSize - 1
         /\ RingSize \in Nat
<1>1. head \in Slots /\ tail \in Slots
  BY DEF TypeOK
<1>2. head \in Nat /\ tail \in Nat /\ RingSize \in Nat
  BY <1>1, FastPathAssumption DEF Slots
<1> QED
  BY <1>1, <1>2, BetweenType, FullFacts DEF Full

(* push advances the head by one item. *)
LEMMA BetweenPush ==
  ASSUME NEW h \in Slots, NEW t \in Slots, Wrap(h + 1) # t
  PROVE  Wrap(h + 1) \in Slots /\ Between(t, Wrap(h + 1)) = Between(t, h) + 1
BY FastPathAssumption DEF Between, Wrap, Slots

(* pop_burst advances the tail by n items, and renumbers those left. *)
LEMMA BetweenPop ==
  ASSUME NEW h \in Slots, NEW t \in Slots, NEW n \in 0 .. Between(t, h)
  PROVE  /\ Wrap(t + n) \in Slots
         /\ Between(Wrap(t + n), h) = Between(t, h) - n
         /\ \A i \in 1 .. Between(t, h) - n :
              Wrap(Wrap(t + n) + i - 1) = Wrap(t + (n + i) - 1)
BY FastPathAssumption DEF Between, Wrap, Slots

(* The slots that hold items are slots, and the head's is not among them. *)
LEMMA HeadIsFree ==
  ASSUME NEW h \in Slots, NEW t \in Slots, NEW i \in 1 .. Between(t, h)
  PROVE  Wrap(t + i - 1) \in Slots /\ Wrap(t + i - 1) # h
BY FastPathAssumption DEF Between, Wrap, Slots
----------------------------------------------------------------------------
(* What alloc() can return. *)
LEMMA MbufsType ==
  /\ 0 \in Mbufs /\ 0 \in Slots /\ PoolSize \in Nat
  /\ \A k \in Nat : k < PoolSize => k \in Mbufs
BY FastPathAssumption DEF Mbufs, Slots

(* The fields of the threads' records and of the counters. *)
LEMMA ProducerFields ==
  ASSUME NEW p \in ProducerThread
  PROVE  /\ p.pkt \in Nat /\ p.pkt >= 1 /\ p.pkt <= MaxPackets + 1
         /\ p.m \in Mbufs
         /\ p.retries \in Nat /\ p.retries <= MaxRetries
         /\ MaxPackets \in Nat /\ MaxRetries \in Nat
BY FastPathAssumption DEF ProducerThread

LEMMA LcoreFields ==
  ASSUME NEW l \in LcoreThread
  PROVE  /\ l.draining \in BOOLEAN
         /\ l.n \in Nat /\ l.n <= BurstSize
         /\ l.out \in Seq(Mbufs) /\ Len(l.out) \in Nat
         /\ l.burst \in Seq(Mbufs) /\ Len(l.burst) \in Nat
         /\ l.at \in Nat
<1>1. /\ l.draining \in BOOLEAN /\ l.n \in 0 .. BurstSize
      /\ l.out \in Seq(Mbufs) /\ l.burst \in Seq(Mbufs) /\ l.at \in Nat
  BY DEF LcoreThread
<1> QED
  BY <1>1, LenProperties, FastPathAssumption

LEMMA CounterFields ==
  ASSUME NEW s \in Counters
  PROVE  s.rx \in Nat /\ s.fwd \in Nat /\ s.drop \in Nat /\ s.noPdr \in Nat
BY DEF Counters

LEMMA InitInv == Init => Inv
<1> SUFFICES ASSUME Init PROVE Inv
  OBVIOUS
<1>1. TypeOK
  <2>1. prod \in ProducerThread
    BY FastPathAssumption, MbufsType DEF Init, ProducerThread
  <2>2. lcore \in LcoreThread /\ lcore.at <= Len(lcore.burst)
    BY FastPathAssumption DEF Init, LcoreThread
  <2>3. stats \in Counters
    BY DEF Init, Counters
  <2> QED
    BY FastPathAssumption, MbufsType, <2>1, <2>2, <2>3 DEF Init, TypeOK
<1>2. ProducerInv /\ LcoreInv /\ StopInv
  BY DEF Init, ProducerInv, LcoreInv, StopInv
<1>3. Between(tail, head) = 0
  BY MbufsType, BetweenType DEF Init
<1>4. Conserved
  BY <1>3 DEF Init, Conserved, WithProducer
<1> QED
  BY <1>1, <1>2, <1>4 DEF Inv

(* The producer's steps. *)
LEMMA ProducerStep == Inv /\ Producer => Inv'
<1> SUFFICES ASSUME Inv, Producer PROVE Inv'
  OBVIOUS
<1>0. TypeOK /\ ProducerInv /\ LcoreInv /\ Conserved /\ StopInv
  BY DEF Inv
<1>a. prod \in ProducerThread /\ lcore \in LcoreThread /\ stats \in Counters
  BY <1>0 DEF TypeOK
<1>b. /\ stats.rx \in Nat /\ stats.fwd \in Nat /\ stats.drop \in Nat
      /\ lcore.at \in Nat /\ Len(lcore.burst) \in Nat
  BY <1>a, LcoreFields, CounterFields
<1>c. Between(tail, head) \in Nat
  BY <1>0, RingFacts
<1>1. CASE Alloc
  <2>1. /\ next' \in 0 .. PoolSize
        /\ \E m \in Mbufs : prod' = [prod EXCEPT !.pc = "fill", !.m = m]
    <3>1. next \in Nat /\ next <= PoolSize /\ PoolSize \in Nat
      BY <1>0, FastPathAssumption DEF TypeOK
    <3>2. CASE next >= PoolSize
      <4>1. next' = 0 /\ prod' = [prod EXCEPT !.pc = "fill", !.m = 0]
        BY <1>1, <3>2 DEF Alloc
      <4>2. \E m \in Mbufs : prod' = [prod EXCEPT !.pc = "fill", !.m = m]
        BY <4>1, MbufsType, Zenon
      <4>3. 0 \in 0 .. PoolSize
        BY <3>1
      <4> QED
        BY <4>1, <4>2, <4>3
    <3>3. CASE ~(next >= PoolSize)
      <4>1. next \in Mbufs
        BY <3>1, <3>3, MbufsType
      <4>2. next' = next + 1 /\ prod' = [prod EXCEPT !.pc = "fill", !.m = next]
        BY <1>1, <3>3 DEF Alloc
      <4>3. \E m \in Mbufs : prod' = [prod EXCEPT !.pc = "fill", !.m = m]
        BY <4>1, <4>2, Zenon
      <4>4. next + 1 \in 0 .. PoolSize
        BY <3>1, <3>3
      <4> QED
        BY <4>2, <4>3, <4>4
    <3> QED
      BY <3>2, <3>3
  <2>2. PICK m \in Mbufs : prod' = [prod EXCEPT !.pc = "fill", !.m = m]
    BY <2>1
  <2>3. prod' \in ProducerThread /\ prod'.pc = "fill" /\ prod'.pkt = prod.pkt
    BY <1>a, <2>2 DEF ProducerThread
  <2>4. /\ stats' \in Counters /\ stats'.rx = stats.rx + 1
        /\ stats'.fwd = stats.fwd /\ stats'.drop = stats.drop
    BY <1>1, <1>a DEF Alloc, Counters
  <2>5. /\ prod.pc = "alloc" /\ prod.pkt <= MaxPackets
        /\ UNCHANGED <<mbuf, head, tail, buf, lcore, running, main>>
    BY <1>1 DEF Alloc, ringVars
  <2>6. TypeOK'
    BY <1>0, <2>1, <2>3, <2>4, <2>5 DEF TypeOK
  <2>7. ProducerInv' /\ LcoreInv' /\ StopInv'
    BY <1>0, <2>3, <2>5 DEF ProducerInv, LcoreInv, StopInv, Full
  <2>8. Conserved'
    <3>1. WithProducer = 0 /\ WithProducer' = 1
      BY <2>3, <2>5 DEF WithProducer
    <3> QED
      BY <1>0, <1>b, <1>c, <2>4, <2>5, <3>1 DEF Conserved
  <2> QED
    BY <2>6, <2>7, <2>8 DEF Inv
<1>2. CASE Fill
  <2>1. /\ prod' \in ProducerThread /\ prod'.pc = "room" /\ prod.pc = "fill"
        /\ prod'.pkt = prod.pkt /\ prod'.m = prod.m
        /\ UNCHANGED <<next, head, tail, buf, lcore, running, main, stats>>
    BY <1>2, <1>a DEF Fill, ProducerThread, ringVars
  <2>2. prod.pkt \in 0 .. MaxPackets /\ prod.m \in Mbufs
    BY <1>0, <1>a, <2>1, ProducerFields DEF ProducerInv
  <2>3. mbuf' \in [Mbufs -> 0 .. MaxPackets]
    BY <1>0, <1>2, <2>2 DEF Fill, TypeOK
  <2>4. TypeOK'
    BY <1>0, <2>1, <2>3 DEF TypeOK
  <2>5. ProducerInv' /\ LcoreInv' /\ StopInv'
    BY <1>0, <2>1 DEF ProducerInv, LcoreInv, StopInv, Full
  <2>6. Conserved'
    BY <1>0, <2>1 DEF Conserved, WithProducer
  <2> QED
    BY <2>4, <2>5, <2>6 DEF Inv
<1>3. CASE FindRoom
  <2>1. /\ prod' \in ProducerThread /\ prod'.pc = "slot" /\ prod.pc = "room"
        /\ prod'.pkt = prod.pkt /\ prod'.m = prod.m /\ ~Full
        /\ UNCHANGED <<next, mbuf, head, tail, buf, lcore, running, main, stats>>
    BY <1>3, <1>a DEF FindRoom, ProducerThread, ringVars
  <2>2. TypeOK'
    BY <1>0, <2>1 DEF TypeOK
  <2>3. ProducerInv' /\ LcoreInv' /\ StopInv'
    BY <1>0, <2>1 DEF ProducerInv, LcoreInv, StopInv, Full
  <2>4. Conserved'
    BY <1>0, <2>1 DEF Conserved, WithProducer
  <2> QED
    BY <2>2, <2>3, <2>4 DEF Inv
<1>4. CASE RingFull
  <2>1. prod.retries + 1 \in 0 .. MaxRetries
    BY <1>4, <1>a, ProducerFields DEF RingFull
  <2>2. /\ prod' \in ProducerThread /\ prod'.pc = "alloc" /\ prod.pc = "room"
        /\ prod'.pkt = prod.pkt
    BY <1>4, <1>a, <2>1 DEF RingFull, ProducerThread
  <2>3. /\ stats' \in Counters /\ stats'.rx = stats.rx
        /\ stats'.fwd = stats.fwd /\ stats'.drop = stats.drop + 1
    BY <1>4, <1>a DEF RingFull, Counters
  <2>4. UNCHANGED <<next, mbuf, head, tail, buf, lcore, running, main>>
    BY <1>4 DEF RingFull, ringVars
  <2>5. TypeOK'
    BY <1>0, <2>2, <2>3, <2>4 DEF TypeOK
  <2>6. ProducerInv' /\ LcoreInv' /\ StopInv'
    BY <1>0, <2>2, <2>4 DEF ProducerInv, LcoreInv, StopInv, Full
  <2>7. Conserved'
    <3>1. WithProducer = 1 /\ WithProducer' = 0
      BY <2>2 DEF WithProducer
    <3> QED
      BY <1>0, <1>b, <1>c, <2>3, <2>4, <3>1 DEF Conserved
  <2> QED
    BY <2>5, <2>6, <2>7 DEF Inv
<1>5. CASE WriteSlot
  <2>1. /\ prod' \in ProducerThread /\ prod'.pc = "publish" /\ prod.pc = "slot"
        /\ prod'.pkt = prod.pkt /\ prod'.m = prod.m /\ prod.m \in Mbufs
        /\ UNCHANGED <<next, mbuf, head, tail, lcore, running, main, stats>>
    BY <1>5, <1>a DEF WriteSlot, ProducerThread
  <2>2. /\ buf' \in [Slots -> Mbufs] /\ buf'[head] = prod.m
        /\ \A s \in Slots : s # head => buf'[s] = buf[s]
    BY <1>0, <1>5, <2>1 DEF WriteSlot, TypeOK
  <2>3. TypeOK'
    BY <1>0, <2>1, <2>2 DEF TypeOK
  <2>4. ProducerInv' /\ StopInv'
    BY <1>0, <2>1, <2>2 DEF ProducerInv, StopInv, Full
  <2>5. \A i \in 1 .. Between(tail, head) :
          buf'[Wrap(tail + i - 1)] = buf[Wrap(tail + i - 1)]
    BY <1>0, <2>2, HeadIsFree DEF TypeOK
  <2>6. LcoreInv'
    <3> SUFFICES ASSUME lcore.pc \in {"read", "release"},
                        NEW i \in 1 .. Len(lcore.out)
                 PROVE  lcore.out[i] = buf'[Wrap(tail + i - 1)]
      BY <1>0, <2>1 DEF LcoreInv
    <3>1. i \in 1 .. Between(tail, head)
      BY <1>0, <1>a, <1>c, LcoreFields DEF LcoreInv
    <3> QED
      BY <1>0, <2>5, <3>1 DEF LcoreInv
  <2>7. Conserved'
    BY <1>0, <2>1 DEF Conserved, WithProducer
  <2> QED
    BY <2>3, <2>4, <2>6, <2>7 DEF Inv
<1>6. CASE PublishHead
  <2>1. /\ head' \in Slots
        /\ Between(tail, head') = Between(tail, head) + 1
    BY <1>0, <1>6, RingFacts, BetweenPush DEF PublishHead, ProducerInv, Full
  <2>2. /\ prod.pc = "publish" /\ prod.pkt + 1 \in 1 .. MaxPackets + 1
        /\ prod.pkt # MaxPackets => prod.pkt + 1 <= MaxPackets
    BY <1>0, <1>6, <1>a, ProducerFields DEF PublishHead, ProducerInv
  <2>3. prod' \in ProducerThread /\ prod'.pc \in {"alloc", "done"}
    BY <1>6, <1>a, <2>2 DEF PublishHead, ProducerThread
  <2>4. UNCHANGED <<next, mbuf, tail, buf, lcore, running, main, stats>>
    BY <1>6 DEF PublishHead
  <2>5. TypeOK'
    BY <1>0, <2>1, <2>3, <2>4 DEF TypeOK
  <2>6. ProducerInv' /\ StopInv'
    BY <1>0, <2>2, <2>3, <2>4 DEF ProducerInv, StopInv
  <2>7. LcoreInv'
    <3>1. lcore.n \in Nat
      BY <1>a, LcoreFields
    <3>2. lcore.n <= Between(tail, head) => lcore.n <= Between(tail, head')
      BY <1>c, <2>1, <3>1
    <3> QED
      BY <1>0, <2>4, <3>2 DEF LcoreInv
  <2>8. Conserved'
    <3>1. WithProducer = 1 /\ WithProducer' = 0
      BY <2>2, <2>3 DEF WithProducer
    <3>2. Between(tail', head') = Between(tail, head) + 1
      BY <2>1, <2>4
    <3>3. stats.rx = stats.fwd + stats.drop + WithProducer + Between(tail, head)
                     + (Len(lcore.burst) - lcore.at)
      BY <1>0 DEF Conserved
    <3>4. stats.rx = stats.fwd + stats.drop + WithProducer' + Between(tail', head')
                     + (Len(lcore.burst) - lcore.at)
      BY <1>b, <1>c, <3>1, <3>2, <3>3
    <3> QED
      BY <2>4, <3>4 DEF Conserved
  <2> QED
    BY <2>5, <2>6, <2>7, <2>8 DEF Inv
<1> QED
  BY <1>1, <1>2, <1>3, <1>4, <1>5, <1>6 DEF Producer

(* The lcore's steps. *)
LEMMA LcoreStep == Inv /\ Lcore => Inv'
<1> SUFFICES ASSUME Inv, Lcore PROVE Inv'
  OBVIOUS
<1>0. TypeOK /\ ProducerInv /\ LcoreInv /\ Conserved /\ StopInv
  BY DEF Inv
<1>a. prod \in ProducerThread /\ lcore \in LcoreThread /\ stats \in Counters
  BY <1>0 DEF TypeOK
<1>b. /\ stats.rx \in Nat /\ stats.fwd \in Nat /\ stats.drop \in Nat
      /\ lcore.at \in Nat /\ Len(lcore.burst) \in Nat
      /\ lcore.n \in Nat /\ Len(lcore.out) \in Nat
  BY <1>a, LcoreFields, CounterFields
<1>c. Between(tail, head) \in Nat /\ (Between(tail, head) = 0 <=> head = tail)
  BY <1>0, RingFacts
<1>1. CASE CheckRunning
  <2>1. /\ lcore' \in LcoreThread /\ lcore'.pc = "poll" /\ lcore.pc = "check"
        /\ lcore'.draining = ~running
        /\ lcore'.burst = lcore.burst /\ lcore'.at = lcore.at
    BY <1>0, <1>1, <1>a DEF CheckRunning, LcoreThread, TypeOK
  <2>2. UNCHANGED <<next, mbuf, head, tail, buf, prod, running, main, stats>>
    BY <1>1 DEF CheckRunning, ringVars
  <2>3. TypeOK'
    BY <1>0, <2>1, <2>2 DEF TypeOK
  <2>4. ProducerInv' /\ LcoreInv' /\ StopInv'
    BY <1>0, <2>1, <2>2 DEF ProducerInv, LcoreInv, StopInv, Full
  <2>5. Conserved'
    BY <1>0, <2>1, <2>2 DEF Conserved, WithProducer
  <2> QED
    BY <2>3, <2>4, <2>5 DEF Inv
<1>2. CASE PollSome
  <2> DEFINE k == IF Between(tail, head) < BurstSize THEN Between(tail, head)
                  ELSE BurstSize
  <2>1. k \in 0 .. BurstSize /\ k >= 1 /\ k <= Between(tail, head) /\ k \in Nat
    BY <1>2, <1>c, FastPathAssumption DEF PollSome
  <2>2. lcore' = [lcore EXCEPT !.pc = "read", !.out = << >>, !.n = k]
    BY <1>2 DEF PollSome
  <2> HIDE DEF k
  <2>a. << >> \in Seq(Mbufs)
    BY EmptySeq
  <2>3. /\ lcore' \in LcoreThread /\ lcore'.pc = "read" /\ lcore.pc = "poll"
        /\ lcore'.out = << >> /\ lcore'.n = k
        /\ lcore'.draining = lcore.draining
        /\ lcore'.burst = lcore.burst /\ lcore'.at = lcore.at
    <3>1. lcore' \in LcoreThread
      BY <1>a, <2>1, <2>2, <2>a DEF LcoreThread
    <3>2. /\ lcore'.pc = "read" /\ lcore'.out = << >> /\ lcore'.n = k
          /\ lcore'.draining = lcore.draining
          /\ lcore'.burst = lcore.burst /\ lcore'.at = lcore.at
      BY <1>a, <2>2 DEF LcoreThread
    <3> QED
      BY <1>2, <3>1, <3>2 DEF PollSome
  <2>4. UNCHANGED <<next, mbuf, head, tail, buf, prod, running, main, stats>>
    BY <1>2 DEF PollSome, ringVars
  <2>5. TypeOK'
    BY <1>0, <2>3, <2>4 DEF TypeOK
  <2>6. ProducerInv' /\ StopInv'
    BY <1>0, <2>3, <2>4 DEF ProducerInv, StopInv, Full
  <2>7. LcoreInv'
    BY <1>0, <2>1, <2>3, <2>4 DEF LcoreInv
  <2>8. Conserved'
    BY <1>0, <2>3, <2>4 DEF Conserved, WithProducer
  <2> QED
    BY <2>5, <2>6, <2>7, <2>8 DEF Inv
<1>3. CASE PollNothing
  <2>1. /\ lcore' \in LcoreThread /\ lcore.pc = "poll" /\ head = tail
        /\ lcore'.pc = IF lcore.draining THEN "exited" ELSE "check"
        /\ lcore'.draining = lcore.draining
        /\ lcore'.burst = lcore.burst /\ lcore'.at = lcore.at
    BY <1>3, <1>a DEF PollNothing, LcoreThread
  <2>2. UNCHANGED <<next, mbuf, head, tail, buf, prod, running, main, stats>>
    BY <1>3 DEF PollNothing, ringVars
  <2>3. TypeOK'
    BY <1>0, <2>1, <2>2 DEF TypeOK
  <2>4. ProducerInv' /\ LcoreInv' /\ StopInv'
    BY <1>0, <2>1, <2>2 DEF ProducerInv, LcoreInv, StopInv, Full
  <2>5. Conserved'
    BY <1>0, <2>1, <2>2 DEF Conserved, WithProducer
  <2> QED
    BY <2>3, <2>4, <2>5 DEF Inv
<1>4. CASE ReadSlot
  <2> DEFINE s == Wrap(tail + Len(lcore.out))
  <2> DEFINE out == Append(lcore.out, buf[s])
  <2>1. /\ lcore.pc = "read" /\ Len(lcore.out) < lcore.n
        /\ lcore.n <= Between(tail, head)
    BY <1>0, <1>4 DEF ReadSlot, LcoreInv
  <2>2. s \in Slots
    <3>1. Len(lcore.out) + 1 \in 1 .. Between(tail, head)
      BY <1>b, <1>c, <2>1
    <3>2. Wrap(tail + (Len(lcore.out) + 1) - 1) \in Slots
      BY <1>0, <3>1, RingFacts, HeadIsFree
    <3>3. tail + (Len(lcore.out) + 1) - 1 = tail + Len(lcore.out)
      BY <1>0, <1>b, RingFacts
    <3> QED
      BY <3>2, <3>3
  <2>3. buf[s] \in Mbufs /\ lcore.out \in Seq(Mbufs)
    BY <1>0, <1>a, <2>2, LcoreFields DEF TypeOK
  <2>4. /\ out \in Seq(Mbufs) /\ Len(out) = Len(lcore.out) + 1
        /\ out[Len(lcore.out) + 1] = buf[s]
        /\ \A i \in 1 .. Len(lcore.out) : out[i] = lcore.out[i]
    BY <2>3, AppendProperties
  <2>5. lcore' = [lcore EXCEPT !.out = out,
                     !.pc = IF Len(out) = lcore.n THEN "release" ELSE "read"]
    BY <1>4 DEF ReadSlot
  <2> HIDE DEF out
  <2>6. /\ lcore' \in LcoreThread /\ lcore'.out = out /\ lcore'.n = lcore.n
        /\ lcore'.pc = IF Len(out) = lcore.n THEN "release" ELSE "read"
        /\ lcore'.draining = lcore.draining
        /\ lcore'.burst = lcore.burst /\ lcore'.at = lcore.at
    BY <1>a, <2>4, <2>5 DEF LcoreThread
  <2>7. UNCHANGED <<next, mbuf, head, tail, buf, prod, running, main, stats>>
    BY <1>4 DEF ReadSlot, ringVars
  <2>8. TypeOK'
    BY <1>0, <2>6, <2>7 DEF TypeOK
  <2>9. ProducerInv' /\ StopInv'
    BY <1>0, <2>1, <2>6, <2>7 DEF ProducerInv, StopInv, Full
  <2>10. \A i \in 1 .. Len(out) : out[i] = buf[Wrap(tail + i - 1)]
    <3> SUFFICES ASSUME NEW i \in 1 .. Len(out)
                 PROVE  out[i] = buf[Wrap(tail + i - 1)]
      OBVIOUS
    <3>1. CASE i \in 1 .. Len(lcore.out)
      BY <1>0, <2>1, <2>4, <3>1 DEF LcoreInv
    <3>2. CASE i = Len(lcore.out) + 1
      <4>1. tail + i - 1 = tail + Len(lcore.out)
        BY <1>0, <1>b, <3>2, RingFacts
      <4> QED
        BY <2>4, <3>2, <4>1
    <3> QED
      BY <1>b, <2>4, <3>1, <3>2
  <2>11. LcoreInv'
    <3>1. Len(out) <= lcore.n /\ lcore.n >= 1
          /\ (Len(out) # lcore.n => Len(out) < lcore.n)
      BY <1>b, <2>1, <2>4
    <3> QED
      BY <1>0, <2>1, <2>6, <2>7, <2>10, <3>1 DEF LcoreInv
  <2>12. Conserved'
    BY <1>0, <2>6, <2>7 DEF Conserved, WithProducer
  <2> QED
    BY <2>8, <2>9, <2>11, <2>12 DEF Inv
<1>5. CASE ReleaseSlots
  <2>1. /\ lcore.pc = "release" /\ lcore.n >= 1
        /\ lcore.n <= Between(tail, head)
        /\ Len(lcore.out) = lcore.n /\ lcore.at = Len(lcore.burst)
    BY <1>0, <1>5 DEF ReleaseSlots, LcoreInv
  <2>2. /\ tail' \in Slots
        /\ Between(tail', head) = Between(tail, head) - lcore.n
    <3>1. lcore.n \in 0 .. Between(tail, head)
      BY <1>b, <1>c, <2>1
    <3> QED
      BY <1>0, <1>5, <3>1, RingFacts, BetweenPop DEF ReleaseSlots
  <2>3. /\ lcore' \in LcoreThread /\ lcore'.pc = "work"
        /\ lcore'.draining = lcore.draining
        /\ lcore'.burst = lcore.out /\ lcore'.at = 0
    BY <1>5, <1>a DEF ReleaseSlots, LcoreThread
  <2>4. UNCHANGED <<next, mbuf, head, buf, prod, running, main, stats>>
    BY <1>5 DEF ReleaseSlots
  <2>5. TypeOK'
    BY <1>0, <1>b, <2>2, <2>3, <2>4 DEF TypeOK
  <2>6. ProducerInv'
    <3>1. ~Full => Wrap(head + 1) # tail'
      BY <1>0, <1>b, <1>c, <2>1, <2>2, RingFacts, FullFacts
    <3> QED
      BY <1>0, <2>4, <3>1 DEF ProducerInv, Full
  <2>7. LcoreInv'
    BY <1>b, <2>1, <2>3 DEF LcoreInv
  <2>8. StopInv'
    BY <1>0, <2>1, <2>3, <2>4 DEF StopInv
  <2>9. Conserved'
    <3>1. WithProducer \in Nat /\ WithProducer' = WithProducer
      BY <2>4 DEF WithProducer
    <3>2. Between(tail', head') = Between(tail, head) - lcore.n
      BY <2>2, <2>4
    <3>3. stats.rx = stats.fwd + stats.drop + WithProducer + Between(tail, head)
                     + (Len(lcore.burst) - lcore.at)
      BY <1>0 DEF Conserved
    <3>4. stats.rx = stats.fwd + stats.drop + WithProducer' + Between(tail', head')
                     + (Len(lcore.out) - 0)
      BY <1>b, <1>c, <2>1, <3>1, <3>2, <3>3
    <3> QED
      BY <2>3, <2>4, <3>4 DEF Conserved
  <2> QED
    BY <2>5, <2>6, <2>7, <2>8, <2>9 DEF Inv
<1>6. CASE ProcessOne
  <2>1. PICK v \in {"forward", "noPdr", "drop"} : stats' = Counted(v)
    BY <1>6 DEF ProcessOne, Verdict
  <2>2. /\ stats' \in Counters /\ stats'.rx = stats.rx
        /\ stats'.fwd + stats'.drop = stats.fwd + stats.drop + 1
    <3>1. CASE v = "forward"
      <4>1. /\ stats' \in Counters /\ stats'.rx = stats.rx
            /\ stats'.fwd = stats.fwd + 1 /\ stats'.drop = stats.drop
        BY <1>a, <2>1, <3>1 DEF Counted, Counters
      <4> QED
        BY <1>b, <4>1
    <3>2. CASE v = "noPdr"
      <4>1. /\ stats' \in Counters /\ stats'.rx = stats.rx
            /\ stats'.fwd = stats.fwd /\ stats'.drop = stats.drop + 1
        <5>1. stats' = [stats EXCEPT !.noPdr = @ + 1, !.drop = @ + 1]
          BY <2>1, <3>2 DEF Counted
        <5>2. stats.noPdr + 1 \in Nat /\ stats.drop + 1 \in Nat
          BY <1>a, CounterFields
        <5> QED
          BY <1>a, <5>1, <5>2 DEF Counters
      <4> QED
        BY <1>b, <4>1
    <3>3. CASE v = "drop"
      <4>1. /\ stats' \in Counters /\ stats'.rx = stats.rx
            /\ stats'.fwd = stats.fwd /\ stats'.drop = stats.drop + 1
        BY <1>a, <2>1, <3>3 DEF Counted, Counters
      <4> QED
        BY <1>b, <4>1
    <3> QED
      BY <3>1, <3>2, <3>3
  <2>3. lcore.pc = "work" /\ lcore.at < Len(lcore.burst)
    BY <1>0, <1>6 DEF ProcessOne, LcoreInv
  <2>4. /\ lcore' \in LcoreThread /\ lcore'.at = lcore.at + 1
        /\ lcore'.pc = IF lcore.at + 1 < Len(lcore.burst) THEN "work"
                       ELSE IF lcore.draining THEN "poll" ELSE "check"
        /\ lcore'.draining = lcore.draining /\ lcore'.burst = lcore.burst
    <3> DEFINE c == IF lcore.at + 1 < Len(lcore.burst) THEN "work"
                    ELSE IF lcore.draining THEN "poll" ELSE "check"
    <3>1. lcore' = [lcore EXCEPT !.at = @ + 1, !.pc = c]
      BY <1>6 DEF ProcessOne
    <3>2. lcore.at + 1 \in Nat /\ c \in {"work", "poll", "check"}
      BY <1>b
    <3> HIDE DEF c
    <3>3. /\ lcore' \in LcoreThread /\ lcore'.at = lcore.at + 1 /\ lcore'.pc = c
          /\ lcore'.draining = lcore.draining /\ lcore'.burst = lcore.burst
      BY <1>a, <3>1, <3>2 DEF LcoreThread
    <3> QED
      BY <3>3 DEF c
  <2>5. UNCHANGED <<next, mbuf, head, tail, buf, prod, running, main>>
    BY <1>6 DEF ProcessOne, ringVars
  <2>6. TypeOK'
    BY <1>0, <1>b, <2>2, <2>3, <2>4, <2>5 DEF TypeOK
  <2>7. ProducerInv' /\ StopInv'
    BY <1>0, <2>3, <2>4, <2>5 DEF ProducerInv, StopInv, Full
  <2>8. LcoreInv'
    BY <1>b, <2>3, <2>4 DEF LcoreInv
  <2>9. Conserved'
    <3>1. stats'.fwd \in Nat /\ stats'.drop \in Nat
      BY <2>2, CounterFields
    <3>2. WithProducer \in Nat /\ WithProducer' = WithProducer
      BY <2>5 DEF WithProducer
    <3>3. stats.rx = stats.fwd + stats.drop + WithProducer + Between(tail, head)
                     + (Len(lcore.burst) - lcore.at)
      BY <1>0 DEF Conserved
    <3>4. stats'.fwd + stats'.drop = stats.fwd + stats.drop + 1
      BY <2>2
    <3>5. stats.rx = stats'.fwd + stats'.drop + WithProducer + Between(tail, head)
                     + (Len(lcore.burst) - (lcore.at + 1))
      <4> DEFINE r == stats.rx
      <4> DEFINE f == stats.fwd
      <4> DEFINE d == stats.drop
      <4> DEFINE f1 == stats'.fwd
      <4> DEFINE d1 == stats'.drop
      <4> DEFINE b == Between(tail, head)
      <4> DEFINE l == Len(lcore.burst)
      <4> DEFINE a == lcore.at
      <4>1. /\ f \in Nat /\ d \in Nat /\ f1 \in Nat /\ d1 \in Nat
            /\ WithProducer \in Nat /\ b \in Nat /\ l \in Nat /\ a \in Nat
        BY <1>b, <1>c, <3>1, <3>2
      <4>2. r = f + d + WithProducer + b + (l - a) /\ f1 + d1 = f + d + 1
        BY <3>3, <3>4
      <4> HIDE DEF r, f, d, f1, d1, b, l, a
      <4>3. r = f1 + d1 + WithProducer + b + (l - (a + 1))
        BY <4>1, <4>2
      <4> QED
        BY <4>3 DEF r, f1, d1, b, l, a
    <3> QED
      BY <2>2, <2>4, <2>5, <3>2, <3>5 DEF Conserved
  <2> QED
    BY <2>6, <2>7, <2>8, <2>9 DEF Inv
<1> QED
  BY <1>1, <1>2, <1>3, <1>4, <1>5, <1>6 DEF Lcore

(* The main thread's steps and the time-out. *)
LEMMA MainStep == Inv /\ (Main \/ WaitTimeout) => Inv'
<1> SUFFICES ASSUME Inv, Main \/ WaitTimeout PROVE Inv'
  OBVIOUS
<1> USE DEF Inv
<1>1. CASE JoinProducer
  BY <1>1 DEF JoinProducer, TypeOK, ProducerInv, LcoreInv, Conserved, StopInv,
              WithProducer, Full, ringVars
<1>2. CASE AllCounted \/ WaitTimeout
  BY <1>2 DEF AllCounted, WaitTimeout, Stop, TypeOK, ProducerInv, LcoreInv, Conserved,
              StopInv, WithProducer, Full, ringVars
<1>3. CASE JoinLcore
  BY <1>3 DEF JoinLcore, TypeOK, ProducerInv, LcoreInv, Conserved, StopInv,
              WithProducer, Full, ringVars
<1> QED
  BY <1>1, <1>2, <1>3 DEF Main

(* Inv is inductive: ring, threads and counters stay consistent. *)
THEOREM FastPathInvariant == Spec => []Inv
<1>1. Inv /\ [Next]_vars => Inv'
  <2> SUFFICES ASSUME Inv, [Next]_vars PROVE Inv'
    OBVIOUS
  <2>1. CASE Next
    BY <2>1, ProducerStep, LcoreStep, MainStep DEF Next
  <2>2. CASE UNCHANGED vars
    BY <2>2 DEF vars, ringVars, Inv, TypeOK, ProducerInv, LcoreInv, Conserved, StopInv,
                WithProducer, Full
  <2> QED
    BY <2>1, <2>2
<1> QED
  BY InitInv, <1>1, PTL DEF Spec

(* Every variable of the fast path keeps its type: indices stay in the      *)
(* ring, alloc() returns a buffer of the pool.                              *)
THEOREM FastPathTypeCorrect == Spec => []TypeOK
<1>1. Inv => TypeOK
  BY DEF Inv
<1> QED
  BY FastPathInvariant, <1>1, PTL

(* No packet is lost by the statistics. *)
THEOREM FastPathConserved == Spec => []Conserved
<1>1. Inv => Conserved
  BY DEF Inv
<1> QED
  BY FastPathInvariant, <1>1, PTL

(* When stop() has returned the ring is empty and all packets are counted.  *)
THEOREM FastPathDrained == Spec => []Drained
<1>1. Inv => Drained
  <2> SUFFICES ASSUME Inv, main = "done" PROVE head = tail /\ stats.rx = stats.fwd + stats.drop
    BY DEF Drained
  <2>1. head = tail /\ prod.pc = "done" /\ lcore.at = Len(lcore.burst)
    BY DEF Inv, StopInv, LcoreInv
  <2>2. Between(tail, head) = 0
    BY <2>1, RingFacts DEF Inv
  <2> QED
    <3>1. WithProducer = 0
      BY <2>1 DEF WithProducer
    <3>2. /\ stats.rx \in Nat /\ stats.fwd \in Nat /\ stats.drop \in Nat
          /\ Len(lcore.burst) \in Nat
      BY LcoreFields, CounterFields DEF Inv, TypeOK
    <3> QED
      BY <2>1, <2>2, <3>1, <3>2 DEF Inv, Conserved
<1> QED
  BY FastPathInvariant, <1>1, PTL
----------------------------------------------------------------------------
(***************************************************************************)
(* The ring implements BoundedFifo: head_.store puts, tail_.store takes,   *)
(* and every other step leaves the queue and the last burst as they are.   *)
(***************************************************************************)
Queue == [i \in 1 .. Between(tail, head) |-> buf[Wrap(tail + i - 1)]]

(* What lies between two indices of a ring of buffers is a sequence of them. *)
LEMMA QueueType ==
  ASSUME NEW h \in Slots, NEW t \in Slots, NEW b \in [Slots -> Mbufs]
  PROVE  LET q == [i \in 1 .. Between(t, h) |-> b[Wrap(t + i - 1)]]
         IN  q \in Seq(Mbufs) /\ Len(q) = Between(t, h)
<1>1. Between(t, h) \in Nat
  BY BetweenType
<1>2. \A i \in 1 .. Between(t, h) : b[Wrap(t + i - 1)] \in Mbufs
  BY HeadIsFree
<1> QED
  BY <1>1, <1>2, IsASeq

LEMMA FifoInit == Init => Fifo!Init
<1> SUFFICES ASSUME Init PROVE Queue = << >> /\ lcore.burst = << >>
  BY DEF Fifo!Init, Queue
<1>1. Between(tail, head) = 0
  BY MbufsType, BetweenType DEF Init
<1>2. Queue \in Seq(Mbufs) /\ Len(Queue) = 0
  BY InitInv, <1>1, QueueType DEF Inv, TypeOK, Queue
<1> QED
  BY <1>2, EmptySeq DEF Init

(* A step that leaves the indices and the published slots alone stutters. *)
LEMMA FifoStutter ==
  ASSUME Inv, Next \/ UNCHANGED vars, ~PublishHead, ~ReleaseSlots
  PROVE  Queue' = Queue /\ lcore'.burst = lcore.burst
<1>0. TypeOK /\ TypeOK'
  <2>1. CASE Next
    BY <2>1, ProducerStep, LcoreStep, MainStep DEF Next, Inv
  <2>2. CASE UNCHANGED vars
    BY <2>2 DEF vars, ringVars, Inv, TypeOK
  <2> QED
    BY <2>1, <2>2
<1>1. UNCHANGED <<head, tail>>
  BY DEF Next, Producer, Lcore, Main, Alloc, Fill, FindRoom, RingFull, WriteSlot,
         CheckRunning, PollSome, PollNothing, ReadSlot, ProcessOne, JoinProducer,
         AllCounted, WaitTimeout, Stop, JoinLcore, ringVars, vars
<1>2. lcore'.burst = lcore.burst
  <2>1. lcore \in LcoreThread
    BY <1>0 DEF TypeOK
  <2>2. \/ UNCHANGED lcore
        \/ CheckRunning \/ PollSome \/ PollNothing \/ ReadSlot \/ ProcessOne
    BY DEF Next, Producer, Lcore, Main, Alloc, Fill, FindRoom, RingFull, WriteSlot,
         JoinProducer, AllCounted, WaitTimeout, Stop, JoinLcore, vars
  <2>3. CASE CheckRunning
    BY <2>1, <2>3 DEF CheckRunning, LcoreThread
  <2>4. CASE PollSome
    BY <2>1, <2>4 DEF PollSome, LcoreThread
  <2>5. CASE PollNothing
    BY <2>1, <2>5 DEF PollNothing, LcoreThread
  <2>6. CASE ReadSlot
    BY <2>1, <2>6 DEF ReadSlot, LcoreThread
  <2>7. CASE ProcessOne
    BY <2>1, <2>7 DEF ProcessOne, LcoreThread
  <2> QED
    BY <2>2, <2>3, <2>4, <2>5, <2>6, <2>7
<1>3. \A s \in Slots : s # head => buf'[s] = buf[s]
  BY <1>0 DEF TypeOK, Next, Producer, Lcore, Main, Alloc, Fill, FindRoom, RingFull,
         WriteSlot, CheckRunning, PollSome, PollNothing, ReadSlot, ProcessOne,
         JoinProducer, AllCounted, WaitTimeout, Stop, JoinLcore, ringVars, vars
<1>4. \A i \in 1 .. Between(tail, head) :
        buf'[Wrap(tail + i - 1)] = buf[Wrap(tail + i - 1)]
  BY <1>0, <1>3, RingFacts, HeadIsFree
<1>5. Queue' = [i \in 1 .. Between(tail, head) |-> buf'[Wrap(tail + i - 1)]]
  BY <1>1 DEF Queue
<1> QED
  BY <1>2, <1>4, <1>5 DEF Queue

(* head_.store appends the producer's buffer, and there was room for it. *)
LEMMA FifoPut ==
  ASSUME Inv, PublishHead
  PROVE  \E x \in Mbufs : /\ Len(Queue) < RingSize - 1
                          /\ Queue' = Append(Queue, x)
                          /\ lcore'.burst = lcore.burst
<1>0. TypeOK /\ ProducerInv /\ TypeOK'
  BY ProducerStep DEF Inv, Producer
<1>1. /\ prod.m \in Mbufs /\ buf[head] = prod.m /\ ~Full
      /\ UNCHANGED <<tail, buf, lcore>> /\ head' = Wrap(head + 1)
  BY <1>0, ProducerFields DEF PublishHead, ProducerInv, TypeOK
<1> DEFINE k == Between(tail, head)
<1>2. /\ k \in Nat /\ k < RingSize - 1 /\ Between(tail, head') = k + 1
      /\ Wrap(tail + k) = head
  BY <1>0, <1>1, RingFacts, FullFacts, BetweenPush DEF Full
<1>3. Queue \in Seq(Mbufs) /\ Len(Queue) = k
  BY <1>0, QueueType DEF TypeOK, Queue
<1>4. Queue' \in Seq(Mbufs) /\ Len(Queue') = k + 1
  <2>1. Between(tail', head') = k + 1
    BY <1>1, <1>2
  <2> QED
    BY <1>0, <2>1, QueueType DEF TypeOK, Queue
<1>5. /\ Append(Queue, prod.m) \in Seq(Mbufs) /\ Len(Append(Queue, prod.m)) = k + 1
      /\ Append(Queue, prod.m)[k + 1] = prod.m
      /\ \A i \in 1 .. k : Append(Queue, prod.m)[i] = Queue[i]
  BY <1>1, <1>3, AppendProperties
<1>6. \A i \in 1 .. k + 1 : Queue'[i] = Append(Queue, prod.m)[i]
  <2> SUFFICES ASSUME NEW i \in 1 .. k + 1
               PROVE  Queue'[i] = Append(Queue, prod.m)[i]
    OBVIOUS
  <2>1. Queue'[i] = buf[Wrap(tail + i - 1)]
    BY <1>1, <1>2 DEF Queue
  <2>2. CASE i \in 1 .. k
    BY <1>5, <2>1, <2>2 DEF Queue
  <2>3. CASE i = k + 1
    <3>1. tail + i - 1 = tail + k
      BY <1>0, <1>2, <2>3, RingFacts
    <3> QED
      BY <1>1, <1>2, <1>5, <2>1, <2>3, <3>1
  <2>4. i \in 1 .. k \/ i = k + 1
    BY <1>2
  <2> QED
    BY <2>2, <2>3, <2>4
<1>7. Queue' = Append(Queue, prod.m)
  BY <1>4, <1>5, <1>6, SeqEqual
<1> QED
  BY <1>1, <1>2, <1>3, <1>7

(* tail_.store takes the burst that was read off the queue's front. *)
LEMMA FifoTake ==
  ASSUME Inv, ReleaseSlots
  PROVE  \E n \in 1 .. Len(Queue) : /\ n <= BurstSize
                                    /\ lcore'.burst = SubSeq(Queue, 1, n)
                                    /\ Queue' = SubSeq(Queue, n + 1, Len(Queue))
<1>0. TypeOK /\ LcoreInv /\ TypeOK'
  BY LcoreStep DEF Inv, Lcore
<1> DEFINE k == Between(tail, head)
<1> DEFINE n == lcore.n
<1>1. lcore \in LcoreThread
  BY <1>0 DEF TypeOK
<1>2. /\ n \in Nat /\ n <= BurstSize /\ lcore.out \in Seq(Mbufs)
  BY <1>1, LcoreFields
<1>3. /\ n >= 1 /\ n <= k /\ k \in Nat /\ Len(lcore.out) = n
      /\ \A i \in 1 .. n : lcore.out[i] = buf[Wrap(tail + i - 1)]
  BY <1>0, RingFacts DEF LcoreInv, ReleaseSlots
<1>4. /\ UNCHANGED <<head, buf>> /\ tail' = Wrap(tail + n)
      /\ lcore'.burst = lcore.out
  BY <1>1 DEF ReleaseSlots, LcoreThread
<1>5. Queue \in Seq(Mbufs) /\ Len(Queue) = k
  BY <1>0, QueueType DEF TypeOK, Queue
<1>6. /\ Between(tail', head) = k - n
      /\ \A i \in 1 .. k - n : Wrap(tail' + i - 1) = Wrap(tail + (n + i) - 1)
  <2>1. n \in 0 .. Between(tail, head)
    BY <1>2, <1>3
  <2> QED
    BY <1>0, <1>4, <2>1, RingFacts, BetweenPop
<1>7. lcore'.burst = SubSeq(Queue, 1, n)
  <2>1. /\ SubSeq(Queue, 1, n) \in Seq(Mbufs) /\ Len(SubSeq(Queue, 1, n)) = n
        /\ \A i \in 1 .. n : SubSeq(Queue, 1, n)[i] = Queue[i]
    BY <1>2, <1>3, <1>5, SubSeqProperties
  <2>2. \A i \in 1 .. n : lcore.out[i] = SubSeq(Queue, 1, n)[i]
    BY <1>2, <1>3, <2>1 DEF Queue
  <2> QED
    BY <1>2, <1>3, <1>4, <2>1, <2>2, SeqEqual
<1>8. Queue' = SubSeq(Queue, n + 1, Len(Queue))
  <2>1. Queue' \in Seq(Mbufs) /\ Len(Queue') = k - n
    <3>1. Between(tail', head') = k - n
      BY <1>4, <1>6
    <3> QED
      BY <1>0, <3>1, QueueType DEF TypeOK, Queue
  <2>2. /\ SubSeq(Queue, n + 1, k) \in Seq(Mbufs) /\ Len(SubSeq(Queue, n + 1, k)) = k - n
        /\ \A i \in 1 .. k - n : SubSeq(Queue, n + 1, k)[i] = Queue[n + i]
    BY <1>2, <1>3, <1>5, SubSeqProperties
  <2>3. \A i \in 1 .. k - n : Queue'[i] = SubSeq(Queue, n + 1, k)[i]
    <3> SUFFICES ASSUME NEW i \in 1 .. k - n
                 PROVE  Queue'[i] = SubSeq(Queue, n + 1, k)[i]
      OBVIOUS
    <3>1. Queue'[i] = buf[Wrap(tail' + i - 1)]
      BY <1>4, <1>6 DEF Queue
    <3>2. n + i \in 1 .. k
      BY <1>2, <1>3
    <3>3. Queue[n + i] = buf[Wrap(tail + (n + i) - 1)]
      BY <3>2 DEF Queue
    <3> QED
      BY <1>6, <2>2, <3>1, <3>3
  <2> QED
    BY <1>5, <2>1, <2>2, <2>3, SeqEqual
<1>9. n \in 1 .. Len(Queue)
  BY <1>2, <1>3, <1>5
<1> QED
  BY <1>2, <1>7, <1>8, <1>9

(* The lock-free ring is a bounded FIFO for every size of ring and burst:   *)
(* no item lost, none twice, none out of order.                             *)
THEOREM RingImplementsFifo == Spec => ImplementsFifo
<1>1. Inv /\ [Next]_vars => [Fifo!Next]_(Fifo!vars)
  <2> SUFFICES ASSUME Inv, Next \/ UNCHANGED vars
               PROVE  Fifo!Next \/ UNCHANGED Fifo!vars
    OBVIOUS
  <2>1. CASE PublishHead
    <3>1. \E x \in Mbufs : Fifo!Put(x)
      BY <2>1, FifoPut DEF Fifo!Put, Queue
    <3> QED
      BY <3>1 DEF Fifo!Next
  <2>2. CASE ReleaseSlots
    <3>1. \E n \in 1 .. Len(Queue) : Fifo!Take(n)
      BY <2>2, FifoTake DEF Fifo!Take, Queue
    <3> QED
      BY <3>1 DEF Fifo!Next, Queue
  <2>3. CASE ~PublishHead /\ ~ReleaseSlots
    BY <2>3, FifoStutter DEF Fifo!vars, Queue
  <2> QED
    BY <2>1, <2>2, <2>3
<1> QED
  BY FifoInit, FastPathInvariant, <1>1, PTL DEF Spec, ImplementsFifo, Fifo!Spec
============================================================================
