----------------------------- MODULE BoundedFifo -----------------------------
(***************************************************************************)
(* What a ring between one producer and one consumer promises: a queue of  *)
(* at most Capacity items, out of which the consumer takes bursts of at    *)
(* most Burst items, first in first out, none lost and none twice.         *)
(***************************************************************************)
EXTENDS Naturals, Sequences

CONSTANTS Item, Capacity, Burst

VARIABLES
  q,     \* the items that have been put and not taken
  got    \* the burst taken last

vars == <<q, got>>

Init == q = << >> /\ got = << >>

Put(x) ==
  /\ Len(q) < Capacity
  /\ q' = Append(q, x)
  /\ UNCHANGED got

Take(n) ==
  /\ n <= Burst
  /\ got' = SubSeq(q, 1, n)
  /\ q' = SubSeq(q, n + 1, Len(q))

Next == (\E x \in Item : Put(x)) \/ (\E n \in 1 .. Len(q) : Take(n))

Spec == Init /\ [][Next]_vars
==============================================================================
