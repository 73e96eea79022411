------------------------------ MODULE TaskPool ------------------------------
(***************************************************************************)
(* What a thread pool promises (the comment of thread_pool.h): tasks are   *)
(* started in the order they were submitted, each exactly once and each by *)
(* one of a fixed number of workers, and all of them have run when the     *)
(* pool is gone.                                                           *)
(***************************************************************************)
EXTENDS Naturals, Sequences, FiniteSets

CONSTANTS Capacity    \* the number of workers

VARIABLES
  submitted,   \* how many tasks have been submitted; they are numbered from 1
  started,     \* how many of them have been started
  running,     \* the tasks being executed
  gone         \* the pool has been destroyed

vars == <<submitted, started, running, gone>>

Init == submitted = 0 /\ started = 0 /\ running = {} /\ gone = FALSE

Submit ==
  /\ ~gone
  /\ submitted' = submitted + 1
  /\ UNCHANGED <<started, running, gone>>

Start ==
  /\ started < submitted
  /\ Cardinality(running) < Capacity
  /\ started' = started + 1
  /\ running' = running \cup {started + 1}
  /\ UNCHANGED <<submitted, gone>>

Finish(t) ==
  /\ t \in running
  /\ running' = running \ {t}
  /\ UNCHANGED <<submitted, started, gone>>

Destroy ==
  /\ started = submitted /\ running = {}
  /\ gone' = TRUE
  /\ UNCHANGED <<submitted, started, running>>

Next == Submit \/ Start \/ Destroy \/ \E t \in running : Finish(t)

Spec == Init /\ [][Next]_vars
=============================================================================
