---------------------------- MODULE BulkMetrics ----------------------------
(***************************************************************************)
(* How BULK n counts its attaches (4g-simulator/src/common/metrics.h and   *)
(* the BULK command of main.cpp).  The main thread resets the metrics,     *)
(* submits n attaches and sleeps in waitForAll for at most 30 seconds; the *)
(* MME thread calls recordAttach for every UE that completes an attach, of *)
(* whichever command asked for it.  The attach itself is Epc's: here it is *)
(* outstanding until it completes, or until chaos mode drops it.           *)
(***************************************************************************)
EXTENDS Integers, Sequences

CONSTANTS
  MaxBatches,   \* bound: BULK commands typed
  MaxSize,      \* bound: UEs of one BULK command
  MaxSingles    \* bound: UEs asked for by CR commands

ASSUME BulkBounds == MaxBatches \in Nat /\ MaxSize \in Nat \ {0} /\ MaxSingles \in Nat

VARIABLES
  main,         \* where the main thread is in the BULK command
  left,         \* attaches of the batch it has still to submit
  batch,        \* the number of BULK commands so far
  clean,        \* no attach was under way when the batch was started
  outstanding,  \* outstanding[b]: attaches of batch b under way; 0 is CR's
  registered,   \* registered[b]: attaches of batch b completed
  singles,      \* attaches asked for by CR so far
  mme,          \* where the MME thread is in recordAttach
  latencies,    \* the size of latencies_ms_
  completed,    \* completed_
  expired,      \* waitForAll's deadline has passed
  expected      \* expected_

commandVars == <<left, batch, clean, singles, expired>>
attachVars  == <<outstanding, registered>>
metricVars  == <<latencies, completed, expected>>
vars        == <<main, commandVars, attachVars, mme, metricVars>>

Batch  == 0 .. MaxBatches
MainPc == {"idle", "reset", "submit", "test", "tosleep", "asleep", "alldone", "timeout"}
MmePc  == {"idle", "pushed", "notify"}

TypeOK ==
  /\ main \in MainPc /\ left \in Nat /\ batch \in Batch /\ clean \in BOOLEAN
  /\ expired \in BOOLEAN
  /\ outstanding \in [Batch -> Nat] /\ registered \in [Batch -> Nat] /\ singles \in Nat
  /\ mme \in MmePc
  /\ latencies \in Nat /\ completed \in Nat /\ expected \in Nat

Init ==
  /\ main = "idle" /\ left = 0 /\ batch = 0 /\ clean = TRUE /\ expired = FALSE
  /\ outstanding = [b \in Batch |-> 0] /\ registered = [b \in Batch |-> 0]
  /\ singles = 0
  /\ mme = "idle"
  /\ latencies = 0 /\ completed = 0 /\ expected = 0
----------------------------------------------------------------------------
(* CR: one more attach under way; main does not wait for it. *)
CommandCR ==
  /\ main = "idle"
  /\ singles < MaxSingles
  /\ singles' = singles + 1
  /\ outstanding' = [outstanding EXCEPT ![0] = @ + 1]
  /\ UNCHANGED <<main, left, batch, clean, expired, registered, mme, metricVars>>

(* Mutant: the latencies of the last batch are kept. *)
StartBulkKeepingLatencies(n) ==
  /\ main = "idle" /\ batch < MaxBatches
  /\ main' = "reset" /\ left' = n /\ batch' = batch + 1
  /\ clean' = (mme = "idle" /\ \A b \in Batch : outstanding[b] = 0)
  /\ expected' = n
  /\ UNCHANGED <<attachVars, singles, expired, mme, latencies, completed>>

(* startBulk(n) clears the latencies and sets expected_ under mutex_ ... *)
StartBulk(n) ==
  /\ main = "idle" /\ batch < MaxBatches
  /\ main' = "reset" /\ left' = n /\ batch' = batch + 1
  /\ clean' = (mme = "idle" /\ \A b \in Batch : outstanding[b] = 0)
  /\ latencies' = 0 /\ expected' = n
  /\ UNCHANGED <<attachVars, singles, expired, mme, completed>>

(* Mutant: the count of the last batch is kept. *)
ResetNothing ==
  /\ main = "reset"
  /\ main' = "submit"
  /\ UNCHANGED <<commandVars, attachVars, mme, metricVars>>

(* ... and then completed_, which the MME thread increments without mutex_. *)
ResetCompleted ==
  /\ main = "reset"
  /\ main' = "submit"
  /\ completed' = 0
  /\ UNCHANGED <<commandVars, attachVars, mme, latencies, expected>>

(* Mutant: one attach too many. *)
SubmitOneMore ==
  /\ main = "submit" /\ left >= 0
  /\ left' = left - 1
  /\ outstanding' = [outstanding EXCEPT ![batch] = @ + 1]
  /\ UNCHANGED <<main, batch, clean, singles, expired, registered, mme, metricVars>>

SubmitAttach ==
  /\ main = "submit" /\ left > 0
  /\ left' = left - 1
  /\ outstanding' = [outstanding EXCEPT ![batch] = @ + 1]
  /\ UNCHANGED <<main, batch, clean, singles, expired, registered, mme, metricVars>>

AllSubmitted ==
  /\ main = "submit" /\ left = 0
  /\ main' = "test"
  /\ UNCHANGED <<commandVars, attachVars, mme, metricVars>>

(* waitForAll: the predicate, then the sleep; a notification between the     *)
(* two is lost, because recordAttach notifies without done_mutex_.           *)
TestAllDone ==
  /\ main = "test"
  /\ main' = IF completed >= expected THEN "alldone" ELSE "tosleep"
  /\ UNCHANGED <<commandVars, attachVars, mme, metricVars>>

Sleep ==
  /\ main = "tosleep"
  /\ main' = "asleep"
  /\ UNCHANGED <<commandVars, attachVars, mme, metricVars>>

SpuriousWakeup ==
  /\ main = "asleep" /\ ~expired
  /\ main' = "test"
  /\ UNCHANGED <<commandVars, attachVars, mme, metricVars>>

(* The clock: the deadline is fixed when waitForAll is entered. *)
Expire ==
  /\ main \in {"test", "tosleep", "asleep"} /\ ~expired
  /\ expired' = TRUE
  /\ UNCHANGED <<main, left, batch, clean, singles, attachVars, mme, metricVars>>

(* Mutant: waitForAll waits until the predicate holds. *)
WaitForever ==
  /\ main = "asleep" /\ expired /\ completed >= expected
  /\ main' = "alldone"
  /\ UNCHANGED <<commandVars, attachVars, mme, metricVars>>

(* After the deadline wait_for returns what the predicate says then. *)
WaitTimeout ==
  /\ main = "asleep" /\ expired
  /\ main' = IF completed >= expected THEN "alldone" ELSE "timeout"
  /\ UNCHANGED <<commandVars, attachVars, mme, metricVars>>

(* The outcome is printed, then printReport; the command ends. *)
EndBulk ==
  /\ main \in {"alldone", "timeout"}
  /\ main' = "idle" /\ expired' = FALSE
  /\ UNCHANGED <<left, batch, clean, singles, attachVars, mme, metricVars>>
----------------------------------------------------------------------------
(* Attach Complete: recordAttach pushes the latency under mutex_ ... *)
Push(b) ==
  /\ mme = "idle" /\ main # "reset"
  /\ outstanding[b] > 0
  /\ outstanding' = [outstanding EXCEPT ![b] = @ - 1]
  /\ registered' = [registered EXCEPT ![b] = @ + 1]
  /\ latencies' = latencies + 1
  /\ mme' = "pushed"
  /\ UNCHANGED <<main, commandVars, completed, expected>>

(* ... counts it, and compares with expected_.  While startBulk is writing  *)
(* expected_ the MME may have read the old value as well as the new one.    *)
FetchAdd ==
  /\ mme = "pushed"
  /\ completed' = completed + 1
  /\ \/ mme' = IF completed + 1 >= expected THEN "notify" ELSE "idle"
     \/ main = "reset" /\ mme' \in {"notify", "idle"}
  /\ UNCHANGED <<main, commandVars, attachVars, latencies, expected>>

NotifyAll ==
  /\ mme = "notify"
  /\ mme' = "idle"
  /\ main' = IF main = "asleep" THEN "test" ELSE main
  /\ UNCHANGED <<commandVars, attachVars, metricVars>>

(* Chaos mode drops the attach: it never completes. *)
Drop(b) ==
  /\ outstanding[b] > 0
  /\ outstanding' = [outstanding EXCEPT ![b] = @ - 1]
  /\ UNCHANGED <<main, commandVars, registered, mme, metricVars>>
----------------------------------------------------------------------------
Command == CommandCR \/ \E n \in 1 .. MaxSize : StartBulk(n)
Bulk    == ResetCompleted \/ SubmitAttach \/ AllSubmitted \/ TestAllDone \/ Sleep \/ EndBulk
Record  == FetchAdd \/ NotifyAll
Attach  == \E b \in Batch : Push(b) \/ Drop(b)

Next == Command \/ Bulk \/ SpuriousWakeup \/ Expire \/ WaitTimeout \/ Record \/ Attach

Spec == Init /\ [][Next]_vars

(* A command that was typed is carried out and the clock advances; nothing  *)
(* is assumed of the attaches.                                              *)
FairSpec == Spec /\ WF_vars(Bulk) /\ WF_vars(Expire) /\ WF_vars(WaitTimeout)
----------------------------------------------------------------------------
(* recordAttach is not atomic: startBulk may run between its two halves, so *)
(* an attach may be counted in a batch whose report it is not in.  The      *)
(* count and the report never differ by more than that one attach.          *)
CountsNearlyAgree ==
  /\ main = "reset" => latencies = 0
  /\ main # "reset" =>
       completed - latencies \in (IF mme = "pushed" THEN {-1, 0} ELSE {0, 1})

(* A batch that is started when no attach is under way is reported complete *)
(* only if each of its UEs has been registered.                             *)
CleanBatchIsHonest ==
  main = "alldone" /\ clean => registered[batch] = expected

(* BULK always gives the prompt back: neither a dropped attach nor a lost   *)
(* notification can hold the main thread.                                   *)
BulkReturns == (main # "idle") ~> (main = "idle")
=============================================================================
