------------------------- MODULE BulkMetrics_proofs -------------------------
(***************************************************************************)
(* The count BULK waits on and the report it prints never drift apart, and *)
(* a batch started alone reports its own attaches, for any number of       *)
(* batches, UEs and single attaches.                                       *)
(***************************************************************************)
EXTENDS BulkMetrics, TLAPS

(* Every variable keeps its type. *)
THEOREM BulkTypeCorrect == Spec => []TypeOK
<1>1. Init => TypeOK
  <2> SUFFICES ASSUME Init PROVE TypeOK
    OBVIOUS
  <2>1. 0 \in Batch /\ 0 \in Nat  BY BulkBounds DEF Batch
  <2>2. QED  BY <2>1 DEF Init, TypeOK, MainPc, MmePc
<1>2. TypeOK /\ [Next]_vars => TypeOK'
  <2> SUFFICES ASSUME TypeOK, [Next]_vars PROVE TypeOK'
    OBVIOUS
  <2> USE BulkBounds DEF TypeOK, Batch, MainPc, MmePc, commandVars, attachVars, metricVars
  <2>1. CASE UNCHANGED vars  BY <2>1 DEF vars
  <2>2. CASE CommandCR  BY <2>2 DEF CommandCR
  <2>3. ASSUME NEW n \in 1 .. MaxSize, StartBulk(n) PROVE TypeOK'
    BY <2>3 DEF StartBulk
  <2>4. CASE ResetCompleted  BY <2>4 DEF ResetCompleted
  <2>5. CASE SubmitAttach  BY <2>5 DEF SubmitAttach
  <2>6. CASE AllSubmitted  BY <2>6 DEF AllSubmitted
  <2>7. CASE TestAllDone  BY <2>7 DEF TestAllDone
  <2>8. CASE Sleep  BY <2>8 DEF Sleep
  <2>9. CASE EndBulk  BY <2>9 DEF EndBulk
  <2>10. CASE SpuriousWakeup  BY <2>10 DEF SpuriousWakeup
  <2>11. CASE Expire  BY <2>11 DEF Expire
  <2>12. CASE WaitTimeout  BY <2>12 DEF WaitTimeout
  <2>13. CASE FetchAdd  BY <2>13 DEF FetchAdd
  <2>14. CASE NotifyAll  BY <2>14 DEF NotifyAll
  <2>15. ASSUME NEW b \in Batch, Push(b) PROVE TypeOK'
    <3>1. outstanding' \in [Batch -> Nat]  BY <2>15 DEF Push
    <3>2. registered' \in [Batch -> Nat]  BY <2>15 DEF Push
    <3>3. QED  BY <2>15, <3>1, <3>2 DEF Push
  <2>16. ASSUME NEW b \in Batch, Drop(b) PROVE TypeOK'  BY <2>16 DEF Drop
  <2>17. QED
    BY <2>1, <2>2, <2>3, <2>4, <2>5, <2>6, <2>7, <2>8, <2>9, <2>10, <2>11, <2>12,
       <2>13, <2>14, <2>15, <2>16
       DEF Next, Command, Bulk, Record, Attach
<1>3. QED  BY <1>1, <1>2, PTL DEF Spec

(* completed_ and the number of recorded latencies differ by at most the    *)
(* one attach whose recordAttach startBulk interrupted.                     *)
THEOREM BulkCountsNearlyAgree == Spec => []CountsNearlyAgree
<1>1. Init => CountsNearlyAgree
  BY DEF Init, CountsNearlyAgree
<1>2. TypeOK /\ CountsNearlyAgree /\ [Next]_vars => CountsNearlyAgree'
  <2> SUFFICES ASSUME TypeOK, CountsNearlyAgree, [Next]_vars PROVE CountsNearlyAgree'
    OBVIOUS
  <2>0. completed \in Nat /\ latencies \in Nat /\ mme \in MmePc  BY DEF TypeOK
  <2> USE <2>0 DEF CountsNearlyAgree, metricVars
  <2>1. CASE UNCHANGED vars  BY <2>1 DEF vars
  <2>2. CASE CommandCR  BY <2>2 DEF CommandCR
  <2>3. ASSUME NEW n \in 1 .. MaxSize, StartBulk(n) PROVE CountsNearlyAgree'
    BY <2>3 DEF StartBulk
  <2>4. CASE ResetCompleted
    <3>1. latencies = 0  BY <2>4 DEF ResetCompleted
    <3>2. QED  BY <2>4, <3>1 DEF ResetCompleted
  <2>5. CASE SubmitAttach \/ AllSubmitted \/ TestAllDone \/ Sleep \/ EndBulk
    BY <2>5 DEF SubmitAttach, AllSubmitted, TestAllDone, Sleep, EndBulk
  <2>6. CASE SpuriousWakeup \/ Expire \/ WaitTimeout
    BY <2>6 DEF SpuriousWakeup, Expire, WaitTimeout
  <2>7. CASE FetchAdd  BY <2>7 DEF FetchAdd, MmePc
  <2>8. CASE NotifyAll  BY <2>8 DEF NotifyAll, MmePc
  <2>9. ASSUME NEW b \in Batch, Push(b) PROVE CountsNearlyAgree'  BY <2>9 DEF Push
  <2>10. ASSUME NEW b \in Batch, Drop(b) PROVE CountsNearlyAgree'  BY <2>10 DEF Drop
  <2>11. QED
    BY <2>1, <2>2, <2>3, <2>4, <2>5, <2>6, <2>7, <2>8, <2>9, <2>10
       DEF Next, Command, Bulk, Record, Attach
<1>3. QED  BY <1>1, <1>2, BulkTypeCorrect, PTL DEF Spec
----------------------------------------------------------------------------
(***************************************************************************)
(* A batch started with nothing under way has the metrics to itself: CR is *)
(* not read before BULK ends, so every attach counted is the batch's own.  *)
(***************************************************************************)
Counting == IF mme = "pushed" THEN 1 ELSE 0

(* Nothing is known of a batch that is still to come. *)
FutureInv == \A b \in Batch : b > batch => outstanding[b] = 0 /\ registered[b] = 0

OwnCounts ==
  /\ \A b \in Batch : b # batch => outstanding[b] = 0
  /\ registered[batch] + outstanding[batch] + left <= expected
  /\ main # "reset" => completed + Counting = registered[batch]
  /\ main = "reset" => mme = "idle" /\ outstanding[batch] = 0 /\ registered[batch] = 0
  /\ main = "alldone" => expected <= completed

BatchInv == FutureInv /\ (clean /\ main # "idle" => OwnCounts)

(* A batch counts its own attaches, and counts each once. *)
LEMMA BatchStep ==
  ASSUME TypeOK, BatchInv, [Next]_vars
  PROVE  BatchInv'
<1>1. /\ main \in MainPc /\ left \in Nat /\ batch \in Nat /\ batch \in Batch /\ mme \in MmePc
      /\ outstanding \in [Batch -> Nat] /\ registered \in [Batch -> Nat]
      /\ completed \in Nat /\ expected \in Nat /\ 0 \in Batch
  BY BulkBounds DEF TypeOK, Batch
<1>2. \A b \in Batch : b \in Nat  BY DEF Batch
<1>3. outstanding[batch] \in Nat /\ registered[batch] \in Nat  BY <1>1
<1>4. ASSUME UNCHANGED <<attachVars, batch, clean>>, clean /\ main' # "idle" => main # "idle",
             clean /\ main' # "idle" /\ OwnCounts => OwnCounts'
      PROVE  BatchInv'
  BY <1>4 DEF BatchInv, FutureInv, attachVars
<1> USE DEF commandVars, attachVars, metricVars, MainPc, MmePc
<1>5. CASE UNCHANGED vars
  BY <1>4, <1>5 DEF vars, OwnCounts, Counting
<1>6. CASE CommandCR
  <2>1. main' = "idle" /\ UNCHANGED <<registered, batch>>  BY <1>6 DEF CommandCR
  <2>2. \A b \in Batch : b # 0 => outstanding'[b] = outstanding[b]  BY <1>1, <1>6 DEF CommandCR
  <2>3. \A b \in Batch : b > batch => b # 0  BY <1>1, <1>2
  <2>4. FutureInv'  BY <2>1, <2>2, <2>3 DEF BatchInv, FutureInv
  <2>5. QED  BY <2>1, <2>4 DEF BatchInv
<1>7. ASSUME NEW n \in 1 .. MaxSize, StartBulk(n) PROVE BatchInv'
  <2>1. /\ batch' = batch + 1 /\ main' = "reset" /\ left' = n /\ expected' = n
        /\ clean' = (mme = "idle" /\ \A b \in Batch : outstanding[b] = 0)
        /\ UNCHANGED <<outstanding, registered, mme>>
    BY <1>7 DEF StartBulk
  <2>2. batch' \in Batch  BY <1>1, <1>7, BulkBounds DEF StartBulk, Batch
  <2>3. \A b \in Batch : b > batch' => b > batch  BY <1>1, <1>2, <2>1
  <2>4. FutureInv'  BY <2>1, <2>3 DEF BatchInv, FutureInv
  <2>5. registered[batch'] = 0
    <3>1. batch' > batch  BY <1>1, <2>1
    <3>2. QED  BY <2>2, <3>1 DEF BatchInv, FutureInv
  <2>6. ASSUME clean' PROVE OwnCounts'
    <3>1. mme = "idle" /\ \A b \in Batch : outstanding[b] = 0  BY <2>1, <2>6
    <3>2. registered'[batch'] = 0 /\ outstanding'[batch'] = 0  BY <2>1, <2>2, <2>5, <3>1
    <3>3. registered'[batch'] + outstanding'[batch'] + left' <= expected'
      <4>1. n \in Nat  BY BulkBounds
      <4>2. QED  BY <2>1, <3>2, <4>1
    <3>4. QED  BY <2>1, <3>1, <3>2, <3>3 DEF OwnCounts
  <2>7. QED  BY <2>4, <2>6 DEF BatchInv
<1>8. CASE ResetCompleted
  BY <1>1, <1>4, <1>8 DEF ResetCompleted, OwnCounts, Counting
<1>9. CASE SubmitAttach
  <2>1. /\ left' = left - 1 /\ outstanding' = [outstanding EXCEPT ![batch] = @ + 1]
        /\ UNCHANGED <<main, batch, clean, registered, mme, completed, expected>>
        /\ main = "submit" /\ left > 0
    BY <1>9 DEF SubmitAttach
  <2>2. /\ outstanding'[batch] = outstanding[batch] + 1
        /\ \A b \in Batch : b # batch => outstanding'[b] = outstanding[b]
    BY <1>1, <2>1
  <2>3. \A b \in Batch : b > batch => b # batch  BY <1>1, <1>2
  <2>4. FutureInv'  BY <2>1, <2>2, <2>3 DEF BatchInv, FutureInv
  <2>5. ASSUME clean, OwnCounts PROVE OwnCounts'
    <3>1. registered[batch] + outstanding'[batch] + left' <= expected
      BY <1>1, <1>3, <2>1, <2>2, <2>5 DEF OwnCounts
    <3>2. QED  BY <2>1, <2>2, <2>5, <3>1 DEF OwnCounts, Counting
  <2>6. QED  BY <2>1, <2>4, <2>5 DEF BatchInv
<1>10. CASE AllSubmitted  BY <1>4, <1>10 DEF AllSubmitted, OwnCounts, Counting
<1>11. CASE TestAllDone  BY <1>1, <1>4, <1>11 DEF TestAllDone, OwnCounts, Counting
<1>12. CASE Sleep \/ SpuriousWakeup \/ Expire \/ EndBulk
  BY <1>4, <1>12 DEF Sleep, SpuriousWakeup, Expire, EndBulk, OwnCounts, Counting
<1>13. CASE WaitTimeout  BY <1>1, <1>4, <1>13 DEF WaitTimeout, OwnCounts, Counting
<1>14. CASE FetchAdd
  <2>1. /\ mme = "pushed" /\ completed' = completed + 1 /\ mme' \in {"notify", "idle"}
        /\ UNCHANGED <<main, left, attachVars, batch, clean, expected>>
    BY <1>14 DEF FetchAdd
  <2>2. ASSUME OwnCounts PROVE OwnCounts'
    <3>1. main # "reset"  BY <2>1, <2>2 DEF OwnCounts
    <3>2. completed + 1 = registered[batch]  BY <2>1, <2>2, <3>1 DEF OwnCounts, Counting
    <3>3. completed' + Counting' = registered[batch]  BY <1>1, <2>1, <3>2 DEF Counting
    <3>4. main = "alldone" => expected <= completed'  BY <1>1, <2>1, <2>2 DEF OwnCounts
    <3>5. QED  BY <2>1, <2>2, <3>1, <3>3, <3>4 DEF OwnCounts
  <2>3. QED  BY <1>4, <2>1, <2>2
<1>15. CASE NotifyAll  BY <1>1, <1>4, <1>15 DEF NotifyAll, OwnCounts, Counting
<1>16. ASSUME NEW b \in Batch, Push(b) PROVE BatchInv'
  <2>1. /\ outstanding[b] > 0 /\ outstanding[b] \in Nat /\ registered[b] \in Nat
        /\ mme = "idle" /\ mme' = "pushed" /\ main # "reset"
        /\ UNCHANGED <<main, left, batch, clean, completed, expected>>
        /\ outstanding'[b] = outstanding[b] - 1 /\ registered'[b] = registered[b] + 1
        /\ \A c \in Batch : c # b =>
             outstanding'[c] = outstanding[c] /\ registered'[c] = registered[c]
    BY <1>1, <1>16 DEF Push
  <2>2. ~(b > batch)  BY <2>1 DEF BatchInv, FutureInv
  <2>3. FutureInv'  BY <2>1, <2>2 DEF BatchInv, FutureInv
  <2>4. ASSUME OwnCounts PROVE OwnCounts'
    <3>1. b = batch  BY <2>1, <2>4 DEF OwnCounts
    <3>2. registered'[batch] + outstanding'[batch] + left <= expected
      BY <1>1, <1>3, <2>1, <2>4, <3>1 DEF OwnCounts
    <3>3. completed + Counting' = registered'[batch]
      <4>1. completed + 0 = registered[batch]  BY <2>1, <2>4 DEF OwnCounts, Counting
      <4>2. QED  BY <1>1, <1>3, <2>1, <3>1, <4>1 DEF Counting
    <3>4. \A c \in Batch : c # batch => outstanding'[c] = 0
      BY <2>1, <2>4, <3>1 DEF OwnCounts
    <3>5. QED  BY <2>1, <2>4, <3>2, <3>3, <3>4 DEF OwnCounts
  <2>5. QED  BY <2>1, <2>3, <2>4 DEF BatchInv
<1>17. ASSUME NEW b \in Batch, Drop(b) PROVE BatchInv'
  <2>1. /\ outstanding[b] > 0 /\ outstanding[b] \in Nat
        /\ UNCHANGED <<main, left, batch, clean, registered, mme, completed, expected>>
        /\ outstanding'[b] = outstanding[b] - 1
        /\ \A c \in Batch : c # b => outstanding'[c] = outstanding[c]
    BY <1>1, <1>17 DEF Drop
  <2>2. ~(b > batch)  BY <2>1 DEF BatchInv, FutureInv
  <2>3. FutureInv'  BY <2>1, <2>2 DEF BatchInv, FutureInv
  <2>4. ASSUME OwnCounts PROVE OwnCounts'
    <3>1. b = batch /\ main # "reset"  BY <2>1, <2>4 DEF OwnCounts
    <3>2. registered[batch] + outstanding'[batch] + left <= expected
      BY <1>1, <1>3, <2>1, <2>4, <3>1 DEF OwnCounts
    <3>3. \A c \in Batch : c # batch => outstanding'[c] = 0
      BY <2>1, <2>4, <3>1 DEF OwnCounts
    <3>4. QED  BY <2>1, <2>4, <3>1, <3>2, <3>3 DEF OwnCounts, Counting
  <2>5. QED  BY <2>1, <2>3, <2>4 DEF BatchInv
<1>18. QED
  BY <1>5, <1>6, <1>7, <1>8, <1>9, <1>10, <1>11, <1>12, <1>13, <1>14, <1>15, <1>16, <1>17
     DEF Next, Command, Bulk, Record, Attach

(* A batch started when no attach is under way is reported complete only if *)
(* each of its UEs has been registered, and then exactly those: no          *)
(* interleaving of recordAttach with startBulk and waitForAll counts more.  *)
THEOREM BulkCleanBatchIsHonest == Spec => []CleanBatchIsHonest
<1>1. Init => BatchInv
  BY DEF Init, BatchInv, FutureInv
<1>2. TypeOK /\ BatchInv /\ [Next]_vars => BatchInv'
  BY BatchStep
<1>3. TypeOK /\ BatchInv => CleanBatchIsHonest
  <2> SUFFICES ASSUME TypeOK, BatchInv, main = "alldone", clean
               PROVE  registered[batch] = expected
    BY DEF CleanBatchIsHonest
  <2>1. /\ left \in Nat /\ completed \in Nat /\ expected \in Nat
        /\ outstanding[batch] \in Nat /\ registered[batch] \in Nat
    BY DEF TypeOK
  <2>2. OwnCounts  BY DEF BatchInv
  <2>3. registered[batch] <= expected  BY <2>1, <2>2 DEF OwnCounts
  <2>4. expected <= registered[batch]  BY <2>1, <2>2 DEF OwnCounts, Counting
  <2>5. QED  BY <2>1, <2>3, <2>4
<1>4. QED  BY <1>1, <1>2, <1>3, BulkTypeCorrect, PTL DEF Spec
=============================================================================
