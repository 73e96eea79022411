-------------------------- MODULE ThreadPool_proofs --------------------------
(***************************************************************************)
(* Proofs about the thread pool, for any finite set of workers and any     *)
(* number of tasks.                                                        *)
(***************************************************************************)
EXTENDS ThreadPool, FiniteSetTheorems, TLAPS

THEOREM PoolTypeCorrect == Spec => []TypeOK
<1>1. Init => TypeOK
  <2> SUFFICES ASSUME Init PROVE TypeOK
    OBVIOUS
  <2>1. pc \in [Workers -> WorkerPc] /\ task \in [Workers -> Nat]  BY DEF Init, WorkerPc
  <2>2. queue \in Seq(Nat) /\ submitted \in Nat  BY DEF Init
  <2>3. stop \in BOOLEAN /\ owner \in OwnerPc /\ mutex \in Workers \cup {Free}
    BY DEF Init, OwnerPc
  <2>4. QED  BY <2>1, <2>2, <2>3 DEF TypeOK
<1>2. TypeOK /\ [Next]_vars => TypeOK'
  <2> SUFFICES ASSUME TypeOK, [Next]_vars PROVE TypeOK'
    OBVIOUS
  <2> USE DEF TypeOK, WorkerPc, OwnerPc
  <2>1. CASE UNCHANGED vars  BY <2>1 DEF vars
  <2>2. CASE Submit  BY <2>2 DEF Submit
  <2>3. CASE NotifyOne  BY <2>3 DEF NotifyOne
  <2>4. CASE SetStop  BY <2>4 DEF SetStop
  <2>5. CASE NotifyAll  BY <2>5 DEF NotifyAll
  <2>6. CASE Join  BY <2>6 DEF Join
  <2>7. ASSUME NEW w \in Workers, Lock(w) PROVE TypeOK'  BY <2>7 DEF Lock
  <2>8. ASSUME NEW w \in Workers, FindNothing(w) PROVE TypeOK'  BY <2>8 DEF FindNothing
  <2>9. ASSUME NEW w \in Workers, Sleep(w) PROVE TypeOK'  BY <2>9 DEF Sleep
  <2>10. ASSUME NEW w \in Workers, Exit(w) PROVE TypeOK'  BY <2>10 DEF Exit
  <2>11. ASSUME NEW w \in Workers, Pop(w) PROVE TypeOK'
    <3>1. Head(queue) \in Nat /\ Tail(queue) \in Seq(Nat)  BY <2>11 DEF Pop
    <3>2. QED  BY <2>11, <3>1 DEF Pop
  <2>12. ASSUME NEW w \in Workers, Finish(w) PROVE TypeOK'  BY <2>12 DEF Finish
  <2>13. ASSUME NEW w \in Workers, SpuriousWakeup(w) PROVE TypeOK'
    BY <2>13 DEF SpuriousWakeup
  <2>14. QED
    BY <2>1, <2>2, <2>3, <2>4, <2>5, <2>6, <2>7, <2>8, <2>9, <2>10, <2>11, <2>12, <2>13
       DEF Next, Owner, WorkerLoop
<1>3. QED  BY <1>1, <1>2, PTL DEF Spec

(* The numbering of the queue, kept by a push and by a pop. *)
LEMMA PushInOrder ==
  ASSUME TypeOK, TasksInOrder, submitted' = submitted + 1,
         queue' = Append(queue, submitted + 1), UNCHANGED <<pc, task>>
  PROVE  TasksInOrder'
<1>1. /\ Len(queue) \in Nat /\ Len(queue') = Len(queue) + 1
      /\ DOMAIN queue = 1 .. Len(queue) /\ DOMAIN queue' = 1 .. Len(queue) + 1
      /\ \A i \in DOMAIN queue : queue'[i] = queue[i]
      /\ queue'[Len(queue) + 1] = submitted + 1
  BY DEF TypeOK
<1>2. Running' = Running /\ submitted \in Nat  BY DEF Running, TypeOK
<1>3. QED  BY <1>1, <1>2 DEF TasksInOrder

LEMMA PopInOrder ==
  ASSUME TypeOK, TasksInOrder, NEW w \in Workers, Pop(w)
  PROVE  TasksInOrder'
<1>1. /\ Len(queue) \in Nat \ {0} /\ Len(queue') = Len(queue) - 1
      /\ DOMAIN queue = 1 .. Len(queue) /\ DOMAIN queue' = 1 .. Len(queue) - 1
      /\ \A i \in DOMAIN queue' : queue'[i] = queue[i + 1]
      /\ Head(queue) = queue[1]
  BY DEF TypeOK, Pop
<1>2. queue[1] = submitted - Len(queue) + 1 /\ Len(queue) <= submitted  BY <1>1 DEF TasksInOrder
<1>3. Running' = Running \cup {w} /\ w \notin Running /\ submitted' = submitted
      /\ submitted \in Nat
  BY DEF Pop, Running, TypeOK
<1>4. task' = [task EXCEPT ![w] = queue[1]] /\ task \in [Workers -> Nat]
  BY <1>1 DEF Pop, TypeOK
<1>5. \A i \in DOMAIN queue' : queue'[i] = submitted' - Len(queue') + i
  BY <1>1, <1>3 DEF TasksInOrder
<1>6. \A v \in Running : task'[v] = task[v] /\ task[v] <= submitted - Len(queue) /\ 0 < task[v]
  BY <1>3, <1>4 DEF TasksInOrder, Running
<1>7. task'[w] = submitted - Len(queue) + 1  BY <1>2, <1>4
<1>8. \A v \in Running' : 0 < task'[v] /\ task'[v] <= submitted' - Len(queue')
  <2>1. \A v \in Running : task[v] \in Nat  BY <1>4 DEF Running
  <2>2. QED  BY <1>1, <1>2, <1>3, <1>6, <1>7, <2>1
<1>9. ASSUME NEW v \in Running', NEW u \in Running', v # u
      PROVE  task'[v] # task'[u]
  <2>1. \A x \in Running : task[x] \in Nat  BY <1>4 DEF Running
  <2>2. \A x \in Running : task'[x] # task'[w]  BY <1>1, <1>2, <1>3, <1>6, <1>7, <2>1
  <2>3. QED  BY <1>3, <1>6, <1>9, <2>2 DEF TasksInOrder
<1>10. QED  BY <1>1, <1>2, <1>3, <1>5, <1>8, <1>9 DEF TasksInOrder

(* Mutual exclusion, the order of the queue and an empty queue behind every *)
(* worker that has exited.                                                  *)
THEOREM PoolInvariant == Spec => []PoolInv
<1>1. Init => PoolInv
  BY FreeIsNoWorker DEF Init, PoolInv, TasksInOrder, Running
<1>2. TypeOK /\ PoolInv /\ [Next]_vars => PoolInv'
  <2> SUFFICES ASSUME TypeOK, PoolInv, [Next]_vars PROVE PoolInv'
    OBVIOUS
  <2>0. TasksInOrder  BY DEF PoolInv
  <2>a. ASSUME UNCHANGED <<queue, submitted>>, \A w \in Running' : w \in Running,
               \A w \in Running' : task'[w] = task[w]
        PROVE  TasksInOrder'
    BY <2>0, <2>a DEF TasksInOrder
  <2> USE FreeIsNoWorker DEF TypeOK, PoolInv
  <2>1. CASE UNCHANGED vars
    <3>1. TasksInOrder'  BY <2>1, <2>a DEF vars, Running
    <3>2. QED  BY <2>1, <3>1 DEF vars
  <2>2. CASE Submit
    <3>1. TasksInOrder'  BY <2>0, <2>2, PushInOrder DEF Submit
    <3>2. QED  BY <2>2, <3>1 DEF Submit
  <2>3. CASE NotifyOne
    <3>1. TasksInOrder'  BY <2>3, <2>a DEF NotifyOne, Running
    <3>2. QED  BY <2>3, <3>1 DEF NotifyOne
  <2>4. CASE SetStop
    <3>1. TasksInOrder'  BY <2>4, <2>a DEF SetStop, Running
    <3>2. QED  BY <2>4, <3>1 DEF SetStop
  <2>5. CASE NotifyAll
    <3>1. TasksInOrder'  BY <2>5, <2>a DEF NotifyAll, Running
    <3>2. QED  BY <2>5, <3>1 DEF NotifyAll
  <2>6. CASE Join
    <3>1. TasksInOrder'  BY <2>6, <2>a DEF Join, Running
    <3>2. QED  BY <2>6, <3>1 DEF Join
  <2>7. ASSUME NEW w \in Workers, Lock(w) PROVE PoolInv'
    <3>1. TasksInOrder'  BY <2>7, <2>a DEF Lock, Running
    <3>2. QED  BY <2>7, <3>1 DEF Lock
  <2>8. ASSUME NEW w \in Workers, FindNothing(w) PROVE PoolInv'
    <3>1. TasksInOrder'  BY <2>8, <2>a DEF FindNothing, Running
    <3>2. QED  BY <2>8, <3>1 DEF FindNothing
  <2>9. ASSUME NEW w \in Workers, Sleep(w) PROVE PoolInv'
    <3>1. TasksInOrder'  BY <2>9, <2>a DEF Sleep, Running
    <3>2. QED  BY <2>9, <3>1 DEF Sleep
  <2>10. ASSUME NEW w \in Workers, Exit(w) PROVE PoolInv'
    <3>1. TasksInOrder'  BY <2>10, <2>a DEF Exit, Running
    <3>2. QED  BY <2>10, <3>1 DEF Exit
  <2>11. ASSUME NEW w \in Workers, Pop(w) PROVE PoolInv'
    <3>1. TasksInOrder'  BY <2>0, <2>11, PopInOrder
    <3>2. QED  BY <2>11, <3>1 DEF Pop
  <2>12. ASSUME NEW w \in Workers, Finish(w) PROVE PoolInv'
    <3>1. TasksInOrder'  BY <2>12, <2>a DEF Finish, Running
    <3>2. QED  BY <2>12, <3>1 DEF Finish
  <2>13. ASSUME NEW w \in Workers, SpuriousWakeup(w) PROVE PoolInv'
    <3>1. TasksInOrder'  BY <2>13, <2>a DEF SpuriousWakeup, Running
    <3>2. QED  BY <2>13, <3>1 DEF SpuriousWakeup
  <2>14. QED
    BY <2>1, <2>2, <2>3, <2>4, <2>5, <2>6, <2>7, <2>8, <2>9, <2>10, <2>11, <2>12, <2>13
       DEF Next, Owner, WorkerLoop
<1>3. QED  BY <1>1, <1>2, PoolTypeCorrect, PTL DEF Spec

(* Whatever the interleaving of submits, pops and wake-ups, a task is started *)
(* in the order of submission and by one worker only.                         *)
THEOREM PoolTasksInOrder == Spec => []TasksInOrder
  BY PoolInvariant, PTL DEF PoolInv
----------------------------------------------------------------------------
(* Counting the workers that are coming for a task. *)
LEMMA CountFacts ==
  ASSUME NEW S \in SUBSET Workers, NEW w \in Workers
  PROVE  /\ Cardinality(S) \in Nat
         /\ w \notin S => Cardinality(S \cup {w}) = Cardinality(S) + 1
         /\ w \in S => Cardinality(S \ {w}) = Cardinality(S) - 1
<1>1. IsFiniteSet(S)  BY PoolAssumption, FS_Subset
<1>2. QED  BY <1>1, FS_CardinalityType, FS_AddElement, FS_RemoveElement

(* A worker sleeps only if every queued task has another worker coming for  *)
(* it or a notification on its way: notify_one after the unlock wastes no   *)
(* wake-up, for any number of workers and tasks.                            *)
THEOREM PoolWorkConserving == Spec => []WorkConserving
<1>1. Init => WorkConserving
  BY DEF Init, WorkConserving, Waiting
<1>2. TypeOK /\ PoolInv /\ WorkConserving /\ [Next]_vars => WorkConserving'
  <2> SUFFICES ASSUME TypeOK, PoolInv, WorkConserving, [Next]_vars PROVE WorkConserving'
    OBVIOUS
  <2> DEFINE n == Cardinality(Coming)
             k == IF owner = "notify" THEN 1 ELSE 0
  <2>0. n \in Nat /\ k \in Nat /\ Len(queue) \in Nat /\ n' \in Nat
    <3>1. Coming \in SUBSET Workers /\ Coming' \in SUBSET Workers  BY DEF Coming
    <3>2. n \in Nat /\ n' \in Nat  BY <3>1, CountFacts, PoolAssumption
    <3>3. QED  BY <3>2 DEF TypeOK
  <2>a. Waiting # {} => Len(queue) <= n + k  BY DEF WorkConserving
  <2>b. ASSUME Waiting' # {} => Len(queue') <= n' + k' PROVE WorkConserving'
    BY <2>b DEF WorkConserving
  <2>c. ASSUME UNCHANGED <<queue, owner>>, Coming' = Coming, Waiting' # {} => Waiting # {}
        PROVE  WorkConserving'
    BY <2>a, <2>c DEF WorkConserving
  <2>1. CASE UNCHANGED vars  BY <2>1, <2>c DEF vars, Coming, Waiting
  <2>2. CASE Submit
    <3>1. Coming' = Coming /\ Waiting' = Waiting  BY <2>2 DEF Submit, Coming, Waiting
    <3>2. Len(queue') = Len(queue) + 1 /\ k = 0 /\ k' = 1  BY <2>2 DEF Submit, TypeOK
    <3>3. QED  BY <2>0, <2>a, <2>b, <3>1, <3>2
  <2>3. CASE NotifyOne
    <3>1. k = 1 /\ k' = 0 /\ queue' = queue  BY <2>3 DEF NotifyOne
    <3>2. CASE Waiting = {}
      BY <2>3, <2>b, <3>2 DEF NotifyOne, Waiting
    <3>3. CASE Waiting # {}
      <4>1. PICK w \in Workers : pc[w] = "wait" /\ pc' = [pc EXCEPT ![w] = "lock"]
        BY <2>3, <3>3 DEF NotifyOne, Waiting
      <4>2. Coming' = Coming \cup {w} /\ w \notin Coming  BY <4>1 DEF Coming, TypeOK
      <4>3. n' = n + 1
        <5>1. Coming \in SUBSET Workers  BY DEF Coming
        <5>2. QED  BY <4>2, <5>1, CountFacts
      <4>4. QED  BY <2>0, <2>a, <2>b, <3>1, <3>3, <4>3
    <3>4. QED  BY <3>2, <3>3
  <2>4. CASE SetStop
    <3>1. k = 0 /\ k' = 0 /\ queue' = queue  BY <2>4 DEF SetStop
    <3>2. Coming' = Coming /\ Waiting' = Waiting  BY <2>4 DEF SetStop, Coming, Waiting
    <3>3. QED  BY <2>0, <2>a, <2>b, <3>1, <3>2
  <2>5. CASE NotifyAll
    <3>1. Waiting' = {}  BY <2>5 DEF NotifyAll, Waiting, TypeOK
    <3>2. QED  BY <2>b, <3>1
  <2>6. CASE Join
    <3>1. k = 0 /\ k' = 0 /\ queue' = queue  BY <2>6 DEF Join
    <3>2. Coming' = Coming /\ Waiting' = Waiting  BY <2>6 DEF Join, Coming, Waiting
    <3>3. QED  BY <2>0, <2>a, <2>b, <3>1, <3>2
  <2>7. ASSUME NEW w \in Workers, Lock(w) PROVE WorkConserving'
    <3>1. Coming' = Coming /\ Waiting' = Waiting  BY <2>7 DEF Lock, Coming, Waiting, TypeOK
    <3>2. QED  BY <2>7, <2>c, <3>1 DEF Lock
  <2>8. ASSUME NEW w \in Workers, FindNothing(w) PROVE WorkConserving'
    <3>1. Len(queue') = 0 /\ k' \in Nat  BY <2>8 DEF FindNothing
    <3>2. QED  BY <2>0, <2>b, <3>1
  <2>9. ASSUME NEW w \in Workers, Sleep(w) PROVE WorkConserving'
    <3>1. Len(queue') = 0 /\ k' \in Nat  BY <2>9 DEF Sleep, PoolInv
    <3>2. QED  BY <2>0, <2>b, <3>1
  <2>10. ASSUME NEW w \in Workers, Exit(w) PROVE WorkConserving'
    <3>1. Len(queue') = 0 /\ k' \in Nat  BY <2>10 DEF Exit
    <3>2. QED  BY <2>0, <2>b, <3>1
  <2>11. ASSUME NEW w \in Workers, Pop(w) PROVE WorkConserving'
    <3>1. Len(queue') = Len(queue) - 1 /\ k' = k  BY <2>11 DEF Pop, TypeOK
    <3>2. Coming' = Coming \ {w} /\ w \in Coming /\ Waiting' = Waiting
      BY <2>11 DEF Pop, Coming, Waiting, TypeOK
    <3>3. n' = n - 1
      <4>1. Coming \in SUBSET Workers  BY DEF Coming
      <4>2. QED  BY <3>2, <4>1, CountFacts
    <3>4. QED  BY <2>0, <2>a, <2>b, <3>1, <3>2, <3>3
  <2>12. ASSUME NEW w \in Workers, Finish(w) \/ SpuriousWakeup(w) PROVE WorkConserving'
    <3>1. Coming' = Coming \cup {w} /\ w \notin Coming /\ (Waiting' # {} => Waiting # {})
      BY <2>12 DEF Finish, SpuriousWakeup, Coming, Waiting, TypeOK
    <3>2. n' = n + 1
      <4>1. Coming \in SUBSET Workers  BY DEF Coming
      <4>2. QED  BY <3>1, <4>1, CountFacts
    <3>3. queue' = queue /\ k' = k  BY <2>12 DEF Finish, SpuriousWakeup
    <3>4. QED  BY <2>0, <2>a, <2>b, <3>1, <3>2, <3>3
  <2>13. QED
    BY <2>1, <2>2, <2>3, <2>4, <2>5, <2>6, <2>7, <2>8, <2>9, <2>10, <2>11, <2>12
       DEF Next, Owner, WorkerLoop
<1>3. QED  BY <1>1, <1>2, PoolTypeCorrect, PoolInvariant, PTL DEF Spec
----------------------------------------------------------------------------
(* The refinement: what the workers execute, as TaskPool sees it. *)
Started == submitted - Len(queue)
Tasks   == {task[w] : w \in Running}

LEMMA FewerThanWorkers ==
  ASSUME TypeOK, NEW w \in Workers, w \notin Running
  PROVE  Cardinality(Tasks) < Cardinality(Workers)
<1>1. IsFiniteSet(Running)  BY PoolAssumption, FS_Subset DEF Running
<1> DEFINE f == [v \in Running |-> task[v]]
<1>2. IsFiniteSet(Tasks) /\ Cardinality(Tasks) <= Cardinality(Running)
  <2>1. f \in Surjection(Running, Tasks)  BY DEF Surjection, Tasks
  <2> HIDE DEF f
  <2>2. QED  BY <1>1, <2>1, FS_Surjection
<1>3. Running \subseteq Workers \ {w}  BY DEF Running
<1>4. IsFiniteSet(Workers \ {w}) /\ Cardinality(Workers \ {w}) = Cardinality(Workers) - 1
  BY PoolAssumption, FS_RemoveElement
<1>5. Cardinality(Running) <= Cardinality(Workers \ {w})  BY <1>3, <1>4, FS_Subset
<1>6. /\ Cardinality(Running) \in Nat /\ Cardinality(Workers) \in Nat
      /\ Cardinality(Tasks) \in Nat
  BY <1>1, <1>2, PoolAssumption, FS_CardinalityType
<1>7. QED  BY <1>2, <1>4, <1>5, <1>6

(* The pool implements its abstract specification: tasks start in the order *)
(* they were submitted, each once, never more at a time than there are      *)
(* workers, and when the destructor returns all of them have run.           *)
THEOREM PoolImplementsTaskPool == Spec => ImplementsTaskPool
<1>1. Init => Abstract!Init
  <2> SUFFICES ASSUME Init PROVE Abstract!Init
    OBVIOUS
  <2>1. Running = {}  BY DEF Init, Running
  <2>2. {task[w] : w \in Running} = {}  BY <2>1
  <2>3. submitted = 0 /\ submitted - Len(queue) = 0
    <3>1. submitted = 0 /\ Len(queue) = 0  BY DEF Init
    <3>2. QED  BY <3>1
  <2>4. owner # "gone"  BY DEF Init
  <2>5. (owner = "gone") = FALSE  BY <2>4, Zenon
  <2>6. QED  BY <2>2, <2>3, <2>5, Zenon DEF Abstract!Init
<1>2. TypeOK /\ PoolInv /\ [Next]_vars => [Abstract!Next]_(Abstract!vars)
  <2> SUFFICES ASSUME TypeOK, PoolInv, [Next]_vars
               PROVE  [Abstract!Next]_(Abstract!vars)
    OBVIOUS
  <2>0. TasksInOrder /\ Len(queue) \in Nat /\ submitted \in Nat  BY DEF PoolInv, TypeOK
  <2>a. ASSUME UNCHANGED <<queue, submitted, task, Running>>,
               (owner = "gone") <=> (owner' = "gone")
        PROVE  UNCHANGED Abstract!vars
    BY <2>a DEF Abstract!vars
  <2>1. CASE UNCHANGED vars  BY <2>1, <2>a DEF vars, Running
  <2>2. CASE Submit
    <3>1. Running' = Running /\ UNCHANGED task  BY <2>2 DEF Submit, Running
    <3>2. Len(queue') = Len(queue) + 1  BY <2>2 DEF Submit, TypeOK
    <3>3. submitted' - Len(queue') = submitted - Len(queue)
      BY <2>0, <2>2, <3>2 DEF Submit
    <3>4. Abstract!Submit  BY <2>2, <3>1, <3>3 DEF Submit, Abstract!Submit
    <3>5. QED  BY <3>4 DEF Abstract!Next
  <2>3. CASE NotifyOne
    <3>1. Running' = Running  BY <2>3 DEF NotifyOne, Running, TypeOK
    <3>2. QED  BY <2>3, <2>a, <3>1 DEF NotifyOne
  <2>4. CASE SetStop
    <3>1. Running' = Running  BY <2>4 DEF SetStop, Running
    <3>2. QED  BY <2>4, <2>a, <3>1 DEF SetStop
  <2>5. CASE NotifyAll
    <3>1. Running' = Running  BY <2>5 DEF NotifyAll, Running, TypeOK
    <3>2. QED  BY <2>5, <2>a, <3>1 DEF NotifyAll
  <2>6. CASE Join
    <3>1. Running = {} /\ Running' = {}  BY <2>6 DEF Join, Running
    <3>2. queue = << >>  BY <2>6, PoolAssumption DEF Join, PoolInv
    <3>3. submitted - Len(queue) = submitted /\ UNCHANGED <<queue, submitted, task>>
      BY <2>0, <2>6, <3>2 DEF Join
    <3>4. Abstract!Destroy  BY <2>6, <3>1, <3>3 DEF Join, Abstract!Destroy
    <3>5. QED  BY <3>4 DEF Abstract!Next
  <2>7. ASSUME NEW w \in Workers, Lock(w) \/ FindNothing(w) \/ Sleep(w) \/ Exit(w)
                                  \/ SpuriousWakeup(w)
        PROVE  UNCHANGED Abstract!vars
    <3>1. Running' = Running
      BY <2>7 DEF Lock, FindNothing, Sleep, Exit, SpuriousWakeup, Running, TypeOK
    <3>2. QED  BY <2>7, <2>a, <3>1 DEF Lock, FindNothing, Sleep, Exit, SpuriousWakeup
  <2>8. ASSUME NEW w \in Workers, Pop(w) PROVE Abstract!Next
    <3>1. w \notin Running /\ Running' = Running \cup {w}
      BY <2>8 DEF Pop, Running, TypeOK
    <3>2. Cardinality(Tasks) < Cardinality(Workers)  BY <3>1, FewerThanWorkers
    <3>3. /\ Len(queue') = Len(queue) - 1 /\ Len(queue) # 0 /\ Head(queue) = queue[1]
          /\ 1 \in DOMAIN queue
      BY <2>8 DEF Pop, TypeOK
    <3>4. Head(queue) = Started + 1 /\ Len(queue) <= submitted
      BY <2>0, <3>3 DEF TasksInOrder, Started
    <3>5. Started' = Started + 1 /\ Started < submitted
      BY <2>0, <2>8, <3>3, <3>4 DEF Started, Pop
    <3>6. Tasks' = Tasks \cup {Started + 1}
      <4>1. task'[w] = Started + 1 /\ \A v \in Running : task'[v] = task[v]
        BY <2>8, <3>1, <3>4 DEF Pop, TypeOK, Running
      <4>2. QED  BY <3>1, <4>1 DEF Tasks
    <3>7. UNCHANGED <<submitted, owner = "gone">>  BY <2>8 DEF Pop
    <3>8. Abstract!Start
      <4>1. Started < submitted /\ Started' = Started + 1  BY <3>5
      <4>2. Abstract!Cardinality(Tasks) = Cardinality(Tasks)
        BY Zenon DEF Cardinality, Abstract!Cardinality, IsFiniteSet, Abstract!IsFiniteSet
      <4>3. QED
        BY <3>2, <3>6, <3>7, <4>1, <4>2, Zenon DEF Abstract!Start, Tasks, Started
    <3>9. QED  BY <3>8 DEF Abstract!Next
  <2>9. ASSUME NEW w \in Workers, Finish(w) PROVE Abstract!Next
    <3>1. w \in Running /\ Running' = Running \ {w} /\ UNCHANGED <<task, queue, submitted, owner>>
      BY <2>9 DEF Finish, Running, TypeOK
    <3>2. task[w] \in Tasks /\ Tasks' = Tasks \ {task[w]}
      BY <2>0, <3>1 DEF Tasks, TasksInOrder
    <3>3. Abstract!Finish(task[w])
      BY <3>1, <3>2 DEF Abstract!Finish, Tasks
    <3>4. QED  BY <3>2, <3>3 DEF Abstract!Next, Abstract!Finish, Tasks
  <2>10. QED
    BY <2>1, <2>2, <2>3, <2>4, <2>5, <2>6, <2>7, <2>8, <2>9 DEF Next, Owner, WorkerLoop
<1>3. QED
  BY <1>1, <1>2, PoolTypeCorrect, PoolInvariant, PTL
     DEF Spec, ImplementsTaskPool, Abstract!Spec
==============================================================================
