----------------------------- MODULE ThreadPool -----------------------------
(***************************************************************************)
(* The thread pool of the 4G simulator (4g-simulator/src/common/           *)
(* thread_pool.h): a queue of tasks under a mutex, a condition variable    *)
(* the workers sleep on, and a stop flag.  The main thread owns the pool:  *)
(* it submits tasks (BULK) and destroys the pool when it ends.             *)
(* condition_variable::wait is two steps, the predicate and the atomic     *)
(* release-and-sleep: a notification between them wakes nobody.            *)
(***************************************************************************)
EXTENDS Naturals, Sequences, FiniteSets

CONSTANTS
  Workers,    \* the worker threads
  MaxTasks    \* bound: tasks submitted

ASSUME PoolAssumption ==
  /\ IsFiniteSet(Workers) /\ Workers # {}
  /\ MaxTasks \in Nat

Free == "free"   \* mutex_ held by nobody
ASSUME FreeIsNoWorker == Free \notin Workers

VARIABLES
  mutex,       \* who holds mutex_
  queue,       \* queue_: tasks, numbered in the order of their submission
  stop,        \* stop_
  pc,          \* where each worker is in workerLoop
  task,        \* the task each worker took off the queue last
  owner,       \* where the main thread is
  submitted    \* tasks submitted so far

vars == <<mutex, queue, stop, pc, task, owner, submitted>>

WorkerPc == {"lock", "test", "tosleep", "wait", "run", "exited"}
OwnerPc  == {"idle", "notify", "notifyAll", "join", "gone"}

TypeOK ==
  /\ mutex \in Workers \cup {Free}
  /\ queue \in Seq(Nat)
  /\ stop \in BOOLEAN
  /\ pc \in [Workers -> WorkerPc]
  /\ task \in [Workers -> Nat]
  /\ owner \in OwnerPc
  /\ submitted \in Nat

(* The constructor has created the workers; each is about to lock the mutex. *)
Init ==
  /\ mutex = Free
  /\ queue = << >>
  /\ stop = FALSE
  /\ pc = [w \in Workers |-> "lock"]
  /\ task = [w \in Workers |-> 0]
  /\ owner = "idle"
  /\ submitted = 0
----------------------------------------------------------------------------
(* Mutant: the notification is forgotten. *)
SubmitSilently ==
  /\ owner = "idle"
  /\ mutex = Free
  /\ submitted < MaxTasks
  /\ submitted' = submitted + 1
  /\ queue' = Append(queue, submitted + 1)
  /\ UNCHANGED <<mutex, stop, pc, task, owner>>

(* submit: push under the lock, then notify_one without it. *)
Submit ==
  /\ owner = "idle"
  /\ mutex = Free
  /\ submitted < MaxTasks
  /\ submitted' = submitted + 1
  /\ queue' = Append(queue, submitted + 1)
  /\ owner' = "notify"
  /\ UNCHANGED <<mutex, stop, pc, task>>

NotifyOne ==
  /\ owner = "notify"
  /\ owner' = "idle"
  /\ \/ \E w \in Workers : pc[w] = "wait" /\ pc' = [pc EXCEPT ![w] = "lock"]
     \/ (\A w \in Workers : pc[w] # "wait") /\ UNCHANGED pc
  /\ UNCHANGED <<mutex, queue, stop, task, submitted>>

(* ~ThreadPool: the flag is set without the mutex, then notify_all and join. *)
SetStop ==
  /\ owner = "idle"
  /\ stop' = TRUE
  /\ owner' = "notifyAll"
  /\ UNCHANGED <<mutex, queue, pc, task, submitted>>

NotifyAll ==
  /\ owner = "notifyAll"
  /\ owner' = "join"
  /\ pc' = [w \in Workers |-> IF pc[w] = "wait" THEN "lock" ELSE pc[w]]
  /\ UNCHANGED <<mutex, queue, stop, task, submitted>>

Join ==
  /\ owner = "join"
  /\ \A w \in Workers : pc[w] = "exited"
  /\ owner' = "gone"
  /\ UNCHANGED <<mutex, queue, stop, pc, task, submitted>>
----------------------------------------------------------------------------
(* workerLoop.  The lock is taken on entry and again on waking. *)
Lock(w) ==
  /\ pc[w] = "lock"
  /\ mutex = Free
  /\ mutex' = w
  /\ pc' = [pc EXCEPT ![w] = "test"]
  /\ UNCHANGED <<queue, stop, task, owner, submitted>>

(* The predicate is false: the worker is about to sleep, still locked. *)
FindNothing(w) ==
  /\ pc[w] = "test"
  /\ queue = << >> /\ ~stop
  /\ pc' = [pc EXCEPT ![w] = "tosleep"]
  /\ UNCHANGED <<mutex, queue, stop, task, owner, submitted>>

Sleep(w) ==
  /\ pc[w] = "tosleep"
  /\ pc' = [pc EXCEPT ![w] = "wait"]
  /\ mutex' = Free
  /\ UNCHANGED <<queue, stop, task, owner, submitted>>

SpuriousWakeup(w) ==
  /\ pc[w] = "wait"
  /\ pc' = [pc EXCEPT ![w] = "lock"]
  /\ UNCHANGED <<mutex, queue, stop, task, owner, submitted>>

(* Mutant: the queue is not looked at once stop_ is set. *)
ExitOnStop(w) ==
  /\ pc[w] = "test"
  /\ stop
  /\ pc' = [pc EXCEPT ![w] = "exited"]
  /\ mutex' = Free
  /\ UNCHANGED <<queue, stop, task, owner, submitted>>

(* stop_ and an empty queue: the thread returns. *)
Exit(w) ==
  /\ pc[w] = "test"
  /\ stop /\ queue = << >>
  /\ pc' = [pc EXCEPT ![w] = "exited"]
  /\ mutex' = Free
  /\ UNCHANGED <<queue, stop, task, owner, submitted>>

(* Mutant: the front task is copied and stays in the queue. *)
CopyFront(w) ==
  /\ pc[w] = "test"
  /\ queue # << >>
  /\ task' = [task EXCEPT ![w] = Head(queue)]
  /\ pc' = [pc EXCEPT ![w] = "run"]
  /\ mutex' = Free
  /\ UNCHANGED <<queue, stop, owner, submitted>>

(* Otherwise the front task is moved out of the queue, stop_ set or not. *)
Pop(w) ==
  /\ pc[w] = "test"
  /\ queue # << >>
  /\ task' = [task EXCEPT ![w] = Head(queue)]
  /\ queue' = Tail(queue)
  /\ pc' = [pc EXCEPT ![w] = "run"]
  /\ mutex' = Free
  /\ UNCHANGED <<stop, owner, submitted>>

(* Mutant: the worker parks after its task instead of looping. *)
FinishAndPark(w) ==
  /\ pc[w] = "run"
  /\ pc' = [pc EXCEPT ![w] = "parked"]
  /\ UNCHANGED <<mutex, queue, stop, task, owner, submitted>>

(* task() returns; the loop starts again. *)
Finish(w) ==
  /\ pc[w] = "run"
  /\ pc' = [pc EXCEPT ![w] = "lock"]
  /\ UNCHANGED <<mutex, queue, stop, task, owner, submitted>>
----------------------------------------------------------------------------
WorkerLoop(w) ==
  Lock(w) \/ FindNothing(w) \/ Sleep(w) \/ Exit(w) \/ Pop(w) \/ Finish(w)

Owner == Submit \/ NotifyOne \/ SetStop \/ NotifyAll \/ Join

Next == Owner \/ \E w \in Workers : WorkerLoop(w) \/ SpuriousWakeup(w)

Spec == Init /\ [][Next]_vars

(* Each worker runs as long as it can and the main thread finishes a submit  *)
(* or a destructor it has begun.  Nothing obliges it to begin one, the mutex *)
(* promises no order among those who wait for it, and no spurious wake-up is *)
(* promised.                                                                 *)
Fairness ==
  /\ \A w \in Workers : WF_vars(WorkerLoop(w))
  /\ WF_vars(NotifyOne) /\ WF_vars(NotifyAll) /\ WF_vars(Join)

FairSpec == Spec /\ Fairness
----------------------------------------------------------------------------
Running == {w \in Workers : pc[w] = "run"}
Waiting == {w \in Workers : pc[w] = "wait"}
Coming  == {w \in Workers : pc[w] \in {"lock", "test"}}

(* notify_one is called after the lock is released, so a task may be taken   *)
(* by a worker the notification was not for, and the notified one may find   *)
(* nothing.  Still no wake-up is wasted: a worker sleeps only if every       *)
(* queued task has another worker coming for it, or a notification to come.  *)
WorkConserving ==
  Waiting # {} =>
    Len(queue) <= Cardinality(Coming) + (IF owner = "notify" THEN 1 ELSE 0)

(* The queue holds the tasks submitted last, in order, and nothing runs     *)
(* twice: two workers never execute the same task, nor one that is queued.  *)
TasksInOrder ==
  /\ Len(queue) <= submitted
  /\ \A i \in DOMAIN queue : queue[i] = submitted - Len(queue) + i
  /\ \A w \in Running : 0 < task[w] /\ task[w] <= submitted - Len(queue)
  /\ \A v, w \in Running : v # w => task[v] # task[w]

(* The lock is held exactly by the worker between its predicate and its      *)
(* sleep, exit or pop; stop_ is never taken back, and a worker that has      *)
(* exited leaves an empty queue that nobody fills again.                     *)
PoolInv ==
  /\ \A w \in Workers : pc[w] \in {"test", "tosleep"} <=> mutex = w
  /\ \A w \in Workers : pc[w] = "tosleep" => queue = << >>
  /\ stop <=> owner \in {"notifyAll", "join", "gone"}
  /\ \A w \in Workers : pc[w] = "exited" => stop /\ queue = << >>
  /\ owner = "gone" => \A w \in Workers : pc[w] = "exited"
  /\ TasksInOrder

(* The pool is a TaskPool: FIFO, exactly once, and drained before it is gone. *)
Abstract == INSTANCE TaskPool
  WITH Capacity <- Cardinality(Workers),
       started  <- submitted - Len(queue),
       running  <- {task[w] : w \in Running},
       gone     <- owner = "gone"

ImplementsTaskPool == Abstract!Spec

(* Every task that was submitted is executed to its end, whether or not the *)
(* pool is destroyed meanwhile.                                             *)
AllTasksRun ==
  \A t \in 1 .. MaxTasks :
    (submitted >= t) ~> (submitted - Len(queue) >= t /\ \A w \in Running : task[w] # t)

(* thread_pool.h:27: "shutdown: stop_=true -> notify_all -> workers see stop *)
(* && empty -> exit", and line 64, "wake ALL workers so they see stop_ and   *)
(* exit": the destructor's join returns.                                     *)
ShutdownCompletes == (owner = "join") ~> (owner = "gone")
=============================================================================
