-------------------------- MODULE ThreadPoolProofs --------------------------
(***************************************************************************)
(* Theorems about ThreadPool for every set of workers, clients and tasks.  *)
(* TypeOK /\ PoolProtocol /\ TasksAccounted is inductive; the theorems     *)
(* follow from it, or are proved relative to it.                           *)
(***************************************************************************)
EXTENDS ThreadPool, FiniteSetTheorems, TLAPS

\* A worker is seen with the mutex only while it decides to sleep, and what its
\* predicate saw is still so.
MutexHeld == \A w \in Workers : mutex = w <=> pc[w] = "park"
ParkedView == (\E w \in Workers : pc[w] = "park") => ~stop_ /\ tasks_ = <<>>

\* Whatever follows from stop_ comes after it was set.
FlagFirst == stopper # "out" \/ stops > 0 \/ (\E w \in Workers : pc[w] = "exited") => stop_

\* A call of stop() that is under way is within the bound.
StopCounted == stopper # "out" => stops < MaxStops

\* A worker holds a task exactly while it executes it.
TaskHeld == \A w \in Workers : task[w] = NoTask <=> pc[w] # "run"

\* When stop() has returned there is no worker left.
ClosedPool == stops > 0 => \A w \in Workers : pc[w] = "exited"

PoolProtocol == /\ MutexHeld /\ ParkedView /\ FlagFirst /\ StopCounted /\ TaskHeld /\ ClosedPool
                /\ JoinedWorkersAwake

Elements(q) == {q[i] : i \in DOMAIN q}
Queued == Elements(tasks_)

\* A submitted task is in the queue, with one worker, or executed.
TasksAccounted ==
  /\ enqueued = Queued \cup Running \cup executed
  /\ late \subseteq enqueued
  /\ Queued \cap Running = {}
  /\ \A i, j \in DOMAIN tasks_ : tasks_[i] = tasks_[j] => i = j
  /\ \A v, w \in Workers : task[v] = task[w] /\ pc[v] = "run" => v = w

\* What the last worker leaves behind came late.
NothingOwedLeft ==
  Workers # {} /\ (\A w \in Workers : pc[w] = "exited") => Queued \subseteq late

IInv == TypeOK /\ PoolProtocol

LEMMA PoolFacts ==
  /\ Free \notin Workers /\ NoTask \notin Tasks
  /\ Clients \cap Tasks = {}
  /\ Submitter \in [Tasks -> Clients \cup Tasks]
  /\ MaxStops \in Nat /\ MaxSpurious \in Nat
BY PoolAssumption

\* Initially no task is known and every worker is about to look for one.
LEMMA InitIInv == Init => IInv
<1> SUFFICES ASSUME Init PROVE IInv
  OBVIOUS
<1> USE PoolFacts DEF Init
<1>1. TypeOK
  <2>1. 0 \in 0..MaxStops /\ 0 \in 0..MaxSpurious
    OBVIOUS
  <2>2. mutex \in Workers \cup {Free} /\ stop_ \in BOOLEAN
    OBVIOUS
  <2>3. tasks_ \in Seq(Tasks)
    OBVIOUS
  <2>4. /\ pc \in [Workers -> {"lock", "park", "wait", "run", "exited"}]
        /\ task \in [Workers -> Tasks \cup {NoTask}]
    OBVIOUS
  <2>5. notifying \subseteq Submitters /\ stopper \in {"out", "notify", "join"}
    OBVIOUS
  <2> QED BY <2>1, <2>2, <2>3, <2>4, <2>5 DEF TypeOK
<1>2. PoolProtocol
  BY DEF PoolProtocol, MutexHeld, ParkedView, FlagFirst, StopCounted, TaskHeld, ClosedPool,
         JoinedWorkersAwake
<1> QED BY <1>1, <1>2 DEF IInv

\* notify_one moves at most one sleeper back to the mutex.
LEMMA NotifyEffect ==
  ASSUME TypeOK, NEW s, EnqueueNotify(s)
  PROVE  /\ pc' \in [Workers -> {"lock", "park", "wait", "run", "exited"}]
         /\ \A w \in Workers : \/ pc'[w] = pc[w]
                               \/ pc[w] = "wait" /\ pc'[w] = "lock"
BY DEF TypeOK, EnqueueNotify, Asleep

\* Every step keeps the invariant.
LEMMA NextIInv == IInv /\ [Next]_vars => IInv'
<1> SUFFICES ASSUME IInv, [Next]_vars PROVE IInv'
  OBVIOUS
<1> USE PoolFacts
<1> USE DEF IInv, TypeOK, PoolProtocol, MutexHeld, ParkedView, FlagFirst, StopCounted, TaskHeld,
            ClosedPool, JoinedWorkersAwake, histories
<1>1. ASSUME NEW s \in Submitters, NEW t \in Tasks, EnqueuePush(s, t) PROVE IInv'
  BY <1>1 DEF EnqueuePush, Submitters
<1>2. ASSUME NEW s \in Submitters, EnqueueNotify(s) PROVE IInv'
  <2>1. UNCHANGED <<mutex, tasks_, stop_, task, stopper, stops, enqueued, executed, late, spurious>>
        /\ notifying' \subseteq Submitters
    BY <1>2 DEF EnqueueNotify
  <2> QED BY <1>2, <2>1, NotifyEffect
<1>3. ASSUME NEW w \in Workers, WorkerProceed(w) PROVE IInv'
  <2>1. CASE tasks_ = <<>>
    BY <1>3, <2>1 DEF WorkerProceed
  <2>2. CASE tasks_ # <<>>
    <3>1. Head(tasks_) \in Tasks /\ Tail(tasks_) \in Seq(Tasks)
      BY <2>2
    <3>2. /\ pc[w] = "lock" /\ pc' = [pc EXCEPT ![w] = "run"]
          /\ task' = [task EXCEPT ![w] = Head(tasks_)] /\ tasks_' = Tail(tasks_)
          /\ UNCHANGED <<mutex, stop_, notifying, stopper, stops, histories, spurious>>
      BY <1>3, <2>2 DEF WorkerProceed
    <3>3. TypeOK'
      BY <3>1, <3>2
    <3>4. MutexHeld' /\ ParkedView' /\ FlagFirst' /\ StopCounted'
      BY <3>1, <3>2
    <3>5. TaskHeld'
      BY <3>1, <3>2
    <3>6. ClosedPool' /\ JoinedWorkersAwake'
      BY <3>1, <3>2
    <3> QED BY <3>3, <3>4, <3>5, <3>6
  <2> QED BY <2>1, <2>2
<1>4. ASSUME NEW w \in Workers, WorkerPark(w) PROVE IInv'
  BY <1>4 DEF WorkerPark
<1>5. ASSUME NEW w \in Workers, WorkerSleep(w) PROVE IInv'
  BY <1>5 DEF WorkerSleep
<1>6. ASSUME NEW w \in Workers, WorkerFinish(w) PROVE IInv'
  BY <1>6 DEF WorkerFinish
<1>7. ASSUME NEW w \in Workers, WorkerSpurious(w) PROVE IInv'
  BY <1>7 DEF WorkerSpurious
<1>8. CASE StopSet
  BY <1>8 DEF StopSet
<1>9. CASE StopNotifyAll
  BY <1>9 DEF StopNotifyAll
<1>10. CASE StopJoin
  BY <1>10 DEF StopJoin
<1>11. CASE UNCHANGED vars
  BY <1>11 DEF vars
<1> QED
  BY <1>1, <1>2, <1>3, <1>4, <1>5, <1>6, <1>7, <1>8, <1>9, <1>10, <1>11
     DEF Next, Enqueue, Worker, Stop

\* Every worker keeps to the protocol, and none sleeps through the join.
THEOREM JoinedAwake == Spec => [](TypeOK /\ JoinedWorkersAwake)
<1>1. IInv => TypeOK /\ JoinedWorkersAwake
  BY DEF IInv, PoolProtocol
<1> QED BY InitIInv, NextIInv, <1>1, PTL DEF Spec

\* Every variable of the pool and of its workers stays in its type.
THEOREM Types == Spec => []TypeOK
<1> QED BY JoinedAwake, PTL

\* A step that follows the return of stop() executes nothing: all workers have
\* left, and only a worker starts or ends a task.
LEMMA ClosedStep ==
  ASSUME IInv, [Next]_vars, stops > 0
  PROVE  executed' = executed /\ task' = task
<1>1. \A w \in Workers : pc[w] = "exited"
  BY DEF IInv, PoolProtocol, ClosedPool
<1>2. ASSUME NEW w \in Workers, Worker(w) \/ WorkerSpurious(w) PROVE FALSE
  BY <1>1, <1>2 DEF Worker, WorkerProceed, WorkerPark, WorkerSleep, WorkerFinish,
                    WorkerSpurious
<1>3. ASSUME NEW s \in Submitters, Enqueue(s) PROVE executed' = executed /\ task' = task
  BY <1>3 DEF Enqueue, EnqueuePush, EnqueueNotify, histories
<1>4. CASE Stop
  BY <1>4 DEF Stop, StopSet, StopNotifyAll, StopJoin, histories
<1>5. CASE UNCHANGED vars
  BY <1>5 DEF vars
<1> QED BY <1>2, <1>3, <1>4, <1>5 DEF Next

\* Once stop() has returned no worker takes or executes a task any more. (Clients may
\* still enqueue some: main.cpp:19-25 does not look at stop_.)
THEOREM QuietAfterStop == Spec => NothingRunsAfterStop
<1>1. IInv /\ [Next]_vars => (stops > 0 => executed' = executed /\ task' = task)
  BY ClosedStep
<1> QED BY InitIInv, NextIInv, <1>1, PTL DEF Spec, NothingRunsAfterStop

-----------------------------------------------------------------------------
(* No wake-up is lost.                                                     *)

\* The sets that NoLostWakeup counts are finite.
LEMMA CountedFinite ==
  ASSUME IInv, IInv'
  PROVE  /\ IsFiniteSet(Heading) /\ IsFiniteSet(Heading')
         /\ IsFiniteSet(notifying) /\ IsFiniteSet(notifying')
         /\ Cardinality(Heading) \in Nat /\ Cardinality(Heading') \in Nat
         /\ Cardinality(notifying) \in Nat /\ Cardinality(notifying') \in Nat
         /\ Len(tasks_) \in Nat /\ Len(tasks_') \in Nat
<1>1. IsFiniteSet(Workers)
  BY PoolAssumption
<1>2. IsFiniteSet(Submitters)
  <2>1. IsFiniteSet(Clients) /\ IsFiniteSet(Tasks)
    BY PoolAssumption
  <2> QED BY <2>1, FS_Union DEF Submitters
<1>3. Heading \subseteq Workers /\ Heading' \subseteq Workers
  BY DEF Heading
<1>4. notifying \subseteq Submitters /\ notifying' \subseteq Submitters
  BY DEF IInv, TypeOK
<1>5. /\ IsFiniteSet(Heading) /\ IsFiniteSet(Heading')
      /\ IsFiniteSet(notifying) /\ IsFiniteSet(notifying')
  BY <1>1, <1>2, <1>3, <1>4, FS_Subset
<1>6. Len(tasks_) \in Nat /\ Len(tasks_') \in Nat
  BY DEF IInv, TypeOK
<1> QED BY <1>5, <1>6, FS_CardinalityType

\* A worker that turns from its sleep to the queue is one more to look at it.
LEMMA OneMoreHeads ==
  ASSUME IInv, IInv', NEW w \in Workers, pc[w] # "lock", pc' = [pc EXCEPT ![w] = "lock"]
  PROVE  /\ Cardinality(Heading') = Cardinality(Heading) + 1
         /\ Asleep' \subseteq Asleep
<1> USE DEF IInv, TypeOK
<1>1. Heading' = Heading \cup {w} /\ w \notin Heading
  BY DEF Heading
<1>2. Asleep' \subseteq Asleep
  BY DEF Asleep
<1> QED BY <1>1, <1>2, CountedFinite, FS_AddElement

\* Every step keeps the balance of tasks and of those who will see to them.
LEMMA NextServed == IInv /\ IInv' /\ NoLostWakeup /\ [Next]_vars => NoLostWakeup'
<1> SUFFICES ASSUME IInv, IInv', NoLostWakeup, [Next]_vars PROVE NoLostWakeup'
  OBVIOUS
<1> USE CountedFinite
<1> USE DEF NoLostWakeup
<1>1. ASSUME NEW s \in Submitters, NEW t \in Tasks, EnqueuePush(s, t) PROVE NoLostWakeup'
  <2>1. Cardinality(notifying') = Cardinality(notifying) + 1
    BY <1>1, FS_AddElement DEF EnqueuePush, MayEnqueue
  <2>2. Len(tasks_') = Len(tasks_) + 1
    BY <1>1 DEF EnqueuePush, IInv, TypeOK
  <2>3. Heading' = Heading /\ Asleep' = Asleep
    BY <1>1 DEF EnqueuePush, Heading, Asleep
  <2> QED BY <2>1, <2>2, <2>3
<1>2. ASSUME NEW s \in Submitters, EnqueueNotify(s) PROVE NoLostWakeup'
  <2>1. Cardinality(notifying') = Cardinality(notifying) - 1
    BY <1>2, FS_RemoveElement DEF EnqueueNotify
  <2>2. tasks_' = tasks_
    BY <1>2 DEF EnqueueNotify
  <2>3. CASE Asleep = {}
    <3>1. Asleep' = {}
      BY <1>2, <2>3 DEF EnqueueNotify, Asleep
    <3> QED BY <3>1
  <2>4. CASE Asleep # {}
    <3>1. PICK w \in Asleep : pc' = [pc EXCEPT ![w] = "lock"]
      BY <1>2, <2>4 DEF EnqueueNotify
    <3>2. w \in Workers /\ pc[w] = "wait"
      BY DEF Asleep
    <3>3. Cardinality(Heading') = Cardinality(Heading) + 1
      BY <3>1, <3>2, OneMoreHeads
    <3> QED BY <2>1, <2>2, <2>4, <3>3
  <2> QED BY <2>3, <2>4
<1>3. ASSUME NEW w \in Workers, WorkerProceed(w) PROVE NoLostWakeup'
  <2>1. notifying' = notifying
    BY <1>3 DEF WorkerProceed
  <2>2. Heading' = Heading \ {w} /\ w \in Heading /\ Asleep' = Asleep
    BY <1>3 DEF WorkerProceed, Heading, Asleep, IInv, TypeOK
  <2>3. Cardinality(Heading') = Cardinality(Heading) - 1
    BY <2>2, FS_RemoveElement
  <2>4. CASE tasks_ = <<>>
    <3>1. Len(tasks_') = 0
      BY <1>3, <2>4 DEF WorkerProceed
    <3> QED BY <3>1
  <2>5. CASE tasks_ # <<>>
    <3>1. Len(tasks_') = Len(tasks_) - 1
      BY <1>3, <2>5 DEF WorkerProceed, IInv, TypeOK
    <3> QED BY <2>1, <2>2, <2>3, <3>1
  <2> QED BY <2>4, <2>5
<1>4. ASSUME NEW w \in Workers, WorkerPark(w) \/ WorkerSleep(w) PROVE NoLostWakeup'
  <2>1. tasks_' = <<>>
    BY <1>4 DEF WorkerPark, WorkerSleep, IInv, PoolProtocol, ParkedView
  <2>2. Len(tasks_') = 0
    BY <2>1
  <2> QED BY <2>2
<1>5. ASSUME NEW w \in Workers, WorkerFinish(w) \/ WorkerSpurious(w) PROVE NoLostWakeup'
  <2>1. pc[w] # "lock" /\ pc' = [pc EXCEPT ![w] = "lock"]
        /\ notifying' = notifying /\ tasks_' = tasks_
    BY <1>5 DEF WorkerFinish, WorkerSpurious
  <2>2. Cardinality(Heading') = Cardinality(Heading) + 1 /\ Asleep' \subseteq Asleep
    BY <2>1, OneMoreHeads
  <2> QED BY <2>1, <2>2
<1>6. CASE StopNotifyAll
  <2>1. Asleep' = {}
    BY <1>6 DEF StopNotifyAll, Asleep
  <2> QED BY <2>1
<1>7. CASE StopSet \/ StopJoin
  BY <1>7 DEF StopSet, StopJoin, Asleep, Heading
<1>8. CASE UNCHANGED vars
  BY <1>8 DEF vars, Asleep, Heading
<1> QED
  BY <1>1, <1>2, <1>3, <1>4, <1>5, <1>6, <1>7, <1>8 DEF Next, Enqueue, Worker, Stop

\* However enqueue's notification after the unlock falls, each waiting task has
\* somebody on the way to it, or all workers are awake.
THEOREM WakeupsSuffice == Spec => []NoLostWakeup
<1>1. Init => NoLostWakeup
  BY DEF Init, NoLostWakeup, Asleep
<1> QED BY <1>1, InitIInv, NextIInv, NextServed, PTL DEF Spec

-----------------------------------------------------------------------------
(* The pool implements TaskBoard.                                          *)

\* What appending does to the queue seen as a set.
LEMMA AppendQueued ==
  ASSUME NEW S, NEW q \in Seq(S), NEW x \in S, NEW r, r = Append(q, x)
  PROVE  /\ Elements(r) = Elements(q) \cup {x}
         /\ \A i \in DOMAIN r : \/ i \in DOMAIN q /\ r[i] = q[i]
                                \/ i = Len(q) + 1 /\ r[i] = x
<1>1. /\ DOMAIN r = DOMAIN q \cup {Len(q) + 1}
      /\ r[Len(q) + 1] = x
      /\ \A i \in DOMAIN q : r[i] = q[i]
  OBVIOUS
<1>2. \A i \in DOMAIN r : \/ i \in DOMAIN q /\ r[i] = q[i]
                          \/ i = Len(q) + 1 /\ r[i] = x
  BY <1>1
<1>3. Elements(r) = Elements(q) \cup {x}
  BY <1>1, ZenonT(60) DEF Elements
<1> QED BY <1>2, <1>3

\* What taking the head does to it.
LEMMA TailQueued ==
  ASSUME NEW S, NEW q \in Seq(S), q # <<>>, NEW r, r = Tail(q)
  PROVE  /\ \A i \in DOMAIN r : i + 1 \in DOMAIN q /\ r[i] = q[i + 1]
         /\ Elements(q) = Elements(r) \cup {Head(q)}
         /\ 1 \in DOMAIN q /\ Head(q) = q[1]
<1>1. /\ DOMAIN r = 1..(Len(q) - 1) /\ DOMAIN q = 1..Len(q)
      /\ Len(q) \in Nat /\ Len(q) > 0
      /\ \A i \in DOMAIN r : i + 1 \in DOMAIN q /\ r[i] = q[i + 1]
      /\ Head(q) = q[1]
  OBVIOUS
<1>2. \A i \in DOMAIN q : i = 1 \/ (i - 1 \in DOMAIN r /\ q[i] = r[i - 1])
  BY <1>1
<1>3. Elements(q) \subseteq Elements(r) \cup {Head(q)}
  BY <1>1, <1>2 DEF Elements
<1>4. 1 \in DOMAIN q
  BY <1>1
<1> QED BY <1>1, <1>3, <1>4 DEF Elements

Accounted == TasksAccounted /\ NothingOwedLeft

\* Initially there is no task to account for.
LEMMA InitAccounted == Init => Accounted
BY DEF Init, Accounted, TasksAccounted, NothingOwedLeft, Queued, Elements, Running

\* A step that starts and ends no task, submits none and ends no worker leaves
\* the account as it is.
LEMMA AccountUntouched ==
  ASSUME IInv, Accounted, UNCHANGED <<tasks_, task, enqueued, executed, late>>,
         \A w \in Workers : pc'[w] = "run" <=> pc[w] = "run",
         \A w \in Workers : pc'[w] = "exited" => pc[w] = "exited"
  PROVE  Running' = Running /\ Accounted'
<1>1. Running' = Running
  BY DEF Running
<1>2. Queued' = Queued
  BY DEF Queued
<1>3. TasksAccounted'
  BY <1>1, <1>2 DEF Accounted, TasksAccounted
<1>4. NothingOwedLeft'
  BY <1>2 DEF Accounted, NothingOwedLeft
<1> QED BY <1>1, <1>3, <1>4 DEF Accounted

\* A worker takes the oldest task.
LEMMA TakeAccounted ==
  ASSUME IInv, Accounted, NEW w \in Workers, WorkerProceed(w), tasks_ # <<>>
  PROVE  /\ Running' = Running \cup {Head(tasks_)}
         /\ Queued = Queued' \cup {Head(tasks_)}
         /\ Accounted'
<1> USE DEF IInv, TypeOK
<1>0. /\ pc[w] = "lock" /\ pc' = [pc EXCEPT ![w] = "run"]
      /\ task' = [task EXCEPT ![w] = Head(tasks_)]
      /\ tasks_' = Tail(tasks_)
      /\ UNCHANGED <<enqueued, executed, late>>
  BY DEF WorkerProceed, histories
<1>1. /\ \A i \in DOMAIN tasks_' : i + 1 \in DOMAIN tasks_ /\ tasks_'[i] = tasks_[i + 1]
      /\ Queued = Queued' \cup {Head(tasks_)}
      /\ 1 \in DOMAIN tasks_ /\ Head(tasks_) = tasks_[1]
  <2>1. \A i \in DOMAIN tasks_' : i + 1 \in DOMAIN tasks_ /\ tasks_'[i] = tasks_[i + 1]
    BY <1>0, TailQueued
  <2>2. Elements(tasks_) = Elements(tasks_') \cup {Head(tasks_)}
    BY <1>0, TailQueued
  <2>3. 1 \in DOMAIN tasks_ /\ Head(tasks_) = tasks_[1]
    BY <1>0, TailQueued
  <2> QED BY <2>1, <2>2, <2>3 DEF Queued
<1>2. Running' = Running \cup {Head(tasks_)}
  BY <1>0 DEF Running
<1>3. DOMAIN tasks_' \subseteq Nat \ {0}
  BY <1>0
<1>4. Head(tasks_) \notin Queued'
  BY <1>1, <1>3 DEF Queued, Elements, Accounted, TasksAccounted
<1>5. Head(tasks_) \notin Running
  BY <1>1 DEF Queued, Elements, Accounted, TasksAccounted
<1>6. TasksAccounted'
  <2>1. enqueued' = Queued' \cup Running' \cup executed' /\ late' \subseteq enqueued'
    BY <1>0, <1>1, <1>2 DEF Accounted, TasksAccounted
  <2>2. Queued' \cap Running' = {}
    BY <1>1, <1>2, <1>4 DEF Accounted, TasksAccounted
  <2>3. \A i, j \in DOMAIN tasks_' : tasks_'[i] = tasks_'[j] => i = j
    BY <1>1, <1>3 DEF Accounted, TasksAccounted
  <2>4. \A u, v \in Workers : task'[u] = task'[v] /\ pc'[u] = "run" => u = v
    <3>1. \A u \in Workers : pc[u] = "run" => task[u] # Head(tasks_)
      BY <1>5 DEF Running
    <3>2. \A u \in Workers : pc[u] # "run" => task[u] = NoTask
      BY DEF PoolProtocol, TaskHeld
    <3>3. Head(tasks_) # NoTask
      BY PoolFacts
    <3> QED BY <1>0, <3>1, <3>2, <3>3 DEF Accounted, TasksAccounted
  <2> QED BY <2>1, <2>2, <2>3, <2>4 DEF TasksAccounted
<1>7. NothingOwedLeft'
  BY <1>0 DEF NothingOwedLeft
<1> QED BY <1>1, <1>2, <1>6, <1>7 DEF Accounted

\* A task ends.
LEMMA FinishAccounted ==
  ASSUME IInv, Accounted, NEW w \in Workers, WorkerFinish(w)
  PROVE  /\ task[w] \in Running
         /\ Running' = Running \ {task[w]}
         /\ Accounted'
<1> USE DEF IInv, TypeOK
<1>0. /\ pc[w] = "run" /\ pc' = [pc EXCEPT ![w] = "lock"]
      /\ task' = [task EXCEPT ![w] = NoTask]
      /\ executed' = executed \cup {task[w]}
      /\ UNCHANGED <<tasks_, enqueued, late>>
  BY DEF WorkerFinish
<1>1. task[w] \in Running
  BY <1>0 DEF Running
<1>2. Running' = Running \ {task[w]}
  BY <1>0 DEF Running, Accounted, TasksAccounted
<1>3. Queued' = Queued
  BY <1>0 DEF Queued
<1>4. TasksAccounted'
  <2>1. \A u, v \in Workers : task'[u] = task'[v] /\ pc'[u] = "run" => u = v
    BY <1>0, PoolFacts DEF Accounted, TasksAccounted, PoolProtocol, TaskHeld
  <2> QED BY <1>0, <1>1, <1>2, <1>3, <2>1 DEF Accounted, TasksAccounted
<1>5. NothingOwedLeft'
  BY <1>0 DEF NothingOwedLeft
<1> QED BY <1>1, <1>2, <1>4, <1>5 DEF Accounted

\* A task is submitted.
LEMMA PushAccounted ==
  ASSUME IInv, Accounted, NEW s \in Submitters, NEW t \in Tasks, EnqueuePush(s, t)
  PROVE  Running' = Running /\ Accounted'
<1> USE DEF IInv, TypeOK
<1>0. /\ UNCHANGED <<pc, task, executed>> /\ t \notin enqueued
      /\ tasks_' = Append(tasks_, t)
      /\ enqueued' = enqueued \cup {t}
      /\ late' = IF stop_ /\ s \in Clients THEN late \cup {t} ELSE late
      /\ s \in Clients \/ s \in Running
  BY DEF EnqueuePush, MayEnqueue
<1>1. Running' = Running
  BY <1>0 DEF Running
<1>2. /\ Queued' = Queued \cup {t}
      /\ \A i \in DOMAIN tasks_' : \/ i \in DOMAIN tasks_ /\ tasks_'[i] = tasks_[i]
                                   \/ i = Len(tasks_) + 1 /\ tasks_'[i] = t
  <2>1. Elements(tasks_') = Elements(tasks_) \cup {t}
    BY <1>0, AppendQueued
  <2>2. \A i \in DOMAIN tasks_' : \/ i \in DOMAIN tasks_ /\ tasks_'[i] = tasks_[i]
                                  \/ i = Len(tasks_) + 1 /\ tasks_'[i] = t
    BY <1>0, AppendQueued
  <2> QED BY <2>1, <2>2 DEF Queued
<1>3. t \notin Queued /\ t \notin Running
  BY <1>0 DEF Accounted, TasksAccounted
<1>4. TasksAccounted'
  <2>1. \A i, j \in DOMAIN tasks_' : tasks_'[i] = tasks_'[j] => i = j
    BY <1>2, <1>3 DEF Queued, Elements, Accounted, TasksAccounted
  <2>2. \A u, v \in Workers : task'[u] = task'[v] /\ pc'[u] = "run" => u = v
    BY <1>0 DEF Accounted, TasksAccounted
  <2> QED BY <1>0, <1>1, <1>2, <1>3, <2>1, <2>2 DEF Accounted, TasksAccounted
<1>5. NothingOwedLeft'
  <2> SUFFICES ASSUME Workers # {}, \A w \in Workers : pc[w] = "exited"
               PROVE  Queued' \subseteq late'
    BY <1>0 DEF NothingOwedLeft
  <2>1. stop_ /\ Running = {}
    BY DEF PoolProtocol, FlagFirst, Running
  <2>2. Queued \subseteq late
    BY DEF Accounted, NothingOwedLeft
  <2> QED BY <1>0, <1>2, <2>1, <2>2
<1> QED BY <1>1, <1>4, <1>5 DEF Accounted

\* Every step keeps the account.
LEMMA NextAccounted == IInv /\ Accounted /\ [Next]_vars => Accounted'
<1> SUFFICES ASSUME IInv, Accounted, [Next]_vars PROVE Accounted'
  OBVIOUS
<1>0. TypeOK
  BY DEF IInv
<1>1. ASSUME NEW s \in Submitters, NEW t \in Tasks, EnqueuePush(s, t) PROVE Accounted'
  BY <1>1, PushAccounted
<1>2. ASSUME NEW s \in Submitters, EnqueueNotify(s) PROVE Accounted'
  <2>1. UNCHANGED <<tasks_, task, enqueued, executed, late>>
    BY <1>2 DEF EnqueueNotify, histories
  <2> QED BY <1>0, <1>2, <2>1, NotifyEffect, AccountUntouched
<1>3. ASSUME NEW w \in Workers, WorkerProceed(w) PROVE Accounted'
  <2>1. CASE tasks_ = <<>>
    <3>1. /\ pc[w] = "lock" /\ pc' = [pc EXCEPT ![w] = "exited"]
          /\ UNCHANGED <<tasks_, task, enqueued, executed, late>>
      BY <1>3, <2>1 DEF WorkerProceed, histories
    <3>2. Queued' = {} /\ Queued = {}
      BY <2>1, <3>1 DEF Queued, Elements
    <3>3. Running' = Running
      BY <1>0, <3>1 DEF Running, TypeOK
    <3>4. TasksAccounted'
      BY <1>0, <3>1, <3>2, <3>3 DEF Accounted, TasksAccounted, TypeOK
    <3> QED BY <3>2, <3>4 DEF Accounted, NothingOwedLeft
  <2> QED BY <1>3, <2>1, TakeAccounted
<1>4. ASSUME NEW w \in Workers, WorkerFinish(w) PROVE Accounted'
  BY <1>4, FinishAccounted
<1>5. ASSUME NEW w \in Workers, WorkerPark(w) \/ WorkerSleep(w) \/ WorkerSpurious(w)
      PROVE  Accounted'
  BY <1>0, <1>5, AccountUntouched
     DEF WorkerPark, WorkerSleep, WorkerSpurious, histories, TypeOK
<1>6. CASE Stop
  BY <1>0, <1>6, AccountUntouched
     DEF Stop, StopSet, StopNotifyAll, StopJoin, histories, TypeOK
<1>7. CASE UNCHANGED vars
  BY <1>7, AccountUntouched DEF vars
<1> QED
  BY <1>1, <1>2, <1>3, <1>4, <1>5, <1>6, <1>7 DEF Next, Enqueue, Worker

\* No more tasks are executed than workers that execute, so an awake worker that
\* executes none leaves a place.
LEMMA RoomForTask ==
  ASSUME IInv, NEW w \in Workers, pc[w] # "run"
  PROVE  Cardinality(Running) < Cardinality(Workers)
<1> DEFINE Executing == {v \in Workers : pc[v] = "run"}
           assigned == [v \in Executing |-> task[v]]
<1>1. IsFiniteSet(Workers) /\ IsFiniteSet(Workers \ {w})
      /\ Cardinality(Workers \ {w}) = Cardinality(Workers) - 1
      /\ Cardinality(Workers) \in Nat
  BY PoolAssumption, FS_RemoveElement, FS_CardinalityType
<1>2. Executing \subseteq Workers \ {w}
  OBVIOUS
<1>3. IsFiniteSet(Executing) /\ Cardinality(Executing) <= Cardinality(Workers) - 1
      /\ Cardinality(Executing) \in Nat
  BY <1>1, <1>2, FS_Subset, FS_CardinalityType
<1>4. assigned \in Surjection(Executing, Running)
  BY DEF Surjection, Running
<1>5. IsFiniteSet(Running) /\ Cardinality(Running) <= Cardinality(Executing)
  BY <1>3, <1>4, FS_Surjection
<1>6. Cardinality(Running) \in Nat
  BY <1>5, FS_CardinalityType
<1> QED BY <1>1, <1>3, <1>5, <1>6

\* The board counts as the pool does.
LEMMA CardinalityOnce == \A S : Board!Cardinality(S) = Cardinality(S)
BY DEF Board!Cardinality, Cardinality

\* The initial state is an empty open board.
LEMMA BoardInit == Init => Board!Init
BY DEF Init, Board!Init, Running

\* A step that changes neither the queue nor the workers' tasks is invisible.
LEMMA InvisibleStep ==
  ASSUME UNCHANGED <<tasks_, executed, enqueued, late, stop_, stops>>, Running' = Running
  PROVE  UNCHANGED Board!vars
BY DEF Board!vars

\* Every step of the pool is a step of the board or invisible.
LEMMA BoardNext ==
  ASSUME IInv, Accounted, Accounted', [Next]_vars, Workers # {}
  PROVE  [Board!Next]_(Board!vars)
<1>0. TypeOK /\ Board!Known = Queued \cup Running \cup executed
  BY DEF IInv, Board!Known, Queued, Elements
<1>1. ASSUME NEW s \in Submitters, NEW t \in Tasks, EnqueuePush(s, t) PROVE Board!Next
  <2>1. /\ t \notin enqueued /\ Submitter[t] = s
        /\ s \in Clients \/ s \in Running
        /\ tasks_' = Append(tasks_, t)
        /\ enqueued' = enqueued \cup {t}
        /\ late' = IF stop_ /\ s \in Clients THEN late \cup {t} ELSE late
        /\ UNCHANGED <<executed, stop_, stops>>
    BY <1>1 DEF EnqueuePush, MayEnqueue
  <2>2. t \notin Board!Known /\ t \notin late
    BY <1>0, <2>1 DEF Accounted, TasksAccounted
  <2>3. Running' = Running
    BY <1>1, PushAccounted
  <2>4. s \in Tasks <=> s \notin Clients
    BY PoolFacts DEF Submitters
  <2>5. (enqueued \ late)' = IF stop_ /\ s \notin Tasks
                              THEN enqueued \ late ELSE (enqueued \ late) \cup {t}
    BY <2>1, <2>2, <2>4
  <2>6. Board!Submit(t)
    BY <2>1, <2>2, <2>3, <2>4, <2>5 DEF Board!Submit
  <2> QED BY <2>6 DEF Board!Next
<1>2. ASSUME NEW s \in Submitters, EnqueueNotify(s) PROVE UNCHANGED Board!vars
  <2>1. UNCHANGED <<tasks_, task, executed, enqueued, late, stop_, stops>>
    BY <1>2 DEF EnqueueNotify, histories
  <2>2. Running' = Running
    BY <1>0, <1>2, <2>1, NotifyEffect DEF Running
  <2> QED BY <2>1, <2>2, InvisibleStep
<1>3. ASSUME NEW w \in Workers, WorkerProceed(w) PROVE [Board!Next]_(Board!vars)
  <2>0. UNCHANGED <<executed, enqueued, late, stop_, stops>> /\ pc[w] = "lock"
    BY <1>3 DEF WorkerProceed, histories
  <2>1. CASE tasks_ = <<>>
    <3>1. pc' = [pc EXCEPT ![w] = "exited"] /\ UNCHANGED <<tasks_, task>>
      BY <1>3, <2>1 DEF WorkerProceed
    <3>2. Running' = Running
      BY <1>0, <2>0, <3>1 DEF Running, TypeOK
    <3> QED BY <2>0, <3>1, <3>2, InvisibleStep
  <2>2. CASE tasks_ # <<>>
    <3>1. tasks_' = Tail(tasks_)
      BY <1>3, <2>2 DEF WorkerProceed
    <3>2. Running' = Running \cup {Head(tasks_)}
      BY <1>3, <2>2, TakeAccounted
    <3>3. Cardinality(Running) < Cardinality(Workers)
      BY <2>0, RoomForTask
    <3>4. ~(stops > 0)
      BY <2>0 DEF IInv, PoolProtocol, ClosedPool
    <3>5. UNCHANGED <<executed, enqueued \ late, stop_, stops > 0>>
      BY <2>0
    <3>6. Board!Start
      BY <2>0, <2>2, <3>1, <3>2, <3>3, <3>4, <3>5, CardinalityOnce DEF Board!Start
    <3> QED BY <3>6 DEF Board!Next
  <2> QED BY <2>1, <2>2
<1>4. ASSUME NEW w \in Workers, WorkerFinish(w) PROVE Board!Next
  <2>1. /\ {u \in Tasks : Submitter[u] = task[w]} \subseteq enqueued
        /\ executed' = executed \cup {task[w]}
        /\ UNCHANGED <<tasks_, enqueued, late, stop_, stops>>
    BY <1>4 DEF WorkerFinish
  <2>2. task[w] \in Running /\ Running' = Running \ {task[w]}
    BY <1>4, FinishAccounted
  <2>3. enqueued = Board!Known
    BY <1>0 DEF Accounted, TasksAccounted
  <2>4. task[w] \in Tasks
    BY <1>0, <1>4 DEF WorkerFinish, IInv, TypeOK, PoolProtocol, TaskHeld
  <2>5. Board!Finish(task[w])
    BY <2>1, <2>2, <2>3 DEF Board!Finish
  <2> QED BY <2>4, <2>5 DEF Board!Next
<1>5. ASSUME NEW w \in Workers, WorkerPark(w) \/ WorkerSleep(w) \/ WorkerSpurious(w)
      PROVE  UNCHANGED Board!vars
  <2>1. UNCHANGED <<tasks_, task, executed, enqueued, late, stop_, stops>>
    BY <1>5 DEF WorkerPark, WorkerSleep, WorkerSpurious, histories
  <2>2. Running' = Running
    BY <1>0, <1>5, <2>1 DEF WorkerPark, WorkerSleep, WorkerSpurious, Running, TypeOK
  <2> QED BY <2>1, <2>2, InvisibleStep
<1>6. CASE StopSet
  <2>1. Board!StopBegins
    BY <1>6 DEF StopSet, Board!StopBegins, Running, histories
  <2> QED BY <2>1 DEF Board!Next
<1>7. CASE StopNotifyAll
  <2>1. UNCHANGED <<tasks_, task, executed, enqueued, late, stop_, stops>>
    BY <1>7 DEF StopNotifyAll, histories
  <2>2. Running' = Running
    BY <1>0, <1>7, <2>1 DEF StopNotifyAll, Running, TypeOK
  <2> QED BY <2>1, <2>2, InvisibleStep
<1>8. CASE StopJoin
  <2>1. /\ \A w \in Workers : pc[w] = "exited"
        /\ stops' = stops + 1
        /\ UNCHANGED <<tasks_, stop_, pc, task, executed, enqueued, late>>
    BY <1>8 DEF StopJoin, histories
  <2>2. stop_ /\ Running = {} /\ Running' = {}
    BY <1>8, <2>1 DEF StopJoin, IInv, PoolProtocol, FlagFirst, Running
  <2>3. enqueued \ late \subseteq executed
    BY <2>1, <2>2 DEF Accounted, TasksAccounted, NothingOwedLeft
  <2>4. stops' > 0
    BY <1>0, <2>1 DEF TypeOK
  <2>5. Board!StopReturns
    BY <2>1, <2>2, <2>3, <2>4 DEF Board!StopReturns
  <2> QED BY <2>5 DEF Board!Next
<1>9. CASE UNCHANGED vars
  BY <1>9, InvisibleStep DEF vars, Running
<1> QED
  BY <1>1, <1>2, <1>3, <1>4, <1>5, <1>6, <1>7, <1>8, <1>9 DEF Next, Enqueue, Worker, Stop

\* A pool of at least one thread keeps the board's promise, whatever clients and
\* tasks enqueue and whenever it is stopped.  (A pool of no threads executes
\* nothing, and its stop() returns at once.)
THEOREM Refinement ==
  ASSUME Workers # {}
  PROVE  Spec => ImplementsTaskBoard
<1>1. IInv /\ Accounted /\ Accounted' /\ [Next]_vars => [Board!Next]_(Board!vars)
  BY BoardNext
<1> QED
  BY <1>1, BoardInit, InitIInv, NextIInv, InitAccounted, NextAccounted, PTL
     DEF Spec, ImplementsTaskBoard, Board!Spec
=============================================================================
