---------------------------- MODULE ThreadPool -----------------------------
(***************************************************************************)
(* multithreading/Thread_Pool: worker threads that take tasks from a queue *)
(* under one mutex and sleep on one condition variable.  Unlike            *)
(* BlockingQueue, stop() sets its flag while it holds the mutex.           *)
(*                                                                         *)
(* Critical sections that neither sleep nor wait are single steps; the     *)
(* worker's wait is split where it sleeps, so that mutex matters to the    *)
(* other threads.  A worker is at one of these points (pc):                *)
(*   lock    about to take mutex_ and evaluate the predicate of wait       *)
(*   park    holds mutex_, found the predicate false, not yet asleep       *)
(*   wait    asleep on cv_, mutex_ released                                *)
(*   run     executing task[w], mutex_ released                            *)
(*   exited  returned from worker()                                        *)
(***************************************************************************)
EXTENDS Naturals, Sequences, FiniteSets

CONSTANTS Workers,      \* the threads of the pool, count_threads of them
          Clients,      \* threads outside the pool that call enqueue()
          Tasks,        \* the tasks they enqueue, each of them once
          Submitter,    \* Submitter[t]: the client, or the task, that enqueues t
          MaxStops,     \* calls of stop(): an explicit one and the destructor's
          MaxSpurious,  \* bound on spurious wake-ups of the whole run
          Free,         \* mutex_ has no owner
          NoTask        \* the worker holds no task

ASSUME PoolAssumption ==
  /\ IsFiniteSet(Workers) /\ IsFiniteSet(Clients) /\ IsFiniteSet(Tasks)
  /\ Clients \cap Tasks = {}
  /\ Submitter \in [Tasks -> Clients \cup Tasks]
  /\ Free \notin Workers /\ NoTask \notin Tasks
  /\ MaxStops \in Nat /\ MaxSpurious \in Nat

Submitters == Clients \cup Tasks

VARIABLES mutex,      \* mutex_: the worker that parks under it, or Free
          tasks_,     \* tasks_, oldest first
          stop_,      \* stop_
          pc,         \* where each worker is
          task,       \* task[w]: the local variable task of worker()
          notifying,  \* submitters between their unlock and cv_.notify_one()
          stopper,    \* progress of the thread that owns the pool in stop()
          stops,      \* calls of stop() that have returned
          enqueued,   \* history: the tasks ever pushed
          executed,   \* history: the tasks whose execution has ended
          late,       \* history: the tasks clients pushed after stop_ was set
          spurious    \* spurious wake-ups so far

vars == <<mutex, tasks_, stop_, pc, task, notifying, stopper, stops,
          enqueued, executed, late, spurious>>
histories == <<enqueued, executed, late>>

Init == /\ mutex = Free
        /\ tasks_ = <<>>
        /\ stop_ = FALSE
        /\ pc = [w \in Workers |-> "lock"]
        /\ task = [w \in Workers |-> NoTask]
        /\ notifying = {}
        /\ stopper = "out"
        /\ stops = 0
        /\ enqueued = {} /\ executed = {} /\ late = {}
        /\ spurious = 0

Asleep == {w \in Workers : pc[w] = "wait"}
Running == {task[w] : w \in {v \in Workers : pc[v] = "run"}}

-----------------------------------------------------------------------------
(* enqueue                                                                 *)

\* A client may call enqueue at any time, a task while it is executed; each
\* submitter makes one call after the other.
MayEnqueue(s, t) ==
  /\ Submitter[t] = s
  /\ t \notin enqueued
  /\ s \notin notifying
  /\ s \in Clients \/ s \in Running

\* There is no test of stop_ here.
EnqueuePush(s, t) ==
  /\ MayEnqueue(s, t)
  /\ mutex = Free
  /\ tasks_' = Append(tasks_, t)
  /\ notifying' = notifying \cup {s}
  /\ enqueued' = enqueued \cup {t}
  /\ late' = IF stop_ /\ s \in Clients THEN late \cup {t} ELSE late
  /\ UNCHANGED <<mutex, stop_, pc, task, stopper, stops, executed, spurious>>

\* Wrong variant: enqueue does not notify.
EnqueueNotifyForgotten(s) ==
  /\ s \in notifying
  /\ notifying' = notifying \ {s}
  /\ UNCHANGED <<mutex, tasks_, stop_, pc, task, stopper, stops, histories, spurious>>

\* notify_one after the unlock: one sleeper is woken, if there is one by now.
EnqueueNotify(s) ==
  /\ s \in notifying
  /\ notifying' = notifying \ {s}
  /\ IF Asleep = {}
       THEN UNCHANGED pc
       ELSE \E w \in Asleep : pc' = [pc EXCEPT ![w] = "lock"]
  /\ UNCHANGED <<mutex, tasks_, stop_, task, stopper, stops, histories, spurious>>

-----------------------------------------------------------------------------
(* worker                                                                  *)

\* Wrong variant: front() of an empty queue when stopped; <<>> is the garbage.
WorkerProceedUnchecked(w) ==
  /\ pc[w] = "lock"
  /\ mutex = Free
  /\ stop_ \/ tasks_ # <<>>
  /\ pc' = [pc EXCEPT ![w] = "run"]
  /\ task' = [task EXCEPT ![w] = IF tasks_ = <<>> THEN <<>> ELSE Head(tasks_)]
  /\ tasks_' = IF tasks_ = <<>> THEN <<>> ELSE Tail(tasks_)
  /\ UNCHANGED <<mutex, stop_, notifying, stopper, stops, histories, spurious>>

\* Wrong variant: a stopped worker leaves although tasks wait.
WorkerProceedHasty(w) ==
  /\ pc[w] = "lock"
  /\ mutex = Free
  /\ stop_ \/ tasks_ # <<>>
  /\ IF stop_
       THEN /\ pc' = [pc EXCEPT ![w] = "exited"]
            /\ UNCHANGED <<tasks_, task>>
       ELSE /\ pc' = [pc EXCEPT ![w] = "run"]
            /\ task' = [task EXCEPT ![w] = Head(tasks_)]
            /\ tasks_' = Tail(tasks_)
  /\ UNCHANGED <<mutex, stop_, notifying, stopper, stops, histories, spurious>>

\* The predicate holds: leave the loop, or take the oldest task.
WorkerProceed(w) ==
  /\ pc[w] = "lock"
  /\ mutex = Free
  /\ stop_ \/ tasks_ # <<>>
  /\ IF tasks_ = <<>>
       THEN /\ pc' = [pc EXCEPT ![w] = "exited"]
            /\ UNCHANGED <<tasks_, task>>
       ELSE /\ pc' = [pc EXCEPT ![w] = "run"]
            /\ task' = [task EXCEPT ![w] = Head(tasks_)]
            /\ tasks_' = Tail(tasks_)
  /\ UNCHANGED <<mutex, stop_, notifying, stopper, stops, histories, spurious>>

\* The predicate does not hold: keep the mutex until asleep.
WorkerPark(w) ==
  /\ pc[w] = "lock"
  /\ mutex = Free
  /\ ~stop_ /\ tasks_ = <<>>
  /\ mutex' = w
  /\ pc' = [pc EXCEPT ![w] = "park"]
  /\ UNCHANGED <<tasks_, stop_, task, notifying, stopper, stops, histories, spurious>>

WorkerSleep(w) ==
  /\ pc[w] = "park"
  /\ mutex' = Free
  /\ pc' = [pc EXCEPT ![w] = "wait"]
  /\ UNCHANGED <<tasks_, stop_, task, notifying, stopper, stops, histories, spurious>>

WorkerSpurious(w) ==
  /\ pc[w] = "wait"
  /\ spurious < MaxSpurious
  /\ spurious' = spurious + 1
  /\ pc' = [pc EXCEPT ![w] = "lock"]
  /\ UNCHANGED <<mutex, tasks_, stop_, task, notifying, stopper, stops, histories>>

\* task() returns; by then it has made all its own calls of enqueue.
WorkerFinish(w) ==
  /\ pc[w] = "run"
  /\ {t \in Tasks : Submitter[t] = task[w]} \subseteq enqueued
  /\ task[w] \notin notifying
  /\ pc' = [pc EXCEPT ![w] = "lock"]
  /\ task' = [task EXCEPT ![w] = NoTask]
  /\ executed' = executed \cup {task[w]}
  /\ UNCHANGED <<mutex, tasks_, stop_, notifying, stopper, stops, enqueued, late, spurious>>

-----------------------------------------------------------------------------
(* stop, called by the thread that owns the pool.  That is neither a worker *)
(* (it would join itself) nor two threads at once (both would join): the    *)
(* class gives no protection against either.                                *)

\* Wrong variant: stop_ is set without the mutex, as BlockingQueue does.
StopSetUnlocked ==
  /\ stopper = "out"
  /\ stops < MaxStops
  /\ stop_' = TRUE
  /\ stopper' = "notify"
  /\ UNCHANGED <<mutex, tasks_, pc, task, notifying, stops, histories, spurious>>

StopSet ==
  /\ stopper = "out"
  /\ stops < MaxStops
  /\ mutex = Free
  /\ stop_' = TRUE
  /\ stopper' = "notify"
  /\ UNCHANGED <<mutex, tasks_, pc, task, notifying, stops, histories, spurious>>

\* Wrong variant: stop() calls notify_one.
StopNotifyOnlyOne ==
  /\ stopper = "notify"
  /\ IF Asleep = {}
       THEN UNCHANGED pc
       ELSE \E w \in Asleep : pc' = [pc EXCEPT ![w] = "lock"]
  /\ stopper' = "join"
  /\ UNCHANGED <<mutex, tasks_, stop_, task, notifying, stops, histories, spurious>>

StopNotifyAll ==
  /\ stopper = "notify"
  /\ pc' = [w \in Workers |-> IF pc[w] = "wait" THEN "lock" ELSE pc[w]]
  /\ stopper' = "join"
  /\ UNCHANGED <<mutex, tasks_, stop_, task, notifying, stops, histories, spurious>>

\* Wrong variant: stop() does not join.
StopUnjoined ==
  /\ stopper = "join"
  /\ stopper' = "out"
  /\ stops' = stops + 1
  /\ UNCHANGED <<mutex, tasks_, stop_, pc, task, notifying, histories, spurious>>

\* The joins; on a second call no thread is joinable and all have exited.
StopJoin ==
  /\ stopper = "join"
  /\ \A w \in Workers : pc[w] = "exited"
  /\ stopper' = "out"
  /\ stops' = stops + 1
  /\ UNCHANGED <<mutex, tasks_, stop_, pc, task, notifying, histories, spurious>>

-----------------------------------------------------------------------------
Enqueue(s) == (\E t \in Tasks : EnqueuePush(s, t)) \/ EnqueueNotify(s)
Worker(w) == WorkerProceed(w) \/ WorkerPark(w) \/ WorkerSleep(w) \/ WorkerFinish(w)
Stop == StopSet \/ StopNotifyAll \/ StopJoin

Next == \/ \E s \in Submitters : Enqueue(s)
        \/ \E w \in Workers : Worker(w) \/ WorkerSpurious(w)
        \/ Stop

Spec == Init /\ [][Next]_vars

\* Every thread that can run does: workers, the end of a stop() that began, and
\* the submitters, in particular a task that is executed goes on to its end.
\* Clients owe no calls and nobody owes a stop() or a spurious wake-up.
Fairness == /\ \A w \in Workers : WF_vars(Worker(w))
            /\ \A t \in Tasks : WF_vars(Enqueue(t))
            /\ \A s \in Clients : WF_vars(EnqueueNotify(s))
            /\ WF_vars(StopNotifyAll)
            /\ WF_vars(StopJoin)

FairSpec == Spec /\ Fairness

-----------------------------------------------------------------------------
(* Properties                                                              *)

\* Every variable stays in its type.
TypeOK ==
  /\ mutex \in Workers \cup {Free}
  /\ tasks_ \in Seq(Tasks)
  /\ stop_ \in BOOLEAN
  /\ pc \in [Workers -> {"lock", "park", "wait", "run", "exited"}]
  /\ task \in [Workers -> Tasks \cup {NoTask}]
  /\ notifying \subseteq Submitters
  /\ stopper \in {"out", "notify", "join"}
  /\ stops \in 0..MaxStops
  /\ enqueued \subseteq Tasks /\ executed \subseteq Tasks /\ late \subseteq Tasks
  /\ spurious \in 0..MaxSpurious

\* Workers and submitters that will look at the queue, or make a sleeper do so.
Heading == {w \in Workers : pc[w] = "lock"}

\* No wake-up is lost: a worker sleeps beside waiting tasks only if each of them
\* has a worker on its way to the queue or a notify_one still to come.  With it
\* the pool runs as many tasks at a time as it has threads (README:33).
NoLostWakeup ==
  Asleep # {} => Len(tasks_) <= Cardinality(Heading) + Cardinality(notifying)

\* No worker sleeps once stop() waits for it: stop_ is set under the mutex, so it
\* cannot fall between a worker's test and its sleep.
JoinedWorkersAwake == stopper = "join" => \A w \in Workers : pc[w] \notin {"park", "wait"}

Board == INSTANCE TaskBoard WITH PoolSize <- Cardinality(Workers),
                                 pending <- tasks_, active <- Running,
                                 finished <- executed, owed <- enqueued \ late,
                                 stopping <- stop_, closed <- stops > 0

\* The pool starts tasks in FIFO order, each once, at most one per thread, and
\* stop() returns only when all it owes, nested submissions included, was
\* executed (README:11 "waits for completion", README:32 "FIFO order").
ImplementsTaskBoard == Board!Spec

\* After stop() has returned no worker takes a task or executes one
\* (test_stop_behavior, main.cpp:130).  Some may still be enqueued: see below.
NothingRunsAfterStop == [][stops > 0 => executed' = executed /\ task' = task]_vars

\* A task that stop() owes is executed, with or without a stop(): a running task
\* that enqueues others may rely on them even while the pool shuts down.
TaskIsExecuted == \A t \in Tasks : (t \in enqueued \ late) ~> (t \in executed)

\* stop() returns: no worker misses the flag or its notification.
StopReturns == (stopper # "out") ~> (stopper = "out")

\* README:11: "Graceful shutdown: stops accepting new tasks".  Once stop() has
\* returned, enqueue no longer takes tasks.
NoTaskTakenAfterStop == [][stops > 0 => Len(tasks_') <= Len(tasks_)]_vars
=============================================================================
