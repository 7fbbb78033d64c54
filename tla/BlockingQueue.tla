--------------------------- MODULE BlockingQueue ---------------------------
(***************************************************************************)
(* multithreading/Blocking_Queue: a bounded queue built from one mutex,    *)
(* two condition variables and an atomic flag running_ that stop() clears  *)
(* WITHOUT taking the mutex.                                               *)
(*                                                                         *)
(* A thread inside a call is at one of these points (pc):                  *)
(*   idle     outside any call                                             *)
(*   lock     about to take mutex_ and evaluate the wait predicate         *)
(*   park     holds mutex_, found the predicate false, not yet asleep      *)
(*   wait     asleep on its condition variable, mutex_ released            *)
(*   expired  woken by the time-out of wait_for, about to retake mutex_    *)
(*   check    holds mutex_, predicate true, about to test running_         *)
(*   take     holds mutex_, committed to popping                           *)
(*   append   holds mutex_, committed to pushing                           *)
(* Between park and wait the mutex is held but running_ is not protected   *)
(* by it, so the flag and both notifications of stop() can fall there.     *)
(***************************************************************************)
EXTENDS Naturals, Sequences, FiniteSets

CONSTANTS Producers,        \* threads that call push()
          PopConsumers,     \* threads that call pop()
          PopForConsumers,  \* threads that call pop_for()
          Capacity,         \* capacity_
          Budget,           \* Budget[t]: number of calls thread t makes
          StopAfter,        \* threads that finish before stop() is called
          MaxSpurious,      \* bound on spurious wake-ups of the whole run
          Free,             \* mutex_ has no owner
          Thrown,           \* pop() threw "Queue stopped"
          NoValue           \* pop_for() returned std::nullopt

Consumers == PopConsumers \cup PopForConsumers
Threads == Producers \cup Consumers

ASSUME ThreadsAssumption ==
  /\ Producers \cap Consumers = {}
  /\ PopConsumers \cap PopForConsumers = {}
  /\ IsFiniteSet(Threads)
  /\ Free \notin Threads
  /\ StopAfter \subseteq Threads

ASSUME SizesAssumption ==
  /\ Capacity \in Nat
  /\ Budget \in [Threads -> Nat]
  /\ MaxSpurious \in Nat

VARIABLES mutex,       \* mutex_: the thread that holds it, or Free
          data_queue,  \* the values, oldest first
          running,     \* running_
          stopper,     \* progress of the thread that calls stop()
          pc,          \* where each thread is
          left,        \* left[t]: calls t has not completed
          got,         \* got[c]: what the last completed call of c returned
          spurious     \* spurious wake-ups so far

vars == <<mutex, data_queue, running, stopper, pc, left, got, spurious>>

Points == {"idle", "lock", "park", "wait", "expired", "check", "take", "append"}
Values == Producers \X Nat

Init == /\ mutex = Free
        /\ data_queue = <<>>
        /\ running = TRUE
        /\ stopper = "before"
        /\ pc = [t \in Threads |-> "idle"]
        /\ left = Budget
        /\ got = [c \in Consumers |-> NoValue]
        /\ spurious = 0

-----------------------------------------------------------------------------
(* The two condition variables.                                            *)

At(t, point) == pc[t] = point

\* The value of producer p's current call; its values are numbered downwards.
Item(p) == <<p, left[p]>>

\* Wrong variant: the predicate of push lets one value too many in.
ReadyOffByOne(t) == \/ ~running
                    \/ t \in Producers /\ Len(data_queue) <= Capacity
                    \/ t \in Consumers /\ data_queue # <<>>

\* What thread t waits for: cv_not_full for push, cv_not_empty for both pops.
Ready(t) == \/ ~running
            \/ t \in Producers /\ Len(data_queue) < Capacity
            \/ t \in Consumers /\ data_queue # <<>>

Asleep(S) == {t \in S : At(t, "wait")}

\* Thread t reaches point, and one sleeper of S, if there is one, is notified.
MoveAndNotifyOne(t, point, S) ==
  IF Asleep(S) = {}
    THEN pc' = [pc EXCEPT ![t] = point]
    ELSE \E s \in Asleep(S) : pc' = [pc EXCEPT ![t] = point, ![s] = "lock"]

NotifyAll(S) ==
  pc' = [t \in Threads |-> IF t \in Asleep(S) THEN "lock" ELSE pc[t]]

-----------------------------------------------------------------------------
(* The part that push, pop and pop_for share: cv.wait(lock, predicate).    *)

Call(t) ==
  /\ At(t, "idle")
  /\ left[t] > 0
  /\ pc' = [pc EXCEPT ![t] = "lock"]
  /\ UNCHANGED <<mutex, data_queue, running, stopper, left, got, spurious>>

\* Take the mutex and evaluate the predicate.
Lock(t) ==
  /\ At(t, "lock")
  /\ mutex = Free
  /\ mutex' = t
  /\ pc' = [pc EXCEPT ![t] = IF Ready(t) THEN "check" ELSE "park"]
  /\ UNCHANGED <<data_queue, running, stopper, left, got, spurious>>

\* Fall asleep and release the mutex, in one step as the standard requires.
Park(t) ==
  /\ At(t, "park")
  /\ mutex' = Free
  /\ pc' = [pc EXCEPT ![t] = "wait"]
  /\ UNCHANGED <<data_queue, running, stopper, left, got, spurious>>

Spurious(t) ==
  /\ At(t, "wait")
  /\ spurious < MaxSpurious
  /\ spurious' = spurious + 1
  /\ pc' = [pc EXCEPT ![t] = "lock"]
  /\ UNCHANGED <<mutex, data_queue, running, stopper, left, got>>

\* The call of t is over: release the mutex and leave.
Return(t) ==
  /\ mutex' = Free
  /\ left' = [left EXCEPT ![t] = @ - 1]

-----------------------------------------------------------------------------
(* push                                                                    *)

\* Wrong variant: running_ is not read again after the wait.
PushCheckUnstopped(p) ==
  /\ At(p, "check")
  /\ pc' = [pc EXCEPT ![p] = "append"]
  /\ UNCHANGED <<mutex, data_queue, running, stopper, left, got, spurious>>

\* running_ is read again after the wait: a stopped queue drops the value.
PushCheck(p) ==
  /\ At(p, "check")
  /\ IF running
       THEN /\ pc' = [pc EXCEPT ![p] = "append"]
            /\ UNCHANGED <<mutex, left>>
       ELSE /\ pc' = [pc EXCEPT ![p] = "idle"]
            /\ Return(p)
  /\ UNCHANGED <<data_queue, running, stopper, got, spurious>>

\* Wrong variant: push does not notify cv_not_empty.
PushAppendSilent(p) ==
  /\ At(p, "append")
  /\ data_queue' = Append(data_queue, Item(p))
  /\ pc' = [pc EXCEPT ![p] = "idle"]
  /\ Return(p)
  /\ UNCHANGED <<running, stopper, got, spurious>>

PushAppend(p) ==
  /\ At(p, "append")
  /\ data_queue' = Append(data_queue, Item(p))
  /\ MoveAndNotifyOne(p, "idle", Consumers)
  /\ Return(p)
  /\ UNCHANGED <<running, stopper, got, spurious>>

-----------------------------------------------------------------------------
(* pop and pop_for                                                         *)

\* Wrong variant: pop() hands out *val without has_value(); <<>> is the garbage.
NothingUnchecked(c) == IF c \in PopConsumers THEN <<>> ELSE NoValue

\* What a call that found nothing gives its caller.
Nothing(c) == IF c \in PopConsumers THEN Thrown ELSE NoValue

\* wait_for may time out as soon as the thread sleeps.
Timeout(c) ==
  /\ c \in PopForConsumers
  /\ At(c, "wait")
  /\ pc' = [pc EXCEPT ![c] = "expired"]
  /\ UNCHANGED <<mutex, data_queue, running, stopper, left, got, spurious>>

\* After a time-out wait_for evaluates the predicate once more, and gives up.
Expired(c) ==
  /\ At(c, "expired")
  /\ mutex = Free
  /\ IF Ready(c)
       THEN /\ mutex' = c
            /\ pc' = [pc EXCEPT ![c] = "check"]
            /\ UNCHANGED <<left, got>>
       ELSE /\ pc' = [pc EXCEPT ![c] = "idle"]
            /\ got' = [got EXCEPT ![c] = NoValue]
            /\ Return(c)
  /\ UNCHANGED <<data_queue, running, stopper, spurious>>

\* A stopped queue gives nothing, whatever it still holds.
PopCheck(c) ==
  /\ At(c, "check")
  /\ IF running /\ data_queue # <<>>
       THEN /\ pc' = [pc EXCEPT ![c] = "take"]
            /\ UNCHANGED <<mutex, left, got>>
       ELSE /\ pc' = [pc EXCEPT ![c] = "idle"]
            /\ got' = [got EXCEPT ![c] = Nothing(c)]
            /\ Return(c)
  /\ UNCHANGED <<data_queue, running, stopper, spurious>>

\* Wrong variant: a pop notifies the condition variable of the consumers.
PopTakeWrongCv(c) ==
  /\ At(c, "take")
  /\ got' = [got EXCEPT ![c] = Head(data_queue)]
  /\ data_queue' = Tail(data_queue)
  /\ MoveAndNotifyOne(c, "idle", Consumers)
  /\ Return(c)
  /\ UNCHANGED <<running, stopper, spurious>>

PopTake(c) ==
  /\ At(c, "take")
  /\ got' = [got EXCEPT ![c] = Head(data_queue)]
  /\ data_queue' = Tail(data_queue)
  /\ MoveAndNotifyOne(c, "idle", Producers)
  /\ Return(c)
  /\ UNCHANGED <<running, stopper, spurious>>

-----------------------------------------------------------------------------
(* stop: three steps, none of them under the mutex.  Its caller may be a   *)
(* thread that first joins the others (the destructor in test_basic) or    *)
(* one that stops the queue while they are at work: StopAfter.             *)

StopStore ==
  /\ stopper = "before"
  /\ \A t \in StopAfter : At(t, "idle") /\ left[t] = 0
  /\ running' = FALSE
  /\ stopper' = "notify_empty"
  /\ UNCHANGED <<mutex, data_queue, pc, left, got, spurious>>

StopNotifyEmpty ==
  /\ stopper = "notify_empty"
  /\ NotifyAll(Consumers)
  /\ stopper' = "notify_full"
  /\ UNCHANGED <<mutex, data_queue, running, left, got, spurious>>

\* Wrong variant: stop() forgets cv_not_full.
StopNotifyFullForgotten ==
  /\ stopper = "notify_full"
  /\ stopper' = "done"
  /\ UNCHANGED <<mutex, data_queue, running, pc, left, got, spurious>>

StopNotifyFull ==
  /\ stopper = "notify_full"
  /\ NotifyAll(Producers)
  /\ stopper' = "done"
  /\ UNCHANGED <<mutex, data_queue, running, left, got, spurious>>

-----------------------------------------------------------------------------
Wait(t) == Call(t) \/ Lock(t) \/ Park(t)
Push(p) == PushCheck(p) \/ PushAppend(p)
Pop(c) == Timeout(c) \/ Expired(c) \/ PopCheck(c) \/ PopTake(c)
Stop == StopStore \/ StopNotifyEmpty \/ StopNotifyFull

Next == \/ \E t \in Threads : Wait(t) \/ Spurious(t)
        \/ \E p \in Producers : Push(p)
        \/ \E c \in Consumers : Pop(c)
        \/ Stop

Spec == Init /\ [][Next]_vars

\* The scheduler runs every thread that can run, the clock runs, and a stop()
\* that began goes on.  Spurious wake-ups are owed to nobody, nor is a stop().
Fairness == /\ \A t \in Threads : WF_vars(Wait(t))
            /\ \A p \in Producers : WF_vars(Push(p))
            /\ \A c \in Consumers : WF_vars(Pop(c))
            /\ WF_vars(StopNotifyEmpty)
            /\ WF_vars(StopNotifyFull)

FairSpec == Spec /\ Fairness

-----------------------------------------------------------------------------
(* Properties                                                              *)

\* Every variable stays in its type; in particular no call is counted twice.
TypeOK ==
  /\ mutex \in Threads \cup {Free}
  /\ data_queue \in Seq(Values)
  /\ running \in BOOLEAN
  /\ stopper \in {"before", "notify_empty", "notify_full", "done"}
  /\ pc \in [Threads -> Points]
  /\ left \in [Threads -> Nat]
  /\ got \in [Consumers -> Values \cup {Thrown, NoValue}]
  /\ spurious \in 0..MaxSpurious

InCriticalSection(t) == pc[t] \in {"park", "check", "take", "append"}

MutexHeld == \A t \in Threads : InCriticalSection(t) <=> mutex = t

ProducerView ==
  \A p \in Producers :
    /\ pc[p] \notin {"expired", "take"}
    /\ At(p, "park") => Len(data_queue) >= Capacity
    /\ At(p, "check") /\ running => Len(data_queue) < Capacity
    /\ At(p, "append") => Len(data_queue) < Capacity

ConsumerView ==
  \A c \in Consumers :
    /\ ~At(c, "append")
    /\ At(c, "expired") => c \in PopForConsumers
    /\ At(c, "park") => data_queue = <<>>
    /\ At(c, "check") /\ running => data_queue # <<>>
    /\ At(c, "take") => data_queue # <<>>

InCall == \A t \in Threads : ~At(t, "idle") => left[t] > 0
WithinCapacity == Len(data_queue) <= Capacity
FlagFollowsStop == running <=> stopper = "before"

\* What a thread may rely on while it holds mutex_: it is alone there, and what
\* it saw of the queue through the predicate is still so when it acts on it,
\* running_ excepted; hence the queue never grows beyond capacity_.
LockProtocol ==
  /\ MutexHeld
  /\ ProducerView
  /\ ConsumerView
  /\ InCall
  /\ WithinCapacity
  /\ FlagFollowsStop

\* Threads that are awake and will look at the queue before they sleep or leave.
AwakeConsumers == {c \in Consumers : pc[c] \in {"lock", "expired", "check", "take"}}
AwakeProducers == {p \in Producers : pc[p] \in {"lock", "check", "append"}}

\* No wake-up is lost among the calls themselves: while the queue runs, a
\* consumer sleeps only if every value in the queue has an awake consumer to
\* take it, and a producer only if every free slot has an awake producer.
NoLostWakeup ==
  running =>
    /\ Asleep(Consumers) # {} => Len(data_queue) <= Cardinality(AwakeConsumers)
    /\ Asleep(Producers) # {} => Capacity - Len(data_queue) <= Cardinality(AwakeProducers)

\* The threads that sleep, or have already decided to.
Sleepy(S) == {t \in S : At(t, "wait")} \cup {t \in Threads : At(t, "park")}

\* stop() does not take mutex_, so it can miss a thread between its predicate
\* and its sleep.  It can miss one thread, never two: once it has notified a
\* condition variable, at most one thread is left asleep there or on its way.
AtMostOneStranded ==
  /\ stopper = "notify_full" => \A s, t \in Sleepy(Consumers) : s = t
  /\ stopper = "done" => \A s, t \in Sleepy(Threads) : s = t

\* The abstract queue.  A value leaves when its consumer is committed to taking
\* it and enters when its producer is committed to appending it: from there on
\* the call succeeds even if stop() comes in between.
Taking == \E c \in Consumers : At(c, "take")
Appending == {p \in Producers : At(p, "append")}

absItems == IF Taking THEN Tail(data_queue)
            ELSE IF Appending # {} THEN Append(data_queue, Item(CHOOSE p \in Appending : TRUE))
            ELSE data_queue
absTodo == [p \in Producers |-> IF At(p, "append") THEN left[p] - 1 ELSE left[p]]
absGot == [c \in Consumers |-> IF At(c, "take") THEN Head(data_queue) ELSE got[c]]

Abs == INSTANCE BoundedFifo WITH items <- absItems, todo <- absTodo,
                                 got <- absGot, closed <- ~running

\* The class implements a bounded, closable FIFO buffer: no value is lost,
\* duplicated or reordered while it is open, pop() throws only when it is
\* closed and pop_for() comes back empty only when it is empty or closed.
ImplementsFifo == Abs!Spec

Finished(t) == At(t, "idle") /\ left[t] = 0

\* If stop() is never called and the calls balance (the values suffice for the
\* pops and the pops and the capacity for the values), every call returns: the
\* notify_one calls, one per push and one per pop, wake enough threads.
RunningCallsFinish == ([]running) => <>(\A t \in Threads : Finished(t))

\* README: stop() "signals all waiting threads to stop".  A thread that sleeps
\* when stop() has returned leaves its wait.
StopReleasesWaiters ==
  \A t \in Threads : (stopper = "done" /\ At(t, "wait")) ~> ~At(t, "wait")
=============================================================================
