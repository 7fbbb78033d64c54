------------------------ MODULE BlockingQueueProofs ------------------------
(***************************************************************************)
(* Theorems about BlockingQueue for every set of threads, capacity and     *)
(* number of calls.  TypeOK /\ LockProtocol is inductive; the other        *)
(* theorems are proved relative to it.                                     *)
(***************************************************************************)
EXTENDS BlockingQueue, FiniteSetTheorems, TLAPS

IInv == TypeOK /\ LockProtocol

\* Producers and consumers are different threads, and Free is none of them.
LEMMA ThreadFacts ==
  /\ Producers \subseteq Threads
  /\ Consumers \subseteq Threads
  /\ Threads = Producers \cup Consumers
  /\ Producers \cap Consumers = {}
  /\ PopConsumers \subseteq Consumers
  /\ PopForConsumers \subseteq Consumers
  /\ Free \notin Threads
BY ThreadsAssumption DEF Threads, Consumers

\* What a notify_one leaves of pc: t is at point, at most one thread of S was
\* woken, every other thread is where it was.
LEMMA NotifyOneEffect ==
  ASSUME pc \in [Threads -> Points], NEW t \in Threads, NEW point \in Points,
         NEW S \in SUBSET Threads, ~At(t, "wait"),
         MoveAndNotifyOne(t, point, S)
  PROVE  /\ pc' \in [Threads -> Points]
         /\ pc'[t] = point
         /\ \A u \in Threads \ {t} :
              \/ pc'[u] = pc[u]
              \/ u \in S /\ pc[u] = "wait" /\ pc'[u] = "lock"
<1>1. CASE Asleep(S) = {}
  BY <1>1 DEF MoveAndNotifyOne
<1>2. CASE Asleep(S) # {}
  <2>1. PICK s \in Asleep(S) : pc' = [pc EXCEPT ![t] = point, ![s] = "lock"]
    BY <1>2 DEF MoveAndNotifyOne
  <2>2. s \in S /\ s \in Threads /\ pc[s] = "wait" /\ s # t
    BY DEF Asleep, At
  <2> QED BY <2>1, <2>2 DEF Points
<1> QED BY <1>1, <1>2

\* A notify_all wakes exactly the sleepers of S.
LEMMA NotifyAllEffect ==
  ASSUME pc \in [Threads -> Points], NEW S \in SUBSET Threads, NotifyAll(S)
  PROVE  /\ pc' \in [Threads -> Points]
         /\ \A u \in Threads :
              pc'[u] = IF u \in S /\ pc[u] = "wait" THEN "lock" ELSE pc[u]
BY DEF NotifyAll, Asleep, At, Points

\* A return counts down the calls of the thread that returns, and only those.
LEMMA ReturnEffect ==
  ASSUME left \in [Threads -> Nat], NEW t \in Threads, left[t] > 0, Return(t)
  PROVE  /\ mutex' = Free
         /\ left' \in [Threads -> Nat]
         /\ \A u \in Threads \ {t} : left'[u] = left[u]
<1>1. left[t] - 1 \in Nat
  OBVIOUS
<1> QED BY <1>1 DEF Return

\* Initially nothing is held, queued or under way.
LEMMA InitIInv == Init => IInv
<1> SUFFICES ASSUME Init PROVE IInv
  OBVIOUS
<1> USE ThreadFacts, SizesAssumption DEF Init
<1>1. TypeOK
  BY DEF TypeOK, Points
<1>2. MutexHeld /\ ProducerView /\ ConsumerView /\ InCall
  BY DEF MutexHeld, InCriticalSection, ProducerView, ConsumerView, InCall, At
<1>3. WithinCapacity /\ FlagFollowsStop
  BY DEF WithinCapacity, FlagFollowsStop
<1> QED BY <1>1, <1>2, <1>3 DEF IInv, LockProtocol

\* Every step keeps the invariant.
LEMMA NextIInv == IInv /\ [Next]_vars => IInv'
<1> SUFFICES ASSUME IInv, [Next]_vars PROVE IInv'
  OBVIOUS
<1> USE ThreadFacts, SizesAssumption
<1> USE DEF IInv, TypeOK, LockProtocol, MutexHeld, InCriticalSection, ProducerView,
            ConsumerView, InCall, WithinCapacity, FlagFollowsStop, At, Points
<1>1. ASSUME NEW t \in Threads, Call(t) PROVE IInv'
  BY <1>1 DEF Call
<1>2. ASSUME NEW t \in Threads, Lock(t) PROVE IInv'
  BY <1>2 DEF Lock, Ready
<1>3. ASSUME NEW t \in Threads, Park(t) PROVE IInv'
  BY <1>3 DEF Park
<1>4. ASSUME NEW t \in Threads, Spurious(t) PROVE IInv'
  BY <1>4 DEF Spurious
<1>5. ASSUME NEW p \in Producers, PushCheck(p) PROVE IInv'
  <2>1. CASE running
    <3>1. /\ pc[p] = "check" /\ pc' = [pc EXCEPT ![p] = "append"]
          /\ UNCHANGED <<mutex, left, data_queue, running, stopper, got, spurious>>
      BY <1>5, <2>1 DEF PushCheck
    <3>2. TypeOK' /\ MutexHeld'
      BY <3>1
    <3>3. ProducerView'
      BY <2>1, <3>1
    <3>4. ConsumerView'
      BY <3>1
    <3>5. InCall' /\ WithinCapacity' /\ FlagFollowsStop'
      BY <3>1
    <3> QED BY <3>2, <3>3, <3>4, <3>5
  <2>2. CASE ~running
    <3>1. Return(p) /\ pc' = [pc EXCEPT ![p] = "idle"]
      BY <1>5, <2>2 DEF PushCheck
    <3>2. /\ mutex' = Free
          /\ left' \in [Threads -> Nat]
          /\ \A u \in Threads \ {p} : left'[u] = left[u]
      BY <1>5, <3>1, ReturnEffect DEF PushCheck
    <3> QED BY <1>5, <3>1, <3>2 DEF PushCheck
  <2> QED BY <2>1, <2>2
<1>6. ASSUME NEW p \in Producers, PushAppend(p) PROVE IInv'
  <2> USE <1>6 DEF PushAppend
  <2>0. /\ mutex' = Free
        /\ left' \in [Threads -> Nat]
        /\ \A u \in Threads \ {p} : left'[u] = left[u]
    BY ReturnEffect
  <2>1. /\ data_queue' \in Seq(Values)
        /\ Len(data_queue') = Len(data_queue) + 1
        /\ data_queue' # <<>>
    <3>1. Item(p) \in Values
      BY DEF Item, Values
    <3> QED BY <3>1
  <2>2. /\ pc' \in [Threads -> Points]
        /\ pc'[p] = "idle"
        /\ \A u \in Threads \ {p} :
             \/ pc'[u] = pc[u]
             \/ u \in Consumers /\ pc[u] = "wait" /\ pc'[u] = "lock"
    BY NotifyOneEffect
  <2>3. \A u \in Threads : ~InCriticalSection(u)'
    BY <2>2
  <2>4. TypeOK'
    BY <2>0, <2>1, <2>2
  <2>5. MutexHeld' /\ InCall'
    BY <2>0, <2>2, <2>3
  <2>6. ProducerView' /\ ConsumerView'
    BY <2>2, <2>3
  <2>7. WithinCapacity' /\ FlagFollowsStop'
    BY <2>1
  <2> QED BY <2>4, <2>5, <2>6, <2>7
<1>7. ASSUME NEW c \in Consumers, Timeout(c) PROVE IInv'
  BY <1>7 DEF Timeout
<1>8. ASSUME NEW c \in Consumers, Expired(c) PROVE IInv'
  <2>1. CASE Ready(c)
    BY <1>8, <2>1 DEF Expired, Ready
  <2>2. CASE ~Ready(c)
    <3>1. Return(c) /\ pc' = [pc EXCEPT ![c] = "idle"]
      BY <1>8, <2>2 DEF Expired
    <3>2. /\ mutex' = Free
          /\ left' \in [Threads -> Nat]
          /\ \A u \in Threads \ {c} : left'[u] = left[u]
      BY <1>8, <3>1, ReturnEffect DEF Expired
    <3> QED BY <1>8, <2>2, <3>1, <3>2 DEF Expired
  <2> QED BY <2>1, <2>2
<1>9. ASSUME NEW c \in Consumers, PopCheck(c) PROVE IInv'
  <2>1. CASE running /\ data_queue # <<>>
    BY <1>9, <2>1 DEF PopCheck
  <2>2. CASE ~(running /\ data_queue # <<>>)
    <3>1. Return(c) /\ At(c, "check") /\ pc' = [pc EXCEPT ![c] = "idle"]
      BY <1>9, <2>2 DEF PopCheck
    <3>2. /\ mutex' = Free
          /\ left' \in [Threads -> Nat]
          /\ \A u \in Threads \ {c} : left'[u] = left[u]
      BY <1>9, <3>1, ReturnEffect DEF PopCheck
    <3>3. /\ got' \in [Consumers -> Values \cup {Thrown, NoValue}]
          /\ UNCHANGED <<data_queue, running, stopper, spurious>>
      BY <1>9, <2>2 DEF PopCheck, Nothing
    <3> QED BY <3>1, <3>2, <3>3
  <2> QED BY <2>1, <2>2
<1>10. ASSUME NEW c \in Consumers, PopTake(c) PROVE IInv'
  <2> USE <1>10 DEF PopTake
  <2>0. /\ mutex' = Free
        /\ left' \in [Threads -> Nat]
        /\ \A u \in Threads \ {c} : left'[u] = left[u]
    BY ReturnEffect
  <2>1. /\ Head(data_queue) \in Values
        /\ data_queue' \in Seq(Values)
        /\ Len(data_queue') = Len(data_queue) - 1
    BY DEF Values
  <2>2. /\ pc' \in [Threads -> Points]
        /\ pc'[c] = "idle"
        /\ \A u \in Threads \ {c} :
             \/ pc'[u] = pc[u]
             \/ u \in Producers /\ pc[u] = "wait" /\ pc'[u] = "lock"
    BY NotifyOneEffect
  <2>3. \A u \in Threads : ~InCriticalSection(u)'
    BY <2>2
  <2>4. TypeOK'
    BY <2>0, <2>1, <2>2
  <2>5. MutexHeld' /\ InCall'
    BY <2>0, <2>2, <2>3
  <2>6. ProducerView' /\ ConsumerView'
    BY <2>2, <2>3
  <2>7. WithinCapacity' /\ FlagFollowsStop'
    BY <2>1
  <2> QED BY <2>4, <2>5, <2>6, <2>7
<1>11. CASE StopStore
  BY <1>11 DEF StopStore
<1>12. CASE StopNotifyEmpty
  BY <1>12, NotifyAllEffect DEF StopNotifyEmpty
<1>13. CASE StopNotifyFull
  BY <1>13, NotifyAllEffect DEF StopNotifyFull
<1>14. CASE UNCHANGED vars
  BY <1>14 DEF vars
<1> QED
  BY <1>1, <1>2, <1>3, <1>4, <1>5, <1>6, <1>7, <1>8, <1>9, <1>10, <1>11, <1>12, <1>13, <1>14
     DEF Next, Wait, Push, Pop, Stop

\* Every run of the class keeps the types and the protocol of its mutex.
THEOREM Safety == Spec => [](TypeOK /\ LockProtocol)
<1>1. IInv => TypeOK /\ LockProtocol
  BY DEF IInv
<1> QED BY InitIInv, NextIInv, <1>1, PTL DEF Spec

\* Every variable of the class and of its threads stays in its type.
THEOREM Types == Spec => []TypeOK
<1> QED BY Safety, PTL

-----------------------------------------------------------------------------
(* At most one thread is left asleep by stop().                            *)

\* Once running_ is cleared nobody decides to sleep any more: whoever sleeps or
\* is about to after a step was so before it.
LEMMA SleepyShrinks ==
  ASSUME IInv, ~running, [Next]_vars, NEW S \in SUBSET Threads
  PROVE  Sleepy(S)' \subseteq Sleepy(S)
<1> USE ThreadFacts DEF IInv, TypeOK, LockProtocol
<1> DEFINE NoNewSleeper ==
      \A t \in Threads : \/ pc'[t] = pc[t]
                         \/ pc[t] = "park" /\ pc'[t] = "wait"
                         \/ pc'[t] \notin {"park", "wait"}
<1>1. NoNewSleeper
  <2>1. ASSUME NEW t \in Threads, Wait(t) \/ Spurious(t) PROVE NoNewSleeper
    BY <2>1 DEF Wait, Call, Lock, Park, Spurious, Ready, At
  <2>2. ASSUME NEW p \in Producers, PushCheck(p) PROVE NoNewSleeper
    BY <2>2 DEF PushCheck, At
  <2>3. ASSUME NEW p \in Producers, PushAppend(p) PROVE NoNewSleeper
    <3>1. ~At(p, "wait") /\ "idle" \in Points
      BY <2>3 DEF PushAppend, At, Points
    <3>2. /\ pc'[p] = "idle"
          /\ \A u \in Threads \ {p} :
               \/ pc'[u] = pc[u]
               \/ u \in Consumers /\ pc[u] = "wait" /\ pc'[u] = "lock"
      BY <2>3, <3>1, NotifyOneEffect DEF PushAppend
    <3> QED BY <3>2
  <2>4. ASSUME NEW c \in Consumers, Timeout(c) \/ Expired(c) \/ PopCheck(c)
        PROVE NoNewSleeper
    BY <2>4 DEF Timeout, Expired, PopCheck, At
  <2>5. ASSUME NEW c \in Consumers, PopTake(c) PROVE NoNewSleeper
    <3>1. ~At(c, "wait") /\ "idle" \in Points
      BY <2>5 DEF PopTake, At, Points
    <3>2. /\ pc'[c] = "idle"
          /\ \A u \in Threads \ {c} :
               \/ pc'[u] = pc[u]
               \/ u \in Producers /\ pc[u] = "wait" /\ pc'[u] = "lock"
      BY <2>5, <3>1, NotifyOneEffect DEF PopTake
    <3> QED BY <3>2
  <2>6. CASE Stop
    BY <2>6, NotifyAllEffect DEF Stop, StopStore, StopNotifyEmpty, StopNotifyFull
  <2>7. CASE UNCHANGED vars
    BY <2>7 DEF vars
  <2> QED
    BY <2>1, <2>2, <2>3, <2>4, <2>5, <2>6, <2>7 DEF Next, Push, Pop
<1> QED BY <1>1 DEF Sleepy, At

\* Each notify_all empties its condition variable; what is left is on its way to
\* sleep under the mutex, so it is one thread.
LEMMA NextStranded == IInv /\ AtMostOneStranded /\ [Next]_vars => AtMostOneStranded'
<1> SUFFICES ASSUME IInv, AtMostOneStranded, [Next]_vars PROVE AtMostOneStranded'
  OBVIOUS
<1> USE ThreadFacts DEF IInv, TypeOK, LockProtocol
<1>1. CASE StopNotifyEmpty
  <2>1. stopper' = "notify_full"
    BY <1>1 DEF StopNotifyEmpty
  <2>2. \A t \in Sleepy(Consumers)' : t \in Threads /\ pc[t] = "park"
    BY <1>1, NotifyAllEffect DEF StopNotifyEmpty, Sleepy, At
  <2>3. \A s, t \in Sleepy(Consumers)' : s = t
    BY <2>2 DEF MutexHeld, InCriticalSection
  <2> QED BY <2>1, <2>3 DEF AtMostOneStranded
<1>2. CASE StopNotifyFull
  <2>1. stopper = "notify_full" /\ stopper' = "done"
    BY <1>2 DEF StopNotifyFull
  <2>2. Sleepy(Threads)' \subseteq Sleepy(Consumers)
    BY <1>2, NotifyAllEffect DEF StopNotifyFull, Sleepy, At
  <2> QED BY <2>1, <2>2 DEF AtMostOneStranded
<1>3. CASE StopStore
  BY <1>3 DEF StopStore, AtMostOneStranded
<1>4. CASE ~Stop
  <2>1. stopper' = stopper
    BY <1>4 DEF Next, Wait, Call, Lock, Park, Spurious, Push, PushCheck, PushAppend,
                Pop, Timeout, Expired, PopCheck, PopTake, Stop, vars
  <2>2. stopper \in {"notify_full", "done"} => ~running
    BY DEF FlagFollowsStop
  <2>3. CASE stopper = "notify_full"
    <3>1. Sleepy(Consumers)' \subseteq Sleepy(Consumers)
      BY <2>2, <2>3, SleepyShrinks
    <3> QED BY <2>1, <2>3, <3>1 DEF AtMostOneStranded
  <2>4. CASE stopper = "done"
    <3>1. Sleepy(Threads)' \subseteq Sleepy(Threads)
      BY <2>2, <2>4, SleepyShrinks
    <3> QED BY <2>1, <2>4, <3>1 DEF AtMostOneStranded
  <2> QED BY <2>1, <2>3, <2>4 DEF AtMostOneStranded
<1> QED BY <1>1, <1>2, <1>3, <1>4 DEF Stop

\* However many threads use the queue, stop() leaves at most one of them asleep.
THEOREM StopStrandsAtMostOne == Spec => []AtMostOneStranded
<1>1. Init => AtMostOneStranded
  BY DEF Init, AtMostOneStranded
<1> QED BY <1>1, InitIInv, NextIInv, NextStranded, PTL DEF Spec

-----------------------------------------------------------------------------
(* No wake-up is lost among the calls.                                     *)

\* The sets the invariant counts are finite.
LEMMA AwakeFinite ==
  /\ IsFiniteSet(AwakeConsumers)  /\ IsFiniteSet(AwakeProducers)
  /\ IsFiniteSet(AwakeConsumers') /\ IsFiniteSet(AwakeProducers')
  /\ Cardinality(AwakeConsumers) \in Nat  /\ Cardinality(AwakeProducers) \in Nat
  /\ Cardinality(AwakeConsumers') \in Nat /\ Cardinality(AwakeProducers') \in Nat
<1>1. /\ AwakeConsumers \subseteq Threads  /\ AwakeProducers \subseteq Threads
      /\ AwakeConsumers' \subseteq Threads /\ AwakeProducers' \subseteq Threads
  BY ThreadFacts DEF AwakeConsumers, AwakeProducers
<1>2. IsFiniteSet(Threads)
  BY ThreadsAssumption
<1>3. \A S \in SUBSET Threads : IsFiniteSet(S)
  BY <1>2, FS_Subset
<1>4. \A S : IsFiniteSet(S) => Cardinality(S) \in Nat
  BY FS_CardinalityType
<1> QED BY <1>1, <1>3, <1>4

\* The two halves of NoLostWakeup.
ConsumersServed ==
  running /\ Asleep(Consumers) # {} => Len(data_queue) <= Cardinality(AwakeConsumers)
ProducersServed ==
  running /\ Asleep(Producers) # {} => Capacity - Len(data_queue) <= Cardinality(AwakeProducers)

\* A thread moves on by itself: the threads that were awake still are, and
\* whoever falls asleep saw the queue empty, or full.
LEMMA QuietStep ==
  ASSUME IInv, ConsumersServed, ProducersServed, IInv',
         UNCHANGED data_queue, running' => running,
         \A t \in Threads :
           \/ pc'[t] = pc[t]
           \/ pc[t] \in {"idle", "wait"} /\ pc'[t] \in {"lock", "expired"}
           \/ pc[t] = "lock" /\ pc'[t] = "check"
           \/ pc[t] = "expired" /\ pc'[t] = "check"
           \/ pc[t] = "check" /\ pc'[t] \in {"take", "append"}
           \/ t \in Producers /\ pc'[t] \in {"park", "wait", "idle"}
                /\ (running' => Len(data_queue) >= Capacity)
           \/ t \in Consumers /\ pc'[t] \in {"park", "wait", "idle"}
                /\ (running' => data_queue = <<>>)
  PROVE  ConsumersServed' /\ ProducersServed'
<1> USE ThreadFacts, SizesAssumption DEF IInv, TypeOK, LockProtocol
<1>0. Len(data_queue) \in Nat /\ Len(<<>>) = 0
  OBVIOUS
<1>1. ConsumersServed'
  <2>1. CASE running' /\ data_queue = <<>>
    BY <2>1, <1>0, AwakeFinite DEF ConsumersServed
  <2>2. CASE running' /\ data_queue # <<>>
    <3>1. AwakeConsumers \subseteq AwakeConsumers'
      BY <2>2 DEF AwakeConsumers, ConsumerView, At
    <3>2. Asleep(Consumers)' \subseteq Asleep(Consumers)
      BY <2>2 DEF Asleep, ConsumerView, At
    <3>3. Cardinality(AwakeConsumers) <= Cardinality(AwakeConsumers')
      BY <3>1, AwakeFinite, FS_Subset
    <3> QED BY <2>2, <1>0, <3>2, <3>3, AwakeFinite DEF ConsumersServed
  <2> QED BY <2>1, <2>2 DEF ConsumersServed
<1>2. ProducersServed'
  <2>1. CASE running' /\ Len(data_queue) >= Capacity
    BY <2>1, <1>0, AwakeFinite DEF ProducersServed
  <2>2. CASE running' /\ Len(data_queue) < Capacity
    <3>0. ~(Len(data_queue) >= Capacity)
      BY <2>2, <1>0
    <3>1. AwakeProducers \subseteq AwakeProducers'
      BY <2>2, <3>0 DEF AwakeProducers, ProducerView, At
    <3>2. Asleep(Producers)' \subseteq Asleep(Producers)
      BY <2>2, <3>0 DEF Asleep, At
    <3>3. Cardinality(AwakeProducers) <= Cardinality(AwakeProducers')
      BY <3>1, AwakeFinite, FS_Subset
    <3> QED BY <2>2, <1>0, <3>2, <3>3, AwakeFinite DEF ProducersServed
  <2> QED BY <1>0, <2>1, <2>2 DEF ProducersServed
<1> QED BY <1>1, <1>2

\* A push serves the consumers by its notify_one; it took one free slot, and
\* with it one awake producer, itself.
LEMMA AppendServes ==
  ASSUME IInv, ConsumersServed, ProducersServed, IInv', NEW p \in Producers, PushAppend(p)
  PROVE  ConsumersServed' /\ ProducersServed'
<1> USE ThreadFacts, SizesAssumption DEF IInv, TypeOK
<1>0. /\ At(p, "append") /\ ~At(p, "wait") /\ p \notin Consumers /\ running' = running
      /\ Len(data_queue) \in Nat
      /\ Len(data_queue') = Len(data_queue) + 1
  BY DEF PushAppend, At
<1>1. /\ pc'[p] = "idle"
      /\ \A u \in Threads \ {p} :
           \/ pc'[u] = pc[u]
           \/ u \in Consumers /\ pc[u] = "wait" /\ pc'[u] = "lock"
  <2>1. "idle" \in Points
    BY DEF Points
  <2> QED BY <1>0, <2>1, NotifyOneEffect DEF PushAppend
<1>2. ConsumersServed'
  <2>1. CASE Asleep(Consumers) = {}
    <3>1. Asleep(Consumers)' = {}
      BY <1>0, <1>1, <2>1 DEF Asleep, At
    <3> QED BY <3>1 DEF ConsumersServed
  <2>2. CASE Asleep(Consumers) # {}
    <3>1. PICK c \in Asleep(Consumers) : pc' = [pc EXCEPT ![p] = "idle", ![c] = "lock"]
      BY <2>2 DEF PushAppend, MoveAndNotifyOne
    <3>2. c \in Consumers /\ pc[c] = "wait" /\ c # p
      BY <1>0 DEF Asleep, At
    <3>3. AwakeConsumers' = AwakeConsumers \cup {c} /\ c \notin AwakeConsumers
      BY <1>0, <3>1, <3>2, SMTT(30) DEF AwakeConsumers
    <3>4. Cardinality(AwakeConsumers') = Cardinality(AwakeConsumers) + 1
      BY <3>3, AwakeFinite, FS_AddElement
    <3> QED BY <1>0, <2>2, <3>4, AwakeFinite DEF ConsumersServed
  <2> QED BY <2>1, <2>2
<1>3. ProducersServed'
  <2>1. AwakeProducers' = AwakeProducers \ {p} /\ p \in AwakeProducers
    BY <1>0, <1>1 DEF AwakeProducers, At
  <2>2. Cardinality(AwakeProducers') = Cardinality(AwakeProducers) - 1
    BY <2>1, AwakeFinite, FS_RemoveElement
  <2>3. Asleep(Producers)' \subseteq Asleep(Producers)
    BY <1>0, <1>1 DEF Asleep, At
  <2> QED BY <1>0, <2>2, <2>3, AwakeFinite DEF ProducersServed
<1> QED BY <1>2, <1>3

\* Symmetrically for a pop: it frees a slot and notifies one producer.
LEMMA TakeServes ==
  ASSUME IInv, ConsumersServed, ProducersServed, IInv', NEW c \in Consumers, PopTake(c)
  PROVE  ConsumersServed' /\ ProducersServed'
<1> USE ThreadFacts, SizesAssumption DEF IInv, TypeOK
<1>0. /\ At(c, "take") /\ ~At(c, "wait") /\ c \notin Producers /\ running' = running
      /\ Len(data_queue) \in Nat /\ Len(data_queue') \in Nat
      /\ Len(data_queue') = Len(data_queue) - 1
  <2>1. data_queue # <<>>
    BY DEF PopTake, LockProtocol, ConsumerView
  <2> QED BY <2>1 DEF PopTake, At
<1>1. /\ pc'[c] = "idle"
      /\ \A u \in Threads \ {c} :
           \/ pc'[u] = pc[u]
           \/ u \in Producers /\ pc[u] = "wait" /\ pc'[u] = "lock"
  <2>1. "idle" \in Points
    BY DEF Points
  <2> QED BY <1>0, <2>1, NotifyOneEffect DEF PopTake
<1>2. ProducersServed'
  <2>1. CASE Asleep(Producers) = {}
    <3>1. Asleep(Producers)' = {}
      BY <1>0, <1>1, <2>1 DEF Asleep, At
    <3> QED BY <3>1 DEF ProducersServed
  <2>2. CASE Asleep(Producers) # {}
    <3>1. PICK p \in Asleep(Producers) : pc' = [pc EXCEPT ![c] = "idle", ![p] = "lock"]
      BY <2>2 DEF PopTake, MoveAndNotifyOne
    <3>2. p \in Producers /\ pc[p] = "wait" /\ p # c
      BY <1>0 DEF Asleep, At
    <3>3. AwakeProducers' = AwakeProducers \cup {p} /\ p \notin AwakeProducers
      BY <1>0, <3>1, <3>2, SMTT(30) DEF AwakeProducers
    <3>4. Cardinality(AwakeProducers') = Cardinality(AwakeProducers) + 1
      BY <3>3, AwakeFinite, FS_AddElement
    <3> QED BY <1>0, <2>2, <3>4, AwakeFinite DEF ProducersServed
  <2> QED BY <2>1, <2>2
<1>3. ConsumersServed'
  <2>1. AwakeConsumers' = AwakeConsumers \ {c} /\ c \in AwakeConsumers
    BY <1>0, <1>1 DEF AwakeConsumers, At
  <2>2. Cardinality(AwakeConsumers') = Cardinality(AwakeConsumers) - 1
    BY <2>1, AwakeFinite, FS_RemoveElement
  <2>3. Asleep(Consumers)' \subseteq Asleep(Consumers)
    BY <1>0, <1>1 DEF Asleep, At
  <2> QED BY <1>0, <2>2, <2>3, AwakeFinite DEF ConsumersServed
<1> QED BY <1>2, <1>3

\* Every step keeps both sides served.
LEMMA NextServed ==
  ASSUME IInv, ConsumersServed, ProducersServed, [Next]_vars, IInv'
  PROVE  ConsumersServed' /\ ProducersServed'
<1> USE ThreadFacts DEF IInv
<1>1. ASSUME NEW t \in Threads, Call(t) \/ Spurious(t) PROVE ConsumersServed' /\ ProducersServed'
  BY <1>1, QuietStep DEF Call, Spurious, At, TypeOK
<1>2. ASSUME NEW t \in Threads, Lock(t) PROVE ConsumersServed' /\ ProducersServed'
  BY <1>2, QuietStep, SizesAssumption DEF Lock, Ready, At, TypeOK
<1>3. ASSUME NEW t \in Threads, Park(t) PROVE ConsumersServed' /\ ProducersServed'
  BY <1>3, QuietStep DEF Park, At, TypeOK, LockProtocol, ProducerView, ConsumerView
<1>4. ASSUME NEW p \in Producers, PushCheck(p) PROVE ConsumersServed' /\ ProducersServed'
  BY <1>4, QuietStep DEF PushCheck, At, TypeOK
<1>5. ASSUME NEW p \in Producers, PushAppend(p) PROVE ConsumersServed' /\ ProducersServed'
  BY <1>5, AppendServes
<1>6. ASSUME NEW c \in Consumers, Timeout(c) PROVE ConsumersServed' /\ ProducersServed'
  BY <1>6, QuietStep DEF Timeout, At, TypeOK
<1>7. ASSUME NEW c \in Consumers, Expired(c) PROVE ConsumersServed' /\ ProducersServed'
  BY <1>7, QuietStep DEF Expired, Ready, At, TypeOK
<1>8. ASSUME NEW c \in Consumers, PopCheck(c) PROVE ConsumersServed' /\ ProducersServed'
  BY <1>8, QuietStep DEF PopCheck, At, TypeOK, LockProtocol, ConsumerView
<1>9. ASSUME NEW c \in Consumers, PopTake(c) PROVE ConsumersServed' /\ ProducersServed'
  BY <1>9, TakeServes
<1>10. CASE Stop
  <2>1. ~running'
    BY <1>10 DEF Stop, StopStore, StopNotifyEmpty, StopNotifyFull, LockProtocol, FlagFollowsStop
  <2> QED BY <2>1 DEF ConsumersServed, ProducersServed
<1>11. CASE UNCHANGED vars
  BY <1>11, QuietStep DEF vars
<1> QED
  BY <1>1, <1>2, <1>3, <1>4, <1>5, <1>6, <1>7, <1>8, <1>9, <1>10, <1>11
     DEF Next, Wait, Push, Pop

\* The notify_one calls suffice: while the queue runs, no value waits beside a
\* sleeping consumer, and no free slot beside a sleeping producer, that nobody
\* awake will reach.
THEOREM WakeupsSuffice == Spec => []NoLostWakeup
<1>1. Init => ConsumersServed /\ ProducersServed
  BY ThreadFacts DEF Init, ConsumersServed, ProducersServed, Asleep, At
<1>2. ConsumersServed /\ ProducersServed => NoLostWakeup
  BY DEF ConsumersServed, ProducersServed, NoLostWakeup
<1>3. IInv /\ IInv' /\ ConsumersServed /\ ProducersServed /\ [Next]_vars
      => ConsumersServed' /\ ProducersServed'
  BY NextServed
<1> QED BY <1>1, <1>2, <1>3, InitIInv, NextIInv, PTL DEF Spec

-----------------------------------------------------------------------------
(* The class implements BoundedFifo.                                       *)

\* The contents the clients see, by who holds the mutex.
LEMMA AbsItemsCases ==
  ASSUME IInv
  PROVE  /\ (\A t \in Threads : pc[t] \notin {"take", "append"})
              => absItems = data_queue
         /\ \A p \in Producers : At(p, "append") => absItems = Append(data_queue, Item(p))
         /\ \A c \in Consumers : At(c, "take") => absItems = Tail(data_queue)
<1> USE ThreadFacts DEF IInv, LockProtocol, MutexHeld, InCriticalSection, At
<1>1. ASSUME NEW p \in Producers, At(p, "append")
      PROVE  absItems = Append(data_queue, Item(p))
  <2>1. ~Taking /\ Appending = {p}
    BY <1>1 DEF Taking, Appending
  <2> QED BY <2>1 DEF absItems
<1>2. ASSUME \A t \in Threads : pc[t] \notin {"take", "append"}
      PROVE  absItems = data_queue
  BY <1>2 DEF absItems, Taking, Appending
<1>3. ASSUME NEW c \in Consumers, At(c, "take")
      PROVE  absItems = Tail(data_queue)
  BY <1>3 DEF absItems, Taking
<1> QED BY <1>1, <1>2, <1>3

\* The same in the next state.
LEMMA AbsItemsCasesNext ==
  ASSUME IInv'
  PROVE  /\ (\A t \in Threads : pc'[t] \notin {"take", "append"})
              => absItems' = data_queue'
         /\ \A p \in Producers : At(p, "append")' => absItems' = Append(data_queue', Item(p)')
         /\ \A c \in Consumers : At(c, "take")' => absItems' = Tail(data_queue')
<1> USE ThreadFacts DEF IInv, LockProtocol, MutexHeld, InCriticalSection, At
<1>1. ASSUME NEW p \in Producers, At(p, "append")'
      PROVE  absItems' = Append(data_queue', Item(p)')
  <2>1. ~Taking' /\ Appending' = {p}
    BY <1>1 DEF Taking, Appending
  <2> QED BY <2>1 DEF absItems
<1>2. ASSUME \A t \in Threads : pc'[t] \notin {"take", "append"}
      PROVE  absItems' = data_queue'
  BY <1>2 DEF absItems, Taking, Appending
<1>3. ASSUME NEW c \in Consumers, At(c, "take")'
      PROVE  absItems' = Tail(data_queue')
  BY <1>3 DEF absItems, Taking
<1> QED BY <1>1, <1>2, <1>3

\* A step that moves nobody to or from append and take, and leaves the queue and
\* the results alone, is invisible to the clients.
LEMMA InvisibleStep ==
  ASSUME UNCHANGED <<data_queue, running, left, got>>,
         \A t \in Threads : \/ pc'[t] = pc[t]
                            \/ /\ pc[t]  \notin {"take", "append"}
                               /\ pc'[t] \notin {"take", "append"}
  PROVE  UNCHANGED Abs!vars
<1> USE ThreadFacts DEF At
<1>1. Taking' = Taking /\ Appending' = Appending
  BY DEF Taking, Appending
<1>2. \A p : Item(p)' = Item(p)
  BY DEF Item
<1>3. absItems' = absItems
  BY <1>1, <1>2 DEF absItems
<1>4. absTodo' = absTodo
  BY DEF absTodo
<1>5. absGot' = absGot
  BY DEF absGot
<1> QED BY <1>3, <1>4, <1>5 DEF Abs!vars

\* A thread that just entered its critical section is alone there.
LEMMA NobodyCommitted ==
  ASSUME IInv, NEW t \in Threads,
         mutex = Free \/ At(t, "check")
  PROVE  \A u \in Threads : pc[u] \notin {"take", "append"}
BY ThreadFacts DEF IInv, LockProtocol, MutexHeld, InCriticalSection, At

\* The initial state is an empty open buffer.
LEMMA AbsInit == Init => Abs!Init
<1> SUFFICES ASSUME Init PROVE Abs!Init
  OBVIOUS
<1> USE ThreadFacts DEF Init, At
<1>1. ~Taking /\ Appending = {}
  BY DEF Taking, Appending
<1>2. absItems = <<>>
  BY <1>1 DEF absItems
<1>3. absTodo \in [Producers -> Nat]
  BY SizesAssumption DEF absTodo
<1>4. absGot = [c \in Abs!Takers |-> NoValue]
  BY DEF absGot, Abs!Takers, Consumers
<1> QED BY <1>2, <1>3, <1>4 DEF Abs!Init

\* Every step of the class is a step of the buffer or invisible.
LEMMA AbsNext ==
  ASSUME IInv, [Next]_vars, IInv'
  PROVE  [Abs!Next]_(Abs!vars)
<1> USE ThreadFacts, SizesAssumption
<1>0. TypeOK /\ TypeOK' /\ ConsumerView /\ ProducerView /\ InCall
      /\ PopConsumers \cup PopForConsumers = Consumers
  BY DEF IInv, LockProtocol, Consumers
<1>1. ASSUME NEW t \in Threads, Wait(t) \/ Spurious(t) PROVE UNCHANGED Abs!vars
  BY <1>0, <1>1, InvisibleStep DEF Wait, Call, Lock, Park, Spurious, At, TypeOK
<1>2. ASSUME NEW p \in Producers, PushCheck(p) PROVE Abs!Next
  <2>1. /\ At(p, "check") /\ absItems = data_queue
        /\ \A u \in Threads : pc[u] \notin {"take", "append"}
    BY <1>2, NobodyCommitted, AbsItemsCases DEF PushCheck
  <2>2. left[p] > 0 /\ absTodo[p] = left[p]
    BY <1>0, <2>1 DEF InCall, absTodo, At
  <2>3. absGot' = absGot
    <3>1. \A c \in Consumers : ~At(c, "take") /\ ~At(c, "take")'
      BY <1>0, <1>2, <2>1 DEF PushCheck, TypeOK, At
    <3> QED BY <1>2, <3>1 DEF PushCheck, absGot
  <2>4. CASE running
    <3>1. absItems' = Append(data_queue, Item(p))
      <4>1. At(p, "append")' /\ Item(p)' = Item(p) /\ data_queue' = data_queue
        BY <1>0, <1>2, <2>4 DEF PushCheck, At, TypeOK, Item
      <4> QED BY <4>1, AbsItemsCasesNext
    <3>2. absTodo' = [absTodo EXCEPT ![p] = @ - 1]
      BY <1>0, <1>2, <2>1, <2>4 DEF PushCheck, absTodo, At, TypeOK
    <3>3. Len(data_queue) < Capacity
      BY <1>0, <2>1, <2>4 DEF ProducerView
    <3>4. Item(p) = <<p, absTodo[p]>>
      BY <2>2 DEF Item
    <3>5. UNCHANGED running
      BY <1>2 DEF PushCheck
    <3>6. Abs!Put(p)
      BY <2>1, <2>2, <2>3, <2>4, <3>1, <3>2, <3>3, <3>4, <3>5 DEF Abs!Put
    <3> QED BY <3>6 DEF Abs!Next
  <2>5. CASE ~running
    <3>1. absItems' = absItems
      <4>1. \A u \in Threads : pc'[u] \notin {"take", "append"}
        BY <1>0, <1>2, <2>1, <2>5 DEF PushCheck, TypeOK
      <4> QED BY <1>2, <2>1, <4>1, AbsItemsCasesNext DEF PushCheck
    <3>2. absTodo' = [absTodo EXCEPT ![p] = @ - 1]
      BY <1>0, <1>2, <2>1, <2>5, ZenonT(60) DEF PushCheck, Return, absTodo, At, TypeOK
    <3>3. UNCHANGED running
      BY <1>2 DEF PushCheck
    <3>4. Abs!Drop(p)
      BY <2>2, <2>3, <2>5, <3>1, <3>2, <3>3 DEF Abs!Drop
    <3> QED BY <3>4 DEF Abs!Next
  <2> QED BY <2>4, <2>5
<1>3. ASSUME NEW p \in Producers, PushAppend(p) PROVE UNCHANGED Abs!vars
  <2>1. At(p, "append") /\ absItems = Append(data_queue, Item(p))
    BY <1>3, AbsItemsCases DEF PushAppend
  <2>2. \A u \in Threads \ {p} : pc[u] \notin {"take", "append"}
    BY <2>1 DEF IInv, LockProtocol, MutexHeld, InCriticalSection, At
  <2>3. /\ pc'[p] = "idle"
        /\ \A u \in Threads \ {p} :
             \/ pc'[u] = pc[u]
             \/ u \in Consumers /\ pc[u] = "wait" /\ pc'[u] = "lock"
    <3>1. ~At(p, "wait") /\ "idle" \in Points
      BY <2>1 DEF At, Points
    <3> QED BY <1>0, <1>3, <3>1, NotifyOneEffect DEF PushAppend, TypeOK
  <2>4. \A u \in Threads : pc'[u] \notin {"take", "append"}
    BY <2>2, <2>3
  <2>5. absItems' = absItems
    BY <1>3, <2>1, <2>4, AbsItemsCasesNext DEF PushAppend
  <2>6. absTodo' = absTodo
    BY <1>0, <1>3, <2>1, <2>2, <2>4 DEF PushAppend, Return, absTodo, At, TypeOK
  <2>7. absGot' = absGot
    <3>1. \A c \in Consumers : ~At(c, "take") /\ ~At(c, "take")'
      BY <1>0, <2>1, <2>2, <2>4 DEF At
    <3> QED BY <1>3, <3>1 DEF PushAppend, absGot
  <2>8. UNCHANGED running
    BY <1>3 DEF PushAppend
  <2> QED BY <2>5, <2>6, <2>7, <2>8 DEF Abs!vars
<1>4. ASSUME NEW c \in Consumers, Timeout(c) PROVE UNCHANGED Abs!vars
  BY <1>0, <1>4, InvisibleStep DEF Timeout, At, TypeOK
<1>5. ASSUME NEW c \in Consumers, Expired(c) PROVE [Abs!Next]_(Abs!vars)
  <2>1. CASE Ready(c)
    BY <1>0, <1>5, <2>1, InvisibleStep DEF Expired, At, TypeOK
  <2>2. CASE ~Ready(c)
    <3>1. /\ At(c, "expired") /\ c \in PopForConsumers /\ data_queue = <<>>
          /\ absItems = data_queue
          /\ \A u \in Threads : pc[u] \notin {"take", "append"}
      BY <1>0, <1>5, <2>2, NobodyCommitted, AbsItemsCases
         DEF Expired, Ready, ConsumerView
    <3>2. /\ \A u \in Threads : pc'[u] \notin {"take", "append"}
          /\ UNCHANGED <<data_queue, running>>
          /\ left' = [left EXCEPT ![c] = @ - 1]
          /\ got' = [got EXCEPT ![c] = NoValue]
      BY <1>0, <1>5, <2>2, <3>1 DEF Expired, Return, TypeOK
    <3>3. absItems' = absItems
      BY <3>1, <3>2, AbsItemsCasesNext
    <3>4. absTodo' = absTodo
      BY <1>0, <3>1, <3>2 DEF absTodo, At, TypeOK
    <3>5. absGot' = [absGot EXCEPT ![c] = NoValue]
      BY <1>0, <3>1, <3>2 DEF absGot, At, TypeOK
    <3>6. Abs!Miss(c)
      BY <3>1, <3>2, <3>3, <3>4, <3>5 DEF Abs!Miss
    <3> QED BY <1>0, <3>6 DEF Abs!Next, Abs!Takers
  <2> QED BY <2>1, <2>2
<1>6. ASSUME NEW c \in Consumers, PopCheck(c) PROVE Abs!Next
  <2>1. /\ At(c, "check") /\ absItems = data_queue
        /\ \A u \in Threads : pc[u] \notin {"take", "append"}
    BY <1>6, NobodyCommitted, AbsItemsCases DEF PopCheck
  <2>2. UNCHANGED <<data_queue, running>>
    BY <1>6 DEF PopCheck
  <2>3. absTodo' = absTodo
    <3>1. \A p \in Producers : left'[p] = left[p] /\ ~At(p, "append") /\ ~At(p, "append")'
      BY <1>0, <1>6, <2>1 DEF PopCheck, Return, At, TypeOK
    <3> QED BY <3>1 DEF absTodo
  <2>4. CASE running /\ data_queue # <<>>
    <3>1. absItems' = Tail(data_queue)
      <4>1. At(c, "take")'
        BY <1>0, <1>6, <2>4 DEF PopCheck, At, TypeOK
      <4> QED BY <2>2, <4>1, AbsItemsCasesNext
    <3>2. absGot' = [absGot EXCEPT ![c] = Head(data_queue)]
      BY <1>0, <1>6, <2>1, <2>4 DEF PopCheck, absGot, At, TypeOK
    <3>3. Abs!Get(c)
      BY <2>1, <2>2, <2>3, <2>4, <3>1, <3>2 DEF Abs!Get
    <3> QED BY <1>0, <3>3 DEF Abs!Next, Abs!Takers
  <2>5. CASE ~(running /\ data_queue # <<>>)
    <3>1. ~running
      BY <1>0, <2>1, <2>5 DEF ConsumerView
    <3>2. absItems' = absItems
      <4>1. \A u \in Threads : pc'[u] \notin {"take", "append"}
        BY <1>0, <1>6, <2>1, <2>5 DEF PopCheck, TypeOK
      <4> QED BY <2>1, <2>2, <4>1, AbsItemsCasesNext
    <3>3. absGot' = [absGot EXCEPT ![c] = Nothing(c)]
      BY <1>0, <1>6, <2>1, <2>5, SMTT(30) DEF PopCheck, absGot, At, TypeOK
    <3>4. Abs!Refuse(c) \/ Abs!Miss(c)
      BY <1>0, <2>2, <2>3, <3>1, <3>2, <3>3 DEF Abs!Refuse, Abs!Miss, Nothing
    <3> QED BY <1>0, <3>4 DEF Abs!Next, Abs!Takers
  <2> QED BY <2>4, <2>5
<1>7. ASSUME NEW c \in Consumers, PopTake(c) PROVE UNCHANGED Abs!vars
  <2>1. At(c, "take") /\ absItems = Tail(data_queue)
    BY <1>7, AbsItemsCases DEF PopTake
  <2>2. \A u \in Threads \ {c} : pc[u] \notin {"take", "append"}
    BY <2>1 DEF IInv, LockProtocol, MutexHeld, InCriticalSection, At
  <2>3. /\ pc'[c] = "idle"
        /\ \A u \in Threads \ {c} :
             \/ pc'[u] = pc[u]
             \/ u \in Producers /\ pc[u] = "wait" /\ pc'[u] = "lock"
    <3>1. ~At(c, "wait") /\ "idle" \in Points
      BY <2>1 DEF At, Points
    <3> QED BY <1>0, <1>7, <3>1, NotifyOneEffect DEF PopTake, TypeOK
  <2>4. \A u \in Threads : pc'[u] \notin {"take", "append"}
    BY <2>2, <2>3
  <2>5. absItems' = absItems
    BY <1>7, <2>1, <2>4, AbsItemsCasesNext DEF PopTake
  <2>6. absTodo' = absTodo
    <3>1. \A p \in Producers : left'[p] = left[p] /\ ~At(p, "append") /\ ~At(p, "append")'
      BY <1>0, <1>7, <2>1, <2>2, <2>4 DEF PopTake, Return, At, TypeOK
    <3> QED BY <3>1 DEF absTodo
  <2>7. absGot' = absGot
    BY <1>0, <1>7, <2>1, <2>2, <2>4 DEF PopTake, absGot, At, TypeOK
  <2>8. UNCHANGED running
    BY <1>7 DEF PopTake
  <2> QED BY <2>5, <2>6, <2>7, <2>8 DEF Abs!vars
<1>8. CASE StopStore
  <2>1. absItems' = absItems /\ absTodo' = absTodo /\ absGot' = absGot
    BY <1>8 DEF StopStore, absItems, absTodo, absGot, Taking, Appending, Item, At
  <2>2. Abs!Close
    BY <1>8, <2>1 DEF StopStore, Abs!Close
  <2> QED BY <2>2 DEF Abs!Next
<1>9. CASE StopNotifyEmpty
  BY <1>0, <1>9, InvisibleStep, NotifyAllEffect DEF StopNotifyEmpty, TypeOK
<1>10. CASE StopNotifyFull
  BY <1>0, <1>10, InvisibleStep, NotifyAllEffect DEF StopNotifyFull, TypeOK
<1>11. CASE UNCHANGED vars
  BY <1>11, InvisibleStep DEF vars
<1> QED
  BY <1>1, <1>2, <1>3, <1>4, <1>5, <1>6, <1>7, <1>8, <1>9, <1>10, <1>11
     DEF Next, Push, Pop, Stop

\* The class is a bounded, closable first-in first-out buffer, whatever the
\* number of threads, the capacity and the moment at which stop() is called.
THEOREM Refinement == Spec => ImplementsFifo
BY AbsInit, AbsNext, InitIInv, NextIInv, PTL DEF Spec, ImplementsFifo, Abs!Spec
=============================================================================
