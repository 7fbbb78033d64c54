-------------------------- MODULE KafkaAsyncProofs --------------------------
(***************************************************************************)
(* Theorems about KafkaAsync for any number of messages and attempts and   *)
(* any failures of produce(), of the flushes and of acknowledgements.      *)
(* IInv, the conjunction of the parts below, is inductive.                 *)
(***************************************************************************)
EXTENDS KafkaAsync, SequenceLemmas, FiniteSetTheorems, FunctionTheorems

Typed ==
  /\ sending \in [Senders -> Payloads \cup {Nothing}]
  /\ sendpc \in [Senders -> {"out", "produce", "failed", "enqueue"}]
  /\ outbox \in Seq(Payloads) /\ log \in Seq(Payloads)
  /\ timeouts \in Nat /\ duplicates \in Nat
  /\ cqueue \in Seq(Payloads) /\ obtained \in Seq(Payloads)
  /\ held \in Payloads \cup {Nothing} /\ position \in Nat
  /\ sent \in 0..Total /\ received \in Nat
  /\ dummy_received \in BOOLEAN

\* main's way, and where the other threads are meanwhile.
Stopping == {"stop_producer", "stop_consumer", "success", "warning"}
MainsWay ==
  /\ main \in {"send", "flush", "construct", "join"} \cup Stopping
  /\ main \in {"send", "flush", "construct"} => spc = "off" /\ rpc = "off"
  /\ main \in Stopping => spc = "done" /\ rpc = "done"
  /\ pstop <=> main \in Stopping
  /\ pjoin <=> main \in Stopping
  /\ main = "success" => received = sent

\* Which thread is in send(), and with which message.
InSend ==
  /\ sendpc[Main] # "out" => main = "flush" /\ sending[Main] = Dummy
  /\ sendpc[Sender] # "out" => spc = "count" /\ sending[Sender] = sent + 1
  /\ spc = "count" => sent < Total
  /\ spc = "done" => sent = Total

\* The worker flushes last, when nobody sends any more.
LastFlush ==
  /\ pworker \in {"flush", "exited"} => pstop
  /\ pworker = "exited" /\ timeouts = 0 => outbox = <<>>

\* What was taken from the log is, in its order, where it belongs.
Inside == IF held = Nothing THEN 0 ELSE 1
InOrder ==
  /\ held # Nothing <=> cworker = "push"
  /\ position = Len(obtained) + Len(cqueue) + Inside
  /\ position <= Len(log)
  /\ \A i \in 1..Len(obtained) : obtained[i] = log[i]
  /\ \A i \in 1..Len(cqueue) : cqueue[i] = log[Len(obtained) + i]
  /\ held # Nothing => held = log[position]

\* Every message returned was counted, but for the first dummy.
Counted ==
  /\ Len(obtained) = received + IF dummy_received THEN 1 ELSE 0
  /\ dummy_received <=> \E i \in 1..Len(obtained) : obtained[i] = Dummy

\* Only what was sent is on its way, and each message once.
Accepted(m) == IF m = Dummy
                 THEN main # "send" /\ sendpc[Main] # "produce"
                 ELSE \/ m <= sent
                      \/ m = sent + 1 /\ spc = "count" /\ sendpc[Sender] # "produce"
AllAccepted == /\ \A i \in 1..Len(log) : Accepted(log[i])
               /\ \A i \in 1..Len(outbox) : Accepted(outbox[i])
Once == duplicates = 0 =>
          /\ \A i, j \in 1..Len(log) : log[i] = log[j] => i = j
          /\ \A i, j \in 1..Len(outbox) : outbox[i] = outbox[j] => i = j
          /\ \A i \in 1..Len(log), j \in 1..Len(outbox) : log[i] # outbox[j]

IInv == /\ Typed /\ MainsWay /\ InSend /\ LastFlush
        /\ InOrder /\ Counted /\ AllAccepted /\ Once

-----------------------------------------------------------------------------
LEMMA PayloadFacts ==
  /\ Total \in Nat /\ Dummy \in Payloads /\ Dummy \notin Nat /\ Nothing \notin Payloads
  /\ \A m \in Payloads : m = Dummy \/ m \in Nat
  /\ Main \in Senders /\ Sender \in Senders /\ Main # Sender
BY KafkaAssumption DEF Payloads, Senders, Main, Sender

LEMMA InitIInv == Init => IInv
<1> SUFFICES ASSUME Init PROVE IInv
  OBVIOUS
<1> USE KafkaAssumption DEF Init, P!PInit, C!CInit
<1>1. Typed
  <2>1. <<>> \in Seq(Payloads)
    OBVIOUS
  <2>2. sent \in 0..Total /\ received \in Nat /\ position \in Nat
    OBVIOUS
  <2> QED BY <2>1, <2>2, PayloadFacts DEF Typed
<1>2. MainsWay /\ InSend /\ LastFlush
  BY PayloadFacts DEF MainsWay, InSend, LastFlush, Stopping
<1>3. InOrder /\ Counted
  BY DEF InOrder, Counted, Inside
<1>4. AllAccepted /\ Once
  BY DEF AllAccepted, Once
<1> QED BY <1>1, <1>2, <1>3, <1>4 DEF IInv

-----------------------------------------------------------------------------
\* The steps that change the topic or what is on the way to it, ...
TopicSame == UNCHANGED <<outbox, log, duplicates>>
LEMMA TopicSteps ==
  ASSUME [Next]_vars
  PROVE  \/ TopicSame
         \/ \E t \in Senders : P!SendProduce(t) /\ UNCHANGED <<consumer, threads>>
         \/ Broker
<1> USE DEF TopicSame
<1>1. ASSUME MainThread PROVE TopicSame
  BY <1>1 DEF MainThread, MainSend, MainFlush, MainStart, MainJoinAndStop, MainStopConsumer,
     MainReport, producer, P!SendBegin, P!Flush, P!PStopBegin, P!PStopReturns, P!pvars,
     P!external
<1>2. ASSUME SenderThread PROVE TopicSame
  BY <1>2 DEF SenderThread, SenderSend, SenderCount, SenderFlush, producer, P!SendBegin,
     P!Flush, P!external
<1>3. ASSUME ReceiverThread \/ ConsumerWorker PROVE TopicSame
  BY <1>3 DEF ReceiverThread, ReceiverPoll, ReceiverReturn, ReceiverDecide, ReceiverGivesUp,
     ConsumerWorker, producer
<1>4. ASSUME ProducerWorker PROVE TopicSame
  BY <1>4 DEF ProducerWorker, P!PWorkerTop, P!PWorkerDrain, P!PWorkerFlush, P!external
<1>5. ASSUME NEW t \in Senders, SendCall(t), ~P!SendProduce(t) PROVE TopicSame
  BY <1>5 DEF SendCall, P!SendEnqueue, P!external
<1>6. ASSUME UNCHANGED vars PROVE TopicSame
  BY <1>6 DEF vars, producer
<1> QED BY <1>1, <1>2, <1>3, <1>4, <1>5, <1>6 DEF Next, SendCall

\* ... and those that change what the consumer has taken from it.
TakenSame == UNCHANGED <<cqueue, cworker, held, position, obtained, received, dummy_received>>
LEMMA TakenSteps ==
  ASSUME [Next]_vars
  PROVE  \/ TakenSame
         \/ MainStart \/ ReceiverReturn \/ ConsumerWorker
<1> USE DEF TakenSame
<1>1. ASSUME MainThread, ~MainStart PROVE TakenSame
  BY <1>1 DEF MainThread, MainSend, MainFlush, MainJoinAndStop, MainStopConsumer,
     MainReport, consumer, pollvars, C!CStopBegin, C!CStopReturns, C!cvars
<1>2. ASSUME SenderThread PROVE TakenSame
  BY <1>2 DEF SenderThread, SenderSend, SenderCount, SenderFlush, consumer, pollvars
<1>3. ASSUME ReceiverThread, ~ReceiverReturn PROVE TakenSame
  BY <1>3 DEF ReceiverThread, ReceiverPoll, ReceiverDecide, ReceiverGivesUp, C!PollBegin,
     consumer, pollvars
<1>4. ASSUME ProducerWorker \/ Broker \/ \E t \in Senders : SendCall(t) PROVE TakenSame
  BY <1>4 DEF ProducerWorker, Broker, SendCall, consumer, threads
<1>5. ASSUME UNCHANGED vars PROVE TakenSame
  BY <1>5 DEF vars, consumer, threads
<1> QED BY <1>1, <1>2, <1>3, <1>4, <1>5 DEF Next

LEMMA WayStep ==
  ASSUME IInv, [Next]_vars
  PROVE  MainsWay' /\ InSend'
<1> USE PayloadFacts DEF IInv, MainsWay, InSend, Stopping, Typed
<1>1. CASE MainSend
  BY <1>1 DEF MainSend, P!SendBegin, P!external, consumer, pollvars
<1>2. CASE MainFlush
  BY <1>2 DEF MainFlush, P!Flush, P!external, consumer, pollvars
<1>3. CASE MainStart
  BY <1>3 DEF MainStart, producer, pollvars
<1>4. CASE MainJoinAndStop
  BY <1>4 DEF MainJoinAndStop, P!PStopBegin, P!external, pollvars
<1>5. CASE MainStopConsumer
  BY <1>5 DEF MainStopConsumer, P!PStopReturns, P!pvars, pollvars
<1>6. CASE MainReport
  BY <1>6 DEF MainReport, producer, pollvars
<1>7. CASE SenderSend
  BY <1>7 DEF SenderSend, P!SendBegin, P!external, consumer, pollvars
<1>8. CASE SenderCount
  BY <1>8 DEF SenderCount, producer, pollvars
<1>9. CASE SenderFlush
  BY <1>9 DEF SenderFlush, P!Flush, P!external, pollvars
<1>10. CASE ReceiverThread
  BY <1>10 DEF ReceiverThread, ReceiverPoll, ReceiverReturn, ReceiverDecide, ReceiverGivesUp,
     producer, pollvars
<1>11. ASSUME NEW t \in Senders, SendCall(t) PROVE MainsWay' /\ InSend'
  BY <1>11 DEF SendCall, P!SendProduce, P!SendEnqueue, P!external, threads, Senders
<1>12. CASE ProducerWorker
  BY <1>12 DEF ProducerWorker, P!PWorkerTop, P!PWorkerDrain, P!PWorkerFlush, P!external, threads
<1>13. CASE ConsumerWorker
  BY <1>13 DEF ConsumerWorker, producer, threads
<1>14. CASE Broker
  BY <1>14 DEF Broker, P!Deliver, threads
<1>15. CASE UNCHANGED vars
  BY <1>15 DEF vars, producer, threads
<1> QED BY <1>1, <1>2, <1>3, <1>4, <1>5, <1>6, <1>7, <1>8, <1>9, <1>10, <1>11, <1>12, <1>13,
          <1>14, <1>15 DEF Next, MainThread, SenderThread

LEMMA SendTyped ==
  ASSUME IInv, [Next]_vars
  PROVE  /\ sending' \in [Senders -> Payloads \cup {Nothing}]
         /\ sendpc' \in [Senders -> {"out", "produce", "failed", "enqueue"}]
         /\ sent' \in 0..Total /\ timeouts' \in Nat
<1> DEFINE Goal == /\ sending' \in [Senders -> Payloads \cup {Nothing}]
                   /\ sendpc' \in [Senders -> {"out", "produce", "failed", "enqueue"}]
                   /\ sent' \in 0..Total /\ timeouts' \in Nat
<1>0. /\ sending \in [Senders -> Payloads \cup {Nothing}]
      /\ sendpc \in [Senders -> {"out", "produce", "failed", "enqueue"}]
      /\ sent \in 0..Total /\ timeouts \in Nat
      /\ spc = "count" => sent < Total
  BY DEF IInv, Typed, InSend
<1> USE PayloadFacts
<1>1. CASE MainThread
  BY <1>0, <1>1 DEF MainThread, MainSend, MainFlush, MainStart, MainJoinAndStop,
     MainStopConsumer, MainReport, P!SendBegin, P!Flush, P!FlushReturns, P!PStopBegin,
     P!PStopReturns, P!pvars, producer
<1>2. CASE SenderSend
  <2>1. sent + 1 \in Payloads
    BY <1>0, <1>2 DEF SenderSend, Payloads
  <2> QED BY <1>0, <1>2, <2>1 DEF SenderSend, P!SendBegin
<1>3. CASE SenderCount
  BY <1>0, <1>3 DEF SenderCount, producer
<1>4. CASE SenderFlush
  BY <1>0, <1>4 DEF SenderFlush, P!Flush, P!FlushReturns
<1>5. CASE ReceiverThread \/ ConsumerWorker
  BY <1>0, <1>5 DEF ReceiverThread, ReceiverPoll, ReceiverReturn, ReceiverDecide,
     ReceiverGivesUp, ConsumerWorker, producer, threads
<1>6. ASSUME NEW t \in Senders, SendCall(t) PROVE Goal
  BY <1>0, <1>6 DEF SendCall, P!SendProduce, P!SendEnqueue, P!external, threads
<1>7. CASE ProducerWorker \/ Broker
  BY <1>0, <1>7 DEF ProducerWorker, P!PWorkerTop, P!PWorkerDrain, P!PWorkerFlush,
     P!FlushReturns, Broker, P!Deliver, threads
<1>8. CASE UNCHANGED vars
  BY <1>0, <1>8 DEF vars, producer, threads
<1> QED BY <1>1, <1>2, <1>3, <1>4, <1>5, <1>6, <1>7, <1>8 DEF Next, SenderThread

\* produce() puts a message behind those on the way; the broker takes the first.
LEMMA ProduceEffect ==
  ASSUME IInv, NEW t \in Senders, P!SendProduce(t)
  PROVE  /\ log' = log /\ duplicates' = duplicates
         /\ sendpc[t] = "produce" /\ sending[t] \in Payloads
         /\ \A u \in Senders : u # t => sendpc'[u] = sendpc[u]
         /\ \/ outbox' = outbox /\ sendpc'[t] = "failed"
            \/ /\ outbox' = Append(outbox, sending[t]) /\ sendpc'[t] = "enqueue"
               /\ outbox' \in Seq(Payloads) /\ Len(outbox') = Len(outbox) + 1
               /\ outbox'[Len(outbox')] = sending[t]
               /\ \A i \in 1..Len(outbox) : outbox'[i] = outbox[i]
<1>1. /\ sendpc[t] = "produce" /\ log' = log /\ duplicates' = duplicates
      /\ \/ outbox' = outbox /\ sendpc' = [sendpc EXCEPT ![t] = "failed"]
         \/ outbox' = Append(outbox, sending[t]) /\ sendpc' = [sendpc EXCEPT ![t] = "enqueue"]
  BY DEF P!SendProduce
<1>2. sending[t] \in Payloads
  BY <1>1, PayloadFacts DEF IInv, InSend, Senders, Main, Sender, Payloads, Typed
<1>3. outbox \in Seq(Payloads) /\ sendpc \in [Senders -> {"out", "produce", "failed", "enqueue"}]
  BY DEF IInv, Typed
<1>4. CASE outbox' = outbox /\ sendpc' = [sendpc EXCEPT ![t] = "failed"]
  BY <1>1, <1>2, <1>3, <1>4
<1>5. CASE outbox' = Append(outbox, sending[t]) /\ sendpc' = [sendpc EXCEPT ![t] = "enqueue"]
  <2>1. /\ outbox' \in Seq(Payloads) /\ Len(outbox') = Len(outbox) + 1
        /\ outbox'[Len(outbox')] = sending[t]
        /\ \A i \in 1..Len(outbox) : outbox'[i] = outbox[i]
    BY <1>2, <1>3, <1>5
  <2> QED BY <1>1, <1>2, <1>3, <1>5, <2>1
<1> QED BY <1>1, <1>4, <1>5

LEMMA DeliverEffect ==
  ASSUME IInv, Broker
  PROVE  /\ Len(outbox) >= 1
         /\ log' \in Seq(Payloads) /\ Len(log') = Len(log) + 1
         /\ log'[Len(log')] = outbox[1]
         /\ \A i \in 1..Len(log) : log'[i] = log[i]
         /\ UNCHANGED <<sendpc, sending, timeouts, pworker, pstop, pjoin>>
         /\ \/ outbox' = outbox /\ duplicates' = duplicates + 1
            \/ /\ duplicates' = duplicates
               /\ outbox' \in Seq(Payloads) /\ Len(outbox') = Len(outbox) - 1
               /\ \A i \in 1..Len(outbox') : outbox'[i] = outbox[i + 1]
<1>1. /\ outbox # <<>> /\ log' = Append(log, Head(outbox))
      /\ \/ outbox' = Tail(outbox) /\ UNCHANGED duplicates
         \/ duplicates' = duplicates + 1 /\ UNCHANGED outbox
      /\ UNCHANGED <<sendpc, sending, timeouts, pworker, pstop, pjoin>>
  BY DEF Broker, P!Deliver
<1>2. outbox \in Seq(Payloads) /\ log \in Seq(Payloads)
  BY DEF IInv, Typed
<1>3. Len(outbox) >= 1 /\ Head(outbox) = outbox[1] /\ outbox[1] \in Payloads
  BY <1>1, <1>2
<1>4. /\ log' \in Seq(Payloads) /\ Len(log') = Len(log) + 1
      /\ log'[Len(log')] = outbox[1]
      /\ \A i \in 1..Len(log) : log'[i] = log[i]
  BY <1>1, <1>2, <1>3
<1>5. /\ Tail(outbox) \in Seq(Payloads) /\ Len(Tail(outbox)) = Len(outbox) - 1
      /\ \A i \in 1..Len(Tail(outbox)) : Tail(outbox)[i] = outbox[i + 1]
  BY <1>1, <1>2, HeadTailProperties
<1>6. CASE outbox' = Tail(outbox) /\ duplicates' = duplicates
  BY <1>1, <1>3, <1>4, <1>5, <1>6
<1>7. CASE outbox' = outbox /\ duplicates' = duplicates + 1
  BY <1>1, <1>3, <1>4, <1>7
<1> QED BY <1>1, <1>6, <1>7

LEMMA TopicTyped ==
  ASSUME IInv, [Next]_vars
  PROVE  /\ outbox' \in Seq(Payloads) /\ log' \in Seq(Payloads) /\ duplicates' \in Nat
         /\ Len(log') >= Len(log) /\ \A i \in 1..Len(log) : log'[i] = log[i]
<1>1. outbox \in Seq(Payloads) /\ log \in Seq(Payloads) /\ duplicates \in Nat /\ Len(log) \in Nat
  BY DEF IInv, Typed
<1>2. CASE TopicSame
  BY <1>1, <1>2 DEF TopicSame
<1>3. ASSUME NEW t \in Senders, P!SendProduce(t)
      PROVE  outbox' \in Seq(Payloads) /\ log' = log /\ duplicates' = duplicates
  BY <1>1, <1>3, ProduceEffect
<1>4. CASE Broker
  BY <1>1, <1>4, DeliverEffect
<1> QED BY <1>1, <1>2, <1>3, <1>4, TopicSteps

LEMMA FlushStep ==
  ASSUME IInv, [Next]_vars
  PROVE  LastFlush'
<1>1. ASSUME NEW t \in Senders, P!SendProduce(t) /\ UNCHANGED <<consumer, threads>>
      PROVE  LastFlush'
  <2>1. sendpc[t] = "produce" /\ UNCHANGED <<pstop, pworker>>
    BY <1>1 DEF P!SendProduce
  <2>2. ~pstop
    BY <2>1 DEF IInv, InSend, MainsWay, Stopping, Senders
  <2> QED BY <2>1, <2>2 DEF IInv, LastFlush
<1>2. CASE Broker
  <2>1. UNCHANGED <<pstop, pworker, timeouts>> /\ outbox # <<>>
    BY <1>2 DEF Broker, P!Deliver
  <2> QED BY <2>1 DEF IInv, LastFlush
<1>3. CASE TopicSame
  <2>1. timeouts \in Nat /\ LastFlush /\ MainsWay /\ outbox' = outbox
    BY <1>3 DEF IInv, Typed, TopicSame
  <2> USE DEF LastFlush, P!external
  <2>2. CASE MainThread
    BY <2>1, <2>2 DEF MainThread, MainSend, MainFlush, MainStart, MainJoinAndStop,
       MainStopConsumer, MainReport, P!SendBegin, P!Flush, P!FlushReturns, P!PStopBegin,
       P!PStopReturns, P!pvars, producer
  <2>3. CASE SenderThread
    BY <2>1, <2>3 DEF SenderThread, SenderSend, SenderCount, SenderFlush, P!SendBegin,
       P!Flush, P!FlushReturns, producer
  <2>4. CASE ReceiverThread \/ ConsumerWorker
    BY <2>1, <2>4 DEF ReceiverThread, ReceiverPoll, ReceiverReturn, ReceiverDecide,
       ReceiverGivesUp, ConsumerWorker, producer
  <2>5. CASE ProducerWorker
    BY <2>1, <2>5 DEF ProducerWorker, P!PWorkerTop, P!PWorkerDrain, P!PWorkerFlush,
       P!FlushReturns
  <2>6. ASSUME NEW t \in Senders, SendCall(t), ~P!SendProduce(t) PROVE LastFlush'
    BY <2>1, <2>6 DEF SendCall, P!SendEnqueue
  <2>7. CASE UNCHANGED vars
    BY <2>1, <2>7 DEF vars, producer
  <2> QED BY <1>1, <1>2, <2>2, <2>3, <2>4, <2>5, <2>6, <2>7 DEF Next, SendCall
<1> QED BY <1>1, <1>2, <1>3, TopicSteps

-----------------------------------------------------------------------------
\* What the consumer has taken, and where it is, before and after a step.
LEMMA OrderStep ==
  ASSUME IInv, [Next]_vars
  PROVE  /\ InOrder'
         /\ cqueue' \in Seq(Payloads) /\ obtained' \in Seq(Payloads)
         /\ held' \in Payloads \cup {Nothing} /\ position' \in Nat
<1> DEFINE Goal == /\ InOrder'
                   /\ cqueue' \in Seq(Payloads) /\ obtained' \in Seq(Payloads)
                   /\ held' \in Payloads \cup {Nothing} /\ position' \in Nat
<1>0. /\ cqueue \in Seq(Payloads) /\ obtained \in Seq(Payloads) /\ log \in Seq(Payloads)
      /\ held \in Payloads \cup {Nothing} /\ position \in Nat
      /\ Len(cqueue) \in Nat /\ Len(obtained) \in Nat /\ Len(log) \in Nat
      /\ InOrder
  BY DEF IInv, Typed
<1>1. Len(log') \in Nat /\ Len(log') >= Len(log) /\ \A i \in 1..Len(log) : log'[i] = log[i]
  BY TopicTyped
<1>2. ASSUME UNCHANGED <<cqueue, cworker, held, position, obtained>> PROVE Goal
  BY <1>0, <1>1, <1>2 DEF InOrder, Inside
<1>3. CASE MainStart
  <2>1. /\ cworker = "off" /\ cworker' = "top"
        /\ UNCHANGED <<cqueue, held, position, obtained>>
    BY <1>3 DEF MainStart, C!CConstruct, pollvars
  <2> QED BY <1>0, <1>1, <2>1 DEF InOrder, Inside
<1>4. CASE ReceiverReturn
  <2>0. cworker' = cworker /\ held' = held /\ position' = position
    BY <1>4 DEF ReceiverReturn, C!PollReturns
  <2>1. /\ cqueue' = IF cqueue = <<>> THEN <<>> ELSE Tail(cqueue)
        /\ IF C!Polled = Nothing THEN obtained' = obtained
                                 ELSE obtained' = Append(obtained, C!Polled)
    BY <1>4, PayloadFacts DEF ReceiverReturn, C!PollReturns
  <2>2. CASE cqueue = <<>>
    <3>1. cqueue' = cqueue /\ obtained' = obtained
      BY <2>1, <2>2 DEF C!Polled
    <3> QED BY <1>2, <2>0, <3>1 DEF TakenSame
  <2>3. CASE cqueue # <<>>
    <3>1. Len(cqueue) >= 1 /\ Head(cqueue) = cqueue[1] /\ cqueue[1] \in Payloads
      BY <1>0, <2>3
    <3>2. cqueue' = Tail(cqueue) /\ obtained' = Append(obtained, cqueue[1])
      BY <2>1, <2>3, <3>1, PayloadFacts DEF C!Polled
    <3>3. /\ cqueue' \in Seq(Payloads) /\ Len(cqueue') = Len(cqueue) - 1
          /\ \A i \in 1..Len(cqueue') : cqueue'[i] = cqueue[i + 1]
      BY <1>0, <2>3, <3>2, HeadTailProperties
    <3>4. /\ obtained' \in Seq(Payloads) /\ Len(obtained') = Len(obtained) + 1
          /\ obtained'[Len(obtained) + 1] = cqueue[1]
          /\ \A i \in 1..Len(obtained) : obtained'[i] = obtained[i]
      BY <1>0, <3>1, <3>2
    <3>5. /\ position' = Len(obtained') + Len(cqueue') + Inside'
          /\ position' <= Len(log') /\ Len(obtained) + Len(cqueue) <= Len(log)
      BY <1>0, <1>1, <2>0, <3>3, <3>4 DEF InOrder, Inside
    <3>8. held' # Nothing <=> cworker' = "push"
      BY <1>0, <2>0 DEF InOrder
    <3>9. ASSUME held' # Nothing PROVE held' = log'[position']
      <4>1. held = log[position] /\ position \in 1..Len(log)
        BY <1>0, <2>0, <3>9 DEF InOrder, Inside
      <4> QED BY <1>1, <2>0, <4>1
    <3>6. ASSUME NEW i \in 1..Len(obtained') PROVE obtained'[i] = log'[i]
      <4>1. CASE i = Len(obtained) + 1
        <5>1. cqueue[1] = log[Len(obtained) + 1] /\ Len(obtained) + 1 \in 1..Len(log)
          BY <1>0, <3>1, <3>5 DEF InOrder
        <5> QED BY <1>1, <3>4, <4>1, <5>1
      <4>2. CASE i # Len(obtained) + 1
        <5>1. i \in 1..Len(obtained) /\ i \in 1..Len(log)
          BY <1>0, <3>4, <3>5, <4>2
        <5> QED BY <1>0, <1>1, <3>4, <5>1 DEF InOrder
      <4> QED BY <4>1, <4>2
    <3>7. ASSUME NEW i \in 1..Len(cqueue') PROVE cqueue'[i] = log'[Len(obtained') + i]
      <4>1. cqueue[i + 1] = log[Len(obtained) + (i + 1)]
        BY <1>0, <3>3 DEF InOrder
      <4>2. Len(obtained) + (i + 1) \in 1..Len(log)
        BY <1>0, <3>3, <3>5
      <4>3. Len(obtained) + (i + 1) = Len(obtained') + i
        BY <1>0, <3>4
      <4> QED BY <1>1, <3>3, <4>1, <4>2, <4>3
    <3> QED BY <1>0, <2>0, <3>3, <3>4, <3>5, <3>6, <3>7, <3>8, <3>9 DEF InOrder
  <2> QED BY <2>2, <2>3
<1>5. CASE ConsumerWorker
  <2>1. obtained' = obtained /\ log' = log
    BY <1>5 DEF ConsumerWorker, producer, threads
  <2>2. CASE C!CWorkerTop
    <3>1. cworker = "top" /\ cworker' # "push" /\ UNCHANGED <<cqueue, held, position>>
      BY <2>2 DEF C!CWorkerTop
    <3> QED BY <1>0, <2>1, <3>1 DEF InOrder, Inside
  <2>3. CASE C!CWorkerConsume
    <3>1. /\ cworker = "consume" /\ cqueue' = cqueue
          /\ \/ /\ position < Len(log) /\ position' = position + 1
                /\ held' = log[position + 1]
                /\ cworker' = IF held' = Nothing THEN "top" ELSE "push"
             \/ cworker' = "top" /\ UNCHANGED <<held, position>>
      BY <2>3 DEF C!CWorkerConsume
    <3>2. held = Nothing
      BY <1>0, <3>1 DEF InOrder
    <3>3. CASE position < Len(log) /\ position' = position + 1 /\ held' = log[position + 1]
               /\ cworker' = IF held' = Nothing THEN "top" ELSE "push"
      <4>1. held' \in Payloads /\ held' # Nothing
        BY <1>0, <3>3, PayloadFacts
      <4>2. /\ cworker' = "push"
            /\ position' = Len(obtained') + Len(cqueue') + Inside'
            /\ position' <= Len(log') /\ held' = log'[position'] /\ position' \in Nat
        BY <1>0, <2>1, <3>1, <3>2, <3>3, <4>1 DEF InOrder, Inside
      <4> QED BY <1>0, <2>1, <3>1, <4>1, <4>2 DEF InOrder
    <3>4. CASE cworker' = "top" /\ UNCHANGED <<held, position>>
      BY <1>0, <2>1, <3>1, <3>2, <3>4 DEF InOrder, Inside
    <3> QED BY <3>1, <3>3, <3>4
  <2>4. CASE C!CWorkerPush
    <3>1. /\ cworker = "push" /\ cworker' = "top" /\ held' = Nothing /\ position' = position
          /\ cqueue' = Append(cqueue, held)
      BY <2>4 DEF C!CWorkerPush
    <3>2. /\ held # Nothing /\ held \in Payloads /\ held = log[position]
          /\ position = Len(obtained) + (Len(cqueue) + 1)
      BY <1>0, <3>1 DEF InOrder, Inside
    <3>3. /\ cqueue' \in Seq(Payloads) /\ Len(cqueue') = Len(cqueue) + 1
          /\ cqueue'[Len(cqueue) + 1] = held
          /\ \A i \in 1..Len(cqueue) : cqueue'[i] = cqueue[i]
      BY <1>0, <3>1, <3>2
    <3>4. ASSUME NEW i \in 1..Len(cqueue') PROVE cqueue'[i] = log[Len(obtained) + i]
      <4>1. CASE i = Len(cqueue) + 1
        BY <3>2, <3>3, <4>1
      <4>2. CASE i # Len(cqueue) + 1
        BY <1>0, <3>3, <4>2 DEF InOrder
      <4> QED BY <4>1, <4>2
    <3>5. /\ position' = Len(obtained') + Len(cqueue') + Inside'
          /\ held' = Nothing /\ cworker' # "push"
          /\ position' <= Len(log') /\ position' \in Nat
      BY <1>0, <2>1, <3>1, <3>2, <3>3 DEF InOrder, Inside
    <3>6. \A i \in 1..Len(obtained') : obtained'[i] = log'[i]
      BY <1>0, <2>1 DEF InOrder
    <3>7. \A i \in 1..Len(cqueue') : cqueue'[i] = log'[Len(obtained') + i]
      BY <2>1, <3>4
    <3> QED BY <1>0, <2>1, <3>3, <3>5, <3>6, <3>7 DEF InOrder
  <2> QED BY <1>5, <2>2, <2>3, <2>4 DEF ConsumerWorker
<1> QED BY <1>2, <1>3, <1>4, <1>5, TakenSteps DEF TakenSame

LEMMA CountedStep ==
  ASSUME IInv, [Next]_vars
  PROVE  Counted' /\ received' \in Nat /\ dummy_received' \in BOOLEAN
<1>0. /\ cqueue \in Seq(Payloads) /\ obtained \in Seq(Payloads) /\ Len(obtained) \in Nat
      /\ received \in Nat /\ dummy_received \in BOOLEAN /\ Counted
  BY DEF IInv, Typed
<1>1. CASE obtained' = obtained /\ UNCHANGED <<received, dummy_received>>
  BY <1>0, <1>1 DEF Counted
<1>2. CASE ReceiverReturn
  <2>1. CASE C!Polled = Nothing
    BY <1>1, <1>2, <2>1, PayloadFacts DEF ReceiverReturn
  <2>2. CASE C!Polled # Nothing
    <3>1. C!Polled \in Payloads
      BY <1>0, <2>2 DEF C!Polled
    <3>2. /\ obtained' = Append(obtained, C!Polled)
          /\ \/ /\ C!Polled = Dummy /\ ~dummy_received /\ dummy_received' = TRUE
                /\ received' = received
             \/ /\ C!Polled = Dummy => dummy_received
                /\ received' = received + 1 /\ dummy_received' = dummy_received
      BY <1>2, <2>2 DEF ReceiverReturn
    <3>3. /\ Len(obtained') = Len(obtained) + 1 /\ obtained'[Len(obtained) + 1] = C!Polled
          /\ \A i \in 1..Len(obtained) : obtained'[i] = obtained[i]
      BY <1>0, <3>1, <3>2
    <3>4. (\E i \in 1..Len(obtained') : obtained'[i] = Dummy)
            <=> (C!Polled = Dummy \/ \E i \in 1..Len(obtained) : obtained[i] = Dummy)
      BY <1>0, <3>3
    <3>5. CASE C!Polled = Dummy /\ ~dummy_received
      <4>1. received' = received /\ dummy_received' = TRUE
        BY <3>2, <3>5
      <4>2. \E i \in 1..Len(obtained') : obtained'[i] = Dummy
        BY <3>4, <3>5
      <4> QED BY <1>0, <3>3, <3>5, <4>1, <4>2 DEF Counted
    <3>6. CASE C!Polled = Dummy => dummy_received
      <4>1. received' = received + 1 /\ dummy_received' = dummy_received
        BY <3>2, <3>6
      <4>2. dummy_received' <=> \E i \in 1..Len(obtained') : obtained'[i] = Dummy
        BY <1>0, <3>4, <3>6, <4>1 DEF Counted
      <4> QED BY <1>0, <3>3, <4>1, <4>2 DEF Counted
    <3> QED BY <3>5, <3>6
  <2> QED BY <2>1, <2>2
<1>3. CASE MainStart \/ ConsumerWorker
  BY <1>1, <1>3 DEF MainStart, ConsumerWorker, pollvars, threads
<1> QED BY <1>1, <1>2, <1>3, TakenSteps DEF TakenSame

-----------------------------------------------------------------------------
\* A message that was accepted stays so, and one that was not, until produce().
LEMMA AcceptedStays ==
  ASSUME IInv, [Next]_vars, NEW m \in Payloads, Accepted(m)
  PROVE  Accepted(m)'
<1>0. /\ sendpc \in [Senders -> {"out", "produce", "failed", "enqueue"}]
      /\ sent \in 0..Total /\ m \in Nat \cup {Dummy}
      /\ MainsWay /\ InSend
  BY PayloadFacts DEF IInv, Typed
<1> USE PayloadFacts DEF Accepted, InSend, MainsWay, Stopping
<1>1. CASE MainThread
  BY <1>0, <1>1 DEF MainThread, MainSend, MainFlush, MainStart, MainJoinAndStop,
     MainStopConsumer, MainReport, P!SendBegin, P!Flush, P!PStopBegin,
     P!PStopReturns, P!pvars, producer
<1>2. CASE SenderThread
  BY <1>0, <1>2 DEF SenderThread, SenderSend, SenderCount, SenderFlush, P!SendBegin, P!Flush,
     producer
<1>3. CASE ReceiverThread \/ ConsumerWorker
  BY <1>0, <1>3 DEF ReceiverThread, ReceiverPoll, ReceiverReturn, ReceiverDecide,
     ReceiverGivesUp, ConsumerWorker, producer, threads
<1>4. ASSUME NEW t \in Senders, SendCall(t) PROVE Accepted(m)'
  BY <1>0, <1>4 DEF SendCall, P!SendProduce, P!SendEnqueue, threads, Senders
<1>5. CASE ProducerWorker \/ Broker
  BY <1>0, <1>5 DEF ProducerWorker, P!PWorkerTop, P!PWorkerDrain, P!PWorkerFlush,
     Broker, P!Deliver, threads
<1>6. CASE UNCHANGED vars
  BY <1>0, <1>6 DEF vars, producer, threads
<1> QED BY <1>1, <1>2, <1>3, <1>4, <1>5, <1>6 DEF Next

\* What a thread is about to produce has not been accepted, and is accepted when
\* produce() has it.
LEMMA AcceptedByProduce ==
  ASSUME IInv, NEW t \in Senders, P!SendProduce(t) /\ UNCHANGED <<consumer, threads>>,
         sendpc'[t] = "enqueue"
  PROVE  ~Accepted(sending[t]) /\ Accepted(sending[t])'
<1>1. /\ sendpc[t] = "produce" /\ sendpc' = [sendpc EXCEPT ![t] = "enqueue"]
      /\ sending' = sending /\ UNCHANGED <<main, spc, sent>>
  BY DEF P!SendProduce, threads, IInv, Typed
<1>2. sendpc \in [Senders -> {"out", "produce", "failed", "enqueue"}] /\ sent \in Nat
  BY PayloadFacts DEF IInv, Typed
<1>3. CASE t = Main
  <2>1. main = "flush" /\ sending[t] = Dummy
    BY <1>1, <1>3 DEF IInv, InSend
  <2> QED BY <1>1, <1>2, <1>3, <2>1, PayloadFacts DEF Accepted
<1>4. CASE t = Sender
  <2>1. spc = "count" /\ sending[t] = sent + 1
    BY <1>1, <1>4 DEF IInv, InSend
  <2>2. sending[t] # Dummy
    BY <1>2, <2>1, PayloadFacts
  <2> QED BY <1>1, <1>2, <1>4, <2>1, <2>2, PayloadFacts DEF Accepted
<1> QED BY <1>3, <1>4 DEF Senders

LEMMA TopicStep ==
  ASSUME IInv, [Next]_vars
  PROVE  AllAccepted' /\ Once'
<1>0. /\ outbox \in Seq(Payloads) /\ log \in Seq(Payloads) /\ duplicates \in Nat
      /\ Len(outbox) \in Nat /\ Len(log) \in Nat /\ AllAccepted /\ Once
  BY DEF IInv, Typed
<1>a. \A m \in Payloads : Accepted(m) => Accepted(m)'
  BY AcceptedStays
<1>1. CASE TopicSame
  <2>1. AllAccepted'
    BY <1>0, <1>a, <1>1 DEF TopicSame, AllAccepted
  <2>2. Once'
    BY <1>0, <1>1 DEF TopicSame, Once
  <2> QED BY <2>1, <2>2
<1>2. ASSUME NEW t \in Senders, P!SendProduce(t) /\ UNCHANGED <<consumer, threads>>,
             ~TopicSame
      PROVE  AllAccepted' /\ Once'
  <2>1. /\ log' = log /\ duplicates' = duplicates /\ sending[t] \in Payloads
        /\ sendpc'[t] = "enqueue" /\ Len(outbox') = Len(outbox) + 1
        /\ outbox'[Len(outbox) + 1] = sending[t]
        /\ \A i \in 1..Len(outbox) : outbox'[i] = outbox[i]
    BY <1>2, ProduceEffect DEF TopicSame
  <2>2. ~Accepted(sending[t]) /\ Accepted(sending[t])' /\ sending' = sending
    BY <1>2, <2>1, AcceptedByProduce DEF P!SendProduce
  <2>3. \A i \in 1..Len(log) : log[i] \in Payloads /\ log[i] # sending[t]
    BY <1>0, <2>2 DEF AllAccepted
  <2>4. \A i \in 1..Len(outbox) : outbox[i] \in Payloads /\ outbox[i] # sending[t]
    BY <1>0, <2>2 DEF AllAccepted
  <2>5. \A i \in 1..Len(log') : Accepted(log[i])'
    BY <1>0, <1>a, <2>1, <2>3 DEF AllAccepted
  <2>6. ASSUME NEW i \in 1..Len(outbox') PROVE Accepted(outbox[i])'
    <3>1. CASE i = Len(outbox) + 1
      BY <2>1, <2>2, <3>1
    <3>2. CASE i # Len(outbox) + 1
      <4>1. i \in 1..Len(outbox)
        BY <1>0, <2>1, <3>2
      <4>2. PICK m : m = outbox[i]
        OBVIOUS
      <4>3. m \in Payloads /\ Accepted(m)
        BY <1>0, <4>1, <4>2 DEF AllAccepted
      <4>4. Accepted(m)'
        BY <1>a, <4>3
      <4> QED BY <2>1, <4>1, <4>2, <4>4
    <3> QED BY <3>1, <3>2
  <2>7. Once'
    BY <1>0, <2>1, <2>3, <2>4, SMTT(30) DEF Once
  <2> QED BY <2>5, <2>6, <2>7 DEF AllAccepted
<1>3. CASE Broker
  <2>1. /\ Len(outbox) >= 1 /\ Len(log') = Len(log) + 1
        /\ log'[Len(log) + 1] = outbox[1]
        /\ \A i \in 1..Len(log) : log'[i] = log[i]
        /\ \/ outbox' = outbox /\ duplicates' = duplicates + 1
           \/ /\ duplicates' = duplicates /\ Len(outbox') = Len(outbox) - 1
              /\ \A i \in 1..Len(outbox') : outbox'[i] = outbox[i + 1]
    BY <1>0, <1>3, DeliverEffect
  <2>2. ASSUME NEW i \in 1..Len(log') PROVE Accepted(log[i])'
    <3>1. CASE i = Len(log) + 1
      <4>1. outbox[1] \in Payloads /\ Accepted(outbox[1])
        BY <1>0, <2>1 DEF AllAccepted
      <4>2. log'[i] = outbox[1]
        BY <2>1, <3>1
      <4>3. PICK m : m = outbox[1]
        OBVIOUS
      <4>4. Accepted(m)'
        BY <1>a, <4>1, <4>3
      <4> QED BY <4>2, <4>3, <4>4
    <3>2. CASE i # Len(log) + 1
      <4>1. i \in 1..Len(log) /\ log[i] \in Payloads /\ Accepted(log[i])
        BY <1>0, <2>1, <3>2 DEF AllAccepted
      <4> QED BY <1>a, <2>1, <4>1
    <3> QED BY <3>1, <3>2
  <2>3. ASSUME NEW i \in 1..Len(outbox') PROVE Accepted(outbox[i])'
    <3>1. PICK j \in 1..Len(outbox) : outbox'[i] = outbox[j]
      BY <1>0, <2>1
    <3>2. outbox[j] \in Payloads /\ Accepted(outbox[j])
      BY <1>0 DEF AllAccepted
    <3>3. PICK m : m = outbox[j]
      OBVIOUS
    <3>4. Accepted(m)'
      BY <1>a, <3>2, <3>3
    <3> QED BY <3>1, <3>3, <3>4
  <2>4. ASSUME duplicates' = duplicates + 1 PROVE Once'
    <3>1. duplicates' # 0
      BY <1>0, <2>4
    <3> QED BY <3>1 DEF Once
  <2>5. ASSUME duplicates' = duplicates, Len(outbox') = Len(outbox) - 1,
               \A i \in 1..Len(outbox') : outbox'[i] = outbox[i + 1]
        PROVE  Once'
    <3> SUFFICES ASSUME duplicates = 0
                 PROVE  /\ \A i, j \in 1..Len(log') : log'[i] = log'[j] => i = j
                        /\ \A i, j \in 1..Len(outbox') : outbox'[i] = outbox'[j] => i = j
                        /\ \A i \in 1..Len(log'), j \in 1..Len(outbox') : log'[i] # outbox'[j]
      BY <2>5 DEF Once
    <3>1. /\ \A i, j \in 1..Len(log) : log[i] = log[j] => i = j
          /\ \A i, j \in 1..Len(outbox) : outbox[i] = outbox[j] => i = j
          /\ \A i \in 1..Len(log), j \in 1..Len(outbox) : log[i] # outbox[j]
      BY <1>0 DEF Once
    <3>2. \A i \in 1..Len(log) : log'[i] = log[i] /\ log[i] # outbox[1]
      BY <1>0, <2>1, <3>1
    <3>3. \A i \in 1..Len(log') : i = Len(log) + 1 \/ i \in 1..Len(log)
      BY <1>0, <2>1
    <3>4. \A i, j \in 1..Len(log') : log'[i] = log'[j] => i = j
      BY <2>1, <3>1, <3>2, <3>3
    <3>5. \A i \in 1..Len(outbox') :
            i \in Nat /\ i + 1 \in 2..Len(outbox) /\ outbox'[i] = outbox[i + 1]
      BY <1>0, <2>5
    <3>6. \A i, j \in 1..Len(outbox') : outbox'[i] = outbox'[j] => i = j
      <4>1. TAKE i, j \in 1..Len(outbox')
      <4>2. HAVE outbox'[i] = outbox'[j]
      <4>3. i + 1 = j + 1
        BY <1>0, <3>1, <3>5, <4>2
      <4> QED BY <3>5, <4>3
    <3>7. \A i \in 1..Len(log'), j \in 1..Len(outbox') : log'[i] # outbox'[j]
      <4>1. TAKE i \in 1..Len(log'), j \in 1..Len(outbox')
      <4>2. j + 1 \in 1..Len(outbox) /\ j + 1 # 1 /\ outbox'[j] = outbox[j + 1]
        BY <1>0, <3>5
      <4>3. outbox[j + 1] # outbox[1]
        BY <1>0, <2>1, <3>1, <4>2
      <4>4. i \in 1..Len(log) => log[i] # outbox[j + 1]
        BY <3>1, <4>2
      <4> QED BY <2>1, <3>3, <4>2, <4>3, <4>4
    <3> QED BY <3>4, <3>6, <3>7
  <2> QED BY <2>1, <2>2, <2>3, <2>4, <2>5 DEF AllAccepted
<1> QED BY <1>1, <1>2, <1>3, TopicSteps

LEMMA NextIInv == IInv /\ [Next]_vars => IInv'
<1> SUFFICES ASSUME IInv, [Next]_vars PROVE IInv'
  OBVIOUS
<1>1. Typed'
  BY SendTyped, TopicTyped, OrderStep, CountedStep DEF Typed
<1>2. MainsWay' /\ InSend' /\ LastFlush'
  BY WayStep, FlushStep
<1>3. InOrder' /\ Counted' /\ AllAccepted' /\ Once'
  BY OrderStep, CountedStep, TopicStep
<1> QED BY <1>1, <1>2, <1>3 DEF IInv

THEOREM Inductive == Spec => []IInv
<1>1. Init => IInv
  BY InitIInv
<1>2. IInv /\ [Next]_vars => IInv'
  BY NextIInv
<1> QED BY <1>1, <1>2, PTL DEF Spec

\* stop() flushes (Async_Kafka_Producer.cpp:84): for any number of messages and
\* any failures, the worker's flush, if it did not give up, leaves no message that
\* produce() accepted behind.
THEOREM StopFlushes == Spec => []FlushedByStop
<1>1. IInv => FlushedByStop
  BY DEF IInv, LastFlush, FlushedByStop
<1> QED BY <1>1, Inductive, PTL

\* The consumer (Async_Kafka_Consumer.cpp) loses, repeats and reorders nothing.
THEOREM ConsumerLosesNothing == Spec => []NothingLostInConsumer
<1>1. IInv => NothingLostInConsumer
  <2> SUFFICES ASSUME IInv PROVE obtained \o cqueue \o Holding = SubSeq(log, 1, position)
    BY DEF NothingLostInConsumer
  <2>1. /\ cqueue \in Seq(Payloads) /\ obtained \in Seq(Payloads) /\ log \in Seq(Payloads)
        /\ held \in Payloads \cup {Nothing} /\ position \in Nat /\ InOrder
        /\ Len(cqueue) \in Nat /\ Len(obtained) \in Nat /\ Len(log) \in Nat
    BY DEF IInv, Typed
  <2>2. PICK h : h = Holding
    OBVIOUS
  <2>3. h \in Seq(Payloads) /\ Len(h) = Inside /\ Inside \in {0, 1}
    BY <2>1, <2>2 DEF Holding, Inside
  <2>4. \A i \in 1..Len(h) : h[i] = log[Len(obtained) + Len(cqueue) + i]
    BY <2>1, <2>2, <2>3 DEF InOrder, Holding, Inside
  <2>5. PICK a : a = obtained \o cqueue
    OBVIOUS
  <2>6. /\ a \in Seq(Payloads) /\ Len(a) = Len(obtained) + Len(cqueue)
        /\ \A i \in 1..Len(a) : a[i] = log[i]
    <3>1. a \in Seq(Payloads) /\ Len(a) = Len(obtained) + Len(cqueue)
      BY <2>1, <2>5, ConcatProperties
    <3>2. \A i \in 1..Len(obtained) + Len(cqueue) :
            a[i] = IF i <= Len(obtained) THEN obtained[i] ELSE cqueue[i - Len(obtained)]
      BY <2>1, <2>5, ConcatProperties
    <3>3. ASSUME NEW i \in 1..Len(a) PROVE a[i] = log[i]
      <4>1. CASE i <= Len(obtained)
        BY <2>1, <3>1, <3>2, <4>1 DEF InOrder
      <4>2. CASE ~(i <= Len(obtained))
        <5>1. /\ i - Len(obtained) \in 1..Len(cqueue)
              /\ Len(obtained) + (i - Len(obtained)) = i
          BY <2>1, <3>1, <4>2
        <5>2. cqueue[i - Len(obtained)] = log[Len(obtained) + (i - Len(obtained))]
          BY <2>1, <5>1 DEF InOrder
        <5> QED BY <2>1, <3>1, <3>2, <4>2, <5>1, <5>2
      <4> QED BY <4>1, <4>2
    <3> QED BY <3>1, <3>3
  <2>7. PICK b : b = a \o h
    OBVIOUS
  <2>8. /\ b \in Seq(Payloads) /\ Len(b) = position
        /\ \A i \in 1..position : b[i] = log[i]
    <3>1. b \in Seq(Payloads) /\ Len(b) = Len(a) + Len(h)
      BY <2>3, <2>6, <2>7, ConcatProperties
    <3>2. \A i \in 1..Len(a) + Len(h) :
            b[i] = IF i <= Len(a) THEN a[i] ELSE h[i - Len(a)]
      BY <2>3, <2>6, <2>7, ConcatProperties
    <3>3. position = Len(a) + Len(h)
      BY <2>1, <2>3, <2>6 DEF InOrder
    <3>4. ASSUME NEW i \in 1..position PROVE b[i] = log[i]
      <4>1. CASE i <= Len(a)
        BY <2>1, <2>6, <3>2, <3>3, <4>1
      <4>2. CASE ~(i <= Len(a))
        <5>1. i - Len(a) \in 1..Len(h) /\ Len(obtained) + Len(cqueue) + (i - Len(a)) = i
          BY <2>1, <2>3, <2>6, <3>3, <4>2
        <5> QED BY <2>1, <2>3, <2>4, <2>6, <3>2, <3>3, <4>2, <5>1
      <4> QED BY <4>1, <4>2
    <3> QED BY <3>1, <3>3, <3>4
  <2>9. PICK c : c = SubSeq(log, 1, position)
    OBVIOUS
  <2>10. c \in Seq(Payloads) /\ Len(c) = position /\ \A i \in 1..position : c[i] = log[i]
    <3>1. c = SubSeq(log, 0 + 1, 0 + position) /\ 0 + position <= Len(log)
      BY <2>1, <2>9 DEF InOrder
    <3>2. c \in Seq(Payloads)
      BY <2>1, <3>1, Stretches
    <3>3. Len(c) = position
      BY <2>1, <3>1, Stretches
    <3>4. \A i \in 1..position : c[i] = log[0 + i]
      BY <2>1, <3>1, Stretches
    <3> QED BY <3>2, <3>3, <3>4
  <2>11. b = c
    BY <2>8, <2>10, SeqEqual
  <2> QED BY <2>2, <2>5, <2>7, <2>9, <2>11
<1> QED BY <1>1, Inductive, PTL

\* As many different messages as there are: all of them.
LEMMA AllThere ==
  ASSUME NEW T, IsFiniteSet(T), NEW s \in Seq(T), Len(s) = Cardinality(T),
         \A i, j \in 1..Len(s) : s[i] = s[j] => i = j
  PROVE  \A m \in T : \E i \in 1..Len(s) : s[i] = m
<1>1. Len(s) \in Nat /\ DOMAIN s = 1..Len(s) /\ s \in [1..Len(s) -> T]
  OBVIOUS
<1>2. s \in Injection(1..Len(s), T)
  BY <1>1, Fun_IsInj
<1>3. Cardinality(1..Len(s)) = Cardinality(T)
  <2>1. 1 \in Int /\ Len(s) \in Int
    BY <1>1
  <2>2. Cardinality(1..Len(s)) = IF 1 > Len(s) THEN 0 ELSE Len(s) - 1 + 1
    BY <2>1, FS_Interval
  <2> QED BY <1>1, <2>2
<1>4. s \in Surjection(1..Len(s), T)
  BY <1>2, <1>3, FS_Injection
<1> QED BY <1>4 DEF Surjection

\* main.cpp:119: without a duplicate in the topic, equal counters mean that every
\* message was received, for any Total and any failures of produce() and flush().
THEOREM SuccessHonest == Spec => []HonestWithoutDuplicates
<1>1. IInv => HonestWithoutDuplicates
  <2> SUFFICES ASSUME IInv, duplicates = 0, main = "success", NEW m \in 1..Total
               PROVE  \E k \in DOMAIN obtained : obtained[k] = m
    BY DEF HonestWithoutDuplicates, SuccessIsHonest
  <2>1. /\ obtained \in Seq(Payloads) /\ log \in Seq(Payloads) /\ cqueue \in Seq(Payloads)
        /\ Len(obtained) \in Nat /\ DOMAIN obtained = 1..Len(obtained)
        /\ Len(log) \in Nat /\ Len(cqueue) \in Nat /\ dummy_received \in BOOLEAN
    BY DEF IInv, Typed
  <2>2. received = Total
    BY DEF IInv, MainsWay, InSend, Stopping
  <2>3. Len(obtained) <= Len(log) /\ \A i \in 1..Len(obtained) : obtained[i] = log[i]
    BY <2>1 DEF IInv, InOrder, Inside
  <2>4. \A i, j \in 1..Len(obtained) : obtained[i] = obtained[j] => i = j
    BY <2>1, <2>3 DEF IInv, Once
  <2>5. IsFiniteSet(1..Total) /\ Cardinality(1..Total) = Total
    BY PayloadFacts, FS_Interval
  <2>6. CASE dummy_received
    <3>1. Dummy \notin 1..Total /\ Payloads = 1..Total \cup {Dummy}
      BY PayloadFacts DEF Payloads
    <3>2. IsFiniteSet(Payloads) /\ Cardinality(Payloads) = Total + 1
      BY <2>5, <3>1, FS_AddElement
    <3>3. Len(obtained) = Total + 1
      BY <2>2, <2>6, PayloadFacts DEF IInv, Counted
    <3>4. obtained \in Seq(Payloads)
      BY <2>1
    <3>5. \A x \in Payloads : \E i \in 1..Len(obtained) : obtained[i] = x
      BY <2>4, <3>2, <3>3, <3>4, AllThere
    <3> QED BY <2>1, <3>1, <3>5
  <2>7. CASE ~dummy_received
    <3>1. \A i \in 1..Len(obtained) : obtained[i] # Dummy
      BY <2>7 DEF IInv, Counted
    <3>2. \A i \in 1..Len(obtained) : obtained[i] \in 1..Total
      BY <2>1, <3>1 DEF Payloads
    <3>3. obtained \in Seq(1..Total)
      <4>1. obtained \in [1..Len(obtained) -> 1..Total]
        BY <2>1, <3>2
      <4>2. Seq(1..Total) = UNION {[1..n -> 1..Total] : n \in Nat}
        BY SeqDef
      <4> QED BY <2>1, <4>1, <4>2
    <3>4. Len(obtained) = Total
      BY <2>2, <2>7, PayloadFacts DEF IInv, Counted
    <3>5. \A x \in 1..Total : \E i \in 1..Len(obtained) : obtained[i] = x
      BY <2>4, <2>5, <3>3, <3>4, AllThere
    <3> QED BY <2>1, <3>5
  <2> QED BY <2>1, <2>6, <2>7
<1> QED BY <1>1, Inductive, PTL
=============================================================================
