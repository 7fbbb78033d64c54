---------------------------- MODULE KafkaAsync -----------------------------
(***************************************************************************)
(* kafka/kafka_async, main.cpp: one Async_Kafka_Producer and one           *)
(* Async_Kafka_Consumer on the same topic.  main sends a dummy message and *)
(* flushes, constructs the consumer, runs a thread that sends Total        *)
(* messages and a thread that polls for them, joins both, stops producer   *)
(* and consumer, and compares its two counters.                            *)
(***************************************************************************)
EXTENDS Naturals, Sequences, FiniteSets

CONSTANTS Dummy, Nothing,   \* the payload "dummy"; the empty string
          Total,            \* total_messages
          MaxAttempts,      \* max_attempts
          MaxNoMessage,     \* polls without a message after which to give up
          MaxErrors, MaxDuplicates, MaxTimeouts

ASSUME KafkaAssumption ==
  /\ Total \in Nat /\ MaxAttempts \in Nat /\ MaxNoMessage \in Nat
  /\ MaxErrors \in Nat /\ MaxDuplicates \in Nat /\ MaxTimeouts \in Nat
  /\ Dummy \notin Nat /\ Nothing \notin Nat \cup {Dummy}

Payloads == 1..Total \cup {Dummy}
Main == "main"
Sender == "producer_thread"
Senders == {Main, Sender}

VARIABLES pstop, pqueue, pworker, sending, sendpc, pjoin, outbox, log,
          errors, duplicates, timeouts,
          cstop, cqueue, cworker, held, position, polling,
          main,              \* where main is
          spc,               \* where producer_thread is
          rpc,               \* where consumer_thread is
          sent, received,    \* messages_sent, messages_received
          producer_done,     \* producer_done
          attempt,           \* attempt
          no_message_count,  \* no_message_count
          dummy_received,    \* dummy_received
          obtained           \* history: what poll_message() has returned

P == INSTANCE AsyncKafkaProducer
C == INSTANCE AsyncKafkaConsumer

threads == <<main, spc, rpc, sent, received, producer_done, attempt,
             no_message_count, dummy_received, obtained>>
producer == <<pstop, pqueue, pworker, sending, sendpc, pjoin, outbox, log,
              errors, duplicates, timeouts>>
consumer == <<cstop, cqueue, cworker, held, position, polling>>
vars == <<producer, consumer, threads>>
pollvars == <<received, attempt, no_message_count, dummy_received, obtained>>

Init == /\ P!PInit
        /\ C!CInit
        /\ main = "send" /\ spc = "off" /\ rpc = "off"
        /\ sent = 0 /\ received = 0
        /\ producer_done = FALSE
        /\ attempt = 0 /\ no_message_count = 0
        /\ dummy_received = FALSE
        /\ obtained = <<>>

-----------------------------------------------------------------------------
(* main                                                                    *)

MainSend ==
  /\ main = "send"
  /\ P!SendBegin(Main, Dummy)
  /\ main' = "flush"
  /\ UNCHANGED <<consumer, spc, rpc, sent, producer_done, pollvars>>

MainFlush ==
  /\ main = "flush" /\ sendpc[Main] = "out"
  /\ P!Flush
  /\ main' = "construct"
  /\ UNCHANGED <<consumer, spc, rpc, sent, producer_done, pollvars>>

\* The consumer is constructed and both threads are started.
MainStart ==
  /\ main = "construct"
  /\ C!CConstruct
  /\ main' = "join" /\ spc' = "send" /\ rpc' = "poll"
  /\ UNCHANGED <<producer, sent, producer_done, pollvars>>

MainJoinAndStop ==
  /\ main = "join" /\ spc = "done" /\ rpc = "done"
  /\ P!PStopBegin
  /\ main' = "stop_producer"
  /\ UNCHANGED <<consumer, spc, rpc, sent, producer_done, pollvars>>

MainStopConsumer ==
  /\ main = "stop_producer"
  /\ P!PStopReturns
  /\ C!CStopBegin
  /\ main' = "stop_consumer"
  /\ UNCHANGED <<spc, rpc, sent, producer_done, pollvars>>

\* "SUCCESS: All messages sent and received" or "WARNING".
MainReport ==
  /\ main = "stop_consumer"
  /\ C!CStopReturns
  /\ main' = IF received = sent /\ sent > 0 THEN "success" ELSE "warning"
  /\ UNCHANGED <<producer, spc, rpc, sent, producer_done, pollvars>>

-----------------------------------------------------------------------------
(* producer_thread                                                         *)

SenderSend ==
  /\ spc = "send" /\ sent < Total
  /\ P!SendBegin(Sender, sent + 1)
  /\ spc' = "count"
  /\ UNCHANGED <<consumer, main, rpc, sent, producer_done, pollvars>>

\* send() has returned; whether produce() failed is not known to the caller.
SenderCount ==
  /\ spc = "count" /\ sendpc[Sender] = "out"
  /\ sent' = sent + 1
  /\ spc' = "send"
  /\ UNCHANGED <<producer, consumer, main, rpc, producer_done, pollvars>>

SenderFlush ==
  /\ spc = "send" /\ sent = Total
  /\ P!Flush
  /\ spc' = "done"
  /\ producer_done' = TRUE
  /\ UNCHANGED <<consumer, main, rpc, sent, pollvars>>

-----------------------------------------------------------------------------
(* consumer_thread                                                         *)

ReceiverPoll ==
  /\ rpc = "poll" /\ attempt < MaxAttempts
  /\ C!PollBegin
  /\ rpc' = "return"
  /\ UNCHANGED <<producer, main, spc, sent, producer_done, pollvars>>

\* Wrong variant: the dummy message is counted like any other.
ReceiverReturnCountsDummy ==
  /\ rpc = "return"
  /\ C!PollReturns
  /\ IF C!Polled = Nothing
       THEN /\ no_message_count' = no_message_count + 1
            /\ UNCHANGED <<received, obtained>>
       ELSE /\ no_message_count' = 0
            /\ received' = received + 1
            /\ obtained' = Append(obtained, C!Polled)
  /\ rpc' = "decide"
  /\ UNCHANGED <<producer, main, spc, sent, producer_done, attempt, dummy_received>>

\* The first dummy is skipped, and with it the tests that end the loop.
ReceiverReturn ==
  /\ rpc = "return"
  /\ C!PollReturns
  /\ \/ /\ C!Polled = Nothing
        /\ no_message_count' = no_message_count + 1
        /\ rpc' = "decide"
        /\ UNCHANGED <<received, attempt, dummy_received, obtained>>
     \/ /\ C!Polled = Dummy /\ ~dummy_received
        /\ dummy_received' = TRUE
        /\ attempt' = attempt + 1
        /\ obtained' = Append(obtained, Dummy)
        /\ rpc' = "poll"
        /\ UNCHANGED <<received, no_message_count>>
     \/ /\ C!Polled # Nothing /\ (C!Polled = Dummy => dummy_received)
        /\ no_message_count' = 0
        /\ received' = received + 1
        /\ obtained' = Append(obtained, C!Polled)
        /\ rpc' = "decide"
        /\ UNCHANGED <<attempt, dummy_received>>
  /\ UNCHANGED <<producer, main, spc, sent, producer_done>>

\* Leave when the counters agree or too many polls found nothing.
ReceiverDecide ==
  /\ rpc = "decide"
  /\ IF producer_done /\ (received >= sent \/ no_message_count > MaxNoMessage)
       THEN rpc' = "done" /\ UNCHANGED attempt
       ELSE rpc' = "poll" /\ attempt' = attempt + 1
  /\ UNCHANGED <<producer, consumer, main, spc, sent, producer_done, received,
                 no_message_count, dummy_received, obtained>>

ReceiverGivesUp ==
  /\ rpc = "poll" /\ attempt = MaxAttempts
  /\ rpc' = "done"
  /\ UNCHANGED <<producer, consumer, main, spc, sent, producer_done, pollvars>>

-----------------------------------------------------------------------------
MainThread == \/ MainSend \/ MainFlush \/ MainStart
              \/ MainJoinAndStop \/ MainStopConsumer \/ MainReport
SenderThread == SenderSend \/ SenderCount \/ SenderFlush
ReceiverThread == ReceiverPoll \/ ReceiverReturn \/ ReceiverDecide \/ ReceiverGivesUp
SendCall(t) == /\ P!SendProduce(t) \/ P!SendEnqueue(t)
               /\ UNCHANGED <<consumer, threads>>
ProducerWorker == /\ P!PWorkerTop \/ P!PWorkerDrain \/ P!PWorkerFlush
                  /\ UNCHANGED <<consumer, threads>>
ConsumerWorker == /\ C!CWorkerTop \/ C!CWorkerConsume \/ C!CWorkerPush
                  /\ UNCHANGED <<producer, threads>>
Broker == P!Deliver /\ UNCHANGED <<consumer, threads>>

Next == \/ MainThread \/ SenderThread \/ ReceiverThread
        \/ \E t \in Senders : SendCall(t)
        \/ ProducerWorker \/ ConsumerWorker \/ Broker

Spec == Init /\ [][Next]_vars

\* All threads run, and librdkafka goes on delivering: a broker that is away for
\* good is covered by the flushes that give up, of which there may be MaxTimeouts.
Fairness == /\ WF_vars(MainThread) /\ WF_vars(SenderThread) /\ WF_vars(ReceiverThread)
            /\ \A t \in Senders : WF_vars(SendCall(t))
            /\ WF_vars(ProducerWorker) /\ WF_vars(ConsumerWorker) /\ WF_vars(Broker)

FairSpec == Spec /\ Fairness

-----------------------------------------------------------------------------
(* Properties                                                              *)

Holding == IF held = Nothing THEN <<>> ELSE <<held>>

\* The consumer loses, repeats and reorders nothing: what poll_message() has
\* returned, what waits in queue_ and what the worker holds are, in this order,
\* the part of the topic consumed so far, at every moment up to the end of stop().
NothingLostInConsumer == obtained \o cqueue \o Holding = SubSeq(log, 1, position)

\* README:45, stop() "flushes remaining messages": when it has returned and no
\* flush gave up, every message produce() accepted is in the topic.
FlushedByStop == (pjoin /\ pworker = "exited" /\ timeouts = 0) => outbox = <<>>

\* main's verdict, counted and not compared: "SUCCESS: All messages sent and
\* received" (main.cpp:123) is printed only if each message was received.
SuccessIsHonest ==
  main = "success" => \A i \in 1..Total : \E k \in DOMAIN obtained : obtained[k] = i

\* The verdict is right as long as the topic holds no message twice, even if
\* calls of produce() fail and flushes give up.
HonestWithoutDuplicates == duplicates = 0 => SuccessIsHonest

\* The demonstration ends, with one verdict or the other.
Terminates == <>(main \in {"success", "warning"})
=============================================================================
