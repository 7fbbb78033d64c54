------------------------ MODULE AsyncKafkaConsumer -------------------------
(***************************************************************************)
(* kafka/kafka_async, Async_Kafka_Consumer: a worker thread moves messages *)
(* from librdkafka to queue_, from which poll_message() takes them.  Both  *)
(* wait with time-outs.  The operators here are steps; KafkaAsync says     *)
(* which thread takes them.                                                *)
(***************************************************************************)
EXTENDS Naturals, Sequences

CONSTANTS Payloads, \* what the topic holds
          Nothing   \* the empty string: an empty payload, or no message

VARIABLES cstop,     \* stop_
          cqueue,    \* queue_
          cworker,   \* worker_loop: off (not constructed), top, consume, push, exited
          held,      \* its local payload
          position,  \* messages of the log consumed so far
          polling,   \* a poll_message() has passed its test of stop_
          log        \* external: the topic

cvars == <<cstop, cqueue, cworker, held, position, polling>>

CInit == /\ cstop = FALSE
         /\ cqueue = <<>>
         /\ cworker = "off"
         /\ held = Nothing
         /\ position = 0
         /\ polling = FALSE

\* The constructor subscribes from the earliest offset and starts the worker.
CConstruct ==
  /\ cworker = "off"
  /\ cworker' = "top"
  /\ UNCHANGED <<cstop, cqueue, held, position, polling>>

-----------------------------------------------------------------------------
(* worker_loop                                                             *)

CWorkerTop ==
  /\ cworker = "top"
  /\ cworker' = IF cstop THEN "exited" ELSE "consume"
  /\ UNCHANGED <<cstop, cqueue, held, position, polling>>

\* consume(1000) gives the next message, or an error when none has arrived in
\* time; an empty payload is passed over.
CWorkerConsume ==
  /\ cworker = "consume"
  /\ \/ /\ position < Len(log)
        /\ position' = position + 1
        /\ held' = log[position + 1]
        /\ cworker' = IF held' = Nothing THEN "top" ELSE "push"
     \/ /\ cworker' = "top"
        /\ UNCHANGED <<held, position>>
  /\ UNCHANGED <<cstop, cqueue, polling>>

\* Wrong variant: a worker that was told to stop drops what it holds.
CWorkerPushUnlessStopped ==
  /\ cworker = "push"
  /\ cqueue' = IF cstop THEN cqueue ELSE Append(cqueue, held)
  /\ held' = Nothing
  /\ cworker' = "top"
  /\ UNCHANGED <<cstop, position, polling>>

CWorkerPush ==
  /\ cworker = "push"
  /\ cqueue' = Append(cqueue, held)
  /\ held' = Nothing
  /\ cworker' = "top"
  /\ UNCHANGED <<cstop, position, polling>>

-----------------------------------------------------------------------------
(* poll_message                                                            *)

\* A stopped consumer throws instead, whatever queue_ holds.
PollBegin ==
  /\ ~polling /\ ~cstop
  /\ polling' = TRUE
  /\ UNCHANGED <<cstop, cqueue, cworker, held, position>>

\* wait_for ends with a message, or after 100 ms (or at stop) with none.
Polled == IF cqueue = <<>> THEN Nothing ELSE Head(cqueue)

PollReturns ==
  /\ polling
  /\ polling' = FALSE
  /\ cqueue' = IF cqueue = <<>> THEN <<>> ELSE Tail(cqueue)
  /\ UNCHANGED <<cstop, cworker, held, position>>

-----------------------------------------------------------------------------
(* stop                                                                    *)

CStopBegin ==
  /\ ~cstop
  /\ cstop' = TRUE
  /\ UNCHANGED <<cqueue, cworker, held, position, polling>>

CStopReturns == cstop /\ cworker = "exited" /\ UNCHANGED cvars
=============================================================================
