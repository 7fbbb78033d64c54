------------------------ MODULE AsyncKafkaProducer -------------------------
(***************************************************************************)
(* kafka/kafka_async, Async_Kafka_Producer: send() hands a message to      *)
(* librdkafka and puts a note of the outcome in queue_, which a worker     *)
(* thread drains; stop() ends the worker, whose last act is a flush.       *)
(*                                                                         *)
(* librdkafka and the broker are external: an outbox of messages accepted  *)
(* by produce(), which its own threads move to the topic's log, retrying   *)
(* after a lost acknowledgement (no idempotence is configured).            *)
(* The operators here are steps; KafkaAsync says which thread takes them.  *)
(***************************************************************************)
EXTENDS Naturals, Sequences

CONSTANTS Senders,        \* threads that call send() and flush()
          Payloads,       \* what they send
          Nothing,        \* no message
          MaxErrors,      \* bound on failed calls of produce()
          MaxDuplicates,  \* bound on deliveries whose acknowledgement is lost
          MaxTimeouts     \* bound on flush(5000) giving up

VARIABLES pstop,       \* stop_
          pqueue,      \* queue_: payload and outcome of each send not yet drained
          pworker,     \* worker_loop: top, drain, flush, exited
          sending,     \* sending[t]: the payload of t's send(), or Nothing
          sendpc,      \* sendpc[t]: out, produce, failed or enqueue
          pjoin,       \* stop() has been called, and is joining the worker
          outbox,      \* external: accepted by produce(), not acknowledged
          log,         \* external: the topic
          errors, duplicates, timeouts

pvars == <<pstop, pqueue, pworker, sending, sendpc, pjoin, outbox, log,
           errors, duplicates, timeouts>>
external == <<outbox, log, duplicates>>

PInit == /\ pstop = FALSE /\ pjoin = FALSE
         /\ pqueue = <<>>
         /\ pworker = "top"
         /\ sending = [t \in Senders |-> Nothing]
         /\ sendpc = [t \in Senders |-> "out"]
         /\ outbox = <<>> /\ log = <<>>
         /\ errors = 0 /\ duplicates = 0 /\ timeouts = 0

-----------------------------------------------------------------------------
(* send                                                                    *)

\* A stopped producer throws instead.
SendBegin(t, m) ==
  /\ sendpc[t] = "out" /\ ~pstop
  /\ sending' = [sending EXCEPT ![t] = m]
  /\ sendpc' = [sendpc EXCEPT ![t] = "produce"]
  /\ UNCHANGED <<pstop, pqueue, pworker, pjoin, external, errors, timeouts>>

\* stop_ is not looked at again.  A failure is noted and send() goes on.
SendProduce(t) ==
  /\ sendpc[t] = "produce"
  /\ \/ /\ outbox' = Append(outbox, sending[t])
        /\ sendpc' = [sendpc EXCEPT ![t] = "enqueue"]
        /\ UNCHANGED errors
     \/ /\ errors < MaxErrors
        /\ errors' = errors + 1
        /\ sendpc' = [sendpc EXCEPT ![t] = "failed"]
        /\ UNCHANGED outbox
  /\ UNCHANGED <<pstop, pqueue, pworker, sending, pjoin, log, duplicates, timeouts>>

SendEnqueue(t) ==
  /\ sendpc[t] \in {"enqueue", "failed"}
  /\ pqueue' = Append(pqueue, [payload |-> sending[t], ok |-> sendpc[t] = "enqueue"])
  /\ sending' = [sending EXCEPT ![t] = Nothing]
  /\ sendpc' = [sendpc EXCEPT ![t] = "out"]
  /\ UNCHANGED <<pstop, pworker, pjoin, external, errors, timeouts>>

\* Wrong variant: flush returns at once.
FlushReturnsAtOnce == UNCHANGED timeouts

\* librdkafka's flush(5000), by flush() and by the worker: it returns when the
\* outbox is empty or its time is up.
FlushReturns == \/ outbox = <<>> /\ UNCHANGED timeouts
                \/ outbox # <<>> /\ timeouts < MaxTimeouts /\ timeouts' = timeouts + 1

Flush == /\ FlushReturns
         /\ UNCHANGED <<pstop, pqueue, pworker, sending, sendpc, pjoin, external, errors>>

-----------------------------------------------------------------------------
(* worker_loop.  Its wait_for lasts 100 ms at most and poll(0) serves no   *)
(* callback, so a round of the loop is: test stop_, then drain.            *)

PWorkerTop ==
  /\ pworker = "top"
  /\ pworker' = IF pstop THEN "flush" ELSE "drain"
  /\ UNCHANGED <<pstop, pqueue, sending, sendpc, pjoin, external, errors, timeouts>>

PWorkerDrain ==
  /\ pworker = "drain"
  /\ pworker' = IF pstop /\ pqueue = <<>> THEN "flush" ELSE "top"
  /\ pqueue' = <<>>
  /\ UNCHANGED <<pstop, sending, sendpc, pjoin, external, errors, timeouts>>

PWorkerFlush ==
  /\ pworker = "flush"
  /\ FlushReturns
  /\ pworker' = "exited"
  /\ UNCHANGED <<pstop, pqueue, sending, sendpc, pjoin, external, errors>>

-----------------------------------------------------------------------------
(* stop                                                                    *)

\* Wrong variant: stop() joins without setting stop_.
PStopBeginUnset ==
  /\ ~pjoin
  /\ pjoin' = TRUE
  /\ UNCHANGED <<pstop, pqueue, pworker, sending, sendpc, external, errors, timeouts>>

PStopBegin ==
  /\ ~pjoin
  /\ pstop' = TRUE /\ pjoin' = TRUE
  /\ UNCHANGED <<pqueue, pworker, sending, sendpc, external, errors, timeouts>>

PStopReturns == pjoin /\ pworker = "exited" /\ UNCHANGED pvars

-----------------------------------------------------------------------------
(* librdkafka and the broker                                               *)

Deliver ==
  /\ outbox # <<>>
  /\ log' = Append(log, Head(outbox))
  /\ \/ outbox' = Tail(outbox) /\ UNCHANGED duplicates
     \/ duplicates < MaxDuplicates /\ duplicates' = duplicates + 1 /\ UNCHANGED outbox
  /\ UNCHANGED <<pstop, pqueue, pworker, sending, sendpc, pjoin, errors, timeouts>>
=============================================================================
