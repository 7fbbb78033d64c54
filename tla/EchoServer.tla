----------------------------- MODULE EchoServer ----------------------------
(***************************************************************************)
(* networking/echo_server: main accepts, counts the client, asks for its   *)
(* address and gives it a detached thread, which writes back what it       *)
(* reads.  An exception in main ends the process and so all its threads;   *)
(* accept, remote_endpoint and the construction of a thread may throw.     *)
(*                                                                         *)
(* Points of main (at): accept, counted (before remote_endpoint), down.    *)
(* Points of a handler: none, read, write, over.                           *)
(* Bytes are counted, not looked at: TCP, which is external, keeps their   *)
(* order.                                                                  *)
(***************************************************************************)
EXTENDS Naturals, Sequences

CONSTANTS Peers,      \* peers, each of which connects once
          Deaf,       \* peers that may stop reading
          Length,     \* what each peer sends at most
          DataSize,   \* the size of the array data
          SocketSize, \* what a socket's buffer takes before a write blocks
          MayStarve,  \* the system may refuse main a descriptor or a thread
          Nobody      \* no peer

VARIABLES at, peer,      \* where main is, and with whom
          starved,       \* the system has refused main a descriptor or a thread
          client_count,
          handler, data, \* handler[p]: the thread of p; data[p]: what it has to write
          backlog,       \* external: connections not accepted yet
          open,          \* open[p]: new, yes, no
          sent, wire,    \* sent[p]: by p so far; wire[p]: of that, not read yet
          back,          \* back[p]: written to p, not received yet
          received       \* received[p]: what p has got back

vars == <<at, peer, starved, client_count, handler, data, backlog, open, sent, wire, back,
          received>>
main == <<at, peer, starved, backlog>>
traffic == <<sent, wire, back, received>>

Init == /\ at = "accept" /\ peer = Nobody
        /\ starved = FALSE
        /\ client_count = 0
        /\ handler = [p \in Peers |-> "none"]
        /\ data = [p \in Peers |-> 0]
        /\ backlog = <<>>
        /\ open = [p \in Peers |-> "new"]
        /\ sent = [p \in Peers |-> 0] /\ wire = [p \in Peers |-> 0]
        /\ back = [p \in Peers |-> 0] /\ received = [p \in Peers |-> 0]

GoTo(p, point) == handler' = [handler EXCEPT ![p] = point]

-----------------------------------------------------------------------------
(* main                                                                    *)

Accept == /\ at = "accept" /\ backlog # <<>>
          /\ peer' = Head(backlog) /\ backlog' = Tail(backlog)
          /\ client_count' = client_count + 1
          /\ at' = "counted"
          /\ UNCHANGED <<starved, handler, data, open, traffic>>

Detach == /\ at = "counted"
          /\ GoTo(peer, "read")
          /\ peer' = Nobody
          /\ at' = "accept"
          /\ UNCHANGED <<starved, client_count, data, backlog, open, traffic>>

\* The exception is caught outside the loop: main returns, the threads end.
Ends == /\ at' = "down"
        /\ handler' = [p \in Peers |-> IF handler[p] = "none" THEN "none" ELSE "over"]
        /\ UNCHANGED <<peer, client_count, data, backlog, open, traffic>>

\* remote_endpoint throws if the peer has gone.
NoEndpoint == /\ at = "counted" /\ open[peer] = "no"
              /\ Ends
              /\ UNCHANGED starved

\* accept throws, or, once remote_endpoint has answered, the thread's constructor.
Starves == /\ MayStarve /\ at \in {"accept", "counted"}
           /\ starved' = TRUE
           /\ Ends

-----------------------------------------------------------------------------
(* handler                                                                 *)

Read(p) == /\ handler[p] = "read"
           /\ \E n \in 1..DataSize :
                /\ n <= wire[p]
                /\ data' = [data EXCEPT ![p] = n]
                /\ wire' = [wire EXCEPT ![p] = @ - n]
           /\ GoTo(p, "write")
           /\ UNCHANGED <<main, client_count, open, sent, back, received>>

\* Wrong variant: write_some, which leaves what the socket does not take.
WriteSome(p) == /\ handler[p] = "write" /\ back[p] < SocketSize
                /\ LET n == IF data[p] <= SocketSize - back[p] THEN data[p]
                                                              ELSE SocketSize - back[p] IN
                   back' = [back EXCEPT ![p] = @ + n]
                /\ data' = [data EXCEPT ![p] = 0]
                /\ GoTo(p, "read")
                /\ UNCHANGED <<main, client_count, open, sent, wire, received>>

\* write returns when all is written; it waits while the socket's buffer is full.
Write(p) == /\ handler[p] = "write" /\ back[p] < SocketSize
            /\ back' = [back EXCEPT ![p] = @ + 1]
            /\ data' = [data EXCEPT ![p] = @ - 1]
            /\ GoTo(p, IF data[p] = 1 THEN "read" ELSE "write")
            /\ UNCHANGED <<main, client_count, open, sent, wire, received>>

\* read_some throws at the end of the stream, write if the peer has gone.
Leave(p) == /\ open[p] = "no"
            /\ \/ handler[p] = "read" /\ wire[p] = 0
               \/ handler[p] = "write"
            /\ GoTo(p, "over")
            /\ data' = [data EXCEPT ![p] = 0]
            /\ client_count' = client_count - 1
            /\ UNCHANGED <<main, open, traffic>>

-----------------------------------------------------------------------------
(* The peers                                                               *)

Connect(p) == /\ open[p] = "new" /\ at # "down"
              /\ open' = [open EXCEPT ![p] = "yes"]
              /\ backlog' = Append(backlog, p)
              /\ UNCHANGED <<at, peer, starved, client_count, handler, data, traffic>>

Send(p) == /\ open[p] = "yes" /\ sent[p] < Length
           /\ sent' = [sent EXCEPT ![p] = @ + 1]
           /\ wire' = [wire EXCEPT ![p] = @ + 1]
           /\ UNCHANGED <<main, client_count, handler, data, open, back, received>>

Receive(p) == /\ open[p] = "yes" /\ back[p] > 0
              /\ received' = [received EXCEPT ![p] = @ + back[p]]
              /\ back' = [back EXCEPT ![p] = 0]
              /\ UNCHANGED <<main, client_count, handler, data, open, sent, wire>>

Close(p) == /\ open[p] = "yes"
            /\ open' = [open EXCEPT ![p] = "no"]
            /\ UNCHANGED <<main, client_count, handler, data, traffic>>

-----------------------------------------------------------------------------
Main == Accept \/ Detach \/ NoEndpoint
Handler(p) == Read(p) \/ Write(p) \/ Leave(p)

Next == \/ Main \/ Starves
        \/ \E p \in Peers : \/ Handler(p)
                            \/ Connect(p) \/ Send(p) \/ Receive(p) \/ Close(p)

Spec == Init /\ [][Next]_vars

\* main and the handlers run; every peer but the deaf ones goes on reading.
Fairness == /\ WF_vars(Main)
            /\ \A p \in Peers : WF_vars(Handler(p))
            /\ \A p \in Peers \ Deaf : WF_vars(Receive(p))

-----------------------------------------------------------------------------
(* Properties                                                              *)

\* A peer that goes on reading gets back all it has sent, also while another one
\* does not read and keeps its thread in write; unless the server has ended for
\* all, because a peer has gone between accept and remote_endpoint or because the
\* system refused a descriptor or a thread.
EchoReturns ==
  \A p \in Peers \ Deaf : 
    []<>\/ received[p] = sent[p]
        \/ open[p] = "no"
        \/ at = "down" /\ (starved \/ open[peer] = "no")
=============================================================================
