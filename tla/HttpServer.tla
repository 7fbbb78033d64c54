----------------------------- MODULE HttpServer ----------------------------
(***************************************************************************)
(* networking/http_server: start() accepts connections and posts each to   *)
(* a pool of threads; handle_client keeps its thread until the peer closes *)
(* or asks, with "Connection: close", to be closed.                        *)
(*                                                                         *)
(* A thread of the pool is idle, at read (in read_some), or at write (a    *)
(* request is parsed and its response about to be written).                *)
(* TCP is external: one read_some takes what has arrived for a request, a  *)
(* part of one, or several.                                                *)
(***************************************************************************)
EXTENDS Naturals, Sequences, FiniteSets

CONSTANTS Clients,          \* peers, each of which connects once
          Script,           \* Script[c]: the requests that c may send, in order:
                            \* path, close ("Connection: close"), and bad (a
                            \* Content-Length that is no number)
          Idlers,           \* peers that may keep their connection for ever
          Threads,          \* the threads of the pool
          MaxSplits,        \* bound on requests that arrive in two parts
          MaxAcceptErrors,  \* bound on failures of accept
          Nobody            \* no client

VARIABLES accepting,    \* start() is in its loop
          backlog,      \* external: connections not accepted yet
          queue,        \* connections posted to the pool
          serving,      \* serving[t]: the connection of a pool thread, or Nobody
          pc,           \* pc[t]: idle, read, write
          response,     \* response[t]: what it is about to write, and whether the
                        \* request asked to close
          client_count, \* client_count
          wire,         \* external: wire[c], parts of requests sent, not read
          sent,         \* sent[c]: requests that c has sent
          open,         \* open[c]: new, yes, or no: the peer's end
          dropped,      \* the connections that the server has closed
          splits,
          replies,      \* replies[c]: the responses written to c
          misread       \* history: a read_some gave c not exactly one request

vars == <<accepting, backlog, queue, serving, pc, response, client_count, wire, sent,
          open, dropped, splits, replies, misread>>
pool == <<queue, serving, pc, response, client_count, dropped>>
peers == <<sent, open, splits>>

Whole(r) == [request |-> r, part |-> "whole"]
FirstPart(r) == [request |-> r, part |-> "first"]
SecondPart(r) == [request |-> r, part |-> "second"]

NoResponse == [status |-> 0, content |-> "", close |-> FALSE]

Init == /\ accepting = TRUE
        /\ backlog = <<>> /\ queue = <<>>
        /\ serving = [t \in Threads |-> Nobody]
        /\ pc = [t \in Threads |-> "idle"]
        /\ response = [t \in Threads |-> NoResponse]
        /\ client_count = 0
        /\ wire = [c \in Clients |-> <<>>]
        /\ sent = [c \in Clients |-> 0]
        /\ open = [c \in Clients |-> "new"]
        /\ dropped = {}
        /\ splits = 0
        /\ replies = [c \in Clients |-> <<>>]
        /\ misread = [c \in Clients |-> FALSE]

Elements(s) == {s[i] : i \in DOMAIN s}

-----------------------------------------------------------------------------
(* start                                                                   *)

Accept ==
  /\ accepting /\ backlog # <<>>
  /\ queue' = Append(queue, Head(backlog))
  /\ backlog' = Tail(backlog)
  /\ UNCHANGED <<accepting, serving, pc, response, client_count, dropped, wire, peers,
                 replies, misread>>

\* accept throws: the loop ends, and the pool's destructor stops its threads, each
\* of which leaves when it has served its connection.
AcceptFails ==
  /\ accepting /\ MaxAcceptErrors > 0
  /\ accepting' = FALSE
  /\ UNCHANGED <<backlog, pool, wire, peers, replies, misread>>

\* It has joined them all, and destroys what is still posted.
PoolEnds ==
  /\ ~accepting /\ \A t \in Threads : pc[t] = "idle"
  /\ queue # <<>>
  /\ queue' = <<>>
  /\ dropped' = dropped \cup Elements(queue)
  /\ UNCHANGED <<accepting, backlog, serving, pc, response, client_count, wire, peers,
                 replies, misread>>

-----------------------------------------------------------------------------
(* HttpRequest::parse_request and route                                    *)

\* What parse_request may take for the path in what one read_some returned: the
\* first line's second word, which is a header's value if the beginning of the
\* request is gone, and cut off if the rest has not arrived.
Complete(parts) == \/ parts[1].part = "whole"
                   \/ parts[1].part = "first" /\ Len(parts) > 1
PathsOf(parts) == CASE Complete(parts) -> {parts[1].request.path}
                    [] parts[1].part = "first" /\ Len(parts) = 1 ->
                         {parts[1].request.path, "cut off"}
                    [] parts[1].part = "second" -> {"a header"}

\* Whether it finds "Connection: close", and whether stoul throws: it looks at the
\* lines up to the first empty one, of which a part may have any.
Found(flag, parts) == IF Complete(parts) THEN {flag} ELSE {FALSE, flag}

route(path) == CASE path = "/hello" -> [status |-> 200, content |-> "Hello World"]
                 [] path = "/json"  -> [status |-> 200, content |-> "{msg:hi}"]
                 [] OTHER           -> [status |-> 404, content |-> "Not Found"]

Respond(path, close) ==
  [status |-> route(path).status, content |-> route(path).content, close |-> close]

IsOneRequest(parts) == \/ Len(parts) = 1 /\ parts[1].part = "whole"
                       \/ Len(parts) = 2 /\ parts[1].part = "first"

-----------------------------------------------------------------------------
(* handle_client                                                           *)

Take(t) ==
  /\ accepting /\ pc[t] = "idle" /\ queue # <<>>
  /\ serving' = [serving EXCEPT ![t] = Head(queue)]
  /\ queue' = Tail(queue)
  /\ client_count' = client_count + 1
  /\ pc' = [pc EXCEPT ![t] = "read"]
  /\ UNCHANGED <<accepting, backlog, response, dropped, wire, peers, replies, misread>>

\* The function ends, by its break or by an exception, and destroys the socket.
Leaves(t) ==
  /\ client_count' = client_count - 1
  /\ dropped' = dropped \cup {serving[t]}
  /\ serving' = [serving EXCEPT ![t] = Nobody]
  /\ response' = [response EXCEPT ![t] = NoResponse]
  /\ pc' = [pc EXCEPT ![t] = "idle"]
  /\ UNCHANGED queue

\* One read_some takes the first n parts that have arrived.
Takes(c, n) ==
  /\ wire' = [wire EXCEPT ![c] = SubSeq(@, n + 1, Len(@))]
  /\ misread' = [misread EXCEPT ![c] = @ \/ ~IsOneRequest(SubSeq(wire[c], 1, n))]

Read(t) ==
  LET c == serving[t] IN
  /\ pc[t] = "read"
  /\ \E n \in 1..Len(wire[c]) :
       LET parts == SubSeq(wire[c], 1, n) IN
       /\ FALSE \in Found(parts[1].request.bad, parts)
       /\ \E path \in PathsOf(parts), close \in Found(parts[1].request.close, parts) :
            response' = [response EXCEPT ![t] = Respond(path, close)]
       /\ Takes(c, n)
  /\ pc' = [pc EXCEPT ![t] = "write"]
  /\ UNCHANGED <<accepting, backlog, queue, serving, client_count, dropped, peers, replies>>

\* stoul throws at a Content-Length that is no number.
ReadThrows(t) ==
  LET c == serving[t] IN
  /\ pc[t] = "read"
  /\ \E n \in 1..Len(wire[c]) :
       LET parts == SubSeq(wire[c], 1, n) IN
       /\ TRUE \in Found(parts[1].request.bad, parts)
       /\ Takes(c, n)
  /\ Leaves(t)
  /\ UNCHANGED <<accepting, backlog, peers, replies>>

\* Wrong variant: the end of the stream is read as an empty request, again and again.
ReadEndIgnored(t) ==
  /\ pc[t] = "read" /\ wire[serving[t]] = <<>> /\ open[serving[t]] = "no"
  /\ UNCHANGED vars

\* read_some throws at the end of the stream.
ReadEnd(t) ==
  /\ pc[t] = "read" /\ wire[serving[t]] = <<>> /\ open[serving[t]] = "no"
  /\ Leaves(t)
  /\ UNCHANGED <<accepting, backlog, wire, peers, replies, misread>>

\* Wrong variant: the header is tested before the response is written.
WriteUnlessClose(t) ==
  LET c == serving[t] IN
  /\ pc[t] = "write"
  /\ IF response[t].close
       THEN Leaves(t) /\ UNCHANGED replies
       ELSE /\ replies' = [replies EXCEPT ![c] = Append(@, response[t].content)]
            /\ pc' = [pc EXCEPT ![t] = "read"]
            /\ response' = [response EXCEPT ![t] = NoResponse]
            /\ UNCHANGED <<queue, serving, client_count, dropped>>
  /\ UNCHANGED <<accepting, backlog, wire, peers, misread>>

\* Every response says "Connection: close"; only the request's header decides.
Write(t) ==
  LET c == serving[t] IN
  /\ pc[t] = "write"
  /\ replies' = [replies EXCEPT ![c] = Append(@, response[t].content)]
  /\ IF response[t].close
       THEN Leaves(t)
       ELSE /\ pc' = [pc EXCEPT ![t] = "read"]
            /\ response' = [response EXCEPT ![t] = NoResponse]
            /\ UNCHANGED <<queue, serving, client_count, dropped>>
  /\ UNCHANGED <<accepting, backlog, wire, peers, misread>>

\* A write to a peer that has closed may fail.
WriteFails(t) ==
  /\ pc[t] = "write" /\ open[serving[t]] = "no"
  /\ Leaves(t)
  /\ UNCHANGED <<accepting, backlog, wire, peers, replies, misread>>

-----------------------------------------------------------------------------
(* The peers.  http_request, the client that main runs, is the one whose   *)
(* script is one request with "Connection: close".                         *)

Connect(c) ==
  /\ open[c] = "new"
  /\ open' = [open EXCEPT ![c] = "yes"]
  /\ backlog' = Append(backlog, c)
  /\ UNCHANGED <<accepting, pool, wire, sent, splits, replies, misread>>

Send(c) ==
  /\ open[c] = "yes" /\ c \notin dropped /\ sent[c] < Len(Script[c])
  /\ sent' = [sent EXCEPT ![c] = @ + 1]
  /\ LET r == Script[c][sent'[c]] IN
     \/ /\ wire' = [wire EXCEPT ![c] = Append(@, Whole(r))]
        /\ UNCHANGED splits
     \/ /\ splits < MaxSplits /\ splits' = splits + 1
        /\ wire' = [wire EXCEPT ![c] = @ \o <<FirstPart(r), SecondPart(r)>>]
  /\ UNCHANGED <<accepting, backlog, pool, open, replies, misread>>

Close(c) ==
  /\ open[c] = "yes"
  /\ open' = [open EXCEPT ![c] = "no"]
  /\ UNCHANGED <<accepting, backlog, pool, wire, sent, splits, replies, misread>>

-----------------------------------------------------------------------------
handle_client(t) == \/ Take(t) \/ Read(t) \/ ReadThrows(t) \/ ReadEnd(t)
                    \/ Write(t) \/ WriteFails(t)

Next == \/ Accept \/ AcceptFails \/ PoolEnds
        \/ \E t \in Threads : handle_client(t)
        \/ \E c \in Clients : Connect(c) \/ Send(c) \/ Close(c)

Spec == Init /\ [][Next]_vars

\* The threads run; every peer but the idlers closes in the end.
Fairness == /\ WF_vars(Accept)
            /\ \A t \in Threads : WF_vars(handle_client(t))
            /\ \A c \in Clients \ Idlers : WF_vars(Close(c))

-----------------------------------------------------------------------------
(* Properties                                                              *)

Expected(c) == [i \in DOMAIN Script[c] |-> route(Script[c][i].path).content]
AtRead(c) == \E t \in Threads : serving[t] = c /\ pc[t] = "read"

\* A peer's requests are answered one by one, in order, each with what its path
\* routes to; the server reads on only if it owes nothing, and it is the one to
\* close only after it has answered a request that says close, at a malformed
\* one, or if accept has failed.  As long as each read_some of handle_client
\* returned exactly one request; the code has nothing to ensure that.
AnswersMatch ==
  \A c \in Clients : ~misread[c] =>
    /\ replies[c] = SubSeq(Expected(c), 1, Len(replies[c]))
    /\ AtRead(c) /\ wire[c] = <<>> => Len(replies[c]) = sent[c]
    /\ c \in dropped /\ open[c] = "yes" /\ accepting =>
         \/ replies[c] # <<>> /\ Script[c][Len(replies[c])].close
         \/ Script[c][Len(replies[c]) + 1].bad

Served(c) == c \in dropped \/ \E t \in Threads : serving[t] = c

\* A connection gets a thread of the pool in the end, unless accept fails, as
\* long as fewer peers than the pool has threads keep theirs for ever: the server
\* closes no connection of its own accord, although its responses say it does.
EveryConnectionServed ==
  \A c \in Clients : []<>(open[c] = "new" \/ Served(c) \/ ~accepting)
=============================================================================
