----------------------------- MODULE RedisDemo -----------------------------
(***************************************************************************)
(* redis/redis_demo: one thread accepts a connection, reads one request,   *)
(* asks Redis over its only connection, answers and goes on to the next.   *)
(* An exception of any session ends the server.                            *)
(*                                                                         *)
(* Points of the server (at): accept, read, act (do_action), write, shut   *)
(* (the shutdown of the socket), down.                                     *)
(* Targets, bodies, keys and values are sequences of tokens, of which      *)
(* "/" and "=" matter.  TCP, the peers and Redis are external.             *)
(***************************************************************************)
EXTENDS Naturals, Sequences, SequencesExt

CONSTANTS Peers,        \* peers, each of which connects once
          Offers,       \* Offers[p]: the requests that p may make: method, target, body
          Silent,       \* peers that may send nothing and yet stay
          MaxLost,      \* bound on losses of the connection to Redis
          MaxRefused,   \* bound on error replies of Redis
          MaxRestarts,  \* bound on restarts of the server
          Nobody        \* no peer

VARIABLES at, peer,     \* where the server is, and with whom
          request,      \* request[p]: what p has sent, if anything
          response,     \* res
          open,         \* open[p]: new, yes, reset (gone), or over (closed by the server)
          backlog,      \* external: connections not accepted yet
          store,        \* external: what Redis has, a set of pairs of key and value
          linked,       \* context_ has a connection without an error
          lost, refused, restarts,
          log           \* history: the sessions that got as far as do_action, what
                        \* they answered, and whether Redis had always done as told

vars == <<at, peer, request, response, open, backlog, store, linked, lost, refused,
          restarts, log>>
redis == <<store, linked, lost, refused>>

NoRequest == [method |-> "none", target |-> <<>>, body |-> <<>>]
NoResponse == [status |-> 0, body |-> <<>>]

Init == /\ at = "accept" /\ peer = Nobody
        /\ request = [p \in Peers |-> NoRequest]
        /\ response = NoResponse
        /\ open = [p \in Peers |-> "new"]
        /\ backlog = <<>>
        /\ store = {} /\ linked = TRUE
        /\ lost = 0 /\ refused = 0 /\ restarts = 0
        /\ log = <<>>

-----------------------------------------------------------------------------
(* Keys and values                                                         *)

\* Wrong variant: the slash of the target stays.
TargetKept(target) == target

\* GET: the target without its first slash, neither decoded nor cut at a "?".
KeyOf(target) == IF target # <<>> /\ Head(target) = "/" THEN Tail(target) ELSE target

\* POST: the body is split at its first "=".
Split(body) == SelectInSeq(body, LAMBDA token : token = "=")
KeyIn(body) == SubSeq(body, 1, Split(body) - 1)
ValueIn(body) == SubSeq(body, Split(body) + 1, Len(body))

Stored(key) == {pair \in store : pair[1] = key}
Found(key) == IF Stored(key) = {} THEN <<>> ELSE (CHOOSE pair \in Stored(key) : TRUE)[2]

-----------------------------------------------------------------------------
(* Redis_Client                                                            *)

\* redisCommand returns no reply, now and ever after: the connection is lost, and
\* nobody opens it again.
LinkBreaks == /\ linked /\ lost < MaxLost
              /\ lost' = lost + 1
              /\ linked' = FALSE

\* set; that it has failed is known to nobody.
Set(key, value) ==
  LET stored == (store \ Stored(key)) \cup {<<key, value>>} IN
  \/ linked /\ store' = stored /\ UNCHANGED <<linked, lost, refused>>
  \/ linked /\ refused < MaxRefused /\ refused' = refused + 1 /\ UNCHANGED <<store, linked, lost>>
  \/ LinkBreaks /\ store' \in {store, stored} /\ UNCHANGED refused
  \/ ~linked /\ UNCHANGED redis

\* get, which returns "" when it fails, and for a reply that is no string.
Get(key, value) ==
  \/ linked /\ value = Found(key) /\ UNCHANGED redis
  \/ /\ linked /\ refused < MaxRefused /\ refused' = refused + 1 /\ value = <<>>
     /\ UNCHANGED <<store, linked, lost>>
  \/ LinkBreaks /\ value = <<>> /\ UNCHANGED <<store, refused>>
  \/ ~linked /\ value = <<>> /\ UNCHANGED redis

-----------------------------------------------------------------------------
(* Http_Server                                                             *)

Accept == /\ at = "accept" /\ backlog # <<>>
          /\ peer' = Head(backlog)
          /\ backlog' = Tail(backlog)
          /\ at' = "read"
          /\ UNCHANGED <<request, response, open, redis, restarts, log>>

\* http::read waits for a whole request.
Read == /\ at = "read" /\ request[peer].method \notin {"none", "malformed"}
        /\ at' = "act"
        /\ UNCHANGED <<peer, request, response, open, backlog, redis, restarts, log>>

Answers(status, body) ==
  /\ response' = [status |-> status, body |-> body]
  /\ log' = Append(log, [request |-> request[peer], answer |-> body,
                         healthy |-> lost' = 0 /\ refused' = 0])

do_action ==
  LET r == request[peer] IN
  /\ at = "act"
  /\ \/ /\ r.method = "GET"
        /\ \E value \in {Found(KeyOf(r.target)), <<>>} :
             Get(KeyOf(r.target), value) /\ Answers(200, value)
     \/ /\ r.method = "POST" /\ Split(r.body) # 0
        /\ Set(KeyIn(r.body), ValueIn(r.body))
        /\ Answers(200, <<"OK">>)
     \/ /\ r.method = "POST" /\ Split(r.body) = 0
        /\ UNCHANGED redis
        /\ Answers(400, <<"Bad body format">>)
     \/ /\ r.method \notin {"GET", "POST"}
        /\ UNCHANGED redis
        /\ Answers(400, <<"Unsupported method">>)
  /\ at' = "write"
  /\ UNCHANGED <<peer, request, open, backlog, restarts>>

Write == /\ at = "write"
         /\ at' = "shut"
         /\ UNCHANGED <<peer, request, response, open, backlog, redis, restarts, log>>

\* The socket is destroyed at the end of the session.
EndOfSession == /\ open' = [open EXCEPT ![peer] = "over"]
                /\ peer' = Nobody
                /\ response' = NoResponse

Shutdown == /\ at = "shut"
            /\ EndOfSession
            /\ at' = "accept"
            /\ UNCHANGED <<request, backlog, redis, restarts, log>>

\* Wrong variant: the exception is caught in handle_session, which tries again.
FailureRetried == /\ at \in {"read", "write", "shut"}
                  /\ open[peer] = "reset" \/ request[peer].method = "malformed"
                  /\ UNCHANGED vars

\* run() catches an exception outside its loop, and closes the acceptor.
Ends == /\ open' = [p \in Peers |->
                      IF p = peer \/ Contains(backlog, p) THEN "over" ELSE open[p]]
        /\ backlog' = <<>>
        /\ peer' = Nobody
        /\ response' = NoResponse
        /\ at' = "down"
        /\ UNCHANGED <<request, redis, restarts, log>>

\* read, write and shutdown may throw if the peer has gone, and read does at a
\* malformed request.
SessionFails == /\ at \in {"read", "write", "shut"}
                /\ open[peer] = "reset" \/ request[peer].method = "malformed"
                /\ Ends

\* accept throws, because the system refuses a descriptor.
AcceptFails == at = "accept" /\ Ends

\* main runs again, with a new connection to Redis.
Restart == /\ at = "down" /\ restarts < MaxRestarts
           /\ restarts' = restarts + 1
           /\ linked' = TRUE
           /\ at' = "accept"
           /\ UNCHANGED <<peer, request, response, open, backlog, store, lost, refused, log>>

-----------------------------------------------------------------------------
(* The peers                                                               *)

Connect(p) == /\ open[p] = "new" /\ at # "down"
              /\ open' = [open EXCEPT ![p] = "yes"]
              /\ backlog' = Append(backlog, p)
              /\ UNCHANGED <<at, peer, request, response, redis, restarts, log>>

Send(p) == /\ open[p] = "yes" /\ request[p] = NoRequest
           /\ request' \in {[request EXCEPT ![p] = r] : r \in Offers[p]}
           /\ UNCHANGED <<at, peer, response, open, backlog, redis, restarts, log>>

Reset(p) == /\ open[p] = "yes"
            /\ open' = [open EXCEPT ![p] = "reset"]
            /\ UNCHANGED <<at, peer, request, response, backlog, redis, restarts, log>>

-----------------------------------------------------------------------------
Server == Accept \/ Read \/ do_action \/ Write \/ Shutdown \/ SessionFails

Next == \/ Server \/ AcceptFails \/ Restart
        \/ \E p \in Peers : Connect(p) \/ Send(p) \/ Reset(p)

Spec == Init /\ [][Next]_vars

\* The server runs; every peer but the silent ones sends or goes in the end.
Fairness == /\ WF_vars(Server)
            /\ \A p \in Peers \ Silent : WF_vars(Send(p) \/ Reset(p))

-----------------------------------------------------------------------------
(* Properties                                                              *)

\* A body writes value v where a target reads: target "/k", body "k=v".
Posts(r, target, v) == /\ r.method = "POST"
                       /\ target \o <<"=">> \o v = <<"/">> \o r.body
                       /\ ~Contains(target, "=")
PostsFor(i, target) == {j \in 1..i - 1 : \E n \in 0..Len(log[j].request.body) :
  Posts(log[j].request, target, SubSeq(log[j].request.body, n + 1, Len(log[j].request.body)))}

\* A target without a slash is read like the one with it.
Slashed(target) == IF target # <<>> /\ Head(target) = "/" THEN target ELSE <<"/">> \o target

\* A GET answers with what some earlier POST gave for that key or with nothing; as
\* long as Redis was reached and did as told, with what the last one gave.  (After
\* that "OK" says nothing: set's result is not looked at.)
AnswersAreTrue ==
  \A i \in DOMAIN log :
    LET target == Slashed(log[i].request.target)
        posts  == PostsFor(i, target)
        Gave(j) == Posts(log[j].request, target, log[i].answer) IN
    log[i].request.method = "GET" /\ ~Contains(target, "=") =>
      /\ log[i].answer = <<>> \/ \E j \in posts : Gave(j)
      /\ log[i].healthy =>
           IF posts = {} THEN log[i].answer = <<>>
                         ELSE Gave(CHOOSE j \in posts : \A k \in posts : k <= j)

\* Whoever connects has his connection closed, by himself or by the server, which
\* is then ready for the next or down: one thread serves all, so only a peer that
\* neither sends nor goes can keep the others waiting.
SessionsEnd ==
  \A p \in Peers : 
    []<>\/ open[p] # "yes"
        \/ peer \in Silent /\ request[peer] = NoRequest
=============================================================================
