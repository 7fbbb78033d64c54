----------------------------- MODULE MCPrograms ----------------------------
(***************************************************************************)
(* Five programs that have nothing to do with each other, checked in one   *)
(* run: the initial state selects a program, the others stay where they    *)
(* start.  Their properties are each program's own.                        *)
(***************************************************************************)
EXTENDS UserManager, TLC

CONSTANTS a1, a2, a3,  \* processes, threads, peers: whatever acts in a program
          Clients, Threads, Idlers, Script, MaxSplits, MaxAcceptErrors,  \* http_server
          EchoPeers, Deaf, Length, DataSize, SocketSize, MayStarve,  \* echo_server
          Offers, Silent, MaxLost, MaxRefused, MaxRestarts,      \* redis_demo
          N, NUM_THREADS, NUM_KEYS,                              \* Striped_UM
          Nobody

\* At least one stripe, and one key for each thread, as main has them.
ASSUME StripedAssumption == N \in Nat \ {0} /\ NUM_THREADS \in Nat /\ NUM_KEYS \in Nat \ {0}

VARIABLES program,
          accepting, httpBacklog, queue, serving, httpPc, httpResponse, client_count,
          httpWire, httpSent, httpOpen, dropped, splits, replies, misread,
          echoAt, echoPeer, starved, echo_client_count, handler, echoData, echoBacklog, echoOpen,
          echoSent, echoWire, back, received,
          redisAt, redisPeer, request, redisResponse, redisOpen, redisBacklog, redisStore,
          linked, redisLost, refused, redisRestarts, log,
          phase, data, stripedPc, i, got, count

httpVars == <<accepting, httpBacklog, queue, serving, httpPc, httpResponse, client_count,
              httpWire, httpSent, httpOpen, dropped, splits, replies, misread>>
echoVars == <<echoAt, echoPeer, starved, echo_client_count, handler, echoData, echoBacklog,
              echoOpen, echoSent, echoWire, back, received>>
redisVars == <<redisAt, redisPeer, request, redisResponse, redisOpen, redisBacklog, redisStore,
               linked, redisLost, refused, redisRestarts, log>>
stripedVars == <<phase, data, stripedPc, i, got, count>>

-----------------------------------------------------------------------------
(* User_Manager: main alone on a table that is not empty, with failures    *)
(* and a second run, schema.sql there or not; main beside another process  *)
(* that creates the table too; two processes that use every call on the    *)
(* same two keys.                                                          *)

Alice(id, age) == [id |-> id, name |-> "Alice", age |-> age]
Bob(id, age) == [id |-> id, name |-> "Bob", age |-> age]
Registers(age) == registerUser("Alice", age)
Ages == increaseUserAge("Alice", 5)

MainTwice == [program |-> a1 :> MainProgram @@ a2 :> <<>>,
              table |-> TRUE, users |-> {Bob(1, 30), Alice(2, 30)},
              lost |-> 2, restarts |-> 1, schema |-> TRUE]
MainUnsure == [MainTwice EXCEPT !.schema = FALSE]
MainDisturbed == [program |-> a1 :> MainProgram
                           @@ a2 :> <<createTable, Registers(25), Ages>>,
                  table |-> FALSE, users |-> {}, lost |-> 0, restarts |-> 0,
                  schema |-> TRUE]
Contenders == [program |-> a1 :> <<Registers(25), Ages, Registers(30)>>
                        @@ a2 :> <<Registers(30), Ages, deleteUserByName("Alice"), createTable>>,
               table |-> TRUE, users |-> {}, lost |-> 2, restarts |-> 1, schema |-> TRUE]

MCSetups == {MainTwice, MainUnsure, MainDisturbed, Contenders}

-----------------------------------------------------------------------------
(* http_server: a client that sends two requests, the second of which says *)
(* close, an idler that sends none, one that sends a malformed one.        *)

Requests == [path : STRING, close : BOOLEAN, bad : BOOLEAN]
ASSUME ScriptAssumption == /\ Nobody \notin Clients
                           /\ \A c \in Clients : Script[c] \in Seq(Requests)

Request(path, close, bad) == [path |-> path, close |-> close, bad |-> bad]
MCScript == a1 :> <<Request("/hello", FALSE, FALSE), Request("/json", TRUE, FALSE)>>
         @@ a2 :> <<>>
         @@ a3 :> <<Request("/hello", FALSE, TRUE)>>

Http == INSTANCE HttpServer WITH
  backlog <- httpBacklog, pc <- httpPc, response <- httpResponse,
  wire <- httpWire, sent <- httpSent, open <- httpOpen

-----------------------------------------------------------------------------
(* echo_server                                                             *)

Echo == INSTANCE EchoServer WITH
  Peers <- EchoPeers, at <- echoAt, peer <- echoPeer, client_count <- echo_client_count,
  data <- echoData, backlog <- echoBacklog, open <- echoOpen, sent <- echoSent,
  wire <- echoWire

-----------------------------------------------------------------------------
(* redis_demo: two writers, one of which may send other things, a reader.  *)

\* Requests, whose targets and bodies are sequences of tokens.
Messages == [method : STRING, target : Seq(STRING), body : Seq(STRING)]
ASSUME OffersAssumption == \A p \in Clients : Offers[p] \subseteq Messages

Get(target) == [method |-> "GET", target |-> target, body |-> <<>>]
Post(body) == [method |-> "POST", target |-> <<"/">>, body |-> body]
Put(body) == [method |-> "PUT", target |-> <<"/">>, body |-> body]
Malformed == [method |-> "malformed", target |-> <<>>, body |-> <<>>]

MCOffers == a1 :> {Post(<<"k", "=", "v">>)}
         @@ a2 :> {Post(<<"k", "=", "=", "w">>), Post(<<"/", "k", "=", "w">>), Post(<<"k">>),
                   Put(<<"k", "=", "w">>), Malformed}
         @@ a3 :> {Get(<<"/", "k">>), Get(<<"/", "/", "k">>), Get(<<"k">>)}

Redis == INSTANCE RedisDemo WITH
  Peers <- Clients, at <- redisAt, peer <- redisPeer, response <- redisResponse,
  open <- redisOpen, backlog <- redisBacklog, store <- redisStore,
  lost <- redisLost, restarts <- redisRestarts

-----------------------------------------------------------------------------
(* Striped_Unordered_Map                                                   *)

Striped == INSTANCE StripedMap WITH pc <- stripedPc

-----------------------------------------------------------------------------
(* The selection                                                           *)

MCInit == /\ program \in {"users", "http", "echo", "redis", "striped"}
          /\ Init
          /\ program # "users" => setup = MainTwice
          /\ Http!Init /\ Echo!Init /\ Redis!Init /\ Striped!Init

servers == <<httpVars, echoVars, redisVars>>

\* What a step of one program leaves alone.
ButUsers == UNCHANGED <<program, servers, stripedVars>>
ButHttp == UNCHANGED <<program, vars, echoVars, redisVars, stripedVars>>
ButEcho == UNCHANGED <<program, vars, httpVars, redisVars, stripedVars>>
ButRedis == UNCHANGED <<program, vars, httpVars, echoVars, stripedVars>>
ButStriped == UNCHANGED <<program, vars, servers>>

MCNext == \/ program = "users" /\ Next /\ ButUsers
          \/ program = "http" /\ Http!Next /\ ButHttp
          \/ program = "echo" /\ Echo!Next /\ ButEcho
          \/ program = "redis" /\ Redis!Next /\ ButRedis
          \/ program = "striped" /\ Striped!Next /\ ButStriped

allVars == <<program, vars, servers, stripedVars>>

\* The fairness of each program's module, for the program selected: what runs by
\* itself, what process or thread a does, and what peer a owes.
Host == \/ program = "users" /\ (\E o \in orphans : Settle(o)) /\ ButUsers
        \/ program = "http" /\ Http!Accept /\ ButHttp
        \/ program = "echo" /\ Echo!Main /\ ButEcho
        \/ program = "redis" /\ Redis!Server /\ ButRedis

Runs(a) == \/ program = "users" /\ Process(a) /\ ButUsers
           \/ program = "http" /\ Http!handle_client(a) /\ ButHttp
           \/ program = "echo" /\ Echo!Handler(a) /\ ButEcho

Owes(a) == \/ program = "http" /\ a \notin Idlers /\ Http!Close(a) /\ ButHttp
           \/ program = "echo" /\ a \in EchoPeers \ Deaf /\ Echo!Receive(a) /\ ButEcho
           \/ program = "redis" /\ a \notin Silent /\ (Redis!Send(a) \/ Redis!Reset(a)) /\ ButRedis

Fairness == /\ WF_allVars(Host)
            /\ \A a \in Processes : WF_allVars(Runs(a))
            /\ \A a \in Clients : WF_allVars(Owes(a))

MCSpec == MCInit /\ [][MCNext]_allVars /\ Fairness

-----------------------------------------------------------------------------
(* The properties of the modules                                           *)

\* See HttpServer: one answer to each request, in order, and the right one.
AnswersMatch == Http!AnswersMatch

\* See HttpServer: every connection gets a thread in the end.
EveryConnectionServed == Http!EveryConnectionServed

\* See EchoServer: what a peer sends comes back.
EchoReturns == Echo!EchoReturns

\* See RedisDemo: a GET answers what was posted.
AnswersAreTrue == Redis!AnswersAreTrue

\* See RedisDemo: only a silent peer keeps the others waiting.
SessionsEnd == Redis!SessionsEnd

\* See StripedMap: no race, and the map holds what it should.
StressOutcome == Striped!StressOutcome
=============================================================================
