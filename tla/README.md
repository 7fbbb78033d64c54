# Verification of backend_tasks

TLA+ models, TLC runs and TLAPS proofs of the concurrent programs in this
repository. The repository is a collection of small, independent C++ programs;
the models cover all of them but three, whose own logic does not span two steps
that a property could relate (section 6).

`PROJECT.json` maps every definition that models code to the lines it models,
lists the runs, the mutants that show that each property can fail, the hazards
of the code and the findings.

To check: `tlc -workers 2 -config <run>.cfg MC<module>.tla`, and `tlapm` on
`SequenceLemmas`, `BlockingQueueProofs`, `ThreadPoolProofs`, `WebSocketChatProofs`,
`ConcurrentLruProofs`, `KafkaAsyncProofs`, `LockFreeQueueProofs` and `ProgramsProofs`.

## 1. Inventory

| Component (under `src/`) | State | Operations | Interaction | What is hard | What makes it correct |
|---|---|---|---|---|---|
| `multithreading/Blocking_Queue` | `data_queue`, `running_`, mutex, two condition variables | `push`, `pop`, `pop_for`, `stop` | threads share one object | `stop` changes the flag without the mutex; which condition variable to notify; time-outs that race with notifications | FIFO, bounded, nobody sleeps beside work, `stop` ends every wait |
| `multithreading/Thread_Pool` | `tasks_`, `stop_`, threads, one condition variable | `enqueue`, `stop`, `worker` | clients and tasks enqueue, workers execute | notification after the unlock; tasks that enqueue during a stop; repeated stops | FIFO start, each task once, a stop returns and owes nothing |
| `multithreading/Lock_Free_Queue` | `head`, `tail`, linked nodes | `push`, `pop` | threads share one object | compare-and-swaps that fail, a tail that lags, deletion while others hold the address, reuse of addresses | list shape, FIFO, ownership of nodes, no access to a deleted node |
| `multithreading/Concurrent_LRU_Cache` | 16 stripes of list, index and lock | `insert`, `get`, `size`, `empty` | threads share one object | iterators in the index, eviction at the limit, scans that see stripes at different times | index and list agree, LRU eviction, answers that were true |
| `multithreading/Striped_Unordered_Map` | 16 maps with locks | `get`, `insert`, `erase` | threads share one object | `get` uses the inserting `operator[]` under a shared lock | no two threads change a map at once, the stress test's outcome |
| `multithreading/Logger` | threads, `running_` | `start`, `stop` | threads print under a mutex | `running_` is never read | lines are not mixed |
| `kafka/kafka_async` | producer: `queue_`, `stop_`, librdkafka's outbox; consumer: `queue_`, `stop_`; main: counters | `send`, `flush`, `stop`; `poll_message`, `stop`; two threads of main | classes share a topic; main compares counters | failed and duplicated deliveries, flushes that time out, messages in the worker's hands at a stop, counters read by the other thread | nothing lost or reordered, a stop flushes, the verdict is true, the program ends |
| `kafka/kafka_demo` | librdkafka objects | `send`, `flush`, `poll_message` | two threads, one topic | a lost message leaves the consumer loop waiting | five messages arrive |
| `networking/websocket_chat` | `clients`, `client_count`, mutex, one thread per connection | handshake, read, broadcast, leave | every thread writes to every socket under the mutex | TCP is a stream; blocking writes under a lock; a list that changes while it is walked | one conversation for all, no ghosts, no frame lost, no broadcast for ever |
| `networking/http_server` | `client_count`, four pool threads | `handle_client`, `route` | connections queue for the pool | connections are kept although the reply says `close`; one `read_some` is taken for one request | requests are answered in order, every client is served |
| `networking/echo_server` | `client_count` | `handler` | one thread per connection | an exception of `accept`, of `remote_endpoint` or of a thread's constructor ends the server; a peer that does not read | all that is sent comes back |
| `redis/redis_demo` | one connection to Redis | `GET`, `POST` | sequential server, external store | `set`'s result is ignored, no reconnection, an exception of `accept` or of one session ends the server, a silent peer holds it up | a `GET` answers what was posted, sessions end |
| `databases/User_Manager` | table `users` (PostgreSQL) | `registerUser`, queries, `increaseUserAge`, `deleteUserByName` | one transaction per call, several processes possible | check and insert in two transactions, broken connections, unknown outcome of a commit, `UPDATE` beside other writers | no duplicates, a call that returns has taken effect once |
| `databases/Simple_Table` | table `users` | CRUD demonstration | sequential | none | each function one transaction |

## 2. Modules

    BoundedFifo (abstract)   <-- BlockingQueue <-- MCBlockingQueue
             ^                         ^--- BlockingQueueProofs
             +------------- LockFreeQueue <-- MCLockFreeQueue, LockFreeQueueProofs
    TaskBoard (abstract)     <-- ThreadPool <-- MCThreadPool
                                   ^--- ThreadPoolProofs
    AsyncKafkaProducer, AsyncKafkaConsumer --> KafkaAsync <-- MCKafkaAsync
                                   KafkaAsyncProofs ---^
    WebSocketChat <-- MCWebSocketChat, WebSocketChatProofs
    ConcurrentLru <-- MCConcurrentLru, ConcurrentLruProofs
    UserDirectory (abstract) <-- UserManager <-- MCPrograms
    HttpServer, EchoServer, RedisDemo, StripedMap <--+  ^--- ProgramsProofs
    SequenceLemmas <-- WebSocketChatProofs, ConcurrentLruProofs, KafkaAsyncProofs,
                       LockFreeQueueProofs, ProgramsProofs

Conventions. A thread inside a function is at a *point*, `pc[t]`, listed in the
module's head; one action goes from point to point and contains everything that
happens in between. A critical section that neither sleeps nor waits for anything
but its mutex is one step (nobody can observe its middle). Where a thread can be
seen holding the mutex, for instance between a predicate and the sleep that
follows it, the mutex is a variable. History variables, marked as such, record
what the code does not keep but a property speaks about. Definitions whose
comment begins with "Wrong variant" are not part of any specification: they are
the bugs that `PROJECT.json` puts in the place of the definition below them to
see the property fail.

**BlockingQueue** models `BlockingQueue<T>`. `Lock` is the mutex with the
predicate of `wait` and `wait_for` (`Ready`); `Park`, `Timeout`, `Expired`,
`Spurious` are what a condition variable does; `PushCheck`/`PushAppend` and
`PopCheck`/`PopTake` are the rest of `push` and `pop_impl`; `StopStore`,
`StopNotifyEmpty`, `StopNotifyFull` are the three statements of `stop`, none of
them under the mutex. **BoundedFifo** is what clients are promised: one step per
call. The refinement mapping lets a value enter the abstract queue when its
producer has passed the second test of `running_`, and leave it when its consumer
has: from there on the call succeeds even when `stop` comes in between.

**ThreadPool** models `Thread_Pool`, with clients and tasks that call `enqueue`
and an owner that calls `stop` (explicitly and in the destructor). **TaskBoard**
is its promise: tasks start in the order of submission, each once, at most as
many as threads; a stop returns when everything *owed* is executed: what was
submitted before `stop_` was set, and what running tasks submit. Tasks that
clients submit later are still taken, may be executed or not, and the code never says
which.

**LockFreeQueue** has one step per access to a shared word. Nodes are addresses;
`live` are those allocated and not deleted. A step that would touch a node that is
not live is undefined behaviour, so `Fault` records it and the run ends there;
all other properties speak about runs up to that point. `Setups` lists the
programs and machines considered (calls per thread, reuse of addresses, spurious
failures of `compare_exchange_weak`).

**AsyncKafkaProducer** and **AsyncKafkaConsumer** hold the steps of the two
classes, **KafkaAsync** the three threads of `main.cpp` and their composition
with the workers and an external broker. The outbox is what `produce` accepted
and the broker has not acknowledged; a delivery whose acknowledgement is lost is
repeated, because the producer is configured without idempotence. `produce` may
fail and `flush(5000)` may give up.

**WebSocketChat** models the connection threads of the chat server. `wire[c]` is
the byte stream from peer c, in units of frames and parts of frames: `Read` takes
any prefix, and `Decoded` says what `decode_frame` makes of it (the first frame
if it is complete). `Write` blocks when the peer's buffer is full. `StartFails` is an
exception of `accept` or of a thread's constructor, which `start` catches outside its
loop: `main` returns, and every thread ends where it is (`running`).

**ConcurrentLru** models the cache, `insert` and `get` as one step under the
stripe's lock, `size` and `empty` stripe by stripe. Iterators are nodes that can
be destroyed and allocated again.

**UserManager** models `UserService` on `Database` on a table, by several processes
of which each runs a program, a sequence of calls. `Statement` is the moment at
which a statement starts and gets its snapshot, `Execute` the one at which it has
its locks and writes, `Commit` the end of the transaction; `registerUser` is
`UserExists`, a transaction of its own, and then such a statement. `Refused` is a
violated constraint, `Broken` a connection found broken, `CommitInDoubt` a lost
reply, `SchemaFails` the exception of `createTable` when `../schema.sql` cannot be
opened, which is so in all runs of a setup or in none (`setup.schema`); every exception leaves `main`, and `Restart` runs the program again. A
transaction whose client is gone is an *orphan* until the server deals with it; it has
a number of its own, as transactions in PostgreSQL do, so that two alike are two.
PostgreSQL itself is external: READ COMMITTED snapshots, row and index locks and
the row-by-row test of the unique index are modelled as far as two statements of
this program can meet in them. **UserDirectory** is what the callers of the service
are promised: a call that returns has taken effect once, one that raises has not,
unless nobody knows. `increaseUserAge` and `deleteUserByName` take in every user
that was there when they were called and may miss those that came later; that is
the most that the isolation level gives, and the promise says so.

**HttpServer** models `start`, the pool's queue and `handle_client`, with clients of
which `http_request` is one. `wire[c]` holds requests or parts of them; a `Read` takes
any number of parts, and `PathsOf` and `Found` say what `parse_request` may make of
what one `read_some` returned. When `accept` has failed, the threads of the pool finish
the connections they have, and then what is still posted is destroyed (`PoolEnds`).
**EchoServer** models `main` and the handlers; bytes are counted, because TCP keeps
their order and the server does not look at them. `main` ends, and its threads with it,
when a peer has gone before it is asked for its address (`NoEndpoint`), or when the
system refuses a descriptor or a thread (`Starves`).
**RedisDemo** models the sequential server with its one connection to Redis: keys,
values and targets are sequences of tokens, so that the removal of the slash and
the split at the first `=` are computed; Redis may answer any command with an error,
which `set` does not look at and `get` turns into the empty string. **StripedMap** models the map with the
accesses under each lock and the three phases of the stress test.

**MCPrograms** instantiates these five programs for one run: they share nothing, the
initial state selects one, and the other four stay where they start, so the state
space is the sum of the five and each property is checked on its own program.

**SequenceLemmas** says, element by element, what the sequence operators that stand
for `erase`, `splice` and a stretch of a history return, that a set of natural numbers
has a least element, and what sums over finite sets are; it models no code. The
proof modules are described in section 5.

## 3. Runs

| Run | Instance | Shows |
|---|---|---|
| `BlockingQueue` | two producers (2 and 1 values), `pop` twice, `pop_for` once, capacity 1, one spurious wake-up, a stop at any time; 25 158 states | types, `LockProtocol`, `NoLostWakeup`, `AtMostOneStranded`, `ImplementsFifo`, and `RunningCallsFinish` when nobody stops |
| `BlockingQueueStop` | same | **violation** of `StopReleasesWaiters`: a thread sleeps for ever after `stop()` |
| `ThreadPool` | two workers, two clients, four tasks, one of which enqueues another, two stops, one spurious wake-up; 49 400 states | `NoLostWakeup`, `JoinedWorkersAwake`, `ImplementsTaskBoard`, `NothingRunsAfterStop`, `TaskIsExecuted`, `StopReturns` |
| `ThreadPoolStop` | same | **violation** of `NoTaskTakenAfterStop` |
| `LockFreeQueue` | two producers and two consumers without reuse and with a spurious failure; one producer and one consumer with reuse; 285 704 states | `ListShape`, `Ownership`, `SoloSafe`, `ImplementsFifo`, `CallsReturn` |
| `LockFreeQueueReclaim` | same | **violation** of `NoUseAfterFree` |
| `KafkaAsync` | the dummy and two messages, five polls, one failed `produce`, one duplicate, one flush that gives up; 892 516 states | `NothingLostInConsumer`, `FlushedByStop`, `HonestWithoutDuplicates`, `Terminates` |
| `KafkaAsyncDuplicate` | same | **violation** of `SuccessIsHonest`: SUCCESS is printed though message 2 was not received |
| `WebSocketChat` | three peers (2, 1 and 0 frames), socket buffer of one frame, one frame that arrives in two parts, one peer that closes, a failure of `accept` at any time; 1 612 570 states | `SameConversation`, `NoGhosts`, `NothingLostFrameByFrame`, `BroadcastEnds` |
| `WebSocketChatLoss` | same | **violation** of `NoFrameLost`: two frames read together, one is lost |
| `ConcurrentLru` | three keys in one stripe of capacity 2 and one in another, two values, four nodes, two threads; 39 562 states up to symmetry | `IndexMatchesLists`, `EvictsLeastRecentlyUsed`, `HitIsLatest`, `ScansWereTrue` |
| `Programs`, users | main alone on a table with two rows, two disturbances, one restart, with and without a `schema.sql`; main beside a process that creates the table and moves a user; two processes that use every writing call on the same two keys, two disturbances, one restart; `MaxAge` 39, so that a second increase is refused | `ImplementsDirectory`, `MainAlone`, `CallsSettle` |
| `Programs`, http | two pool threads; a client of two requests, an idler, a client with a malformed one; one request in two parts, one failure of accept | `AnswersMatch`, `EveryConnectionServed` |
| `Programs`, echo | two peers of three bytes, one of which may stop reading; array of two, socket buffer of one; the system may refuse a descriptor or a thread at any time | `EchoReturns` |
| `Programs`, redis | a writer, a peer that may send something else, nothing or a malformed request, a reader whose target may lack its slash or have two; one lost connection, one refused `SET` or `GET`, a failure of `accept`, one restart | `AnswersAreTrue`, `SessionsEnd` |
| `Programs`, striped | two stripes, two threads of each kind, two keys each | `StressOutcome` |

`Programs` has 343 652 states in all.

Deadlock is not checked (`CHECK_DEADLOCK FALSE`) where the programs end: when all
calls have been made, all peers have gone or the demonstration has printed its
verdict, nothing more can happen, and likewise in all five of `Programs`. Unwanted
ends are the matter of the liveness properties. `ConcurrentLru` never ends and is checked for deadlock.

Bounds, and why they are enough. The number of calls, tasks, messages and frames
(`Budget`, `Tasks`, `Total`, `Messages`, `calls`) is the smallest with which a
queue runs full and empty again, two threads of a kind compete, and a late call
meets a stop. `Capacity` 1 makes both conditions of the queue interact; `MaxSpurious`,
`failures`, `MaxErrors`, `MaxDuplicates`, `MaxTimeouts`, `MaxSplits` allow one event
of the kind, enough for every place at which it can happen. `MaxAttempts` = 5 for
three messages lets the polls run out before, between and after the messages
(the code has 200 for 11); `MaxNoMessage` = 1 stands for 30. `Closers` limits which
peer of the chat closes. The four nodes of `ConcurrentLru` are one more than its
lists can hold at once, so a node is always free and is soon reused; nodes and
threads are interchangeable there, and all its properties are invariants, so
symmetry is sound. In `Programs` a loss or refusal twice in `UserManager` reaches a
program whose second run meets the orphan of its first, which one would not; two
pool threads with one idler leave one for the others, the limit of what
`EveryConnectionServed` says; a socket buffer smaller than the array makes `write`
block in the middle. What the proofs cover does not depend on the bounds: see
section 5.

Fairness. A thread that can run does (weak fairness of each thread's steps): the
programs rely on a scheduler of that kind and on nothing more. A mutex promises
nothing about who gets it when several contend; no property needs that. Nobody
owes a call, a stop, a spurious wake-up, a message, a connection or a close, so
`RunningCallsFinish` is stated for runs that are never stopped, and the clients of
`ThreadPool` make as many calls as they like, but a running task goes on to its
end. In `KafkaAsync` librdkafka goes on delivering; a broker that is away is
covered by the flush that gives up. In `WebSocketChat` peers that stay connected
receive: without that, `BroadcastEnds` is false, which is a property of the
design (blocking writes under the lock).

In `Programs` processes, pool threads, handlers and servers run, and PostgreSQL
notices in the end that a client is gone. Of the peers it is assumed, one by one,
that they close some day (`HttpServer`, but for `Idlers`), that they go on receiving
(`EchoServer`, but for `Deaf`), and that they send or go (`RedisDemo`, but for
`Silent`): each program has a peer of the other kind too, because a server that
serves only well-behaved peers shows little. Nobody owes a connection or a restart,
so these properties are of the form `[]<>`: again and again the peer is served, or
the reason why it cannot be has come about, which the property names. What a failing
`accept` or thread construction does is in the models, but nobody owes it: `Starves`,
`AcceptFails` and `StartFails` are under no fairness.

## 4. Findings

1. `Blocking_Queue/main.cpp:62`: `stop()` without the mutex loses wake-ups
   (`BlockingQueueStop`). The damage is one thread per stop and no more
   (`AtMostOneStranded`, proved).
2. `Thread_Pool/main.cpp:22`: a stopped pool accepts tasks that never run
   (`ThreadPoolStop`), which the README excludes.
3. `Lock_Free_Queue/main.cpp:44`: use after free (`LockFreeQueueReclaim`). One
   producer with one consumer is safe if no compare-and-swap fails spuriously
   (`SoloSafe`); with more threads, reuse of an address also breaks the list (ABA).
4. `kafka_async/src/main.cpp:122`: the verdict counts instead of comparing
   (`KafkaAsyncDuplicate`). Without duplicates it is right (`HonestWithoutDuplicates`).
5. `websocket_chat/main.cpp:116`: frames that arrive together are lost
   (`WebSocketChatLoss`). Frame by frame nothing is (`NothingLostFrameByFrame`).

## 5. Proofs

All theorems hold for every value of the constants that satisfies the module's
named assumptions, all of which TLC evaluates in the runs.

`BlockingQueueProofs` proves about `BlockingQueue`, for all finite sets of threads,
all capacities (0 included), all numbers of calls and all bounds on spurious
wake-ups, from `ThreadsAssumption` (the kinds of threads are disjoint and finite)
and `SizesAssumption` (numbers are natural):

- **Types** and **Safety**: `Spec => [](TypeOK /\ LockProtocol)`. `LockProtocol` is inductive
  with `TypeOK`; it was written for that. `MutexHeld` ties the mutex to the points
  at which a thread holds it, `ProducerView` and `ConsumerView` say that what the
  predicate saw is still so when the thread acts on it, which is what excludes
  `front()` of an empty queue and a queue beyond its capacity.
- **WakeupsSuffice**: `Spec => []NoLostWakeup`. The checked invariant is not
  inductive: when the only sleeper is woken the inequality is no longer claimed,
  and a later sleeper would find it broken. The proof uses `ConsumersServed` and
  `ProducersServed`, which claim it whenever anybody sleeps, and counts: a push adds
  a value and an awake consumer (if one slept), a pop removes one of each.
- **StopStrandsAtMostOne**: `Spec => []AtMostOneStranded`. Once the flag is cleared
  nobody decides to sleep (`SleepyShrinks`), and after a `notify_all` only the one
  thread that holds the mutex can be on its way to sleep.
- **Refinement**: `Spec => ImplementsFifo`. Each step of the class is a step of
  `BoundedFifo` or leaves the abstract state alone (`InvisibleStep`); the mapping is
  well defined because at most one thread is at `take` or `append` (`MutexHeld`).

`ThreadPoolProofs`, from `PoolAssumption` (finite sets; clients are not tasks):

- **Types** and **JoinedAwake**: `Spec => [](TypeOK /\ JoinedWorkersAwake)`, with the mutex's
  protocol as strengthening: a worker is seen with the mutex only at `park`, and
  what its predicate saw is still so (`ParkedView`), so `stop_`, set under the mutex,
  cannot fall between the predicate and the sleep. `ClosedPool` gives
  **QuietAfterStop**, an action property: after a `stop()` no worker takes or executes a
  task. It does not say that none is accepted, and `ThreadPoolStop` shows that some are.
- **WakeupsSuffice**: `Spec => []NoLostWakeup`, by counting as in
  `BlockingQueueProofs`: workers awake and notifications pending match the tasks.
- **Refinement**: `Workers # {} => (Spec => ImplementsTaskBoard)`. It rests on
  `TasksAccounted` (each submitted task is in exactly one of the queue, one worker's
  hands, and the executed) and `NothingOwedLeft` (what the last worker leaves behind
  was submitted after the stop). Without workers the claim is false: nobody executes
  what is owed, and `stop()` returns at once. The code starts as many threads as it
  is told to.

`WebSocketChatProofs`, for any peers, numbers of frames and splits:

- **Types**, **OneConversation** (`SameConversation`), **NoneLeftBehind** (`NoGhosts`).
  The inductive invariant relates every client's past to one history, the order of
  broadcasts: what was written to a client is a stretch of it (`Stretch`), and
  `UpToDate` says where each stretch ends, also in the middle of a broadcast, when
  the clients before the index have the frame and those behind it do not. The
  erase inside the loop keeps that because the index stays (`RemoveAtEffect`).
  `CountRight` ties `client_count` to the points of the threads.
- **FramesInTurn** (`NothingLostFrameByFrame`), with `GarbledAssumption`: garbage is no
  frame. `InOrder` says of a connection whose reads have each returned one frame what its
  socket still holds: the frames behind the one read last, up to the one sent last,
  each whole or in two parts (`Encodes`). Nothing of the kind holds of the others, so the
  invariant claims nothing once `misread` is set, which stays. `From(c)`, the frames of c
  in the common order, is a recursive function on the naturals; that each broadcast
  of c appends to it and the others leave it alone follows from the uniqueness of such
  a function (`SelectsExists`), which is shown by least counterexample.

`ConcurrentLruProofs`, for any threads, keys, stripes, nodes and capacity, 0 included:

- **IteratorsValid**, **LeastRecentlyUsed**, **HitsAreLatest**. None of the three is
  inductive by itself. `Mirror` is: the i-th node of a list belongs to the i-th key
  in order of use, with the value inserted last; with `Fits` (the length), `UsedOnce`
  and `Indexed` it determines the state of a stripe from the history of its calls.
  The steps all come down to one lemma, `Renewed`: the history and the list change
  alike when a key and its node move to the front.
- **AnswersWereTrue** (`ScansWereTrue`): the inductive part, `ScanInv`, says of a call
  between two stripes that what was there at its start is counted or ahead, and that
  what it counted is still there. It holds because no list ever shrinks
  (`NeverShrinks`, from `IInv`: an eviction goes with an insertion), and comes down to how
  a sum over stripes changes when one of them grows.

`KafkaAsyncProofs`, for any number of messages, polls and failures:

- **ConsumerLosesNothing** (`NothingLostInConsumer`): `InOrder` gives each message
  taken from the log its place in what was returned, in the queue, or in the worker's
  hands.
- **StopFlushes** (`FlushedByStop`): the worker flushes last, when `InSend` and
  `MainsWay` exclude that anybody is still in `send()`. This is where the proof
  needs that `main` joins the sender first; the class alone does not promise it.
- **SuccessHonest** (`HonestWithoutDuplicates`): what was accepted was sent
  (`AllAccepted`), a topic without duplicates holds each message once (`Once`), so the
  messages returned are an injection into the messages sent; as many as there are,
  they are all of them.

`LockFreeQueueProofs`, for any threads, calls, nodes and spurious failures. The first
group of theorems assumes `NoReuse`, that the allocator returns no address twice: with
reuse a push may be given the very node at which a lagging `tail` still points, and
`ListShape` and even `TypeOK` fail (see finding 3). Steps on deleted nodes still end a run
with `fault`. The second group assumes nothing of the allocator, but `Solo`.

- **Types**, **ShapeKept** (`ListShape`), **OneOwner** (`Ownership`), **Refinement**
  (`ImplementsFifo`). The list is the history sequence `chain`, so nothing has to be
  said about reachability. The inductive invariant speaks of all nodes that are or
  were in the list (`Linked`): of these only the last leads nowhere (`OneEnd`), and a
  successor that is not null never changes, so what a push or a pop has read stays
  true (`Pushing`, `Popping`) until its compare-and-swap. A push whose `old_tail` still
  leads nowhere holds the last node, and `tail` is that node; this is why `tail` never
  lags by more than one. `Link` is `Put`, `CasHead` is `Get`, and a `LoadSucc` that
  finds nothing is `Miss`; no other step changes the abstract buffer.
- **SoloNeverFaults** (`SoloSafe`) and **SoloShape** (`TypeOK` and `ListShape`). As long as one
  producer and one consumer are all that have calls, and no compare-and-swap has failed
  spuriously, `SoloInv` holds: only the push moves the end, so it never helps, and its
  `old_tail` is the last node until its own `swing`; only the pop moves the beginning, so
  its `old_head` is the dummy; what either holds is outside the list and not the
  other's. All nodes of the list are live, so nothing deleted is touched, wherever
  new nodes come from. A spurious failure breaks this: `tail` may then be swung
  late. `Solo` can only become false, so the induction is on `Solo => SoloInv`.

`ProgramsProofs` proves about `MCPrograms`, that is, about its five programs. Each
invariant mentions the variables of one program, which the others leave alone.

- **StressTestPasses** (`StressOutcome`), from `StripedAssumption` (at least one stripe and
  one key per thread, any number of threads). `Exclusive` and `Asked` belong together: a
  `get` that has seen its key under the shared lock still finds it, because who would
  erase it must be alone in the stripe; hence `operator[]` inserts nothing. `Holds` gives
  the contents of the map as a function of the loops' counters, `Due`. That each key has
  one inserter and one eraser is arithmetic: `k = t + n * threads` in one way
  (`DivModUnique`), so one thread's progress decides over its own keys only.
- **AnswersInOrder** (`AnswersMatch`), from `ScriptAssumption` (scripts are sequences of
  requests). `OnePlace` says that a connection is in the backlog, in the pool's queue,
  with one thread or destroyed, and only once: two threads never read the same
  socket. `Conversation` counts: the answers given, the one being written and the
  requests on the wire (`Encodes`, as for the chat) are the requests sent, in order. It is
  claimed as long as every `read_some` returned one request.
- **GetsAreTrue** (`AnswersAreTrue`), from `OffersAssumption` (targets and bodies are
  sequences of tokens, of any length and content; any methods). `WasPosted` says that
  each pair in Redis comes from some session's `POST` and no key is there twice,
  `IsUpToDate` that the latest `POST` for each key is there, as long as nothing was lost or
  refused; `AllTrue` is the property, by keys instead of bodies. The rest is what
  parsing does: the split at the first `=` (`SplitCuts`) and the removal of the slash
  (`TargetCuts`, `SlashInFront`) give the key exactly when the body begins with the target
  behind its slash and an `=`.
- **DirectoryKept** (`ImplementsDirectory`), from `SetupsAssumption`: finitely many processes,
  whose programs are any sequences of the calls of `UserService`, on a table of any rows
  that obey the unique index. The invariant speaks of the open transactions, those of
  processes and of orphans alike: each is `Sound`, it could commit now (what it removes is
  there, its keys and new ids are nobody's, it is what its call is for and leaves out
  nobody whom the call has to meet), and any two are `Apart`, which is what the locks are
  for. `CommitConsistent` is the heart of it: when one commits, the others stay sound. An
  update keeps ids, so a row that comes with an id already met replaces one that was
  removed, and whoever has to meet it would have locked that one. `SeenAll` says the same
  of a statement that still waits for its locks. Begin, return, exception, settlement and
  restart are the directory's steps; snapshots, writes and losses it does not see. That
  `FreshId` is fresh needs that there are finitely many rows, transactions and processes.
- **MainUndisturbed** (`MainAlone`), from the same and `MaxAgeAssumption` (an `INT` has room
  for main's ages): `main` beside any number of processes with any programs. It fails
  only after a lost or refused connection, or in `createTable` when `schema.sql` cannot be
  opened. `MainInv` says by the index of the call which keys are in the table and what was counted
  (`MainKeys`, `MainCounts`), as long as nobody else has changed it; `MainKeysAfter` and
  `MainFits` go through the thirty calls, and `CommitKeys` says what any committed call
  makes of the keys. The rest is about transactions of earlier runs of `main` that the
  server still has (`NoPast`). Nothing is claimed of what each may do: `createTable` takes a
  lock on the table that writers conflict with (`TableLocks`), so once this run has it, none
  that writes is left, and once `clearUsers` has its locks there is none at all. Without
  `createTable` in front, a registration in doubt could come after the clearing. That `main`
  is not refused (`NotRefused`) needs that the snapshot of `createTable` is still true, that
  the key of a registration is still free, and that the place of an older Alice is.
- **EchoesAndCounts**, from no assumption. `OneThread` says that a connection waits in the
  backlog, is being counted, or has its thread, and is nowhere twice; so `client_count`
  goes up once and down once for each and never below zero, as long as `main` lives
  (`ClientsCounted`). `BytesKept` accounts for each byte sent: on the wire, in a thread's
  array, on its way back or received, until the thread ends; hence `EchoesOnly`, the
  safety side of `EchoReturns`. Both are defined beside their proof.

Induction. No theorem of the library that takes a predicate can be used here, but
that a set of naturals has a least element can (`LeastOfNat`), and a claim about all
numbers follows by looking at the least one for which it fails. The existence of
`From`, the sums over stripes and the latest of several sessions are proved in this way.

Only model-checked:

- liveness under fairness, which is out of the prover's reach: `RunningCallsFinish`,
  `TaskIsExecuted`, `StopReturns`, `CallsReturn`, `Terminates`, `BroadcastEnds`,
  `EveryConnectionServed`, `EchoReturns`, `SessionsEnd`, `CallsSettle`.

Every invariant and every action property that a passing run checks is proved, and every
refinement.

## 6. Not modelled

- `Thread_Pool`: a task that throws, and `stop()` from inside a task. Both end the
  process, and nothing follows them.
- Memory order: the code uses the default, sequentially consistent atomics.
- The contents of messages, keys, frame headers and lengths, except where a part
  of a frame is taken for a whole one.
- Kafka's consumer groups and offset commits; a `send` that overlaps `stop`
  (`main` joins the sender first).
- `User_Manager`: what the queries select (they print it and decide nothing); the
  time between the locks of one statement, which are taken at once, so deadlocks
  between the rows of two statements do not occur in the model (PostgreSQL would
  make one of them raise); `updateUserAge` and `userExists(name)`, which nobody calls;
  several connections per process.
- `http_server`: methods, other headers and bodies, which decide nothing.
- `Logger`: threads print under a mutex and are joined; `running_` is written and
  never read. Each line is one critical section, and no state survives it.
- `Simple_Table`: independent transactions, without a choice or a loop.
- `kafka_demo`: the synchronous predecessor of `kafka_async`; its producer flushes after
  each send, its consumer keeps no state, and what can go wrong, a message that
  never comes, is in `KafkaAsync`.

## 7. Plan

Done: `BlockingQueue`, `ThreadPool`, `LockFreeQueue`, `KafkaAsync`, `WebSocketChat`,
`ConcurrentLru`, `UserManager`, `HttpServer`, `EchoServer`, `RedisDemo`, `StripedMap`, and
the proofs of section 5.

Left:

1. `AsyncKafkaProducer` under several senders and an early `stop()`, as a class and
   not as `main` uses it: what remains in nobody's care after the last flush.
2. `UserManager` with locks taken row by row.
3. `kafka_demo`'s consumer loop, which ends only when all messages have come.
