--------------------------- MODULE ConcurrentLru ---------------------------
(***************************************************************************)
(* multithreading/Concurrent_LRU_Cache: the keys are divided among stripes *)
(* by their hash, each stripe with a list of pairs in order of use, an     *)
(* index from keys to iterators of the list, and a lock of its own.        *)
(* insert and get hold one stripe's lock throughout and are one step each. *)
(* size and empty take the locks one after the other, so that other calls  *)
(* come between the stripes: each stripe is a step.                        *)
(*                                                                         *)
(* An iterator is the node it points to.  A node that is taken off a list  *)
(* is destroyed and may be allocated again, so an iterator kept too long   *)
(* would point to nothing or to a pair of another key.                     *)
(***************************************************************************)
EXTENDS Naturals, Sequences, FiniteSets, SequencesExt

CONSTANTS Threads,   \* the threads that call the cache
          Keys, Values,
          N,         \* number of stripes
          StripeOf,  \* get_striped: the stripe of each key
          capacity,  \* capacity_, per stripe
          Nodes,     \* addresses of list nodes, of any stripe
          NoNode     \* end()

ASSUME LruAssumption ==
  /\ N \in Nat \ {0} /\ capacity \in Nat
  /\ StripeOf \in [Keys -> 1..N]
  /\ NoNode \notin Nodes /\ Nodes # {}

VARIABLES data,   \* data_ of all stripes: the node of each key, or NoNode
          list,   \* list[s]: list_ of stripe s, a sequence of nodes
          pair,   \* the key and value in each node
          call,   \* call[t]: the call of thread t that scans the stripes
          used,   \* history: used[s], the keys of s, that used last first
          latest  \* history: the value inserted last for each key

vars == <<data, list, pair, call, used, latest>>
histories == <<used, latest>>

Stripes == 1..N
Total == FoldFunction(+, 0, [s \in Stripes |-> Len(list[s])])

Destroyed == <<>>
Idle == [op |-> "none", next |-> 1, total |-> 0, atStart |-> 0]

Init == /\ data = [k \in Keys |-> NoNode]
        /\ list = [s \in Stripes |-> <<>>]
        /\ pair = [n \in Nodes |-> Destroyed]
        /\ call = [t \in Threads |-> Idle]
        /\ used = [s \in Stripes |-> <<>>]
        /\ latest = [k \in Keys |-> {}]

InList(n) == \E s \in Stripes : n \in Range(list[s])
Available(t) == call[t].op = "none"
ToFront(seq, x) == <<x>> \o RemoveFirst(seq, x)
Use(k) == used' = [used EXCEPT ![StripeOf[k]] = ToFront(@, k)]

-----------------------------------------------------------------------------
(* insert                                                                  *)

\* The pair <<k, v>> in node n goes to the front of what is left of the list of
\* its stripe; with more than capacity_ pairs the last one is evicted.  The nodes
\* that leave the list are destroyed.
PutFirst(k, v, n, left) ==
  LET s       == StripeOf[k]
      l       == <<n>> \o left
      evict   == Len(l) > capacity
      kept    == IF evict THEN Front(l) ELSE l
      evicted == IF Len(l) = 1 THEN k ELSE pair[Last(l)][1]
      gone    == (Range(list[s]) \cup {n}) \ Range(kept) IN
  /\ list' = [list EXCEPT ![s] = kept]
  /\ pair' = [m \in Nodes |-> IF m \in gone THEN Destroyed
                             ELSE IF m = n THEN <<k, v>> ELSE pair[m]]
  /\ data' = [j \in Keys |-> IF evict /\ j = evicted THEN NoNode
                            ELSE IF j = k THEN n ELSE data[j]]

LeftOf(k) == RemoveFirst(list[StripeOf[k]], data[k])

\* Wrong variant: a key that is there gets a second node.
InsertTwice(k, v, n) == PutFirst(k, v, n, list[StripeOf[k]])

\* Wrong variant: a key that is there keeps its value.
InsertKeepsOld(k, v, n) ==
  PutFirst(k, IF data[k] = NoNode THEN v ELSE pair[data[k]][2], n, LeftOf(k))

InsertPair(k, v, n) == PutFirst(k, v, n, LeftOf(k))

Insert(t) ==
  /\ Available(t)
  /\ \E k \in Keys, v \in Values, n \in Nodes :
       /\ ~InList(n) \/ n = data[k]  \* allocated after the erase
       /\ InsertPair(k, v, n)
       /\ Use(k)
       /\ latest' = [latest EXCEPT ![k] = {v}]
  /\ UNCHANGED call

-----------------------------------------------------------------------------
(* get                                                                     *)

\* Wrong variant: under a shared lock, without the splice.
GetInPlace(t) ==
  /\ Available(t)
  /\ \E k \in Keys : data[k] # NoNode /\ Use(k)
  /\ UNCHANGED <<data, list, pair, call, latest>>

\* A hit moves the pair to the front; a miss changes nothing.
Get(t) ==
  /\ Available(t)
  /\ \E k \in Keys :
       /\ data[k] # NoNode
       /\ list' = [list EXCEPT ![StripeOf[k]] = ToFront(@, data[k])]
       /\ Use(k)
  /\ UNCHANGED <<data, pair, call, latest>>

-----------------------------------------------------------------------------
(* size and empty                                                          *)

Scan(t, op) ==
  /\ Available(t)
  /\ call' = [call EXCEPT ![t] = [Idle EXCEPT !.op = op, !.atStart = Total]]
  /\ UNCHANGED <<data, list, pair, histories>>

SizeStart(t) == Scan(t, "size")
EmptyStart(t) == Scan(t, "empty")

\* Wrong variant: total is assigned, not added to.
SizeStripeAssigns(t) ==
  /\ call[t].op = "size" /\ call[t].next <= N
  /\ call' = [call EXCEPT ![t].next = @ + 1, ![t].total = Len(list[call[t].next])]
  /\ UNCHANGED <<data, list, pair, histories>>

SizeStripe(t) ==
  /\ call[t].op = "size" /\ call[t].next <= N
  /\ call' = [call EXCEPT ![t].next = @ + 1, ![t].total = @ + Len(list[call[t].next])]
  /\ UNCHANGED <<data, list, pair, histories>>

\* The scan ends at the first stripe that is not empty.  The answer is TRUE
\* when total is 0 at the return.
EmptyStripe(t) ==
  /\ call[t].op = "empty" /\ call[t].next <= N
  /\ IF list[call[t].next] = <<>>
       THEN call' = [call EXCEPT ![t].next = @ + 1]
       ELSE call' = [call EXCEPT ![t].next = N + 1, ![t].total = 1]
  /\ UNCHANGED <<data, list, pair, histories>>

Returning(t, op) == call[t].op = op /\ call[t].next = N + 1

Return(t) ==
  /\ Returning(t, "size") \/ Returning(t, "empty")
  /\ call' = [call EXCEPT ![t] = Idle]
  /\ UNCHANGED <<data, list, pair, histories>>

-----------------------------------------------------------------------------
Next == \E t \in Threads : \/ Insert(t) \/ Get(t)
                           \/ SizeStart(t) \/ SizeStripe(t)
                           \/ EmptyStart(t) \/ EmptyStripe(t) \/ Return(t)

Spec == Init /\ [][Next]_vars

-----------------------------------------------------------------------------
(* Properties                                                              *)

\* The index and the lists of insert and get agree: an iterator of data_ points
\* to a pair of its key in the list of the key's stripe (never to an erased or
\* reallocated node), and every pair of a list is indexed.
IndexMatchesLists ==
  /\ \A k \in Keys : data[k] # NoNode =>
       /\ data[k] \in Range(list[StripeOf[k]])
       /\ pair[data[k]][1] = k
  /\ \A s \in Stripes : \A i \in DOMAIN list[s] :
       data[pair[list[s][i]][1]] = list[s][i]

\* Eviction is least recently used: what a stripe holds, in the order of its
\* list, are the keys used last, as many as there are up to the capacity.
EvictsLeastRecentlyUsed ==
  \A s \in Stripes :
    [i \in DOMAIN list[s] |-> pair[list[s][i]][1]] =
      SubSeq(used[s], 1, IF Len(used[s]) < capacity THEN Len(used[s]) ELSE capacity)

\* A hit returns the value inserted last for the key, whatever was evicted and
\* whichever node was reused in between.
HitIsLatest == \A k \in Keys : data[k] # NoNode => latest[k] = {pair[data[k]][2]}

\* size, which never sees all stripes at once, still returns a number of pairs
\* that the cache had at some time during the call: no less than at its start
\* and no more than at its end.  empty, which may look at a stripe long before it
\* returns, answers TRUE only if the cache was empty when it was called, and FALSE
\* only if it is not now.  Both rest on a stripe never shrinking.
SizeWasTrue(t) == call[t].atStart <= call[t].total /\ call[t].total <= Total
EmptyWasTrue(t) == IF call[t].total = 0 THEN call[t].atStart = 0 ELSE Total > 0
ScansWereTrue ==
  \A t \in Threads : /\ Returning(t, "size") => SizeWasTrue(t)
                     /\ Returning(t, "empty") => EmptyWasTrue(t)
=============================================================================
