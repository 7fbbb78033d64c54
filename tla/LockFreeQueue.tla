--------------------------- MODULE LockFreeQueue ---------------------------
(***************************************************************************)
(* multithreading/Lock_Free_Queue: a linked list with a dummy first node,  *)
(* whose ends are moved by compare-and-swap.  Every access to a shared     *)
(* word is a step.  A popped node is deleted at once, although other       *)
(* threads may hold its address; a step that touches a deleted node has no *)
(* defined outcome, so it sets fault and the program is taken no further.  *)
(*                                                                         *)
(* Points of a push (pc), by the line that comes next:                     *)
(*   load_tail 20    load_next 21    link 24    help 28    swing 32        *)
(* Points of a pop:                                                        *)
(*   load_head 37    load_succ 38    cas_head 42   read 43   delete 44     *)
(***************************************************************************)
EXTENDS Naturals, SequencesExt

CONSTANTS Producers,    \* threads that call push()
          Consumers,    \* threads that call pop()
          Nodes,        \* addresses the allocator can return
          Null,         \* nullptr
          NoValue,      \* pop() returned false
          Setups        \* the programs and machines considered, as records of
                        \*   calls     number of calls each thread makes
                        \*   recycle   the allocator may return the address of a
                        \*             deleted node
                        \*   failures  bound on the spurious failures of
                        \*             compare_exchange_weak (0: strong, as on x86)

Threads == Producers \cup Consumers
Values == Producers \X Nat

ASSUME LfqAssumption ==
  /\ IsFiniteSet(Threads) /\ Producers \cap Consumers = {}
  /\ Null \notin Nodes /\ Nodes # {} /\ IsFiniteSet(Nodes)
  /\ NoValue \notin Values
  /\ \A s \in Setups : /\ s.calls \in [Threads -> Nat]
                       /\ s.recycle \in BOOLEAN
                       /\ s.failures \in Nat

VARIABLES head, tail,  \* the two ends
          next,        \* next[n] of every node
          value,       \* value[n] of every node
          live,        \* the nodes allocated and not deleted
          used,        \* the nodes ever allocated
          fault,       \* a deleted node was read, written or deleted again
          pc,          \* where each thread is
          old,         \* its old_tail or old_head
          succ,        \* its local next
          node,        \* its new_Node
          left,        \* left[t]: calls t has not completed
          got,         \* got[c]: what the last pop of c returned
          chain,       \* history: the nodes from the dummy to the last, in order
          setup,       \* the element of Setups this run obeys
          failures     \* spurious failures so far

memory == <<head, tail, next, value, live, used>>
locals == <<old, succ, node>>
vars == <<memory, fault, pc, locals, left, got, chain, setup, failures>>

\* The address of the first node; any other would do.
Dummy == CHOOSE n \in Nodes : TRUE

Init == /\ head = Dummy /\ tail = Dummy
        /\ next = [n \in Nodes |-> Null]
        /\ value = [n \in Nodes |-> NoValue]
        /\ live = {Dummy} /\ used = {Dummy}
        /\ fault = FALSE
        /\ pc = [t \in Threads |-> "idle"]
        /\ old = [t \in Threads |-> Null]
        /\ succ = [t \in Threads |-> Null]
        /\ node = [p \in Producers |-> Null]
        /\ setup \in Setups
        /\ left = setup.calls
        /\ got = [c \in Consumers |-> NoValue]
        /\ chain = <<Dummy>>
        /\ failures = 0

\* The program still runs and t is at point.
At(t, point) == ~fault /\ pc[t] = point
GoTo(t, point) == pc' = [pc EXCEPT ![t] = point]
Leave(t) == GoTo(t, "idle") /\ left' = [left EXCEPT ![t] = @ - 1]

\* compare_exchange_weak may fail although the word has the expected value.
FailsSpuriously == failures < setup.failures /\ failures' = failures + 1

\* Addresses operator new may return.
Available == IF setup.recycle THEN Nodes \ live ELSE Nodes \ used

\* The node that the next step of t reads, writes or deletes.
Touched(t) == IF pc[t] = "read" THEN succ[t] ELSE old[t]

\* That node is already deleted.
Fault(t) ==
  /\ ~fault
  /\ pc[t] \in {"load_next", "link", "load_succ", "read", "delete"}
  /\ Touched(t) \notin live
  /\ fault' = TRUE
  /\ UNCHANGED <<memory, pc, locals, left, got, chain, setup, failures>>

-----------------------------------------------------------------------------
(* push                                                                    *)

PushCall(p) ==
  /\ At(p, "idle") /\ left[p] > 0
  /\ \E n \in Available :
       /\ live' = live \cup {n}
       /\ used' = used \cup {n}
       /\ value' = [value EXCEPT ![n] = <<p, left[p]>>]
       /\ next' = [next EXCEPT ![n] = Null]
       /\ node' = [node EXCEPT ![p] = n]
  /\ GoTo(p, "load_tail")
  /\ UNCHANGED <<head, tail, fault, old, succ, left, got, chain, setup, failures>>

LoadTail(p) ==
  /\ At(p, "load_tail")
  /\ old' = [old EXCEPT ![p] = tail]
  /\ GoTo(p, "load_next")
  /\ UNCHANGED <<memory, fault, succ, node, left, got, chain, setup, failures>>

LoadNext(p) ==
  /\ At(p, "load_next") /\ old[p] \in live
  /\ succ' = [succ EXCEPT ![p] = next[old[p]]]
  /\ GoTo(p, IF next[old[p]] = Null THEN "link" ELSE "help")
  /\ UNCHANGED <<memory, fault, old, node, left, got, chain, setup, failures>>

\* Wrong variant: next is stored without comparing it.
LinkBlindly(p) ==
  /\ At(p, "link") /\ old[p] \in live
  /\ next' = [next EXCEPT ![old[p]] = node[p]]
  /\ chain' = Append(chain, node[p])
  /\ GoTo(p, "swing")
  /\ UNCHANGED <<head, tail, value, live, used, fault, locals, left, got, setup, failures>>

\* The push takes effect here.
Link(p) ==
  /\ At(p, "link") /\ old[p] \in live /\ next[old[p]] = Null
  /\ next' = [next EXCEPT ![old[p]] = node[p]]
  /\ chain' = Append(chain, node[p])
  /\ GoTo(p, "swing")
  /\ UNCHANGED <<head, tail, value, live, used, fault, locals, left, got, setup, failures>>

LinkFails(p) ==
  /\ At(p, "link") /\ old[p] \in live
  /\ \/ next[old[p]] # Null /\ UNCHANGED failures
     \/ FailsSpuriously
  /\ GoTo(p, "load_tail")
  /\ UNCHANGED <<memory, fault, locals, left, got, chain, setup>>

\* tail.compare_exchange_weak(old_tail, n), whose result nobody looks at.
MoveTail(p, n) ==
  \/ /\ tail' = IF tail = old[p] THEN n ELSE tail
     /\ UNCHANGED failures
  \/ tail = old[p] /\ FailsSpuriously /\ UNCHANGED tail

\* Wrong variant: a push that finds tail lagging does not move it.
HelpNot(p) ==
  /\ At(p, "help")
  /\ GoTo(p, "load_tail")
  /\ UNCHANGED <<memory, fault, locals, left, got, chain, setup, failures>>

Help(p) ==
  /\ At(p, "help")
  /\ MoveTail(p, succ[p])
  /\ GoTo(p, "load_tail")
  /\ UNCHANGED <<head, next, value, live, used, fault, locals, left, got, chain, setup>>

\* Wrong variant: the push leaves without moving tail.
SwingNot(p) ==
  /\ At(p, "swing")
  /\ Leave(p)
  /\ UNCHANGED <<memory, fault, locals, got, chain, setup, failures>>

Swing(p) ==
  /\ At(p, "swing")
  /\ MoveTail(p, node[p])
  /\ Leave(p)
  /\ UNCHANGED <<head, next, value, live, used, fault, locals, got, chain, setup>>

-----------------------------------------------------------------------------
(* pop                                                                     *)

PopCall(c) ==
  /\ At(c, "idle") /\ left[c] > 0
  /\ GoTo(c, "load_head")
  /\ UNCHANGED <<memory, fault, locals, left, got, chain, setup, failures>>

LoadHead(c) ==
  /\ At(c, "load_head")
  /\ old' = [old EXCEPT ![c] = head]
  /\ GoTo(c, "load_succ")
  /\ UNCHANGED <<memory, fault, succ, node, left, got, chain, setup, failures>>

LoadSucc(c) ==
  /\ At(c, "load_succ") /\ old[c] \in live
  /\ succ' = [succ EXCEPT ![c] = next[old[c]]]
  /\ IF next[old[c]] = Null
       THEN Leave(c) /\ got' = [got EXCEPT ![c] = NoValue]
       ELSE GoTo(c, "cas_head") /\ UNCHANGED <<left, got>>
  /\ UNCHANGED <<memory, fault, old, node, chain, setup, failures>>

\* Wrong variant: head is stored without comparing it.
CasHeadBlindly(c) ==
  /\ At(c, "cas_head")
  /\ head' = succ[c]
  /\ chain' = Tail(chain)
  /\ GoTo(c, "read")
  /\ UNCHANGED <<tail, next, value, live, used, fault, locals, left, got, setup, failures>>

\* The pop takes effect here; tail is not looked at, so head may pass it.
CasHead(c) ==
  /\ At(c, "cas_head") /\ head = old[c]
  /\ head' = succ[c]
  /\ chain' = Tail(chain)
  /\ GoTo(c, "read")
  /\ UNCHANGED <<tail, next, value, live, used, fault, locals, left, got, setup, failures>>

CasHeadFails(c) ==
  /\ At(c, "cas_head")
  /\ \/ head # old[c] /\ UNCHANGED failures
     \/ FailsSpuriously
  /\ GoTo(c, "load_head")
  /\ UNCHANGED <<memory, fault, locals, left, got, chain, setup>>

\* Wrong variant: the value of the dummy is returned.
ReadOldValue(c) ==
  /\ At(c, "read") /\ succ[c] \in live
  /\ got' = [got EXCEPT ![c] = value[old[c]]]
  /\ GoTo(c, "delete")
  /\ UNCHANGED <<memory, fault, locals, left, chain, setup, failures>>

ReadValue(c) ==
  /\ At(c, "read") /\ succ[c] \in live
  /\ got' = [got EXCEPT ![c] = value[succ[c]]]
  /\ GoTo(c, "delete")
  /\ UNCHANGED <<memory, fault, locals, left, chain, setup, failures>>

\* Wrong variant: the node is not deleted.
DeleteNot(c) ==
  /\ At(c, "delete") /\ old[c] \in live
  /\ Leave(c)
  /\ UNCHANGED <<memory, fault, locals, got, chain, setup, failures>>

Delete(c) ==
  /\ At(c, "delete") /\ old[c] \in live
  /\ live' = live \ {old[c]}
  /\ Leave(c)
  /\ UNCHANGED <<head, tail, next, value, used, fault, locals, got, chain, setup, failures>>

-----------------------------------------------------------------------------
Push(p) == \/ PushCall(p) \/ LoadTail(p) \/ LoadNext(p) \/ Link(p) \/ LinkFails(p)
           \/ Help(p) \/ Swing(p) \/ Fault(p)

Pop(c) == \/ PopCall(c) \/ LoadHead(c) \/ LoadSucc(c) \/ CasHead(c) \/ CasHeadFails(c)
          \/ ReadValue(c) \/ Delete(c) \/ Fault(c)

Next == \/ \E p \in Producers : Push(p)
        \/ \E c \in Consumers : Pop(c)

Spec == Init /\ [][Next]_vars

\* Every thread goes on running.
FairSpec == /\ Spec
            /\ \A p \in Producers : WF_vars(Push(p))
            /\ \A c \in Consumers : WF_vars(Pop(c))

-----------------------------------------------------------------------------
(* Properties                                                              *)

\* Every variable stays in its type.
TypeOK ==
  /\ head \in Nodes /\ tail \in Nodes
  /\ next \in [Nodes -> Nodes \cup {Null}]
  /\ value \in [Nodes -> Values \cup {NoValue}]
  /\ live \subseteq used /\ used \subseteq Nodes
  /\ fault \in BOOLEAN
  /\ pc \in [Threads -> {"idle", "load_tail", "load_next", "link", "help", "swing",
                         "load_head", "load_succ", "cas_head", "read", "delete"}]
  /\ old \in [Threads -> Nodes \cup {Null}]
  /\ succ \in [Threads -> Nodes \cup {Null}]
  /\ node \in [Producers -> Nodes \cup {Null}]
  /\ left \in [Threads -> Nat]
  /\ got \in [Consumers -> Values \cup {NoValue}]
  /\ chain \in Seq(Nodes) /\ chain # <<>>
  /\ setup \in Setups
  /\ failures \in 0..setup.failures

\* The list is what the pointers say: it starts at head, next leads through its
\* live nodes to the end, and tail lags at most one node behind the last,
\* whatever the threads do between their compare-and-swaps and however often
\* these fail.  (tail may lag behind head: then it points to a deleted node.)
ListShape ==
  /\ head = chain[1]
  /\ \A i \in 1..Len(chain) - 1 : next[chain[i]] = chain[i + 1]
  /\ next[Last(chain)] = Null
  /\ \A i, j \in DOMAIN chain : chain[i] = chain[j] => i = j
  /\ \A i \in DOMAIN chain : chain[i] \in live
  /\ tail = Last(chain) \/ next[tail] = Last(chain)

Unlinked == {node[p] : p \in {q \in Producers :
                              pc[q] \in {"load_tail", "load_next", "link", "help"}}}
Detached == {old[c] : c \in {d \in Consumers : pc[d] \in {"read", "delete"}}}

\* README:12, "nodes are allocated on push and deallocated on pop": every live
\* node is in the list, or with the one push that will link it, or with the one
\* pop that will delete it; so no node is leaked and none is deleted twice.
Ownership ==
  /\ live = {chain[i] : i \in DOMAIN chain} \cup Unlinked \cup Detached
  /\ Cardinality(live) = Len(chain) + Cardinality(Unlinked) + Cardinality(Detached)
  /\ \A c, d \in Consumers : /\ pc[c] \in {"read", "delete"}
                             /\ pc[d] \in {"read", "delete"}
                             /\ old[c] = old[d]
                             => c = d

OneOrNone(S) == \A s, t \in S : s = t
Busy(S) == {t \in S : setup.calls[t] > 0}

\* One producer and one consumer are safe as long as no compare-and-swap fails
\* spuriously: nothing deleted is touched, even if addresses are used again.
SoloSafe ==
  /\ OneOrNone(Busy(Producers)) /\ OneOrNone(Busy(Consumers)) /\ failures = 0
  => ~fault

\* README:11 calls the queue "suitable for high-contention scenarios", README:12
\* says its memory is managed: no thread touches a node that was deleted.
NoUseAfterFree == ~fault

\* The abstract queue: a value is in it from Link to CasHead.
absItems == [i \in 1..Len(chain) - 1 |-> value[chain[i + 1]]]
absTodo == [p \in Producers |-> IF pc[p] = "swing" THEN left[p] - 1 ELSE left[p]]
absGot == [c \in Consumers |-> IF pc[c] = "read" THEN value[succ[c]] ELSE got[c]]

Abs == INSTANCE BoundedFifo WITH PopConsumers <- {}, PopForConsumers <- Consumers,
                                 Capacity <- Cardinality(Nodes),
                                 Thrown <- NoValue,
                                 items <- absItems, todo <- absTodo,
                                 got <- absGot, closed <- FALSE

\* Up to a fault the list is a FIFO buffer: each value pushed is popped once, in
\* order, and pop() returns false only when the buffer is empty at that moment.
ImplementsFifo == Abs!Spec

\* Every call returns, in spite of failed compare-and-swaps, unless a fault ends
\* the run: whoever fails does so because another call got its way.
CallsReturn == <>(fault \/ \A t \in Threads : pc[t] = "idle" /\ left[t] = 0)
=============================================================================
