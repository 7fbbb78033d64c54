------------------------ MODULE LockFreeQueueProofs ------------------------
(***************************************************************************)
(* Theorems about LockFreeQueue for any threads, calls, nodes and spurious *)
(* failures, as long as the allocator returns no address twice (with reuse *)
(* a push may get the node at which a lagging tail points).  IInv, the     *)
(* conjunction of the parts below, is inductive.  At the end, with reuse:  *)
(* SoloInv, inductive for as long as there are one producer, one consumer  *)
(* and no spurious failure.                                                *)
(***************************************************************************)
EXTENDS LockFreeQueue, SequenceLemmas, FiniteSetTheorems

NoReuse == \A s \in Setups : ~s.recycle

Linking == {"load_tail", "load_next", "link", "help"}
Taking == {"read", "delete"}

\* Who is where, and that a call under way is one of those left.
Points ==
  /\ \A p \in Producers : pc[p] \in {"idle", "swing"} \cup Linking
  /\ \A c \in Consumers : pc[c] \in {"idle", "load_head", "load_succ", "cas_head"} \cup Taking
  /\ \A t \in Threads : pc[t] # "idle" => left[t] > 0

\* The nodes that are or were in the list.
Linked == used \ Unlinked

\* The list without its tail.
Shape ==
  /\ head = chain[1]
  /\ \A i \in 1..Len(chain) - 1 : next[chain[i]] = chain[i + 1]
  /\ next[Last(chain)] = Null
  /\ IsInjective(chain)
  /\ \A i \in 1..Len(chain) : chain[i] \in Linked

\* Of all nodes that are or were in the list only the last leads nowhere.
OneEnd ==
  \A n \in Linked : /\ next[n] \in Linked \cup {Null}
                    /\ next[n] = Null => n = Last(chain)

\* tail is the last node or the one before it.
TailNear == tail \in Linked /\ (tail = Last(chain) \/ next[tail] = Last(chain))

\* What a push knows: its node is its own until it is linked, the tail that it
\* read, if still the end, is still tail, and a successor once read stays.
Pushing(p) ==
  /\ pc[p] \in Linking => /\ node[p] \in used /\ next[node[p]] = Null
                          /\ value[node[p]] = <<p, left[p]>>
  /\ pc[p] \in {"load_next", "link", "help", "swing"} => old[p] \in Linked
  /\ pc[p] \in {"load_next", "link"} /\ next[old[p]] = Null => tail = old[p]
  /\ pc[p] = "help" => succ[p] = next[old[p]] /\ succ[p] # Null
  /\ pc[p] = "swing" => node[p] = next[old[p]] /\ node[p] # Null
OwnNode == \A p, q \in Producers :
             pc[p] \in Linking /\ pc[q] \in Linking /\ node[p] = node[q] => p = q

\* What a pop knows: the head that it read, if it is the end, is still head; a
\* successor once read stays; a node it has taken is in the list no more.
Popping(c) ==
  /\ pc[c] \in {"load_succ", "cas_head"} \cup Taking => old[c] \in Linked
  /\ pc[c] = "load_succ" /\ next[old[c]] = Null => old[c] = head
  /\ pc[c] \in {"cas_head"} \cup Taking => succ[c] = next[old[c]] /\ succ[c] # Null
  /\ pc[c] \in Taking => \A i \in 1..Len(chain) : chain[i] # old[c]
OwnOld == \A c, d \in Consumers :
            pc[c] \in Taking /\ pc[d] \in Taking /\ old[c] = old[d] => c = d

InChain == {chain[i] : i \in 1..Len(chain)}
Owned == live = InChain \cup Unlinked \cup Detached

IInv == /\ TypeOK /\ Points /\ Shape /\ OneEnd /\ TailNear
        /\ \A p \in Producers : Pushing(p)
        /\ \A c \in Consumers : Popping(c)
        /\ OwnNode /\ OwnOld /\ Owned

-----------------------------------------------------------------------------
LEMMA ChainFacts ==
  ASSUME TypeOK
  PROVE  /\ chain \in Seq(Nodes) /\ Len(chain) \in Nat /\ Len(chain) >= 1
         /\ DOMAIN chain = 1..Len(chain) /\ Last(chain) = chain[Len(chain)]
         /\ \A i \in 1..Len(chain) : chain[i] \in Nodes
BY DEF TypeOK, Last

LEMMA UnlinkedKept ==
  ASSUME UNCHANGED node,
         \A p \in Producers : pc'[p] \in Linking <=> pc[p] \in Linking
  PROVE  Unlinked' = Unlinked
BY DEF Unlinked, Linking

LEMMA DetachedKept ==
  ASSUME \A c \in Consumers : pc'[c] \in Taking <=> pc[c] \in Taking,
         \A c \in Consumers : pc[c] \in Taking => old'[c] = old[c]
  PROVE  Detached' = Detached
BY DEF Detached, Taking

LEMMA InitIInv == Init => IInv
<1> SUFFICES ASSUME Init PROVE IInv
  OBVIOUS
<1> USE LfqAssumption
<1>1. Dummy \in Nodes
  BY DEF Dummy
<1>2. TypeOK
  <2>1. left \in [Threads -> Nat] /\ setup.failures \in Nat
    BY DEF Init
  <2>2. failures \in 0..setup.failures
    BY <2>1 DEF Init
  <2>3. <<Dummy>> \in Seq(Nodes) /\ <<Dummy>> # <<>>
    BY <1>1
  <2> QED BY <1>1, <2>1, <2>2, <2>3 DEF Init, TypeOK
<1>3. Linked = {Dummy} /\ Detached = {} /\ Unlinked = {}
  BY DEF Init, Linked, Unlinked, Detached, Threads
<1>4. Len(chain) = 1 /\ chain[1] = Dummy /\ Last(chain) = Dummy
  BY DEF Init, Last
<1>5. \A n \in Nodes : next[n] = Null
  BY DEF Init
<1>6. \A t \in Threads : pc[t] = "idle"
  BY DEF Init
<1>7. Points
  BY <1>6 DEF Points, Threads
<1>8. Shape
  <2>1. IsInjective(chain)
    BY <1>2, <1>4, ChainFacts DEF IsInjective
  <2>2. \A i \in 1..Len(chain) - 1 : next[chain[i]] = chain[i + 1]
    BY <1>4
  <2>3. head = chain[1]
    BY <1>4 DEF Init
  <2> QED BY <1>1, <1>3, <1>4, <1>5, <2>1, <2>2, <2>3 DEF Shape
<1>9. OneEnd
  BY <1>1, <1>3, <1>4, <1>5 DEF OneEnd
<1>10. TailNear
  BY <1>3, <1>4 DEF TailNear, Init
<1>11. \A p \in Producers : Pushing(p)
  BY <1>6 DEF Pushing, Threads, Linking
<1>12. \A c \in Consumers : Popping(c)
  BY <1>6 DEF Popping, Threads, Taking
<1>13. OwnNode /\ OwnOld
  BY <1>6 DEF OwnNode, OwnOld, Threads, Linking, Taking
<1>14. InChain = {Dummy}
  BY <1>4 DEF InChain
<1>15. Owned
  BY <1>3, <1>14 DEF Owned, Init
<1> QED BY <1>2, <1>7, <1>8, <1>9, <1>10, <1>11, <1>12, <1>13, <1>15 DEF IInv

\* The list is never left without its dummy.
LEMMA SecondNode ==
  ASSUME IInv, next[head] # Null
  PROVE  Len(chain) >= 2 /\ next[head] = chain[2]
<1>1. /\ Len(chain) \in Nat /\ Len(chain) >= 1 /\ head = chain[1]
      /\ next[Last(chain)] = Null /\ Last(chain) = chain[Len(chain)]
      /\ \A i \in 1..Len(chain) - 1 : next[chain[i]] = chain[i + 1]
  BY ChainFacts DEF IInv, Shape
<1>2. Len(chain) # 1
  BY <1>1
<1> QED BY <1>1, <1>2

LEMMA LinkedInNodes ==
  ASSUME TypeOK
  PROVE  Linked \subseteq Nodes
BY DEF TypeOK, Linked

\* What a thread is about to store is an address, and a list from which its
\* first node may be taken has a second.
Ready ==
  /\ \A p \in Producers : /\ pc[p] \in {"link", "swing"} => node[p] \in Nodes
                          /\ pc[p] = "help" => succ[p] \in Nodes
  /\ \A c \in Consumers : pc[c] = "cas_head" =>
       succ[c] \in Nodes /\ (head = old[c] => Len(chain) >= 2)

LEMMA ReadyIInv ==
  ASSUME IInv
  PROVE  Ready
<1>1. ASSUME NEW p \in Producers, pc[p] \in {"link", "swing"}
      PROVE  node[p] \in Nodes
  BY <1>1, LfqAssumption DEF IInv, Pushing, Linking, TypeOK
<1>2. ASSUME NEW p \in Producers, pc[p] = "help"
      PROVE  succ[p] \in Nodes
  BY <1>2 DEF IInv, Pushing, TypeOK, Threads
<1>3. ASSUME NEW c \in Consumers, pc[c] = "cas_head"
      PROVE  succ[c] \in Nodes /\ (head = old[c] => Len(chain) >= 2)
  <2>1. succ[c] = next[old[c]] /\ succ[c] # Null
    BY <1>3 DEF IInv, Popping
  <2>2. succ[c] \in Nodes
    BY <2>1 DEF IInv, TypeOK, Threads
  <2>3. head = old[c] => Len(chain) >= 2
    BY <2>1, SecondNode
  <2> QED BY <2>2, <2>3
<1> QED BY <1>1, <1>2, <1>3 DEF Ready

LEMMA ReadyAt ==
  ASSUME Ready
  PROVE  /\ \A p \in Producers : /\ Link(p) \/ Swing(p) => node[p] \in Nodes
                                 /\ Help(p) => succ[p] \in Nodes
         /\ \A c \in Consumers : CasHead(c) => succ[c] \in Nodes /\ Len(chain) >= 2
<1>1. ASSUME NEW p \in Producers
      PROVE  /\ Link(p) => pc[p] = "link"
             /\ Swing(p) => pc[p] = "swing"
             /\ Help(p) => pc[p] = "help"
  BY ZenonT(30) DEF Link, Swing, Help, At
<1>2. ASSUME NEW c \in Consumers
      PROVE  CasHead(c) => pc[c] = "cas_head" /\ head = old[c]
  BY ZenonT(30) DEF CasHead, At
<1> QED BY <1>1, <1>2 DEF Ready

LEMMA StepType ==
  ASSUME TypeOK, Points, Ready, Next
  PROVE  TypeOK'
<1>p. /\ \A p \in Producers : /\ Link(p) \/ Swing(p) => node[p] \in Nodes
                              /\ Help(p) => succ[p] \in Nodes
      /\ \A c \in Consumers : CasHead(c) => succ[c] \in Nodes /\ Len(chain) >= 2
  BY ReadyAt
<1> USE LfqAssumption DEF GoTo, At, Leave, memory, locals
<1>1. setup.failures \in Nat
  BY DEF TypeOK
<1>a. FailsSpuriously => failures' \in 0..setup.failures
  BY <1>1 DEF TypeOK, FailsSpuriously
<1>b. Threads = Producers \cup Consumers
  BY DEF Threads
<1>2. ASSUME NEW p \in Producers, PushCall(p) PROVE TypeOK'
  <2>1. PICK n \in Available : /\ live' = live \cup {n} /\ used' = used \cup {n}
                               /\ value' = [value EXCEPT ![n] = <<p, left[p]>>]
                               /\ next' = [next EXCEPT ![n] = Null]
                               /\ node' = [node EXCEPT ![p] = n]
    BY <1>2 DEF PushCall
  <2>2. n \in Nodes
    BY DEF Available
  <2>3. <<p, left[p]>> \in Values
    BY <1>b DEF TypeOK, Values
  <2> QED BY <1>b, <1>2, <2>1, <2>2, <2>3 DEF PushCall, TypeOK
<1>3. ASSUME NEW p \in Producers, LoadTail(p) PROVE TypeOK'
  BY <1>b, <1>3 DEF LoadTail, TypeOK
<1>4. ASSUME NEW p \in Producers, LoadNext(p) PROVE TypeOK'
  <2>1. next[old[p]] \in Nodes \cup {Null}
    BY <1>4 DEF LoadNext, TypeOK
  <2> QED BY <1>b, <1>4, <2>1 DEF LoadNext, TypeOK
<1>5. ASSUME NEW p \in Producers, Link(p) PROVE TypeOK'
  <2>1. node[p] \in Nodes
    BY <1>5, <1>p
  <2>2. Append(chain, node[p]) \in Seq(Nodes) /\ Append(chain, node[p]) # <<>>
    <3>1. chain \in Seq(Nodes)
      BY Zenon DEF TypeOK
    <3> QED BY <2>1, <3>1, AppendProperties
  <2>3. /\ next' = [next EXCEPT ![old[p]] = node[p]]
        /\ pc' = [pc EXCEPT ![p] = "swing"]
        /\ UNCHANGED <<head, tail, value, live, used, fault, locals, left, got, setup,
                       failures>>
    BY <1>5, Zenon DEF Link
  <2>4. chain' \in Seq(Nodes) /\ chain' # <<>>
    BY <1>5, <2>2, Zenon DEF Link
  <2> QED BY <1>b, <2>1, <2>3, <2>4 DEF TypeOK
<1>6. ASSUME NEW p \in Producers, LinkFails(p) PROVE TypeOK'
  <2>1. failures' \in 0..setup.failures
    BY <1>a, <1>6 DEF LinkFails, TypeOK
  <2> QED BY <1>b, <1>6, <2>1 DEF LinkFails, TypeOK
<1>7. ASSUME NEW p \in Producers, Help(p) PROVE TypeOK'
  <2>1. failures' \in 0..setup.failures
    BY <1>a, <1>7 DEF Help, MoveTail, TypeOK
  <2>2. succ[p] \in Nodes
    BY <1>7, <1>p
  <2>3. tail' \in Nodes
    BY <1>7, <2>2 DEF Help, MoveTail, TypeOK
  <2> QED BY <1>b, <1>7, <2>1, <2>3 DEF Help, TypeOK
<1>8. ASSUME NEW p \in Producers, Swing(p) PROVE TypeOK'
  <2>1. failures' \in 0..setup.failures
    BY <1>a, <1>8 DEF Swing, MoveTail, TypeOK
  <2>2. node[p] \in Nodes
    BY <1>8, <1>p
  <2>3. tail' \in Nodes
    BY <1>8, <2>2 DEF Swing, MoveTail, TypeOK
  <2>4. left' \in [Threads -> Nat]
    <3>1. left[p] \in Nat /\ left[p] > 0
      BY <1>b, <1>8 DEF Swing, Points, TypeOK
    <3>2. left[p] - 1 \in Nat
      BY <3>1
    <3> QED BY <1>b, <1>8, <3>2 DEF Swing, TypeOK
  <2> QED BY <1>b, <1>8, <2>1, <2>3, <2>4 DEF Swing, TypeOK
<1>9. ASSUME NEW t \in Threads, Fault(t) PROVE TypeOK'
  BY <1>9 DEF Fault, TypeOK
<1>10. ASSUME NEW c \in Consumers, PopCall(c) PROVE TypeOK'
  BY <1>b, <1>10 DEF PopCall, TypeOK
<1>11. ASSUME NEW c \in Consumers, LoadHead(c) PROVE TypeOK'
  BY <1>b, <1>11 DEF LoadHead, TypeOK
<1>12. ASSUME NEW c \in Consumers, LoadSucc(c) PROVE TypeOK'
  <2>1. next[old[c]] \in Nodes \cup {Null}
    BY <1>12 DEF LoadSucc, TypeOK
  <2>2. left' \in [Threads -> Nat]
    <3>1. left[c] \in Nat /\ left[c] > 0
      BY <1>b, <1>12 DEF LoadSucc, Points, TypeOK
    <3>2. left[c] - 1 \in Nat
      BY <3>1
    <3>3. left' = left \/ left' = [left EXCEPT ![c] = left[c] - 1]
      BY <1>12 DEF LoadSucc
    <3> QED BY <1>b, <3>2, <3>3 DEF TypeOK
  <2>3. got' \in [Consumers -> Values \cup {NoValue}]
    BY <1>12 DEF LoadSucc, TypeOK
  <2>4. pc' = [pc EXCEPT ![c] = "idle"] \/ pc' = [pc EXCEPT ![c] = "cas_head"]
    BY <1>12 DEF LoadSucc
  <2>5. succ' = [succ EXCEPT ![c] = next[old[c]]]
        /\ UNCHANGED <<memory, fault, old, node, chain, setup, failures>>
    BY <1>12 DEF LoadSucc
  <2> QED BY <1>b, <2>1, <2>2, <2>3, <2>4, <2>5 DEF TypeOK
<1>13. ASSUME NEW c \in Consumers, CasHead(c) PROVE TypeOK'
  <2>1. head' \in Nodes
    BY <1>13, <1>p, Zenon DEF CasHead
  <2>2. Len(chain) >= 2
    BY <1>13, <1>p, Zenon
  <2>3. Tail(chain) \in Seq(Nodes) /\ Tail(chain) # <<>>
    <3>1. chain # <<>> /\ chain \in Seq(Nodes)
      BY DEF TypeOK
    <3>2. Tail(chain) \in Seq(Nodes) /\ Len(Tail(chain)) = Len(chain) - 1
      BY <3>1
    <3>3. Len(Tail(chain)) # Len(<<>>)
      BY <2>2, <3>2
    <3> QED BY <3>2, <3>3
  <2>4. /\ pc' = [pc EXCEPT ![c] = "read"]
        /\ UNCHANGED <<tail, next, value, live, used, fault, locals, left, got, setup,
                       failures>>
    BY <1>13, Zenon DEF CasHead
  <2>5. chain' \in Seq(Nodes) /\ chain' # <<>>
    BY <1>13, <2>3, Zenon DEF CasHead
  <2> QED BY <1>b, <2>1, <2>4, <2>5 DEF TypeOK
<1>14. ASSUME NEW c \in Consumers, CasHeadFails(c) PROVE TypeOK'
  <2>1. failures' \in 0..setup.failures
    BY <1>a, <1>14 DEF CasHeadFails, TypeOK
  <2> QED BY <1>b, <1>14, <2>1 DEF CasHeadFails, TypeOK
<1>15. ASSUME NEW c \in Consumers, ReadValue(c) PROVE TypeOK'
  <2>1. value[succ[c]] \in Values \cup {NoValue}
    BY <1>15 DEF ReadValue, TypeOK
  <2> QED BY <1>b, <1>15, <2>1 DEF ReadValue, TypeOK
<1>16. ASSUME NEW c \in Consumers, Delete(c) PROVE TypeOK'
  <2>1. left' \in [Threads -> Nat]
    <3>1. left[c] \in Nat /\ left[c] > 0
      BY <1>b, <1>16 DEF Delete, Points, TypeOK
    <3>2. left[c] - 1 \in Nat
      BY <3>1
    <3> QED BY <1>b, <1>16, <3>2 DEF Delete, TypeOK
  <2> QED BY <1>b, <1>16, <2>1 DEF Delete, TypeOK
<1> QED BY <1>b, <1>2, <1>3, <1>4, <1>5, <1>6, <1>7, <1>8, <1>9, <1>10, <1>11, <1>12,
           <1>13, <1>14, <1>15, <1>16 DEF Next, Push, Pop

LEMMA StepPoints ==
  ASSUME TypeOK, Points, Next
  PROVE  Points'
<1> USE LfqAssumption DEF Threads, Linking, Taking
<1>1. /\ pc \in [Threads -> {"idle", "load_tail", "load_next", "link", "help", "swing",
                             "load_head", "load_succ", "cas_head", "read", "delete"}]
      /\ left \in [Threads -> Nat]
  BY DEF TypeOK
<1>2. ASSUME NEW t \in Threads,
             \/ \E q \in Linking \cup {"swing"} :
                  GoTo(t, q) /\ t \in Producers /\ left[t] > 0 /\ left' = left
             \/ \E q \in Taking \cup {"load_head", "load_succ", "cas_head"} :
                  GoTo(t, q) /\ t \in Consumers /\ left[t] > 0 /\ left' = left
             \/ Leave(t)
             \/ UNCHANGED <<pc, left>>
      PROVE  Points'
  BY <1>1, <1>2 DEF GoTo, Leave, Points
<1>3. ASSUME NEW p \in Producers, Push(p) PROVE Points'
  <2>1. PushCall(p) => GoTo(p, "load_tail") /\ left[p] > 0 /\ left' = left
    BY DEF PushCall
  <2>2. /\ \/ LoadTail(p) \/ LoadNext(p) \/ Link(p) \/ LinkFails(p) \/ Help(p)
        => /\ \E q \in Linking \cup {"swing"} : GoTo(p, q)
           /\ left' = left /\ pc[p] # "idle"
    BY DEF LoadTail, LoadNext, Link, LinkFails, Help, At
  <2>3. pc[p] # "idle" => left[p] > 0
    BY <1>1 DEF Points
  <2>4. Swing(p) => Leave(p)
    BY DEF Swing
  <2>5. Fault(p) => UNCHANGED <<pc, left>>
    BY DEF Fault
  <2> QED BY <1>2, <1>3, <2>1, <2>2, <2>3, <2>4, <2>5 DEF Push
<1>4. ASSUME NEW c \in Consumers, Pop(c) PROVE Points'
  <2>1. PopCall(c) => GoTo(c, "load_head") /\ left[c] > 0 /\ left' = left
    BY DEF PopCall
  <2>2. LoadHead(c) \/ CasHead(c) \/ CasHeadFails(c) \/ ReadValue(c)
        => /\ \E q \in Taking \cup {"load_head", "load_succ", "cas_head"} : GoTo(c, q)
           /\ left' = left /\ pc[c] # "idle"
    BY DEF LoadHead, CasHead, CasHeadFails, ReadValue, At
  <2>3. pc[c] # "idle" => left[c] > 0
    BY <1>1 DEF Points
  <2>4. LoadSucc(c) => \/ Leave(c)
                       \/ GoTo(c, "cas_head") /\ left' = left /\ pc[c] # "idle"
    BY DEF LoadSucc, At
  <2>5. Delete(c) => Leave(c)
    BY DEF Delete
  <2>6. Fault(c) => UNCHANGED <<pc, left>>
    BY DEF Fault
  <2> QED BY <1>2, <1>4, <2>1, <2>2, <2>3, <2>4, <2>5, <2>6 DEF Pop
<1> QED BY <1>3, <1>4 DEF Next
-----------------------------------------------------------------------------
\* A step of one thread that leaves the list alone; tail may go to the end.
LEMMA OnlyOneMoves ==
  ASSUME IInv, TypeOK', Points', NEW t \in Threads,
         UNCHANGED <<head, next, value, live, used, node, chain>>,
         tail' = tail \/ (tail' = Last(chain) /\ next[tail] # Null),
         \A u \in Threads \ {t} : /\ pc'[u] = pc[u] /\ old'[u] = old[u]
                                  /\ succ'[u] = succ[u] /\ left'[u] = left[u],
         pc'[t] \in Linking <=> pc[t] \in Linking,
         pc'[t] \in Taking <=> pc[t] \in Taking,
         pc[t] \in Taking => old'[t] = old[t],
         t \in Producers => Pushing(t)', t \in Consumers => Popping(t)'
  PROVE  IInv'
<1> USE DEF IInv
<1>1. Producers \subseteq Threads /\ Consumers \subseteq Threads
  BY DEF Threads
<1>2. /\ \A u \in Threads : pc'[u] \in Linking <=> pc[u] \in Linking
      /\ \A u \in Threads : pc'[u] \in Taking <=> pc[u] \in Taking
      /\ \A u \in Threads : pc[u] \in Taking => old'[u] = old[u]
  OBVIOUS
<1>3. Unlinked' = Unlinked
  BY <1>1, <1>2, UnlinkedKept
<1>4. Detached' = Detached
  BY <1>1, <1>2, DetachedKept
<1>5. Linked' = Linked /\ InChain' = InChain
  BY <1>3 DEF Linked, InChain
<1>6. Shape' /\ OneEnd' /\ Owned'
  BY <1>3, <1>4, <1>5 DEF Shape, OneEnd, Owned
<1>7. Last(chain) \in Linked
  BY ChainFacts DEF Shape
<1>8. TailNear'
  BY <1>5, <1>7 DEF TailNear
<1>9. ASSUME NEW p \in Producers PROVE Pushing(p)'
  <2>1. CASE p = t
    BY <2>1
  <2>2. CASE p # t
    <3>1. /\ pc'[p] = pc[p] /\ old'[p] = old[p] /\ succ'[p] = succ[p] /\ left'[p] = left[p]
      BY <1>1, <2>2
    <3>2. Pushing(p)
      OBVIOUS
    <3> QED BY <1>5, <3>1, <3>2 DEF Pushing
  <2> QED BY <2>1, <2>2
<1>10. ASSUME NEW c \in Consumers PROVE Popping(c)'
  <2>1. CASE c = t
    BY <2>1
  <2>2. CASE c # t
    <3>1. /\ pc'[c] = pc[c] /\ old'[c] = old[c] /\ succ'[c] = succ[c]
      BY <1>1, <2>2
    <3>2. Popping(c)
      OBVIOUS
    <3> QED BY <1>5, <3>1, <3>2 DEF Popping
  <2> QED BY <2>1, <2>2
<1>11. OwnNode' /\ OwnOld'
  BY <1>1, <1>2 DEF OwnNode, OwnOld
<1> QED BY <1>6, <1>8, <1>9, <1>10, <1>11

\* The steps of a push other than those that allocate and link its node.
LEMMA PushMoves ==
  ASSUME IInv, TypeOK', Points', NEW p \in Producers,
         LoadTail(p) \/ LoadNext(p) \/ LinkFails(p) \/ Help(p) \/ Swing(p)
  PROVE  IInv'
<1> USE DEF At, GoTo, Leave, memory, locals
<1>1. p \in Threads /\ p \notin Consumers
  BY LfqAssumption DEF Threads
<1>2. /\ pc \in [Threads -> {"idle", "load_tail", "load_next", "link", "help", "swing",
                             "load_head", "load_succ", "cas_head", "read", "delete"}]
      /\ old \in [Threads -> Nodes \cup {Null}] /\ succ \in [Threads -> Nodes \cup {Null}]
      /\ left \in [Threads -> Nat]
      /\ Pushing(p) /\ TailNear
  BY DEF IInv, TypeOK
<1>3. ASSUME UNCHANGED <<head, next, value, live, used, node, chain>>,
             tail' = tail \/ (tail' = Last(chain) /\ next[tail] # Null),
             \A u \in Threads \ {p} : /\ pc'[u] = pc[u] /\ old'[u] = old[u]
                                      /\ succ'[u] = succ[u] /\ left'[u] = left[u],
             pc'[p] \in Linking <=> pc[p] \in Linking,
             pc'[p] \notin Taking, pc[p] \notin Taking, Pushing(p)'
      PROVE  IInv'
  BY <1>1, <1>3, OnlyOneMoves
<1>4. ASSUME UNCHANGED <<used, node>>, \A u \in Threads \ {p} : pc'[u] = pc[u],
             pc[p] \in Linking, pc'[p] \in Linking
      PROVE  Linked' = Linked
  BY <1>4, UnlinkedKept DEF Linked, Threads
<1>5. CASE LoadTail(p)
  <2>1. /\ pc[p] = "load_tail" /\ pc'[p] = "load_next" /\ old'[p] = tail
        /\ UNCHANGED <<memory, succ, node, left, chain>>
        /\ \A u \in Threads \ {p} : pc'[u] = pc[u] /\ old'[u] = old[u]
    BY <1>1, <1>2, <1>5 DEF LoadTail
  <2>2. Linked' = Linked
    BY <1>4, <2>1 DEF Linking
  <2>3. Pushing(p)'
    BY <1>2, <2>1, <2>2 DEF Pushing, TailNear, Linking
  <2> QED BY <1>3, <2>1, <2>3 DEF Linking, Taking
<1>6. CASE LoadNext(p)
  <2>1. /\ pc[p] = "load_next" /\ succ'[p] = next[old[p]]
        /\ pc'[p] = IF next[old[p]] = Null THEN "link" ELSE "help"
        /\ UNCHANGED <<memory, old, node, left, chain>>
        /\ \A u \in Threads \ {p} : pc'[u] = pc[u] /\ succ'[u] = succ[u]
    BY <1>1, <1>2, <1>6 DEF LoadNext
  <2>2. Linked' = Linked
    BY <1>4, <2>1 DEF Linking
  <2>3. Pushing(p)'
    BY <1>2, <2>1, <2>2 DEF Pushing, Linking
  <2> QED BY <1>3, <2>1, <2>3 DEF Linking, Taking
<1>7. CASE LinkFails(p)
  <2>1. /\ pc[p] = "link" /\ pc'[p] = "load_tail"
        /\ UNCHANGED <<memory, old, succ, node, left, chain>>
        /\ \A u \in Threads \ {p} : pc'[u] = pc[u]
    BY <1>1, <1>2, <1>7 DEF LinkFails
  <2>2. Linked' = Linked
    BY <1>4, <2>1 DEF Linking
  <2>3. Pushing(p)'
    BY <1>2, <2>1, <2>2 DEF Pushing, Linking
  <2> QED BY <1>3, <2>1, <2>3 DEF Linking, Taking
<1>8. CASE Help(p)
  <2>1. /\ pc[p] = "help" /\ pc'[p] = "load_tail"
        /\ tail' = tail \/ (tail = old[p] /\ tail' = succ[p])
        /\ UNCHANGED <<head, next, value, live, used, old, succ, node, left, chain>>
        /\ \A u \in Threads \ {p} : pc'[u] = pc[u]
    BY <1>1, <1>2, <1>8 DEF Help, MoveTail
  <2>2. Linked' = Linked
    BY <1>4, <2>1 DEF Linking
  <2>3. Pushing(p)'
    BY <1>2, <2>1, <2>2 DEF Pushing, Linking
  <2>4. tail' = tail \/ (tail' = Last(chain) /\ next[tail] # Null)
    <3>1. next[Last(chain)] = Null
      BY DEF IInv, Shape
    <3> QED BY <1>2, <2>1, <3>1 DEF Pushing, TailNear
  <2> QED BY <1>3, <2>1, <2>3, <2>4 DEF Linking, Taking
<1>9. CASE Swing(p)
  <2>1. /\ pc[p] = "swing" /\ pc'[p] = "idle"
        /\ tail' = tail \/ (tail = old[p] /\ tail' = node[p])
        /\ UNCHANGED <<head, next, value, live, used, old, succ, node, chain>>
        /\ \A u \in Threads \ {p} : pc'[u] = pc[u] /\ left'[u] = left[u]
    BY <1>1, <1>2, <1>9 DEF Swing, MoveTail
  <2>2. Pushing(p)'
    BY <2>1 DEF Pushing, Linking
  <2>3. tail' = tail \/ (tail' = Last(chain) /\ next[tail] # Null)
    <3>1. next[Last(chain)] = Null
      BY DEF IInv, Shape
    <3> QED BY <1>2, <2>1, <3>1 DEF Pushing, TailNear
  <2> QED BY <1>3, <2>1, <2>2, <2>3 DEF Linking, Taking
<1> QED BY <1>5, <1>6, <1>7, <1>8, <1>9

\* The steps of a pop other than those that unlink and delete a node.
LEMMA PopMoves ==
  ASSUME IInv, TypeOK', Points', NEW c \in Consumers,
         PopCall(c) \/ LoadHead(c) \/ LoadSucc(c) \/ CasHeadFails(c) \/ ReadValue(c)
  PROVE  IInv'
<1> USE DEF At, GoTo, Leave, memory, locals
<1>1. c \in Threads /\ c \notin Producers
  BY LfqAssumption DEF Threads
<1>2. /\ pc \in [Threads -> {"idle", "load_tail", "load_next", "link", "help", "swing",
                             "load_head", "load_succ", "cas_head", "read", "delete"}]
      /\ old \in [Threads -> Nodes \cup {Null}] /\ succ \in [Threads -> Nodes \cup {Null}]
      /\ left \in [Threads -> Nat]
      /\ Popping(c)
  BY DEF IInv, TypeOK
<1>3. ASSUME UNCHANGED <<head, tail, next, value, live, used, node, chain>>,
             \A u \in Threads \ {c} : /\ pc'[u] = pc[u] /\ old'[u] = old[u]
                                      /\ succ'[u] = succ[u] /\ left'[u] = left[u],
             pc'[c] \notin Linking, pc[c] \notin Linking,
             pc'[c] \in Taking <=> pc[c] \in Taking,
             pc[c] \in Taking => old'[c] = old[c],
             Popping(c)'
      PROVE  IInv'
  BY <1>1, <1>3, OnlyOneMoves
<1>4. ASSUME UNCHANGED <<used, node>>, \A u \in Threads \ {c} : pc'[u] = pc[u]
      PROVE  Linked' = Linked
  BY <1>1, <1>4, UnlinkedKept DEF Linked, Threads
<1>5. CASE PopCall(c)
  <2>1. /\ pc[c] = "idle" /\ pc'[c] = "load_head"
        /\ UNCHANGED <<memory, locals, left, chain>>
        /\ \A u \in Threads \ {c} : pc'[u] = pc[u]
    BY <1>1, <1>2, <1>5 DEF PopCall
  <2>2. Popping(c)'
    BY <2>1 DEF Popping, Taking
  <2> QED BY <1>3, <2>1, <2>2 DEF Linking, Taking
<1>6. CASE LoadHead(c)
  <2>1. /\ pc[c] = "load_head" /\ pc'[c] = "load_succ" /\ old'[c] = head
        /\ UNCHANGED <<memory, succ, node, left, chain>>
        /\ \A u \in Threads \ {c} : pc'[u] = pc[u] /\ old'[u] = old[u]
    BY <1>1, <1>2, <1>6 DEF LoadHead
  <2>2. Linked' = Linked
    BY <1>4, <2>1
  <2>3. head \in Linked
    BY ChainFacts DEF IInv, Shape
  <2>4. Popping(c)'
    BY <2>1, <2>2, <2>3 DEF Popping, Taking
  <2> QED BY <1>3, <2>1, <2>4 DEF Linking, Taking
<1>7. CASE LoadSucc(c)
  <2>1. /\ pc[c] = "load_succ" /\ succ'[c] = next[old[c]]
        /\ pc'[c] = IF next[old[c]] = Null THEN "idle" ELSE "cas_head"
        /\ UNCHANGED <<memory, old, node, chain>>
        /\ \A u \in Threads \ {c} : pc'[u] = pc[u] /\ succ'[u] = succ[u]
    BY <1>1, <1>2, <1>7 DEF LoadSucc
  <2>2. \A u \in Threads \ {c} : left'[u] = left[u]
    <3>1. left' = left \/ left' = [left EXCEPT ![c] = left[c] - 1]
      BY <1>7 DEF LoadSucc
    <3> QED BY <1>2, <3>1
  <2>3. Linked' = Linked
    BY <1>4, <2>1
  <2>4. Popping(c)'
    BY <1>2, <2>1, <2>3 DEF Popping, Taking
  <2> QED BY <1>3, <2>1, <2>2, <2>4 DEF Linking, Taking
<1>8. CASE CasHeadFails(c)
  <2>1. /\ pc[c] = "cas_head" /\ pc'[c] = "load_head"
        /\ UNCHANGED <<memory, old, succ, node, left, chain>>
        /\ \A u \in Threads \ {c} : pc'[u] = pc[u]
    BY <1>1, <1>2, <1>8 DEF CasHeadFails
  <2>2. Popping(c)'
    BY <2>1 DEF Popping, Taking
  <2> QED BY <1>3, <2>1, <2>2 DEF Linking, Taking
<1>9. CASE ReadValue(c)
  <2>1. /\ pc[c] = "read" /\ pc'[c] = "delete"
        /\ UNCHANGED <<memory, old, succ, node, left, chain>>
        /\ \A u \in Threads \ {c} : pc'[u] = pc[u]
    BY <1>1, <1>2, <1>9 DEF ReadValue
  <2>2. Linked' = Linked
    BY <1>4, <2>1
  <2>3. Popping(c)'
    BY <1>2, <2>1, <2>2 DEF Popping, Taking
  <2> QED BY <1>3, <2>1, <2>3 DEF Linking, Taking
<1> QED BY <1>5, <1>6, <1>7, <1>8, <1>9

\* A push takes a node that was never used.
LEMMA AllocateStep ==
  ASSUME IInv, NoReuse, TypeOK', Points', NEW p \in Producers, PushCall(p)
  PROVE  IInv'
<1> USE LfqAssumption DEF IInv
<1>1. PICK n \in Nodes \ used :
        /\ live' = live \cup {n} /\ used' = used \cup {n}
        /\ value' = [value EXCEPT ![n] = <<p, left[p]>>]
        /\ next' = [next EXCEPT ![n] = Null]
        /\ node' = [node EXCEPT ![p] = n]
  BY DEF PushCall, Available, NoReuse, TypeOK
<1>2. /\ pc[p] = "idle" /\ pc' = [pc EXCEPT ![p] = "load_tail"]
      /\ UNCHANGED <<head, tail, old, succ, left, chain>>
  BY DEF PushCall, At, GoTo
<1>3. /\ p \in Threads /\ p \notin Consumers
      /\ \A t \in Threads \ {p} : pc'[t] = pc[t]
      /\ pc'[p] = "load_tail" /\ node'[p] = n /\ next'[n] = Null
      /\ value'[n] = <<p, left[p]>>
      /\ \A q \in Producers \ {p} : node'[q] = node[q]
      /\ \A m \in used : next'[m] = next[m] /\ value'[m] = value[m]
  BY <1>1, <1>2 DEF TypeOK, Threads
<1>4. Unlinked' = Unlinked \cup {n}
  BY <1>2, <1>3 DEF Unlinked, Threads
<1>5. Detached' = Detached
  BY <1>2, <1>3 DEF Detached, Threads
<1>6. Unlinked \subseteq used
  BY DEF Unlinked, Pushing, Linking
<1>7. Linked' = Linked /\ Linked \subseteq used
  BY <1>1, <1>4, <1>6 DEF Linked
<1>8. \A i \in 1..Len(chain) : chain[i] \in Linked
  BY DEF Shape
<1>9. Last(chain) \in Linked /\ \A i \in 1..Len(chain) - 1 : i \in 1..Len(chain)
  BY <1>8, ChainFacts
<1>10. Shape'
  BY <1>2, <1>3, <1>7, <1>8, <1>9 DEF Shape
<1>11. OneEnd' /\ TailNear'
  BY <1>2, <1>3, <1>7, <1>9 DEF OneEnd, TailNear
<1>12. ASSUME NEW q \in Producers PROVE Pushing(q)'
  <2>1. CASE q = p
    BY <1>1, <1>3, <2>1, <1>2 DEF Pushing, Linking
  <2>2. CASE q # p
    <3>1. pc'[q] = pc[q] /\ node'[q] = node[q] /\ old'[q] = old[q]
          /\ succ'[q] = succ[q] /\ left'[q] = left[q]
      BY <1>2, <1>3, <2>2 DEF Threads
    <3>2. pc[q] \in Linking => node[q] \in used
      BY DEF Pushing
    <3>3. pc'[q] \in Linking => /\ node'[q] \in used' /\ next'[node'[q]] = Null
                                /\ value'[node'[q]] = <<q, left'[q]>>
      <4>1. used \subseteq used'
        BY <1>1
      <4>2. pc[q] \in Linking => next[node[q]] = Null /\ value[node[q]] = <<q, left[q]>>
        BY DEF Pushing
      <4> QED BY <1>3, <3>1, <3>2, <4>1, <4>2
    <3>4. pc[q] \in {"load_next", "link", "help", "swing"} => old[q] \in Linked
      BY DEF Pushing
    <3>5. pc[q] \in {"load_next", "link", "help", "swing"} => next'[old[q]] = next[old[q]]
      BY <1>3, <1>7, <3>4
    <3> QED BY <1>2, <1>7, <3>1, <3>3, <3>4, <3>5 DEF Pushing
  <2> QED BY <2>1, <2>2
<1>13. ASSUME NEW c \in Consumers PROVE Popping(c)'
  <2>1. pc'[c] = pc[c] /\ old'[c] = old[c] /\ succ'[c] = succ[c]
    BY <1>2, <1>3 DEF Threads
  <2> QED BY <1>2, <1>3, <1>7, <2>1 DEF Popping, Taking
<1>14. OwnNode'
  <2>1. \A q \in Producers : pc[q] \in Linking => node[q] \in used
    BY DEF Pushing
  <2> QED BY <1>1, <1>3, <2>1 DEF OwnNode, Threads
<1>15. OwnOld'
  BY <1>2, <1>3 DEF OwnOld, Threads
<1>16. Owned'
  BY <1>1, <1>2, <1>4, <1>5 DEF Owned, InChain
<1> QED BY <1>10, <1>11, <1>12, <1>13, <1>14, <1>15, <1>16

\* A push links its node behind the last, which is the tail that it read.
LEMMA LinkStep ==
  ASSUME IInv, TypeOK', Points', NEW p \in Producers, Link(p)
  PROVE  IInv'
<1> USE DEF IInv
<1> DEFINE o == old[p]
           n == node[p]
<1>1. /\ pc[p] = "link" /\ pc' = [pc EXCEPT ![p] = "swing"]
      /\ next[o] = Null /\ next' = [next EXCEPT ![o] = n]
      /\ chain' = Append(chain, n)
      /\ UNCHANGED <<head, tail, value, live, used, old, succ, node, left>>
  BY DEF Link, At, GoTo, locals
<1>2. /\ p \in Threads /\ p \notin Consumers
      /\ \A t \in Threads \ {p} : pc'[t] = pc[t]
      /\ pc'[p] = "swing"
  BY <1>1, LfqAssumption DEF TypeOK, Threads
<1>3. o \in Linked /\ o = Last(chain) /\ tail = o
  BY <1>1 DEF Pushing, OneEnd
<1>4. /\ n \in used /\ next[n] = Null /\ n \in Unlinked /\ n \notin Linked
      /\ n # o /\ n \in Nodes /\ n # Null
  <2>1. n \in used /\ next[n] = Null
    BY <1>1 DEF Pushing, Linking
  <2>2. n \in Unlinked
    BY <1>1 DEF Unlinked
  <2> QED BY <1>3, <2>1, <2>2, LfqAssumption DEF Linked, TypeOK
<1> HIDE DEF o, n
<1>5. Unlinked' = Unlinked \ {n}
  <2>1. \A q \in Producers \ {p} : pc[q] \in Linking => node[q] # n
    BY <1>1 DEF OwnNode, Linking, n
  <2>2. \A x : x \in Unlinked' <=> \E q \in Producers \ {p} : pc[q] \in Linking /\ node[q] = x
    BY <1>1, <1>2 DEF Unlinked, Linking, Threads
  <2>3. \A x : x \in Unlinked <=> \E q \in Producers : pc[q] \in Linking /\ node[q] = x
    BY DEF Unlinked, Linking
  <2> QED BY <1>1, <2>1, <2>2, <2>3 DEF n
<1>6. Detached' = Detached
  BY <1>1, <1>2 DEF Detached, Threads
<1>7. Linked' = Linked \cup {n}
  BY <1>1, <1>4, <1>5 DEF Linked
<1>8. /\ chain \in Seq(Nodes) /\ Len(chain) \in Nat /\ Len(chain) >= 1
      /\ DOMAIN chain = 1..Len(chain) /\ o = chain[Len(chain)]
  BY <1>3, ChainFacts
<1>b. \A i, j \in 1..Len(chain) : chain[i] = chain[j] => i = j
  BY <1>8 DEF Shape, IsInjective
<1>9. /\ Len(chain') = Len(chain) + 1 /\ chain'[Len(chain) + 1] = n
      /\ \A i \in 1..Len(chain) : chain'[i] = chain[i]
  BY <1>1, <1>4, <1>8
<1>10. Last(chain)' = n /\ DOMAIN chain' = 1..Len(chain) + 1
  <2>1. chain' \in Seq(Nodes) /\ Last(chain)' = chain'[Len(chain')]
    BY DEF TypeOK, Last
  <2> QED BY <1>9, <2>1
<1>11. \A m \in Nodes : next'[m] = IF m = o THEN n ELSE next[m]
  BY <1>1 DEF TypeOK
<1>12. Linked \subseteq Nodes
  BY LinkedInNodes
<1>13. Shape'
  <2>1. head' = chain'[1]
    BY <1>1, <1>8, <1>9 DEF Shape
  <2>2. ASSUME NEW i \in 1..Len(chain') - 1 PROVE next'[chain'[i]] = chain'[i + 1]
    <3>1. i \in 1..Len(chain) /\ chain'[i] = chain[i] /\ chain[i] \in Nodes
      BY <1>8, <1>9
    <3>2. CASE i = Len(chain)
      <4>1. chain'[i] = o /\ chain'[i + 1] = n
        BY <1>8, <1>9, <3>1, <3>2
      <4> QED BY <1>11, <3>1, <4>1
    <3>3. CASE i # Len(chain)
      <4>1. i \in 1..Len(chain) - 1 /\ i + 1 \in 1..Len(chain)
        <5>1. Len(chain) \in Nat /\ i \in Nat /\ 1 <= i /\ i <= Len(chain)
          BY <1>8, <3>1
        <5> QED BY <3>3, <5>1
      <4>2. next[chain[i]] = chain[i + 1]
        BY <4>1 DEF Shape
      <4>3. chain[i] # o
        <5>1. Len(chain) \in 1..Len(chain)
          BY <1>8
        <5> QED BY <1>8, <1>b, <3>1, <3>3, <5>1
      <4> QED BY <1>9, <1>11, <3>1, <4>1, <4>2, <4>3
    <3> QED BY <3>2, <3>3
  <2>3. next'[Last(chain)'] = Null
    BY <1>4, <1>10, <1>11
  <2>4. IsInjective(chain')
    <3>1. \A i \in 1..Len(chain) : chain[i] # n
      BY <1>4 DEF Shape
    <3>3. \A i \in 1..Len(chain) + 1 : i \in 1..Len(chain) \/ i = Len(chain) + 1
      BY <1>8
    <3> QED BY <1>9, <1>10, <1>b, <3>1, <3>3 DEF IsInjective
  <2>5. \A i \in 1..Len(chain') : chain'[i] \in Linked'
    <3>1. \A i \in 1..Len(chain') : i \in 1..Len(chain) \/ i = Len(chain) + 1
      BY <1>8, <1>9
    <3> QED BY <1>7, <1>9, <3>1 DEF Shape
  <2> QED BY <2>1, <2>2, <2>3, <2>4, <2>5 DEF Shape
<1>14. OneEnd'
  BY <1>3, <1>4, <1>7, <1>10, <1>11, <1>12 DEF OneEnd
<1>15. TailNear'
  BY <1>1, <1>3, <1>7, <1>10, <1>11, <1>12 DEF TailNear
<1>16. \A m \in Linked : next[m] = Null => m = o
  BY <1>3 DEF OneEnd
<1>17. ASSUME NEW q \in Producers PROVE Pushing(q)'
  <2>1. CASE q = p
    BY <1>1, <1>2, <1>3, <1>4, <1>7, <1>11, <1>12, <2>1 DEF Pushing, Linking, o, n
  <2>2. CASE q # p
    <3>1. pc'[q] = pc[q] /\ node'[q] = node[q] /\ old'[q] = old[q]
          /\ succ'[q] = succ[q] /\ left'[q] = left[q]
      BY <1>1, <1>2, <2>2 DEF Threads
    <3>2. pc[q] \in Linking => node[q] \in Nodes /\ node[q] # o
      <4>1. pc[q] \in Linking => node[q] \in Unlinked /\ node[q] \in used
        BY DEF Unlinked, Linking, Pushing
      <4> QED BY <1>3, <4>1 DEF Linked, TypeOK
    <3>3. pc[q] \in {"load_next", "link", "help", "swing"} => old[q] \in Linked
      BY DEF Pushing
    <3>4. pc[q] \in {"help", "swing"} => next[old[q]] # Null
      BY DEF Pushing
    <3>5. /\ pc'[q] \in Linking => /\ node'[q] \in used' /\ next'[node'[q]] = Null
                                   /\ value'[node'[q]] = <<q, left'[q]>>
          /\ pc'[q] \in {"load_next", "link", "help", "swing"} => old'[q] \in Linked'
      BY <1>1, <1>7, <1>11, <3>1, <3>2, <3>3 DEF Pushing
    <3>6. pc'[q] \in {"load_next", "link"} => next'[old'[q]] # Null
      <4>1. n # Null
        BY <1>4
      <4> QED BY <1>11, <1>12, <1>16, <3>1, <3>3, <4>1
    <3>7. /\ pc'[q] = "help" => succ'[q] = next'[old'[q]] /\ succ'[q] # Null
          /\ pc'[q] = "swing" => node'[q] = next'[old'[q]] /\ node'[q] # Null
      BY <1>1, <1>11, <1>12, <3>1, <3>3, <3>4 DEF Pushing
    <3> QED BY <3>5, <3>6, <3>7 DEF Pushing
  <2> QED BY <2>1, <2>2
<1>18. ASSUME NEW c \in Consumers PROVE Popping(c)'
  <2>1. pc'[c] = pc[c] /\ old'[c] = old[c] /\ succ'[c] = succ[c]
    BY <1>1, <1>2 DEF Threads
  <2>2. pc[c] \in {"load_succ", "cas_head"} \cup Taking => old[c] \in Linked
    BY DEF Popping
  <2>3. pc'[c] = "load_succ" => next'[old'[c]] # Null
    <3>1. n # Null
      BY <1>4
    <3> QED BY <1>11, <1>12, <1>16, <2>1, <2>2, <3>1
  <2>4. pc'[c] \in {"cas_head"} \cup Taking => succ'[c] = next'[old'[c]] /\ succ'[c] # Null
    BY <1>1, <1>11, <1>12, <2>1, <2>2 DEF Popping
  <2>5. pc'[c] \in Taking => \A i \in 1..Len(chain') : chain'[i] # old'[c]
    <3>1. \A i \in 1..Len(chain') : i \in 1..Len(chain) \/ i = Len(chain) + 1
      BY <1>8, <1>9
    <3> QED BY <1>4, <1>9, <2>1, <2>2, <3>1 DEF Popping
  <2> QED BY <1>7, <2>1, <2>2, <2>3, <2>4, <2>5 DEF Popping
<1>19. OwnNode' /\ OwnOld'
  BY <1>1, <1>2 DEF OwnNode, OwnOld, Threads, Linking
<1>20. Owned'
  <2>1. InChain' = InChain \cup {n}
    <3>1. \A i \in 1..Len(chain') : i \in 1..Len(chain) \/ i = Len(chain) + 1
      BY <1>8, <1>9
    <3>2. Len(chain) + 1 \in 1..Len(chain') /\ \A i \in 1..Len(chain) : i \in 1..Len(chain')
      BY <1>8, <1>9
    <3>3. \A x : x \in InChain' <=> \E i \in 1..Len(chain') : chain'[i] = x
      BY DEF InChain
    <3>4. \A x : x \in InChain <=> \E i \in 1..Len(chain) : chain[i] = x
      BY DEF InChain
    <3> QED BY <1>9, <3>1, <3>2, <3>3, <3>4
  <2> QED BY <1>1, <1>4, <1>5, <1>6, <2>1 DEF Owned
<1> QED BY <1>13, <1>14, <1>15, <1>17, <1>18, <1>19, <1>20

\* A pop takes the dummy; its successor is the new one.
LEMMA TakeStep ==
  ASSUME IInv, TypeOK', Points', NEW c \in Consumers, CasHead(c)
  PROVE  IInv'
<1> USE DEF IInv
<1> DEFINE o == old[c]
<1>1. /\ pc[c] = "cas_head" /\ pc' = [pc EXCEPT ![c] = "read"]
      /\ head = o /\ head' = succ[c] /\ chain' = Tail(chain)
      /\ UNCHANGED <<tail, next, value, live, used, old, succ, node, left>>
  BY DEF CasHead, At, GoTo, locals
<1>2. /\ c \in Threads /\ c \notin Producers
      /\ \A t \in Threads \ {c} : pc'[t] = pc[t]
      /\ pc'[c] = "read"
  BY <1>1, LfqAssumption DEF TypeOK, Threads
<1>3. o \in Linked /\ succ[c] = next[o] /\ next[o] # Null
  BY <1>1 DEF Popping
<1> HIDE DEF o
<1>4. Unlinked' = Unlinked
  BY <1>1, <1>2, UnlinkedKept DEF Linking, Threads
<1>5. Linked' = Linked
  BY <1>1, <1>4 DEF Linked
<1>6. /\ chain \in Seq(Nodes) /\ Len(chain) \in Nat
      /\ DOMAIN chain = 1..Len(chain) /\ Last(chain) = chain[Len(chain)]
  BY ChainFacts
<1>7. Len(chain) >= 2 /\ next[o] = chain[2] /\ chain[1] = o
  BY <1>1, <1>3, SecondNode DEF Shape
<1>8. Len(chain') = Len(chain) - 1 /\ \A i \in 1..Len(chain) - 1 : chain'[i] = chain[i + 1]
  <2>1. chain # <<>>
    BY DEF TypeOK
  <2> QED BY <1>1, <1>6, <2>1
<1>9. /\ DOMAIN chain' = 1..Len(chain) - 1 /\ Last(chain)' = Last(chain)
      /\ \A i \in 1..Len(chain') : i \in 1..Len(chain) - 1 /\ i + 1 \in 1..Len(chain)
  <2>1. chain' \in Seq(Nodes) /\ Last(chain)' = chain'[Len(chain')]
    BY DEF TypeOK, Last
  <2>2. DOMAIN chain' = 1..Len(chain) - 1
    BY <1>8, <2>1
  <2>3. chain'[Len(chain) - 1] = chain[Len(chain)]
    BY <1>6, <1>7, <1>8
  <2>4. Last(chain)' = Last(chain)
    BY <1>6, <1>8, <2>1, <2>3
  <2>5. \A i \in 1..Len(chain') : i \in 1..Len(chain) - 1 /\ i + 1 \in 1..Len(chain)
    BY <1>6, <1>8
  <2> QED BY <2>2, <2>4, <2>5
<1>10. \A i, j \in 1..Len(chain) : chain[i] = chain[j] => i = j
  BY <1>6 DEF Shape, IsInjective
<1>11. Shape'
  <2>1. head' = chain'[1]
    BY <1>1, <1>3, <1>6, <1>7, <1>8
  <2>2. ASSUME NEW i \in 1..Len(chain') - 1 PROVE next'[chain'[i]] = chain'[i + 1]
    <3>1. i \in Nat /\ 1 <= i /\ i <= Len(chain) - 2
      BY <1>6, <1>8
    <3>2. i \in 1..Len(chain) - 1 /\ i + 1 \in 1..Len(chain) - 1
      BY <1>6, <3>1
    <3>3. chain'[i] = chain[i + 1] /\ chain'[i + 1] = chain[(i + 1) + 1]
      BY <1>8, <3>2
    <3>4. next[chain[i + 1]] = chain[(i + 1) + 1]
      BY <3>2 DEF Shape
    <3> QED BY <1>1, <3>3, <3>4
  <2>3. next'[Last(chain)'] = Null
    BY <1>1, <1>9 DEF Shape
  <2>4. IsInjective(chain')
    <3>1. ASSUME NEW i \in 1..Len(chain) - 1, NEW j \in 1..Len(chain) - 1,
                 chain'[i] = chain'[j]
          PROVE  i = j
      <4>1. chain[i + 1] = chain[j + 1]
        BY <1>8, <3>1
      <4>2. i + 1 \in 1..Len(chain) /\ j + 1 \in 1..Len(chain)
        BY <1>6
      <4>3. i + 1 = j + 1
        BY <1>10, <4>1, <4>2
      <4> QED BY <1>6, <4>3
    <3> QED BY <1>9, <3>1 DEF IsInjective
  <2>5. \A i \in 1..Len(chain') : chain'[i] \in Linked'
    BY <1>5, <1>8, <1>9 DEF Shape
  <2> QED BY <2>1, <2>2, <2>3, <2>4, <2>5 DEF Shape
<1>12. OneEnd' /\ TailNear'
  BY <1>1, <1>5, <1>9 DEF OneEnd, TailNear
<1>13. ASSUME NEW p \in Producers PROVE Pushing(p)'
  <2>1. pc'[p] = pc[p]
    BY <1>2 DEF Threads
  <2> QED BY <1>1, <1>5, <2>1 DEF Pushing
<1>14. \A i \in 1..Len(chain') : chain'[i] # o
  <2>1. ASSUME NEW i \in 1..Len(chain') PROVE chain'[i] # o
    <3>1. i + 1 \in 1..Len(chain) /\ chain'[i] = chain[i + 1] /\ i + 1 # 1 /\ 1 \in 1..Len(chain)
      BY <1>6, <1>7, <1>8, <1>9
    <3> QED BY <1>7, <1>10, <3>1
  <2> QED BY <2>1
<1>15. ASSUME NEW d \in Consumers PROVE Popping(d)'
  <2>1. CASE d = c
    BY <1>1, <1>2, <1>3, <1>5, <1>14, <2>1 DEF Popping, Taking, o
  <2>2. CASE d # c
    <3>1. pc'[d] = pc[d]
      BY <1>2, <2>2 DEF Threads
    <3>2. pc[d] = "load_succ" => next[old[d]] # Null
      BY <1>1, <1>3 DEF Popping
    <3>3. pc[d] \in Taking => \A i \in 1..Len(chain') : chain'[i] # old[d]
      BY <1>8, <1>9 DEF Popping
    <3> QED BY <1>1, <1>5, <3>1, <3>2, <3>3 DEF Popping
  <2> QED BY <2>1, <2>2
<1>16. OwnNode'
  BY <1>1, <1>2 DEF OwnNode, Threads
<1>17. \A d \in Consumers \ {c} : pc[d] \in Taking => old[d] # o
  <2>1. 1 \in 1..Len(chain)
    BY <1>6, <1>7
  <2> QED BY <1>7, <2>1 DEF Popping
<1>18. OwnOld'
  BY <1>1, <1>2, <1>17 DEF OwnOld, Threads, o
<1>19. Owned'
  <2>1. InChain = InChain' \cup {o}
    <3>1. \A x : x \in InChain' <=> \E i \in 1..Len(chain') : chain'[i] = x
      BY DEF InChain
    <3>2. \A x : x \in InChain <=> \E i \in 1..Len(chain) : chain[i] = x
      BY DEF InChain
    <3>3. ASSUME NEW i \in 1..Len(chain), i # 1
          PROVE  i - 1 \in 1..Len(chain') /\ chain'[i - 1] = chain[i]
      <4>1. i - 1 \in 1..Len(chain) - 1 /\ (i - 1) + 1 = i
        BY <1>6, <3>3
      <4> QED BY <1>8, <4>1
    <3>4. \A i \in 1..Len(chain') : i + 1 \in 1..Len(chain) /\ chain'[i] = chain[i + 1]
      BY <1>8, <1>9
    <3>5. 1 \in 1..Len(chain)
      BY <1>6, <1>7
    <3> QED BY <1>7, <3>1, <3>2, <3>3, <3>4, <3>5, ZenonT(60)
  <2>2. Detached' = Detached \cup {o}
    <3>1. \A x : x \in Detached' <=> \E d \in Consumers : pc'[d] \in Taking /\ old'[d] = x
      BY DEF Detached, Taking
    <3>2. \A x : x \in Detached <=> \E d \in Consumers : pc[d] \in Taking /\ old[d] = x
      BY DEF Detached, Taking
    <3>3. pc[c] \notin Taking /\ pc'[c] \in Taking /\ old'[c] = o
          /\ \A d \in Consumers \ {c} : pc'[d] = pc[d] /\ old'[d] = old[d]
      BY <1>1, <1>2 DEF Taking, Threads, o
    <3> QED BY <3>1, <3>2, <3>3
  <2> QED BY <1>1, <1>4, <2>1, <2>2 DEF Owned
<1> QED BY <1>11, <1>12, <1>13, <1>15, <1>16, <1>18, <1>19

\* A pop deletes the node that it took, which nobody else owns.
LEMMA DeleteStep ==
  ASSUME IInv, TypeOK', Points', NEW c \in Consumers, Delete(c)
  PROVE  IInv'
<1> USE DEF IInv
<1> DEFINE o == old[c]
<1>1. /\ pc[c] = "delete" /\ pc' = [pc EXCEPT ![c] = "idle"]
      /\ live' = live \ {o}
      /\ UNCHANGED <<head, tail, next, value, used, old, succ, node, chain>>
      /\ left' = [left EXCEPT ![c] = left[c] - 1]
  BY DEF Delete, At, GoTo, Leave, locals
<1>2. /\ c \in Threads /\ c \notin Producers
      /\ \A t \in Threads \ {c} : pc'[t] = pc[t] /\ left'[t] = left[t]
      /\ pc'[c] = "idle"
  <2>1. c \in Threads /\ c \notin Producers
    BY LfqAssumption DEF Threads
  <2>2. pc'[c] = "idle" /\ \A t \in Threads \ {c} : pc'[t] = pc[t]
    BY <1>1, <2>1 DEF TypeOK
  <2>3. \A t \in Threads \ {c} : left'[t] = left[t]
    BY <1>1, <2>1 DEF TypeOK
  <2> QED BY <2>1, <2>2, <2>3
<1>3. o \in Linked /\ \A i \in 1..Len(chain) : chain[i] # o
  BY <1>1 DEF Popping, Taking
<1> HIDE DEF o
<1>4. Unlinked' = Unlinked
  BY <1>1, <1>2, UnlinkedKept DEF Linking, Threads
<1>5. Linked' = Linked /\ InChain' = InChain
  BY <1>1, <1>4 DEF Linked, InChain
<1>6. Shape' /\ OneEnd' /\ TailNear'
  BY <1>1, <1>5 DEF Shape, OneEnd, TailNear
<1>7. ASSUME NEW p \in Producers PROVE Pushing(p)'
  <2>1. pc'[p] = pc[p] /\ left'[p] = left[p]
    BY <1>2 DEF Threads
  <2> QED BY <1>1, <1>5, <2>1 DEF Pushing
<1>8. ASSUME NEW d \in Consumers PROVE Popping(d)'
  <2>1. CASE d = c
    BY <1>2, <2>1 DEF Popping, Taking
  <2>2. CASE d # c
    <3>1. pc'[d] = pc[d]
      BY <1>2, <2>2 DEF Threads
    <3> QED BY <1>1, <1>5, <3>1 DEF Popping
  <2> QED BY <2>1, <2>2
<1>9. OwnNode' /\ OwnOld'
  <2>1. \A p \in Producers : pc'[p] = pc[p]
    BY <1>2 DEF Threads
  <2>2. pc'[c] \notin Taking /\ \A d \in Consumers \ {c} : pc'[d] = pc[d]
    BY <1>2 DEF Threads, Taking
  <2> QED BY <1>1, <2>1, <2>2 DEF OwnNode, OwnOld
<1>10. Owned'
  <2>1. Detached' = Detached \ {o}
    <3>1. \A x : x \in Detached' <=> \E d \in Consumers : pc'[d] \in Taking /\ old'[d] = x
      BY DEF Detached, Taking
    <3>2. \A x : x \in Detached <=> \E d \in Consumers : pc[d] \in Taking /\ old[d] = x
      BY DEF Detached, Taking
    <3>3. pc[c] \in Taking /\ pc'[c] \notin Taking /\ old[c] = o
          /\ \A d \in Consumers \ {c} : pc'[d] = pc[d] /\ old'[d] = old[d]
      BY <1>1, <1>2 DEF Taking, Threads, o
    <3>4. \A d \in Consumers \ {c} : pc[d] \in Taking => old[d] # o
      BY <3>3 DEF OwnOld
    <3> QED BY <3>1, <3>2, <3>3, <3>4
  <2>2. o \notin InChain /\ o \notin Unlinked
    BY <1>3 DEF InChain, Linked
  <2> QED BY <1>1, <1>4, <1>5, <2>1, <2>2 DEF Owned
<1> QED BY <1>6, <1>7, <1>8, <1>9, <1>10

\* A fault ends the run and changes nothing else.
LEMMA Still ==
  ASSUME IInv, TypeOK',
         UNCHANGED <<memory, pc, locals, left, chain>>
  PROVE  IInv'
<1>1. /\ UNCHANGED <<head, tail, next, value, live, used>>
      /\ UNCHANGED <<old, succ, node, pc, left, chain>>
  BY DEF memory, locals
<1>2. Unlinked' = Unlinked /\ Detached' = Detached /\ InChain' = InChain
  BY <1>1 DEF Unlinked, Detached, InChain
<1>3. Linked' = Linked
  BY <1>1, <1>2 DEF Linked
<1>4. Points' /\ Shape' /\ OneEnd' /\ TailNear'
  BY <1>1, <1>3 DEF IInv, Points, Shape, OneEnd, TailNear
<1>5. \A p \in Producers : Pushing(p)'
  BY <1>1, <1>3 DEF IInv, Pushing
<1>6. \A c \in Consumers : Popping(c)'
  BY <1>1, <1>3 DEF IInv, Popping
<1>7. OwnNode' /\ OwnOld' /\ Owned'
  BY <1>1, <1>2 DEF IInv, OwnNode, OwnOld, Owned
<1> QED BY <1>4, <1>5, <1>6, <1>7 DEF IInv

LEMMA NextIInv ==
  ASSUME IInv, NoReuse, [Next]_vars
  PROVE  IInv'
<1>1. CASE Next
  <2>1. TypeOK' /\ Points'
    BY <1>1, StepType, StepPoints, ReadyIInv DEF IInv
  <2>2. ASSUME NEW p \in Producers, Push(p) PROVE IInv'
    <3>1. Fault(p) => UNCHANGED <<memory, pc, locals, left, chain>>
      BY DEF Fault
    <3> QED BY <2>1, <2>2, <3>1, AllocateStep, LinkStep, PushMoves, Still DEF Push
  <2>3. ASSUME NEW c \in Consumers, Pop(c) PROVE IInv'
    <3>1. Fault(c) => UNCHANGED <<memory, pc, locals, left, chain>>
      BY DEF Fault
    <3> QED BY <2>1, <2>3, <3>1, TakeStep, DeleteStep, PopMoves, Still DEF Pop
  <2> QED BY <1>1, <2>2, <2>3 DEF Next
<1>2. CASE UNCHANGED vars
  <2>1. UNCHANGED <<memory, pc, locals, left, chain>> /\ TypeOK'
    BY <1>2 DEF IInv, TypeOK, vars, memory, locals
  <2> QED BY <2>1, Still
<1> QED BY <1>1, <1>2

-----------------------------------------------------------------------------
\* Every variable stays in its type, and IInv holds throughout.
THEOREM Inductive == NoReuse => (Spec => []TypeOK /\ []IInv)
<1> SUFFICES ASSUME NoReuse PROVE Spec => []TypeOK /\ []IInv
  OBVIOUS
<1>1. Init => IInv
  BY InitIInv
<1>2. IInv /\ [Next]_vars => IInv'
  BY NextIInv
<1>3. IInv => TypeOK
  BY DEF IInv
<1> QED BY <1>1, <1>2, <1>3, PTL DEF Spec

\* Every variable stays in its type, if no address comes back.  (If one does, a pop
\* that compares head with an old address may take the dummy from the list.)
THEOREM Types == NoReuse => (Spec => []TypeOK)
<1> QED BY Inductive

\* The list keeps its shape, whatever the threads do between their
\* compare-and-swaps and however often these fail, if no address comes back.
THEOREM ShapeKept == NoReuse => (Spec => []ListShape)
<1> SUFFICES ASSUME NoReuse PROVE Spec => []ListShape
  OBVIOUS
<1>1. IInv => ListShape
  <2> SUFFICES ASSUME IInv PROVE ListShape
    OBVIOUS
  <2>1. \A i, j \in DOMAIN chain : chain[i] = chain[j] => i = j
    BY DEF IInv, Shape, IsInjective
  <2>2. \A i \in DOMAIN chain : chain[i] \in live
    BY ChainFacts DEF IInv, Owned, InChain
  <2> QED BY <2>1, <2>2 DEF ListShape, IInv, Shape, TailNear
<1>2. Spec => []IInv
  BY Inductive
<1> QED BY <1>1, <1>2, PTL

-----------------------------------------------------------------------------
(* Every live node has one owner.                                          *)

\* A list in which nothing is twice has as many elements as places.
LEMMA AsManyAsPlaces ==
  ASSUME NEW S, NEW s \in Seq(S), IsInjective(s)
  PROVE  LET elements == {s[i] : i \in 1..Len(s)} IN
           IsFiniteSet(elements) /\ Cardinality(elements) = Len(s)
<1> DEFINE elements == {s[i] : i \in 1..Len(s)}
<1>1. Len(s) \in Nat /\ DOMAIN s = 1..Len(s) /\ s \in [1..Len(s) -> elements]
  OBVIOUS
<1>2. s \in Bijection(1..Len(s), elements)
  BY <1>1 DEF IsInjective, Bijection, Injection, Surjection
<1>3. ExistsBijection(1..Len(s), elements)
  BY <1>2 DEF ExistsBijection
<1>4. IsFiniteSet(1..Len(s)) /\ Cardinality(1..Len(s)) = Len(s)
  BY <1>1, FS_Interval
<1> QED BY <1>3, <1>4, FS_Bijection

LEMMA DisjointCount ==
  ASSUME NEW S, IsFiniteSet(S), NEW T, IsFiniteSet(T), S \cap T = {}
  PROVE  /\ IsFiniteSet(S \cup T)
         /\ Cardinality(S \cup T) = Cardinality(S) + Cardinality(T)
<1>1. Cardinality(S) \in Nat /\ Cardinality(T) \in Nat
  BY FS_CardinalityType
<1>2. Cardinality(S \cap T) = 0
  BY FS_EmptySet
<1>3. IsFiniteSet(S \cup T)
  BY FS_Union
<1>4. Cardinality(S \cup T) = Cardinality(S) + Cardinality(T) - Cardinality(S \cap T)
  BY FS_Union
<1> QED BY <1>1, <1>2, <1>3, <1>4

LEMMA InChainCount ==
  ASSUME IInv
  PROVE  /\ IsFiniteSet(InChain) /\ Cardinality(InChain) = Len(chain)
         /\ Len(chain) <= Cardinality(Nodes)
<1>1. IsFiniteSet(InChain) /\ Cardinality(InChain) = Len(chain)
  BY ChainFacts, AsManyAsPlaces DEF IInv, Shape, InChain
<1>2. InChain \subseteq Nodes /\ IsFiniteSet(Nodes)
  BY ChainFacts, LfqAssumption DEF IInv, InChain
<1> QED BY <1>1, <1>2, FS_Subset

\* No node is leaked, in two hands, or deleted twice, if no address comes back.
THEOREM OneOwner == NoReuse => (Spec => []Ownership)
<1> SUFFICES ASSUME NoReuse PROVE Spec => []Ownership
  OBVIOUS
<1>1. IInv => Ownership
  <2> SUFFICES ASSUME IInv PROVE Ownership
    OBVIOUS
  <2>1. IsFiniteSet(InChain) /\ Cardinality(InChain) = Len(chain) /\ Len(chain) \in Nat
    BY InChainCount, ChainFacts DEF IInv
  <2>2. InChain \subseteq Linked /\ Detached \subseteq Linked /\ Linked \cap Unlinked = {}
    <3>1. InChain \subseteq Linked
      BY DEF IInv, Shape, InChain
    <3>2. Detached \subseteq Linked
      BY DEF IInv, Popping, Detached, Taking
    <3> QED BY <3>1, <3>2 DEF Linked
  <2>3. InChain \cap Detached = {}
    BY DEF IInv, Popping, InChain, Detached, Taking
  <2>4. /\ IsFiniteSet(Unlinked) /\ Cardinality(Unlinked) \in Nat
        /\ IsFiniteSet(Detached) /\ Cardinality(Detached) \in Nat
    <3>1. Unlinked \subseteq Nodes /\ Detached \subseteq Nodes
      <4>1. Unlinked \subseteq Nodes
        BY DEF IInv, Pushing, Linking, Unlinked, TypeOK
      <4> QED BY <2>2, <4>1, LinkedInNodes DEF IInv
    <3> QED BY <3>1, LfqAssumption, FS_Subset, FS_CardinalityType
  <2>5. /\ IsFiniteSet(InChain \cup Unlinked)
        /\ Cardinality(InChain \cup Unlinked) = Cardinality(InChain) + Cardinality(Unlinked)
    <3>1. InChain \cap Unlinked = {}
      BY <2>2
    <3> QED BY <2>1, <2>4, <3>1, DisjointCount
  <2>6. Cardinality((InChain \cup Unlinked) \cup Detached)
        = (Cardinality(InChain) + Cardinality(Unlinked)) + Cardinality(Detached)
    <3>1. (InChain \cup Unlinked) \cap Detached = {}
      BY <2>2, <2>3
    <3>2. Cardinality((InChain \cup Unlinked) \cup Detached)
          = Cardinality(InChain \cup Unlinked) + Cardinality(Detached)
      BY <2>4, <2>5, <3>1, DisjointCount
    <3> QED BY <2>5, <3>2
  <2>7. live = (InChain \cup Unlinked) \cup Detached
    BY DEF IInv, Owned
  <2>8. InChain = {chain[i] : i \in DOMAIN chain}
    BY ChainFacts DEF IInv, InChain
  <2>9. \A c, d \in Consumers : /\ pc[c] \in {"read", "delete"}
                                /\ pc[d] \in {"read", "delete"}
                                /\ old[c] = old[d]
                                => c = d
    BY DEF IInv, OwnOld, Taking
  <2>10. Cardinality(live) = Len(chain) + Cardinality(Unlinked) + Cardinality(Detached)
    BY <2>1, <2>6, <2>7
  <2> QED BY <2>7, <2>8, <2>9, <2>10 DEF Ownership
<1>2. Spec => []IInv
  BY Inductive
<1> QED BY <1>1, <1>2, PTL

-----------------------------------------------------------------------------
(* The list is a FIFO buffer.                                              *)

Results == Values \cup {NoValue}
Todo(p) == IF pc[p] = "swing" THEN left[p] - 1 ELSE left[p]
Got(c) == IF pc[c] = "read" THEN value[succ[c]] ELSE got[c]

LEMMA FunctionIsSeq ==
  ASSUME NEW S, NEW n \in Nat, NEW f \in [1..n -> S]
  PROVE  f \in Seq(S) /\ Len(f) = n
OBVIOUS

LEMMA ItemsAre ==
  ASSUME TypeOK
  PROVE  /\ absItems \in Seq(Results) /\ Len(absItems) = Len(chain) - 1
         /\ \A i \in 1..Len(chain) - 1 : absItems[i] = value[chain[i + 1]]
<1>1. /\ Len(chain) \in Nat /\ Len(chain) - 1 \in Nat
      /\ \A i \in 1..Len(chain) - 1 : i + 1 \in 1..Len(chain)
      /\ \A i \in 1..Len(chain) : chain[i] \in Nodes
  BY ChainFacts
<1>2. \A i \in 1..Len(chain) - 1 : value[chain[i + 1]] \in Results
  BY <1>1 DEF TypeOK, Results
<1>3. absItems \in [1..Len(chain) - 1 -> Results]
  BY <1>2 DEF absItems
<1>4. absItems \in Seq(Results) /\ Len(absItems) = Len(chain) - 1
  BY <1>1, <1>3, FunctionIsSeq
<1>5. \A i \in 1..Len(chain) - 1 : absItems[i] = value[chain[i + 1]]
  BY DEF absItems
<1> QED BY <1>4, <1>5

LEMMA ItemsThen ==
  ASSUME TypeOK'
  PROVE  /\ absItems' \in Seq(Results) /\ Len(absItems') = Len(chain') - 1
         /\ \A i \in 1..Len(chain') - 1 : absItems'[i] = value'[chain'[i + 1]]
<1>1. /\ chain' \in Seq(Nodes) /\ Len(chain') \in Nat /\ Len(chain') >= 1
      /\ \A i \in 1..Len(chain') : chain'[i] \in Nodes
  BY DEF TypeOK
<1>2. /\ Len(chain') - 1 \in Nat
      /\ \A i \in 1..Len(chain') - 1 : i + 1 \in 1..Len(chain')
  BY <1>1
<1>3. \A i \in 1..Len(chain') - 1 : value'[chain'[i + 1]] \in Results
  BY <1>1, <1>2 DEF TypeOK, Results
<1>4. absItems' \in [1..Len(chain') - 1 -> Results]
  BY <1>3 DEF absItems
<1>5. absItems' \in Seq(Results) /\ Len(absItems') = Len(chain') - 1
  BY <1>2, <1>4, FunctionIsSeq
<1>6. \A i \in 1..Len(chain') - 1 : absItems'[i] = value'[chain'[i + 1]]
  BY DEF absItems
<1> QED BY <1>5, <1>6

\* What leaves the list, the calls to come and the results alone is invisible.
LEMMA Invisible ==
  ASSUME UNCHANGED chain,
         \A i \in 1..Len(chain) - 1 : value'[chain[i + 1]] = value[chain[i + 1]],
         \A p \in Producers : Todo(p)' = Todo(p),
         \A c \in Consumers : Got(c)' = Got(c)
  PROVE  UNCHANGED Abs!vars
<1>1. absItems' = absItems
  BY DEF absItems
<1>2. absTodo' = absTodo
  BY DEF absTodo, Todo
<1>3. absGot' = absGot
  BY DEF absGot, Got
<1> QED BY <1>1, <1>2, <1>3 DEF Abs!vars

LEMMA AbsInit == Init => Abs!Init
<1> SUFFICES ASSUME Init PROVE Abs!Init
  OBVIOUS
<1>1. IInv
  BY InitIInv
<1>2. absItems = <<>>
  <2>1. Len(chain) = 1
    BY DEF Init
  <2>2. absItems \in Seq(Results) /\ Len(absItems) = 0
    BY <1>1, <2>1, ItemsAre DEF IInv
  <2> QED BY <2>2, EmptySeq
<1>3. absTodo \in [Producers -> Nat]
  BY LfqAssumption DEF Init, absTodo, Threads
<1>4. absGot = [c \in Abs!Takers |-> NoValue]
  BY DEF Init, absGot, Abs!Takers, Threads
<1> QED BY <1>2, <1>3, <1>4 DEF Abs!Init

\* The compare-and-swap on next puts the value at the end.
LEMMA LinkPuts ==
  ASSUME IInv, TypeOK', NEW p \in Producers, Link(p)
  PROVE  Abs!Put(p)
<1>1. /\ pc[p] = "link" /\ pc' = [pc EXCEPT ![p] = "swing"]
      /\ chain' = Append(chain, node[p])
      /\ UNCHANGED <<value, succ, left, got>>
  BY DEF Link, At, GoTo, locals
<1>2. /\ p \in Threads /\ p \notin Consumers
      /\ \A t \in Threads \ {p} : pc'[t] = pc[t]
      /\ pc'[p] = "swing"
  BY <1>1, LfqAssumption DEF IInv, TypeOK, Threads
<1>3. value[node[p]] = <<p, left[p]>> /\ node[p] \in Nodes /\ left[p] > 0
  BY <1>1, <1>2 DEF IInv, Pushing, Linking, Points, TypeOK
<1>4. /\ chain \in Seq(Nodes) /\ Len(chain) \in Nat /\ Len(chain) >= 1
  BY ChainFacts DEF IInv
<1>5. /\ Len(chain') = Len(chain) + 1 /\ chain'[Len(chain) + 1] = node[p]
      /\ \A i \in 1..Len(chain) : chain'[i] = chain[i]
  BY <1>1, <1>3, <1>4
<1>6. absItems' = Append(absItems, <<p, left[p]>>)
  <2> DEFINE v == <<p, left[p]>>
  <2>1. v \in Results
    BY <1>2 DEF IInv, TypeOK, Results, Values
  <2>2. /\ absItems \in Seq(Results) /\ Len(absItems) = Len(chain) - 1
        /\ \A i \in 1..Len(chain) - 1 : absItems[i] = value[chain[i + 1]]
    BY ItemsAre DEF IInv
  <2>3. /\ absItems' \in Seq(Results) /\ Len(absItems') = Len(chain)
        /\ \A i \in 1..Len(chain) : absItems'[i] = value[chain'[i + 1]]
    BY <1>1, <1>4, <1>5, ItemsThen
  <2>4. value[node[p]] = v
    BY <1>3
  <2> HIDE DEF v
  <2>5. /\ Append(absItems, v) \in Seq(Results) /\ Len(Append(absItems, v)) = Len(chain)
        /\ Append(absItems, v)[Len(chain)] = v
        /\ \A i \in 1..Len(chain) - 1 : Append(absItems, v)[i] = absItems[i]
    BY <1>4, <2>1, <2>2
  <2>6. ASSUME NEW i \in 1..Len(chain) PROVE absItems'[i] = Append(absItems, v)[i]
    <3>1. CASE i = Len(chain)
      BY <1>5, <2>3, <2>4, <2>5, <3>1
    <3>2. CASE i # Len(chain)
      <4>1. i \in 1..Len(chain) - 1 /\ i + 1 \in 1..Len(chain)
        BY <1>4, <3>2
      <4> QED BY <1>5, <2>2, <2>3, <2>5, <4>1
    <3> QED BY <3>1, <3>2
  <2>7. absItems' = Append(absItems, v)
    BY <2>3, <2>5, <2>6, SeqEqual
  <2> QED BY <2>7 DEF v
<1>7. absTodo[p] = left[p] /\ absTodo' = [absTodo EXCEPT ![p] = @ - 1]
  BY <1>1, <1>2 DEF absTodo, Threads
<1>8. absGot' = absGot
  BY <1>1, <1>2 DEF absGot, Threads
<1>9. Len(absItems) < Cardinality(Nodes)
  <2>1. Len(chain) <= Cardinality(Nodes) /\ Len(absItems) = Len(chain) - 1
    BY InChainCount, ItemsAre DEF IInv
  <2>2. Cardinality(Nodes) \in Nat
    BY LfqAssumption, FS_CardinalityType
  <2> QED BY <1>4, <2>1, <2>2
<1> QED BY <1>3, <1>6, <1>7, <1>8, <1>9 DEF Abs!Put

\* The compare-and-swap on head takes the oldest value.
LEMMA TakeGets ==
  ASSUME IInv, TypeOK', NEW c \in Consumers, CasHead(c)
  PROVE  Abs!Get(c)
<1>1. /\ pc[c] = "cas_head" /\ pc' = [pc EXCEPT ![c] = "read"] /\ head = old[c]
      /\ chain' = Tail(chain)
      /\ UNCHANGED <<value, succ, left, got>>
  BY DEF CasHead, At, GoTo, locals
<1>2. /\ c \in Threads /\ c \notin Producers
      /\ \A t \in Threads \ {c} : pc'[t] = pc[t]
      /\ pc'[c] = "read"
  BY <1>1, LfqAssumption DEF IInv, TypeOK, Threads
<1>3. Len(chain) >= 2 /\ succ[c] = chain[2]
  <2>1. succ[c] = next[head] /\ next[head] # Null
    BY <1>1 DEF IInv, Popping
  <2> QED BY <2>1, SecondNode
<1>4. chain \in Seq(Nodes) /\ Len(chain) \in Nat /\ chain # <<>>
  BY ChainFacts DEF IInv, TypeOK
<1>5. Len(chain') = Len(chain) - 1 /\ \A i \in 1..Len(chain) - 1 : chain'[i] = chain[i + 1]
  BY <1>1, <1>4
<1>6. /\ absItems \in Seq(Results) /\ Len(absItems) = Len(chain) - 1
      /\ \A i \in 1..Len(chain) - 1 : absItems[i] = value[chain[i + 1]]
  BY ItemsAre DEF IInv
<1>7. absItems # <<>> /\ Head(absItems) = value[succ[c]]
  <2>1. Len(absItems) # Len(<<>>)
    BY <1>3, <1>4, <1>6
  <2>2. absItems # <<>>
    BY <2>1
  <2>3. Head(absItems) = absItems[1]
    BY <1>6, <2>2
  <2>4. 1 \in 1..Len(chain) - 1
    BY <1>3, <1>4
  <2>5. absItems[1] = value[chain[2]]
    BY <1>6, <2>4
  <2> QED BY <1>3, <2>2, <2>3, <2>5
<1>8. absItems' = Tail(absItems)
  <2>1. /\ absItems' \in Seq(Results) /\ Len(absItems') = Len(chain) - 2
        /\ \A i \in 1..Len(chain) - 2 : absItems'[i] = value[chain'[i + 1]]
    <3>1. /\ absItems' \in Seq(Results) /\ Len(absItems') = Len(chain') - 1
          /\ \A i \in 1..Len(chain') - 1 : absItems'[i] = value'[chain'[i + 1]]
      BY ItemsThen
    <3>2. Len(chain') - 1 = Len(chain) - 2
      BY <1>4, <1>5
    <3> QED BY <1>1, <3>1, <3>2
  <2>2. /\ Tail(absItems) \in Seq(Results) /\ Len(Tail(absItems)) = Len(chain) - 2
        /\ \A i \in 1..Len(chain) - 2 : Tail(absItems)[i] = absItems[i + 1]
    BY <1>3, <1>4, <1>6, <1>7
  <2>3. ASSUME NEW i \in 1..Len(chain) - 2 PROVE absItems'[i] = Tail(absItems)[i]
    <3>1. i + 1 \in 1..Len(chain) - 1
      BY <1>4
    <3> QED BY <1>5, <1>6, <2>1, <2>2, <3>1
  <2> QED BY <2>1, <2>2, <2>3, SeqEqual
<1>9. absGot' = [absGot EXCEPT ![c] = value[succ[c]]]
  BY <1>1, <1>2 DEF absGot, Threads
<1>10. absTodo' = absTodo
  BY <1>1, <1>2 DEF absTodo, Threads
<1> QED BY <1>7, <1>8, <1>9, <1>10 DEF Abs!Get

\* A pop that finds no successor returns false, and the buffer is empty then.
LEMMA EmptyMisses ==
  ASSUME IInv, NEW c \in Consumers, LoadSucc(c), next[old[c]] = Null
  PROVE  Abs!Miss(c)
<1>1. /\ pc[c] = "load_succ" /\ pc' = [pc EXCEPT ![c] = "idle"]
      /\ left' = [left EXCEPT ![c] = left[c] - 1]
      /\ succ' = [succ EXCEPT ![c] = next[old[c]]]
      /\ got' = [got EXCEPT ![c] = NoValue]
      /\ UNCHANGED <<value, chain>>
  BY DEF LoadSucc, At, GoTo, Leave, memory
<1>2. /\ c \in Threads /\ c \notin Producers
      /\ \A t \in Threads \ {c} : pc'[t] = pc[t] /\ succ'[t] = succ[t]
      /\ pc'[c] = "idle"
  BY <1>1, LfqAssumption DEF IInv, TypeOK, Threads
<1>3. \A t \in Threads \ {c} : left'[t] = left[t]
  BY <1>1 DEF IInv, TypeOK
<1>4. absItems = <<>>
  <2>1. head = Last(chain) /\ head = chain[1]
    BY <1>1 DEF IInv, Popping, OneEnd, Shape
  <2>2. Len(chain) = 1
    BY <2>1, ChainFacts DEF IInv, Shape, IsInjective
  <2>3. absItems \in Seq(Results) /\ Len(absItems) = 0
    BY <2>2, ItemsAre DEF IInv
  <2> QED BY <2>3, EmptySeq
<1>5. absItems' = absItems
  BY <1>1 DEF absItems
<1>6. absTodo' = absTodo
  BY <1>2, <1>3 DEF absTodo, Threads
<1>7. absGot' = [absGot EXCEPT ![c] = NoValue]
  <2>1. \A d \in Consumers : got'[d] = IF d = c THEN NoValue ELSE got[d]
    BY <1>1 DEF IInv, TypeOK
  <2>2. \A d \in Consumers : absGot'[d] = IF d = c THEN NoValue ELSE absGot[d]
    BY <1>1, <1>2, <2>1 DEF absGot, Threads
  <2> QED BY <2>2 DEF absGot
<1> QED BY <1>4, <1>5, <1>6, <1>7 DEF Abs!Miss

\* Every step is a step of the buffer or invisible.
LEMMA AbsNext ==
  ASSUME IInv, NoReuse, [Next]_vars, TypeOK'
  PROVE  [Abs!Next]_(Abs!vars)
<1>0. /\ TypeOK /\ Producers \subseteq Threads /\ Consumers \subseteq Threads
      /\ Producers \cap Consumers = {}
  BY LfqAssumption DEF IInv, Threads
<1>1. ASSUME NEW p \in Producers, Push(p), ~Link(p) PROVE UNCHANGED Abs!vars
  <2>1. CASE PushCall(p)
    <3>1. PICK n \in Nodes \ used : value' = [value EXCEPT ![n] = <<p, left[p]>>]
      BY <1>0, <2>1 DEF PushCall, Available, NoReuse, TypeOK
    <3>2. /\ pc' = [pc EXCEPT ![p] = "load_tail"] /\ pc[p] = "idle"
          /\ UNCHANGED <<succ, left, got, chain>>
      BY <2>1 DEF PushCall, GoTo, At
    <3>3. \A m \in used : value'[m] = value[m]
      BY <1>0, <3>1 DEF TypeOK
    <3>4. \A i \in 1..Len(chain) - 1 : chain[i + 1] \in used
      <4>1. \A i \in 1..Len(chain) - 1 : i + 1 \in 1..Len(chain)
        BY <1>0, ChainFacts
      <4> QED BY <4>1 DEF IInv, Shape, Linked
    <3>5. \A q \in Producers : Todo(q)' = Todo(q)
      BY <1>0, <3>2 DEF Todo, TypeOK
    <3>6. \A c \in Consumers : Got(c)' = Got(c)
      <4>1. \A c \in Consumers : pc[c] = "read" => succ[c] \in used
        <5>1. ASSUME NEW c \in Consumers, pc[c] = "read" PROVE succ[c] \in used
          <6>1. old[c] \in Linked /\ succ[c] = next[old[c]] /\ succ[c] # Null
            BY <5>1 DEF IInv, Popping, Taking
          <6> QED BY <6>1 DEF IInv, OneEnd, Linked
        <5> QED BY <5>1
      <4> QED BY <1>0, <3>2, <3>3, <4>1 DEF Got, TypeOK
    <3> QED BY <3>2, <3>3, <3>4, <3>5, <3>6, Invisible
  <2>2. CASE LoadTail(p) \/ LoadNext(p) \/ LinkFails(p) \/ Help(p)
    <3>1. /\ \E point \in Linking : pc' = [pc EXCEPT ![p] = point]
          /\ pc[p] \in Linking
          /\ UNCHANGED <<value, left, got, chain>>
          /\ \A t \in Threads \ {p} : succ'[t] = succ[t]
      BY <1>0, <2>2 DEF LoadTail, LoadNext, LinkFails, Help, At, GoTo, memory, locals,
                        Linking, TypeOK
    <3>2. \A q \in Producers : Todo(q)' = Todo(q)
      BY <1>0, <3>1 DEF Todo, TypeOK, Linking
    <3>3. \A c \in Consumers : Got(c)' = Got(c)
      BY <1>0, <3>1 DEF Got, TypeOK
    <3> QED BY <3>1, <3>2, <3>3, Invisible
  <2>3. CASE Swing(p)
    <3>1. /\ pc' = [pc EXCEPT ![p] = "idle"] /\ pc[p] = "swing"
          /\ left' = [left EXCEPT ![p] = left[p] - 1]
          /\ UNCHANGED <<value, succ, got, chain>>
      BY <2>3 DEF Swing, At, GoTo, Leave, locals
    <3>2. \A q \in Producers : Todo(q)' = Todo(q)
      BY <1>0, <3>1 DEF Todo, TypeOK
    <3>3. \A c \in Consumers : Got(c)' = Got(c)
      BY <1>0, <3>1 DEF Got, TypeOK
    <3> QED BY <3>1, <3>2, <3>3, Invisible
  <2>4. CASE Fault(p)
    BY <2>4, Invisible DEF Fault, memory, locals, Todo, Got
  <2> QED BY <1>1, <2>1, <2>2, <2>3, <2>4 DEF Push
<1>2. ASSUME NEW c \in Consumers, Pop(c), ~CasHead(c),
             ~(LoadSucc(c) /\ next[old[c]] = Null)
      PROVE  UNCHANGED Abs!vars
  <2>1. CASE PopCall(c) \/ LoadHead(c) \/ LoadSucc(c) \/ CasHeadFails(c)
    <3>1. /\ \E point \in {"load_head", "load_succ", "cas_head"} :
               pc' = [pc EXCEPT ![c] = point]
          /\ pc[c] # "read"
          /\ UNCHANGED <<value, left, got, chain>>
          /\ \A t \in Threads \ {c} : succ'[t] = succ[t]
      BY <1>0, <1>2, <2>1 DEF PopCall, LoadHead, LoadSucc, CasHeadFails, At, GoTo, memory,
                              locals, TypeOK
    <3>2. \A p \in Producers : Todo(p)' = Todo(p)
      BY <1>0, <3>1 DEF Todo, TypeOK
    <3>3. \A d \in Consumers : Got(d)' = Got(d)
      BY <1>0, <3>1 DEF Got, TypeOK
    <3> QED BY <3>1, <3>2, <3>3, Invisible
  <2>2. CASE ReadValue(c)
    <3>1. /\ pc' = [pc EXCEPT ![c] = "delete"] /\ pc[c] = "read"
          /\ got' = [got EXCEPT ![c] = value[succ[c]]]
          /\ UNCHANGED <<value, succ, left, chain>>
      BY <2>2 DEF ReadValue, At, GoTo, memory, locals
    <3>2. \A p \in Producers : Todo(p)' = Todo(p)
      BY <1>0, <3>1 DEF Todo, TypeOK
    <3>3. \A d \in Consumers : Got(d)' = Got(d)
      BY <1>0, <3>1 DEF Got, TypeOK
    <3> QED BY <3>1, <3>2, <3>3, Invisible
  <2>3. CASE Delete(c)
    <3>1. /\ pc' = [pc EXCEPT ![c] = "idle"] /\ pc[c] = "delete"
          /\ left' = [left EXCEPT ![c] = left[c] - 1]
          /\ UNCHANGED <<value, succ, got, chain>>
      BY <2>3 DEF Delete, At, GoTo, Leave, locals
    <3>2. \A p \in Producers : Todo(p)' = Todo(p)
      BY <1>0, <3>1 DEF Todo, TypeOK
    <3>3. \A d \in Consumers : Got(d)' = Got(d)
      BY <1>0, <3>1 DEF Got, TypeOK
    <3> QED BY <3>1, <3>2, <3>3, Invisible
  <2>4. CASE Fault(c)
    BY <2>4, Invisible DEF Fault, memory, locals, Todo, Got
  <2> QED BY <1>2, <2>1, <2>2, <2>3, <2>4 DEF Pop
<1>3. ASSUME NEW p \in Producers, Link(p) PROVE Abs!Next
  <2>1. Abs!Put(p)
    BY <1>3, LinkPuts
  <2> QED BY <2>1 DEF Abs!Next
<1>4. ASSUME NEW c \in Consumers, CasHead(c) PROVE Abs!Next
  <2>1. Abs!Get(c)
    BY <1>4, TakeGets
  <2> QED BY <2>1 DEF Abs!Next, Abs!Takers
<1>5. ASSUME NEW c \in Consumers, LoadSucc(c), next[old[c]] = Null PROVE Abs!Next
  <2>1. Abs!Miss(c)
    BY <1>5, EmptyMisses
  <2> QED BY <2>1 DEF Abs!Next, Abs!Takers
<1>6. CASE UNCHANGED vars
  BY <1>6, Invisible DEF vars, memory, locals, Todo, Got
<1> QED BY <1>1, <1>2, <1>3, <1>4, <1>5, <1>6 DEF Next

\* Up to a fault every value pushed is popped once, in order, and a pop comes back
\* with nothing only from an empty queue, if no address comes back.
THEOREM Refinement == NoReuse => (Spec => ImplementsFifo)
<1> SUFFICES ASSUME NoReuse PROVE Spec => ImplementsFifo
  OBVIOUS
<1>1. Init => Abs!Init
  BY AbsInit
<1>2. IInv /\ [Next]_vars /\ TypeOK' => [Abs!Next]_(Abs!vars)
  BY AbsNext
<1>3. Spec => []IInv /\ []TypeOK
  BY Inductive
<1> QED BY <1>1, <1>2, <1>3, PTL DEF Spec, ImplementsFifo, Abs!Spec

-----------------------------------------------------------------------------
(* One producer and one consumer, whether or not addresses come back.      *)

Solo == OneOrNone(Busy(Producers)) /\ OneOrNone(Busy(Consumers)) /\ failures = 0

\* No thread has more calls left than it was given: whoever is in a call is busy.
Budget == \A t \in Threads : left[t] <= setup.calls[t]

\* The list, all of whose nodes are live.
SoloList ==
  /\ head = chain[1]
  /\ \A i \in 1..Len(chain) - 1 : next[chain[i]] = chain[i + 1]
  /\ next[Last(chain)] = Null
  /\ IsInjective(chain)
  /\ \A i \in 1..Len(chain) : chain[i] \in live

\* Not in the list, and not at its end.
Outside(n) == n \in live /\ \A i \in 1..Len(chain) : chain[i] # n

\* Only the push moves the end of the list, so it never has to help; tail lags
\* only while it is about to swing.
SoloPush(p) ==
  /\ pc[p] # "help"
  /\ pc[p] \in Linking => Outside(node[p]) /\ next[node[p]] = Null
  /\ pc[p] \in {"load_next", "link"} => old[p] = Last(chain)
  /\ pc[p] = "swing" => /\ tail = old[p] /\ node[p] = Last(chain)
                        /\ next[old[p]] = node[p]
SoloTail == (\A p \in Producers : pc[p] # "swing") => tail = Last(chain)

\* Only the pop moves the beginning; what it has taken is nobody else's.
SoloPop(c) ==
  /\ pc[c] \in {"load_succ", "cas_head"} => old[c] = head
  /\ pc[c] = "cas_head" => succ[c] = next[head] /\ succ[c] # Null
  /\ pc[c] = "read" => succ[c] = head
  /\ pc[c] \in Taking => /\ Outside(old[c])
                         /\ \A p \in Producers : pc[p] \in Linking => node[p] # old[c]

SoloInv == /\ TypeOK /\ Points /\ Budget /\ SoloList /\ SoloTail /\ ~fault
           /\ \A p \in Producers : SoloPush(p)
           /\ \A c \in Consumers : SoloPop(c)

\* Who has calls left is the only one of its kind that has.
LEMMA SoloThread ==
  ASSUME SoloInv, Solo
  PROVE  /\ \A p, q \in Producers : left[p] > 0 /\ pc[q] # "idle" => p = q
         /\ \A c, d \in Consumers : left[c] > 0 /\ pc[d] # "idle" => c = d
<1>1. left \in [Threads -> Nat] /\ setup.calls \in [Threads -> Nat]
  BY LfqAssumption DEF SoloInv, TypeOK
<1>2. ASSUME NEW t \in Threads, left[t] > 0 PROVE setup.calls[t] > 0
  <2>1. left[t] \in Nat /\ setup.calls[t] \in Nat /\ left[t] <= setup.calls[t]
    BY <1>1 DEF SoloInv, Budget
  <2> QED BY <1>2, <2>1
<1>3. \A t \in Threads : pc[t] # "idle" => left[t] > 0
  BY DEF SoloInv, Points
<1> QED BY <1>2, <1>3 DEF Solo, OneOrNone, Busy, Threads

LEMMA StepBudget ==
  ASSUME TypeOK, Budget, Next
  PROVE  Budget'
<1>1. left \in [Threads -> Nat] /\ setup.calls \in [Threads -> Nat]
  BY LfqAssumption DEF TypeOK
<1>2. setup' = setup /\ (left' = left \/ \E t \in Threads : left' = [left EXCEPT ![t] = @ - 1])
  <2>1. ASSUME NEW p \in Producers, Push(p)
        PROVE  setup' = setup /\ (left' = left \/ left' = [left EXCEPT ![p] = @ - 1])
    BY <2>1, Zenon DEF Push, PushCall, LoadTail, LoadNext, Link, LinkFails, Help, Swing, Fault,
                       Leave
  <2>2. ASSUME NEW c \in Consumers, Pop(c)
        PROVE  setup' = setup /\ (left' = left \/ left' = [left EXCEPT ![c] = @ - 1])
    BY <2>2, Zenon DEF Pop, PopCall, LoadHead, LoadSucc, CasHead, CasHeadFails, ReadValue,
                       Delete, Fault, Leave
  <2> QED BY <2>1, <2>2 DEF Next, Threads
<1>3. ASSUME NEW t \in Threads PROVE left'[t] <= left[t]
  BY <1>1, <1>2
<1>4. ASSUME NEW t \in Threads PROVE left'[t] \in Int /\ left[t] \in Nat
  BY <1>1, <1>2
<1>5. ASSUME NEW t \in Threads PROVE left'[t] <= setup.calls[t]
  <2>1. setup.calls[t] \in Nat /\ left[t] <= setup.calls[t]
    BY <1>1 DEF Budget
  <2> QED BY <2>1, <1>3, <1>4
<1> QED BY <1>2, <1>5 DEF Budget

LEMMA InitSolo == Init => SoloInv
<1> SUFFICES ASSUME Init PROVE SoloInv
  OBVIOUS
<1>1. TypeOK /\ Points /\ Shape /\ Owned /\ tail = Last(chain)
  <2>1. IInv
    BY InitIInv
  <2>2. chain = <<Dummy>> /\ tail = Dummy
    BY DEF Init
  <2> QED BY <2>1, <2>2 DEF IInv, Last
<1>2. \A t \in Threads : pc[t] = "idle"
  BY DEF Init
<1>3. Budget
  <2>1. left = setup.calls /\ left \in [Threads -> Nat]
    BY <1>1 DEF Init, TypeOK
  <2> QED BY <2>1 DEF Budget
<1>4. SoloList
  BY <1>1 DEF Shape, SoloList, Owned, InChain
<1>5. \A p \in Producers : SoloPush(p)
  BY <1>2 DEF SoloPush, Threads, Linking
<1>6. \A c \in Consumers : SoloPop(c)
  BY <1>2 DEF SoloPop, Threads, Taking
<1>7. ~fault
  BY DEF Init
<1> QED BY <1>1, <1>3, <1>4, <1>5, <1>6, <1>7 DEF SoloInv, SoloTail

\* What a step has to keep beside the types, the points and the calls.
SoloRest == /\ SoloList /\ SoloTail /\ ~fault
            /\ \A p \in Producers : SoloPush(p)
            /\ \A c \in Consumers : SoloPop(c)

LEMMA SoloChain ==
  ASSUME SoloInv
  PROVE  /\ Len(chain) \in Nat \ {0} /\ chain \in Seq(Nodes)
         /\ Last(chain) = chain[Len(chain)] /\ Last(chain) \in live
         /\ head = chain[1] /\ head \in live
         /\ live \subseteq Nodes
<1>1. TypeOK
  BY DEF SoloInv
<1>2. /\ chain \in Seq(Nodes) /\ Len(chain) \in Nat /\ Len(chain) >= 1
      /\ Last(chain) = chain[Len(chain)]
  BY <1>1, ChainFacts
<1> QED BY <1>1, <1>2 DEF SoloInv, SoloList, TypeOK

\* A push that moves on without touching the list.
LEMMA SoloPushMoves ==
  ASSUME SoloInv, Solo, NEW p \in Producers, left[p] > 0,
         UNCHANGED <<head, tail, next, live, fault, node, chain>>,
         \A t \in Threads \ {p} : pc'[t] = pc[t] /\ old'[t] = old[t] /\ succ'[t] = succ[t],
         pc[p] # "swing", pc'[p] \notin {"swing", "help"},
         pc'[p] \in Linking => pc[p] \in Linking,
         pc'[p] \in {"load_next", "link"} => old'[p] = Last(chain)
  PROVE  SoloRest'
<1>1. /\ \A q \in Producers \ {p} : pc[q] = "idle"
      /\ \A q \in Producers \ {p} : pc'[q] = "idle"
  BY SoloThread DEF Threads
<1>2. SoloList' /\ ~fault'
  BY DEF SoloInv, SoloList
<1>3. SoloTail'
  BY <1>1 DEF SoloInv, SoloTail
<1>4. ASSUME NEW q \in Producers PROVE SoloPush(q)'
  <2>1. CASE q = p
    <3>1. pc'[p] \in Linking => Outside(node[p])' /\ next'[node'[p]] = Null
      BY DEF SoloInv, SoloPush, Outside
    <3> QED BY <2>1, <3>1 DEF SoloPush
  <2>2. CASE q # p
    BY <1>1, <2>2 DEF SoloPush, Linking
  <2> QED BY <2>1, <2>2
<1>5. ASSUME NEW c \in Consumers PROVE SoloPop(c)'
  <2>1. pc'[c] = pc[c] /\ old'[c] = old[c] /\ succ'[c] = succ[c]
    BY LfqAssumption DEF Threads
  <2>2. \A q \in Producers : pc'[q] \in Linking => pc[q] \in Linking
    BY <1>1 DEF Linking
  <2> QED BY <2>1, <2>2 DEF SoloInv, SoloPop, Outside
<1> QED BY <1>2, <1>3, <1>4, <1>5 DEF SoloRest

LEMMA SoloPushCall ==
  ASSUME SoloInv, Solo, NEW p \in Producers, PushCall(p)
  PROVE  SoloRest'
<1>1. PICK n \in Available : /\ live' = live \cup {n}
                             /\ next' = [next EXCEPT ![n] = Null]
                             /\ node' = [node EXCEPT ![p] = n]
  BY DEF PushCall
<1>2. /\ pc[p] = "idle" /\ left[p] > 0 /\ ~fault
      /\ pc' = [pc EXCEPT ![p] = "load_tail"]
      /\ UNCHANGED <<head, tail, fault, old, succ, chain>>
  BY DEF PushCall, At, GoTo
<1>t. TypeOK
  BY DEF SoloInv
<1>3. n \in Nodes /\ n \notin live
  BY <1>t DEF Available, TypeOK
<1>4. /\ pc'[p] = "load_tail" /\ node'[p] = n /\ next'[n] = Null
      /\ \A t \in Threads \ {p} : pc'[t] = pc[t]
      /\ \A q \in Producers \ {p} : node'[q] = node[q]
      /\ \A m \in live : next'[m] = next[m]
  BY <1>1, <1>2, <1>3, <1>t DEF TypeOK, Threads
<1>5. \A q \in Producers \ {p} : pc[q] = "idle" /\ pc'[q] = "idle"
  BY <1>2, <1>4, SoloThread DEF Threads
<1>6. \A i \in 1..Len(chain) : chain[i] \in live
  BY DEF SoloInv, SoloList
<1>7. SoloList'
  <2>1. \A i \in 1..Len(chain) - 1 : next'[chain[i]] = chain[i + 1]
    <3> SUFFICES ASSUME NEW i \in 1..Len(chain) - 1 PROVE next'[chain[i]] = chain[i + 1]
      OBVIOUS
    <3>1. i \in 1..Len(chain)
      BY SoloChain
    <3> QED BY <3>1, <1>4, <1>6 DEF SoloInv, SoloList
  <2>2. next'[Last(chain)] = Null
    BY <1>4, SoloChain DEF SoloInv, SoloList
  <2> QED BY <1>1, <1>2, <1>6, <2>1, <2>2 DEF SoloInv, SoloList
<1>8. SoloTail'
  BY <1>2, <1>5 DEF SoloInv, SoloTail
<1>9. ASSUME NEW q \in Producers PROVE SoloPush(q)'
  <2>1. CASE q = p
    <3>1. Outside(node[p])'
      BY <1>1, <1>2, <1>3, <1>4, <1>6 DEF Outside
    <3> QED BY <2>1, <3>1, <1>4 DEF SoloPush
  <2>2. CASE q # p
    BY <1>5, <2>2 DEF SoloPush, Linking
  <2> QED BY <2>1, <2>2
<1>10. ASSUME NEW c \in Consumers PROVE SoloPop(c)'
  <2>1. pc'[c] = pc[c] /\ old'[c] = old[c] /\ succ'[c] = succ[c]
    BY <1>2, <1>4, LfqAssumption DEF Threads
  <2>2. \A q \in Producers : pc'[q] \in Linking => q = p
    BY <1>5 DEF Linking
  <2>3. SoloPop(c)
    BY DEF SoloInv
  <2>4. pc[c] = "cas_head" => next'[head] = next[head]
    BY <1>4, SoloChain
  <2>5. pc[c] \in Taking => Outside(old[c])' /\ old[c] # n
    BY <1>1, <1>2, <1>3, <2>3 DEF SoloPop, Outside
  <2> QED BY <1>2, <1>4, <2>1, <2>2, <2>3, <2>4, <2>5 DEF SoloPop
<1> QED BY <1>2, <1>7, <1>8, <1>9, <1>10 DEF SoloRest

\* The push takes effect: its node becomes the last of the list.
LEMMA SoloLink ==
  ASSUME SoloInv, Solo, NEW p \in Producers, Link(p)
  PROVE  SoloRest'
<1>t. TypeOK /\ Points /\ SoloPush(p) /\ SoloList
  BY DEF SoloInv
<1>1. /\ pc[p] = "link" /\ ~fault
      /\ next' = [next EXCEPT ![old[p]] = node[p]]
      /\ chain' = Append(chain, node[p])
      /\ pc' = [pc EXCEPT ![p] = "swing"]
      /\ UNCHANGED <<head, tail, live, fault, old, succ, node>>
  BY Zenon DEF Link, At, GoTo, locals
<1>2. /\ old[p] = Last(chain) /\ Outside(node[p]) /\ next[node[p]] = Null
  BY <1>1, <1>t DEF SoloPush, Linking
<1>3. left[p] > 0
  BY <1>1, <1>t DEF Points, Threads
<1>4. \A q \in Producers \ {p} : pc[q] = "idle"
  BY <1>3, SoloThread
<1>5. /\ node[p] \in live /\ node[p] \in Nodes /\ Last(chain) \in Nodes
      /\ Len(chain) \in Nat \ {0} /\ chain \in Seq(Nodes)
      /\ Last(chain) = chain[Len(chain)] /\ head = chain[1]
      /\ \A i \in 1..Len(chain) : chain[i] \in live /\ chain[i] # node[p]
  BY <1>2, <1>t, SoloChain DEF Outside, SoloList
<1>6. /\ chain' \in Seq(Nodes) /\ Len(chain') = Len(chain) + 1
      /\ \A i \in 1..Len(chain) : chain'[i] = chain[i]
      /\ chain'[Len(chain) + 1] = node[p]
  BY <1>1, <1>5, AppendProperties
<1>7. /\ next'[Last(chain)] = node[p]
      /\ \A m \in Nodes \ {Last(chain)} : next'[m] = next[m]
  BY <1>1, <1>2, <1>5, <1>t DEF TypeOK
<1>8. IsInjective(chain)
  BY <1>t DEF SoloList
<1>9. Last(chain') = node[p]
  BY <1>6, <1>5 DEF Last
<1>10. \A i \in 1..Len(chain) - 1 : chain[i] # Last(chain) /\ chain[i] \in Nodes
  <2> SUFFICES ASSUME NEW i \in 1..Len(chain) - 1
               PROVE  chain[i] # Last(chain) /\ chain[i] \in Nodes
    OBVIOUS
  <2>1. i \in 1..Len(chain) /\ i # Len(chain) /\ Len(chain) \in 1..Len(chain)
        /\ DOMAIN chain = 1..Len(chain)
    BY <1>5
  <2>2. chain[i] # chain[Len(chain)]
    BY <2>1, <1>8 DEF IsInjective
  <2>3. chain[i] \in live /\ live \subseteq Nodes
    BY <2>1, <1>5, SoloChain
  <2> QED BY <1>5, <2>2, <2>3
<1>11. SoloList'
  <2>1. head' = chain'[1]
    <3>1. 1 \in 1..Len(chain)
      BY <1>5
    <3> QED BY <3>1, <1>1, <1>5, <1>6
  <2>2. ASSUME NEW i \in 1..Len(chain') - 1 PROVE next'[chain'[i]] = chain'[i + 1]
    <3>1. i \in 1..Len(chain)
      BY <1>5, <1>6
    <3>2. CASE i = Len(chain)
      BY <3>1, <3>2, <1>5, <1>6, <1>7
    <3>3. CASE i # Len(chain)
      <4>1. i \in 1..Len(chain) - 1 /\ i + 1 \in 1..Len(chain)
        BY <3>1, <3>3, <1>5
      <4>2. next[chain[i]] = chain[i + 1]
        BY <4>1, <1>t DEF SoloList
      <4>3. next'[chain[i]] = next[chain[i]]
        BY <4>1, <1>7, <1>10
      <4> QED BY <3>1, <4>1, <4>2, <4>3, <1>6
    <3> QED BY <3>2, <3>3
  <2>3. next'[Last(chain')] = Null
    <3>1. node[p] # Last(chain)
      BY <1>5
    <3> QED BY <1>2, <1>5, <1>7, <1>9, <3>1
  <2>4. ASSUME NEW i \in 1..Len(chain') PROVE chain'[i] \in live'
    <3>1. i \in 1..Len(chain) \/ i = Len(chain) + 1
      BY <1>5, <1>6
    <3> QED BY <3>1, <1>1, <1>5, <1>6
  <2>5. IsInjective(chain')
    <3> SUFFICES ASSUME NEW i \in 1..Len(chain'), NEW j \in 1..Len(chain'),
                        chain'[i] = chain'[j]
                 PROVE  i = j
      BY <1>6 DEF IsInjective
    <3>1. /\ i \in 1..Len(chain) \/ i = Len(chain) + 1
          /\ j \in 1..Len(chain) \/ j = Len(chain) + 1
      BY <1>5, <1>6
    <3>2. CASE i \in 1..Len(chain) /\ j \in 1..Len(chain)
      <4>1. chain[i] = chain[j] /\ DOMAIN chain = 1..Len(chain)
        BY <3>2, <1>5, <1>6
      <4> QED BY <3>2, <4>1, <1>8 DEF IsInjective
    <3>3. CASE i = Len(chain) + 1 /\ j \in 1..Len(chain)
      BY <3>3, <1>5, <1>6
    <3>4. CASE j = Len(chain) + 1 /\ i \in 1..Len(chain)
      BY <3>4, <1>5, <1>6
    <3> QED BY <3>1, <3>2, <3>3, <3>4
  <2> QED BY <2>1, <2>2, <2>3, <2>4, <2>5 DEF SoloList
<1>12. /\ pc'[p] = "swing" /\ \A t \in Threads \ {p} : pc'[t] = pc[t]
  BY <1>1, <1>t DEF TypeOK, Threads
<1>13. SoloTail'
  BY <1>12 DEF SoloTail
<1>14. ASSUME NEW q \in Producers PROVE SoloPush(q)'
  <2>1. CASE q = p
    <3>1. tail = Last(chain)
      <4>1. \A r \in Producers : pc[r] # "swing"
        BY <1>1, <1>4
      <4> QED BY <4>1 DEF SoloInv, SoloTail
    <3> QED BY <2>1, <3>1, <1>1, <1>2, <1>7, <1>9, <1>12 DEF SoloPush, Linking
  <2>2. CASE q # p
    BY <1>4, <1>12, <2>2 DEF SoloPush, Linking, Threads
  <2> QED BY <2>1, <2>2
<1>15. ASSUME NEW c \in Consumers PROVE SoloPop(c)'
  <2>1. pc'[c] = pc[c] /\ old'[c] = old[c] /\ succ'[c] = succ[c]
    BY <1>1, <1>12, LfqAssumption DEF Threads
  <2>2. \A q \in Producers : pc'[q] \notin Linking
    BY <1>4, <1>12 DEF Linking, Threads
  <2>3. SoloPop(c)
    BY DEF SoloInv
  <2>4. pc[c] = "cas_head" => next'[head] = next[head]
    <3>1. pc[c] = "cas_head" => next[head] # Null
      BY <2>3 DEF SoloPop
    <3>2. pc[c] = "cas_head" => head # Last(chain)
      BY <3>1, <1>t DEF SoloList
    <3>3. head \in Nodes
      BY <1>t DEF TypeOK
    <3> QED BY <3>2, <3>3, <1>7
  <2>5. ASSUME pc[c] \in Taking PROVE Outside(old[c])'
    <3>1. Outside(old[c]) /\ node[p] # old[c]
      BY <2>3, <2>5, <1>1 DEF SoloPop, Linking
    <3>2. ASSUME NEW i \in 1..Len(chain') PROVE chain'[i] # old[c]
      <4>1. i \in 1..Len(chain) \/ i = Len(chain) + 1
        BY <1>5, <1>6
      <4> QED BY <3>1, <4>1, <1>6 DEF Outside
    <3> QED BY <3>1, <3>2, <1>1, <2>1 DEF Outside
  <2> QED BY <1>1, <2>1, <2>2, <2>3, <2>4, <2>5 DEF SoloPop
<1> QED BY <1>1, <1>11, <1>13, <1>14, <1>15 DEF SoloRest

\* The push leaves: nobody else has moved tail, so it moves to the end.
LEMMA SoloSwing ==
  ASSUME SoloInv, Solo, Solo', NEW p \in Producers, Swing(p)
  PROVE  SoloRest'
<1>t. TypeOK /\ Points /\ SoloPush(p) /\ SoloList
  BY DEF SoloInv
<1>1. /\ pc[p] = "swing" /\ ~fault /\ MoveTail(p, node[p])
      /\ pc' = [pc EXCEPT ![p] = "idle"]
      /\ UNCHANGED <<head, next, live, fault, old, succ, node, chain>>
  BY Zenon DEF Swing, At, Leave, GoTo, locals
<1>2. tail = old[p] /\ node[p] = Last(chain)
  BY <1>1, <1>t DEF SoloPush
<1>3. ~FailsSpuriously
  <2>1. failures = 0 /\ failures' = 0
    BY DEF Solo
  <2> QED BY <2>1 DEF FailsSpuriously
<1>4. tail' = Last(chain)
  BY <1>1, <1>2, <1>3 DEF MoveTail
<1>5. left[p] > 0
  BY <1>1, <1>t DEF Points, Threads
<1>6. /\ pc'[p] = "idle" /\ \A t \in Threads \ {p} : pc'[t] = pc[t]
      /\ \A q \in Producers \ {p} : pc[q] = "idle"
  BY <1>1, <1>5, <1>t, SoloThread DEF TypeOK, Threads
<1>7. SoloList'
  BY <1>1, <1>t DEF SoloList
<1>8. SoloTail'
  BY <1>1, <1>4 DEF SoloTail
<1>9. ASSUME NEW q \in Producers PROVE SoloPush(q)'
  <2>1. pc'[q] = "idle"
    BY <1>6 DEF Threads
  <2> QED BY <2>1 DEF SoloPush, Linking
<1>10. ASSUME NEW c \in Consumers PROVE SoloPop(c)'
  <2>1. pc'[c] = pc[c] /\ old'[c] = old[c] /\ succ'[c] = succ[c]
    BY <1>1, <1>6, LfqAssumption DEF Threads
  <2>2. \A q \in Producers : pc'[q] \notin Linking
    BY <1>6 DEF Linking, Threads
  <2> QED BY <1>1, <2>1, <2>2 DEF SoloInv, SoloPop, Outside
<1> QED BY <1>1, <1>7, <1>8, <1>9, <1>10 DEF SoloRest

\* A pop that moves on without touching the list, or deletes what it has taken.
LEMMA SoloPopMoves ==
  ASSUME SoloInv, Solo, NEW c \in Consumers, left[c] > 0,
         UNCHANGED <<head, tail, next, fault, node, chain>>,
         live' = live \/ (pc[c] \in Taking /\ pc'[c] \notin Taking /\ live' = live \ {old[c]}),
         \A t \in Threads \ {c} : pc'[t] = pc[t] /\ old'[t] = old[t] /\ succ'[t] = succ[t],
         SoloPop(c)'
  PROVE  SoloRest'
<1>1. \A d \in Consumers \ {c} : pc[d] = "idle" /\ pc'[d] = "idle"
  BY SoloThread DEF Threads
<1>2. \A p \in Producers : pc'[p] = pc[p] /\ old'[p] = old[p]
  BY LfqAssumption DEF Threads
<1>3. ASSUME NEW n \in live, live' # live => n # old[c] PROVE n \in live'
  BY <1>3
<1>4. SoloList'
  <2>1. ASSUME NEW i \in 1..Len(chain) PROVE chain[i] \in live'
    <3>1. chain[i] \in live
      BY DEF SoloInv, SoloList
    <3>2. live' # live => chain[i] # old[c]
      BY DEF SoloInv, SoloPop, Outside
    <3> QED BY <3>1, <3>2, <1>3
  <2> QED BY <2>1 DEF SoloInv, SoloList
<1>5. SoloTail' /\ ~fault'
  BY <1>2 DEF SoloInv, SoloTail
<1>6. ASSUME NEW p \in Producers PROVE SoloPush(p)'
  <2>1. pc[p] \in Linking => Outside(node[p])'
    <3>1. pc[p] \in Linking => Outside(node[p])
      BY DEF SoloInv, SoloPush
    <3>2. pc[p] \in Linking /\ live' # live => node[p] # old[c]
      BY DEF SoloInv, SoloPop
    <3> QED BY <3>1, <3>2, <1>3 DEF Outside
  <2> QED BY <2>1, <1>2 DEF SoloInv, SoloPush
<1>7. ASSUME NEW d \in Consumers PROVE SoloPop(d)'
  <2>1. CASE d = c
    BY <2>1
  <2>2. CASE d # c
    BY <1>1, <2>2 DEF SoloPop, Taking
  <2> QED BY <2>1, <2>2
<1> QED BY <1>4, <1>5, <1>6, <1>7 DEF SoloRest

\* The pop takes effect: the first node leaves the list.
LEMMA SoloCasHead ==
  ASSUME SoloInv, Solo, NEW c \in Consumers, CasHead(c)
  PROVE  SoloRest'
<1>t. TypeOK /\ Points /\ SoloPop(c) /\ SoloList
  BY DEF SoloInv
<1>1. /\ pc[c] = "cas_head" /\ ~fault /\ head = old[c]
      /\ head' = succ[c] /\ chain' = Tail(chain)
      /\ pc' = [pc EXCEPT ![c] = "read"]
      /\ UNCHANGED <<tail, next, live, fault, old, succ, node>>
  BY Zenon DEF CasHead, At, GoTo, locals
<1>2. succ[c] = next[head] /\ succ[c] # Null
  BY <1>1, <1>t DEF SoloPop
<1>3. left[c] > 0
  BY <1>1, <1>t DEF Points, Threads
<1>4. /\ pc'[c] = "read" /\ \A t \in Threads \ {c} : pc'[t] = pc[t]
      /\ \A d \in Consumers \ {c} : pc[d] = "idle"
  BY <1>1, <1>3, <1>t, SoloThread DEF TypeOK, Threads
<1>5. /\ Len(chain) \in Nat /\ Len(chain) >= 2 /\ chain \in Seq(Nodes)
      /\ Last(chain) = chain[Len(chain)] /\ head = chain[1] /\ next[head] = chain[2]
      /\ DOMAIN chain = 1..Len(chain) /\ head \in live
  <2>1. /\ Len(chain) \in Nat \ {0} /\ chain \in Seq(Nodes) /\ head = chain[1]
        /\ Last(chain) = chain[Len(chain)] /\ next[Last(chain)] = Null /\ head \in live
    BY <1>t, SoloChain DEF SoloList
  <2>2. Len(chain) # 1
    BY <2>1, <1>2
  <2>3. \A n \in Nat \ {0} : n # 1 => n >= 2 /\ 1 \in 1..n - 1
    OBVIOUS
  <2>4. Len(chain) >= 2 /\ 1 \in 1..Len(chain) - 1
    BY <2>1, <2>2, <2>3
  <2>5. next[chain[1]] = chain[2]
    BY <2>4, <1>t DEF SoloList
  <2>6. DOMAIN chain = 1..Len(chain)
    BY <2>1
  <2> QED BY <2>1, <2>4, <2>5, <2>6
<1>6. /\ Len(chain') = Len(chain) - 1 /\ chain' \in Seq(Nodes)
      /\ \A i \in 1..Len(chain) - 1 : chain'[i] = chain[i + 1]
  <2>1. chain # <<>> /\ chain \in Seq(Nodes) /\ chain' = Tail(chain)
    BY <1>1, <1>5
  <2> QED BY <2>1
<1>7. Last(chain') = Last(chain)
  <2>1. Len(chain) - 1 \in 1..Len(chain) - 1 /\ Len(chain) - 1 + 1 = Len(chain)
    BY <1>5
  <2>2. chain'[Len(chain) - 1] = chain[Len(chain) - 1 + 1]
    BY <2>1, <1>6
  <2>3. Last(chain') = chain'[Len(chain) - 1]
    BY <1>6 DEF Last
  <2> QED BY <2>1, <2>2, <2>3, <1>5
<1>8. IsInjective(chain) /\ \A i \in 1..Len(chain) : chain[i] \in live
  BY <1>t DEF SoloList
<1>9. ASSUME NEW i \in 1..Len(chain') PROVE chain'[i] # head /\ chain'[i] \in live
  <2>1. i + 1 \in 1..Len(chain) /\ 1 \in 1..Len(chain) /\ i + 1 # 1
        /\ chain'[i] = chain[i + 1]
    BY <1>5, <1>6
  <2>2. chain[i + 1] # chain[1]
    BY <2>1, <1>5, <1>8 DEF IsInjective
  <2> QED BY <2>1, <2>2, <1>5, <1>8
<1>10. SoloList'
  <2>1. head' = chain'[1]
    BY <1>1, <1>2, <1>5, <1>6
  <2>2. ASSUME NEW i \in 1..Len(chain') - 1 PROVE next'[chain'[i]] = chain'[i + 1]
    <3>1. /\ i \in 1..Len(chain) - 1 /\ i + 1 \in 1..Len(chain) - 1
      BY <1>5, <1>6
    <3>2. chain'[i] = chain[i + 1] /\ chain'[i + 1] = chain[i + 1 + 1]
      BY <3>1, <1>6
    <3>3. next[chain[i + 1]] = chain[i + 1 + 1]
      BY <3>1, <1>t DEF SoloList
    <3> QED BY <3>2, <3>3, <1>1
  <2>3. next'[Last(chain')] = Null
    BY <1>1, <1>7, <1>t DEF SoloList
  <2>4. IsInjective(chain')
    <3> SUFFICES ASSUME NEW i \in 1..Len(chain'), NEW j \in 1..Len(chain'),
                        chain'[i] = chain'[j]
                 PROVE  i = j
      BY <1>6 DEF IsInjective
    <3>1. /\ i \in 1..Len(chain) - 1 /\ j \in 1..Len(chain) - 1
          /\ i + 1 \in 1..Len(chain) /\ j + 1 \in 1..Len(chain)
      BY <1>5, <1>6
    <3>2. chain[i + 1] = chain[j + 1]
      BY <3>1, <1>6
    <3>3. i + 1 = j + 1
      BY <3>1, <3>2, <1>5, <1>8 DEF IsInjective
    <3> QED BY <3>1, <3>3
  <2>5. \A i \in 1..Len(chain') : chain'[i] \in live'
    BY <1>1, <1>9
  <2> QED BY <2>1, <2>2, <2>3, <2>4, <2>5 DEF SoloList
<1>11. \A p \in Producers : pc'[p] = pc[p]
  BY <1>4, LfqAssumption DEF Threads
<1>12. SoloTail'
  BY <1>1, <1>7, <1>11 DEF SoloInv, SoloTail
<1>13. ASSUME NEW p \in Producers PROVE SoloPush(p)'
  <2>1. SoloPush(p)
    BY DEF SoloInv
  <2>2. ASSUME Outside(node[p]) PROVE Outside(node[p])'
    <3>1. ASSUME NEW i \in 1..Len(chain') PROVE chain'[i] # node[p]
      <4>1. i + 1 \in 1..Len(chain) /\ chain'[i] = chain[i + 1]
        BY <1>5, <1>6
      <4> QED BY <4>1, <2>2 DEF Outside
    <3> QED BY <3>1, <2>2, <1>1 DEF Outside
  <2> QED BY <2>1, <2>2, <1>1, <1>7, <1>11 DEF SoloPush
<1>14. ASSUME NEW d \in Consumers PROVE SoloPop(d)'
  <2>1. CASE d = c
    <3>1. Outside(old[c])'
      BY <1>1, <1>5, <1>9 DEF Outside
    <3>2. ASSUME NEW p \in Producers, pc[p] \in Linking PROVE node[p] # old[c]
      <4>1. Outside(node[p]) /\ 1 \in 1..Len(chain)
        BY <3>2, <1>5 DEF SoloInv, SoloPush
      <4> QED BY <4>1, <1>1, <1>5 DEF Outside
    <3> QED BY <2>1, <3>1, <3>2, <1>1, <1>4, <1>11 DEF SoloPop
  <2>2. CASE d # c
    BY <1>4, <2>2 DEF SoloPop, Taking, Threads
  <2> QED BY <2>1, <2>2
<1> QED BY <1>1, <1>10, <1>12, <1>13, <1>14 DEF SoloRest

\* None of the steps of a run with two busy threads helps, fails or faults.
LEMMA SoloPushStep ==
  ASSUME SoloInv, Solo, Solo', NEW p \in Producers, Push(p)
  PROVE  SoloRest'
<1>t. TypeOK /\ Points /\ SoloPush(p)
  BY DEF SoloInv
<1>1. ~FailsSpuriously
  <2>1. failures = 0 /\ failures' = 0
    BY DEF Solo
  <2> QED BY <2>1 DEF FailsSpuriously
<1>2. p \in Threads /\ (pc[p] # "idle" => left[p] > 0)
  BY <1>t DEF Points, Threads
<1>3. Last(chain) \in live /\ next[Last(chain)] = Null
  BY SoloChain DEF SoloInv, SoloList
<1>4. CASE LoadTail(p)
  <2>1. /\ pc[p] = "load_tail" /\ pc' = [pc EXCEPT ![p] = "load_next"]
        /\ old' = [old EXCEPT ![p] = tail]
        /\ UNCHANGED <<head, tail, next, live, fault, succ, node, chain>>
    BY <1>4, Zenon DEF LoadTail, At, GoTo, memory
  <2>2. /\ pc'[p] = "load_next" /\ old'[p] = tail
        /\ \A t \in Threads \ {p} : pc'[t] = pc[t] /\ old'[t] = old[t] /\ succ'[t] = succ[t]
    BY <2>1, <1>t, <1>2 DEF TypeOK
  <2>3. tail = Last(chain)
    <3>1. \A q \in Producers : pc[q] # "swing"
      BY <2>1, <1>2, SoloThread
    <3> QED BY <3>1 DEF SoloInv, SoloTail
  <2> QED BY <1>2, <2>1, <2>2, <2>3, SoloPushMoves DEF Linking
<1>5. CASE LoadNext(p)
  <2>1. /\ pc[p] = "load_next" /\ succ' = [succ EXCEPT ![p] = next[old[p]]]
        /\ pc' = [pc EXCEPT ![p] = IF next[old[p]] = Null THEN "link" ELSE "help"]
        /\ UNCHANGED <<head, tail, next, live, fault, old, node, chain>>
    BY <1>5, Zenon DEF LoadNext, At, GoTo, memory
  <2>2. old[p] = Last(chain)
    BY <2>1, <1>t DEF SoloPush
  <2>3. /\ pc'[p] = "link"
        /\ \A t \in Threads \ {p} : pc'[t] = pc[t] /\ old'[t] = old[t] /\ succ'[t] = succ[t]
    BY <2>1, <2>2, <1>t, <1>2, <1>3 DEF TypeOK
  <2> QED BY <1>2, <2>1, <2>2, <2>3, SoloPushMoves DEF Linking
<1>6. ~LinkFails(p)
  <2>1. LinkFails(p) => pc[p] = "link" /\ next[old[p]] # Null
    BY <1>1, Zenon DEF LinkFails, At
  <2> QED BY <2>1, <1>t, <1>3 DEF SoloPush
<1>7. ~Help(p)
  <2>1. Help(p) => pc[p] = "help"
    BY Zenon DEF Help, At
  <2> QED BY <2>1, <1>t DEF SoloPush
<1>8. ~Fault(p)
  <2>1. Fault(p) => /\ pc[p] \in {"load_next", "link", "load_succ", "read", "delete"}
                    /\ Touched(p) \notin live
    BY DEF Fault
  <2>2. pc[p] \notin {"load_succ", "read", "delete"}
    BY <1>t DEF Points, Linking
  <2>3. pc[p] \in {"load_next", "link"} => Touched(p) = Last(chain)
    BY <1>t DEF SoloPush, Touched
  <2> QED BY <2>1, <2>2, <2>3, <1>3
<1> QED BY <1>4, <1>5, <1>6, <1>7, <1>8, SoloPushCall, SoloLink, SoloSwing DEF Push

LEMMA SoloPopStep ==
  ASSUME SoloInv, Solo, Solo', NEW c \in Consumers, Pop(c)
  PROVE  SoloRest'
<1>t. TypeOK /\ Points /\ SoloPop(c) /\ SoloList
  BY DEF SoloInv
<1>1. ~FailsSpuriously
  <2>1. failures = 0 /\ failures' = 0
    BY DEF Solo
  <2> QED BY <2>1 DEF FailsSpuriously
<1>2. c \in Threads /\ (pc[c] # "idle" => left[c] > 0)
  BY <1>t DEF Points, Threads
<1>3. ASSUME NEW q, pc' = [pc EXCEPT ![c] = q]
      PROVE  pc'[c] = q /\ \A t \in Threads \ {c} : pc'[t] = pc[t]
  BY <1>3, <1>t, <1>2 DEF TypeOK
<1>4. \A p \in Producers : p # c /\ p \in Threads
  BY LfqAssumption DEF Threads
<1>5. CASE PopCall(c)
  <2>1. /\ left[c] > 0 /\ pc' = [pc EXCEPT ![c] = "load_head"]
        /\ UNCHANGED <<head, tail, next, live, fault, old, succ, node, chain>>
    BY <1>5, Zenon DEF PopCall, At, GoTo, memory, locals
  <2>2. pc'[c] = "load_head" /\ \A t \in Threads \ {c} : pc'[t] = pc[t]
    BY <2>1, <1>3
  <2>3. SoloPop(c)'
    BY <2>2 DEF SoloPop, Taking
  <2> QED BY <2>1, <2>2, <2>3, SoloPopMoves
<1>6. CASE LoadHead(c)
  <2>1. /\ pc[c] = "load_head" /\ pc' = [pc EXCEPT ![c] = "load_succ"]
        /\ old' = [old EXCEPT ![c] = head]
        /\ UNCHANGED <<head, tail, next, live, fault, succ, node, chain>>
    BY <1>6, Zenon DEF LoadHead, At, GoTo, memory
  <2>2. /\ pc'[c] = "load_succ" /\ \A t \in Threads \ {c} : pc'[t] = pc[t]
    BY <2>1, <1>3
  <2>3. old'[c] = head /\ \A t \in Threads \ {c} : old'[t] = old[t]
    BY <2>1, <1>t, <1>2 DEF TypeOK
  <2>4. SoloPop(c)'
    BY <2>1, <2>2, <2>3 DEF SoloPop, Taking
  <2> QED BY <1>2, <2>1, <2>2, <2>3, <2>4, SoloPopMoves
<1>7. CASE LoadSucc(c)
  <2>1. /\ pc[c] = "load_succ" /\ succ' = [succ EXCEPT ![c] = next[old[c]]]
        /\ pc' = [pc EXCEPT ![c] = "idle"] \/ pc' = [pc EXCEPT ![c] = "cas_head"]
        /\ next[old[c]] = Null => pc' = [pc EXCEPT ![c] = "idle"]
        /\ UNCHANGED <<head, tail, next, live, fault, old, node, chain>>
    BY <1>7, Zenon DEF LoadSucc, At, GoTo, Leave, memory
  <2>2. /\ pc'[c] \in {"idle", "cas_head"} /\ \A t \in Threads \ {c} : pc'[t] = pc[t]
        /\ next[old[c]] = Null => pc'[c] = "idle"
    BY <2>1, <1>3
  <2>3. succ'[c] = next[old[c]] /\ \A t \in Threads \ {c} : succ'[t] = succ[t]
    BY <2>1, <1>t, <1>2 DEF TypeOK
  <2>4. old[c] = head
    BY <2>1, <1>t DEF SoloPop
  <2>5. SoloPop(c)'
    BY <2>1, <2>2, <2>3, <2>4 DEF SoloPop, Taking
  <2> QED BY <1>2, <2>1, <2>2, <2>3, <2>5, SoloPopMoves
<1>8. ~CasHeadFails(c)
  <2>1. CasHeadFails(c) => pc[c] = "cas_head" /\ head # old[c]
    BY <1>1, Zenon DEF CasHeadFails, At
  <2> QED BY <2>1, <1>t DEF SoloPop
<1>9. CASE ReadValue(c)
  <2>1. /\ pc[c] = "read" /\ pc' = [pc EXCEPT ![c] = "delete"]
        /\ UNCHANGED <<head, tail, next, live, fault, old, succ, node, chain>>
    BY <1>9, Zenon DEF ReadValue, At, GoTo, memory, locals
  <2>2. pc'[c] = "delete" /\ \A t \in Threads \ {c} : pc'[t] = pc[t]
    BY <2>1, <1>3
  <2>3. SoloPop(c)'
    BY <2>1, <2>2, <1>t, <1>4 DEF SoloPop, Taking, Outside
  <2> QED BY <1>2, <2>1, <2>2, <2>3, SoloPopMoves
<1>10. CASE Delete(c)
  <2>1. /\ pc[c] = "delete" /\ pc' = [pc EXCEPT ![c] = "idle"] /\ live' = live \ {old[c]}
        /\ UNCHANGED <<head, tail, next, fault, old, succ, node, chain>>
    BY <1>10, Zenon DEF Delete, At, Leave, GoTo, locals
  <2>2. pc'[c] = "idle" /\ \A t \in Threads \ {c} : pc'[t] = pc[t]
    BY <2>1, <1>3
  <2>3. SoloPop(c)'
    BY <2>2 DEF SoloPop, Taking
  <2>4. pc[c] \in Taking /\ pc'[c] \notin Taking
    BY <2>1, <2>2 DEF Taking
  <2> QED BY <1>2, <2>1, <2>2, <2>3, <2>4, SoloPopMoves
<1>11. ~Fault(c)
  <2>1. Fault(c) => /\ pc[c] \in {"load_next", "link", "load_succ", "read", "delete"}
                    /\ Touched(c) \notin live
    BY DEF Fault
  <2>2. pc[c] \notin {"load_next", "link"}
    BY <1>t DEF Points, Taking
  <2>3. pc[c] \in {"load_succ", "read"} => Touched(c) = head
    BY <1>t DEF SoloPop, Touched
  <2>4. pc[c] = "delete" => Touched(c) \in live
    BY <1>t DEF SoloPop, Touched, Taking, Outside
  <2>5. head \in live
    BY SoloChain
  <2> QED BY <2>1, <2>2, <2>3, <2>4, <2>5
<1> QED BY <1>5, <1>6, <1>7, <1>8, <1>9, <1>10, <1>11, SoloCasHead DEF Pop

LEMMA SoloReady ==
  ASSUME SoloInv
  PROVE  Ready
<1>1. ASSUME NEW p \in Producers, pc[p] \in {"link", "swing"}
      PROVE  node[p] \in Nodes
  <2>1. Outside(node[p]) \/ node[p] = Last(chain)
    BY <1>1 DEF SoloInv, SoloPush, Linking
  <2> QED BY <2>1, SoloChain DEF Outside
<1>2. \A p \in Producers : pc[p] # "help"
  BY DEF SoloInv, SoloPush
<1>3. ASSUME NEW c \in Consumers, pc[c] = "cas_head"
      PROVE  succ[c] \in Nodes /\ (head = old[c] => Len(chain) >= 2)
  <2>1. succ[c] = next[head] /\ succ[c] # Null
    BY <1>3 DEF SoloInv, SoloPop
  <2>2. succ[c] \in Nodes
    BY <2>1 DEF SoloInv, TypeOK, Threads
  <2>3. Len(chain) # 1
    BY <2>1, SoloChain DEF SoloInv, SoloList
  <2>4. \A n \in Nat \ {0} : n # 1 => n >= 2
    OBVIOUS
  <2> QED BY <2>2, <2>3, <2>4, SoloChain
<1> QED BY <1>1, <1>2, <1>3 DEF Ready

\* failures only grows and the calls are those of the setup: who is solo was so.
LEMMA SoloBefore ==
  ASSUME failures \in Nat, [Next]_vars
  PROVE  failures' \in Nat /\ (Solo' => Solo)
<1>1. setup' = setup /\ (failures' = failures \/ FailsSpuriously)
  <2>1. ASSUME NEW p \in Producers, Push(p)
        PROVE  setup' = setup /\ (failures' = failures \/ FailsSpuriously)
    BY <2>1, Zenon DEF Push, PushCall, LoadTail, LoadNext, Link, LinkFails, Help, Swing, Fault,
                       MoveTail
  <2>2. ASSUME NEW c \in Consumers, Pop(c)
        PROVE  setup' = setup /\ (failures' = failures \/ FailsSpuriously)
    BY <2>2, Zenon DEF Pop, PopCall, LoadHead, LoadSucc, CasHead, CasHeadFails, ReadValue,
                       Delete, Fault
  <2>3. CASE UNCHANGED vars
    BY <2>3 DEF vars
  <2> QED BY <2>1, <2>2, <2>3 DEF Next
<1>2. failures' \in Nat /\ (failures' = 0 => failures = 0)
  BY <1>1 DEF FailsSpuriously
<1> QED BY <1>1, <1>2 DEF Solo, OneOrNone, Busy

LEMMA NextSolo ==
  ASSUME SoloInv, Solo, Solo', [Next]_vars
  PROVE  SoloInv'
<1>1. CASE Next
  <2>1. TypeOK' /\ Points' /\ Budget'
    BY <1>1, SoloReady, StepType, StepPoints, StepBudget DEF SoloInv
  <2>2. SoloRest'
    BY <1>1, SoloPushStep, SoloPopStep DEF Next
  <2> QED BY <2>1, <2>2 DEF SoloInv, SoloRest
<1>2. CASE UNCHANGED vars
  <2>1. UNCHANGED <<head, tail, next, value, live, used, fault, pc, old, succ, node, left,
                    got, chain, setup, failures>>
    BY <1>2 DEF vars, memory, locals
  <2>2. TypeOK' /\ Points' /\ Budget'
    BY <2>1 DEF SoloInv, TypeOK, Points, Budget
  <2>3. SoloList' /\ SoloTail'
    BY <2>1 DEF SoloInv, SoloList, SoloTail
  <2>4. (\A p \in Producers : SoloPush(p)') /\ (\A c \in Consumers : SoloPop(c)')
    BY <2>1 DEF SoloInv, SoloPush, SoloPop, Outside
  <2> QED BY <2>1, <2>2, <2>3, <2>4 DEF SoloInv
<1> QED BY <1>1, <1>2

\* The invariant holds for as long as the run is solo.
THEOREM SoloInductive == Spec => [](Solo => SoloInv)
<1>1. Init => failures \in Nat /\ (Solo => SoloInv)
  BY InitSolo DEF Init
<1>2. failures \in Nat /\ (Solo => SoloInv) /\ [Next]_vars
      => (failures \in Nat /\ (Solo => SoloInv))'
  BY SoloBefore, NextSolo
<1> QED BY <1>1, <1>2, PTL DEF Spec

\* A run that is solo keeps its types and the shape of its list even if addresses
\* come back.
THEOREM SoloShape == Spec => [](Solo => TypeOK /\ ListShape)
<1>1. ASSUME SoloInv PROVE TypeOK /\ ListShape
  <2>1. TypeOK /\ SoloList /\ DOMAIN chain = 1..Len(chain)
    BY <1>1, ChainFacts DEF SoloInv
  <2>2. tail = Last(chain) \/ next[tail] = Last(chain)
    BY <1>1 DEF SoloInv, SoloTail, SoloPush
  <2>3. \A i, j \in DOMAIN chain : chain[i] = chain[j] => i = j
    BY <2>1 DEF SoloList, IsInjective
  <2> QED BY <2>1, <2>2, <2>3 DEF ListShape, SoloList
<1> QED BY <1>1, SoloInductive, PTL

\* One producer and one consumer, without spurious failures, touch nothing that
\* is deleted, whether or not the allocator returns addresses again.
THEOREM SoloNeverFaults == Spec => []SoloSafe
<1>1. (Solo => SoloInv) => SoloSafe
  BY DEF Solo, SoloInv, SoloSafe
<1> QED BY <1>1, SoloInductive, PTL
=============================================================================
