------------------------ MODULE WebSocketChatProofs -------------------------
(***************************************************************************)
(* Theorems about WebSocketChat for every set of peers, however many       *)
(* frames they send, however TCP cuts them and whoever closes.  IInv, the  *)
(* conjunction of the named parts below, is inductive.                     *)
(***************************************************************************)
EXTENDS WebSocketChat, SequenceLemmas, FiniteSetTheorems

\* The thread that broadcasts is the one that holds clients_mutex.
MutexHeld == \A c \in Peers : mutex = c <=> At(c, "write")

\* A connection is listed at most once, and only while its thread is between
\* push_back and the erase.
ListedOnce == \A i, j \in DOMAIN clients : clients[i] = clients[j] => i = j
ListedThreads ==
  \A i \in DOMAIN clients : pc[clients[i]] \in {"count", "read", "lock", "write", "leave"}

CountedPoints == {"read", "lock", "write", "leave", "uncount"}
Counted == {c \in Peers : pc[c] \in CountedPoints}
CountRight == client_count = Cardinality(Counted)

\* The holder of the mutex broadcasts the last frame of the order, and its index
\* is in the list or just behind it.
Broadcasting ==
  mutex # Free => /\ target <= Len(clients) + 1
                  /\ order # <<>>
                  /\ frame[mutex] = order[Len(order)]

\* Nothing was written to a connection that was not in the list yet.
Fresh == \A c \in Peers : pc[c] \in {"handshake", "register"} => written[c] = <<>>

\* What was written to a client is a stretch of the order from its joining on.
Seen(c) == joined[c] + Len(written[c])
Stretch ==
  \A c \in Peers : /\ Seen(c) <= Len(order)
                   /\ \A i \in 1..Len(written[c]) : written[c][i] = order[joined[c] + i]

\* The listed clients before target have all of it, those behind lack the frame
\* that is being broadcast.
UpToDate ==
  \A i \in DOMAIN clients :
    Seen(clients[i]) = IF mutex = Free \/ i < target THEN Len(order) ELSE Len(order) - 1

IInv == /\ TypeOK /\ MutexHeld /\ ListedOnce /\ ListedThreads /\ CountRight
        /\ Broadcasting /\ Fresh /\ Stretch /\ UpToDate

-----------------------------------------------------------------------------
\* A peer taken off the list stands on it no more, and nobody else is lost.
LEMMA Removal ==
  ASSUME TypeOK, ListedOnce, NEW k \in 1..Len(clients), clients' = RemoveAt(clients, k)
  PROVE  /\ clients' \in Seq(Peers)
         /\ Len(clients') = Len(clients) - 1
         /\ \A i \in 1..Len(clients') : clients'[i] = IF i < k THEN clients[i] ELSE clients[i + 1]
         /\ ListedOnce'
         /\ \A i \in DOMAIN clients' : /\ clients'[i] # clients[k]
                                       /\ \E j \in DOMAIN clients : clients'[i] = clients[j]
<1>0. clients \in Seq(Peers)
  BY DEF TypeOK
<1>1. /\ clients' \in Seq(Peers)
      /\ Len(clients') = Len(clients) - 1
      /\ \A i \in 1..Len(clients') : clients'[i] = IF i < k THEN clients[i] ELSE clients[i + 1]
  <2>1. clients' \in Seq(Peers)
    BY <1>0, RemoveAtEffect
  <2>2. Len(clients') = Len(clients) - 1
    BY <1>0, RemoveAtEffect
  <2>3. \A i \in 1..Len(clients') : clients'[i] = IF i < k THEN clients[i] ELSE clients[i + 1]
    BY <1>0, RemoveAtEffect
  <2> QED BY <2>1, <2>2, <2>3
<1>2. DOMAIN clients = 1..Len(clients) /\ DOMAIN clients' = 1..Len(clients')
      /\ Len(clients) \in Nat
  BY <1>0, <1>1
<1> DEFINE from(i) == IF i < k THEN i ELSE i + 1
<1>3. \A i \in DOMAIN clients' : /\ from(i) \in DOMAIN clients /\ from(i) # k
                                 /\ clients'[i] = clients[from(i)]
  BY <1>1, <1>2
<1>4. \A i, j \in DOMAIN clients' : from(i) = from(j) => i = j
  BY <1>2
<1> HIDE DEF from
<1>5. ListedOnce' /\ \A i \in DOMAIN clients' :
                         /\ clients'[i] # clients[k]
                         /\ \E j \in DOMAIN clients : clients'[i] = clients[j]
  BY <1>2, <1>3, <1>4 DEF ListedOnce
<1> QED BY <1>1, <1>5

\* Taking the frame of a peer out of what one read_some returned gives a payload.
LEMMA DecodedType ==
  ASSUME NEW s \in Seq(Parts), NEW n \in 1..Len(s)
  PROVE  Decoded(SubSeq(s, 1, n)) \in Payloads
<1>1. /\ SubSeq(s, 1, n) \in Seq(Parts) /\ Len(SubSeq(s, 1, n)) = n
      /\ SubSeq(s, 1, n)[1] = s[1]
  BY SubSeqProperties
<1>2. s[1] \in Parts
  OBVIOUS
<1> QED BY <1>1, <1>2 DEF Decoded, Parts, Payloads

LEMMA InitIInv == Init => IInv
<1> SUFFICES ASSUME Init PROVE IInv
  OBVIOUS
<1> USE ChatAssumption DEF Init
<1>1. TypeOK
  <2>1. mutex \in Peers \cup {Free} /\ client_count \in Nat /\ target \in Nat \ {0}
    OBVIOUS
  <2>2. clients \in Seq(Peers) /\ order \in Seq(Payloads)
    OBVIOUS
  <2>3. 0 \in 0..MaxSplits
    OBVIOUS
  <2>4. wire \in [Peers -> Seq(Parts)]
    OBVIOUS
  <2>5. inbox \in [Peers -> Seq(Payloads)] /\ written \in [Peers -> Seq(Payloads)]
    OBVIOUS
  <2>6. frame \in [Peers -> Payloads]
    BY DEF Payloads
  <2> QED BY <2>1, <2>2, <2>3, <2>4, <2>5, <2>6 DEF TypeOK
<1>2. MutexHeld /\ ListedOnce /\ ListedThreads /\ Broadcasting /\ Fresh /\ UpToDate
  BY DEF MutexHeld, ListedOnce, ListedThreads, Broadcasting, Fresh, UpToDate, At
<1>3. CountRight
  <2>1. Counted = {}
    BY DEF Counted, CountedPoints
  <2> QED BY <2>1, FS_EmptySet DEF CountRight
<1>4. Stretch
  BY DEF Stretch, Seen
<1> QED BY <1>1, <1>2, <1>3, <1>4 DEF IInv

\* What a step does when it leaves the conversation alone: a thread moves on
\* between points of the same kind, or a peer does something.
LEMMA QuietStep ==
  ASSUME IInv, TypeOK',
         UNCHANGED <<mutex, clients, client_count, order, joined, written, target>>,
         \A c \in Peers :
           \/ pc'[c] = pc[c]
           \/ pc[c] = "handshake" /\ pc'[c] \in {"register", "gone"}
           \/ pc[c] = "read" /\ pc'[c] \in {"lock", "leave"},
         \A c \in Peers : frame'[c] = frame[c] \/ ~At(c, "write")
  PROVE  IInv'
<1> USE DEF IInv, TypeOK
<1>1. MutexHeld' /\ ListedOnce'
  BY DEF MutexHeld, ListedOnce, At
<1>2. ListedThreads'
  <2>1. \A i \in DOMAIN clients : clients[i] \in Peers
    OBVIOUS
  <2> QED BY <2>1 DEF ListedThreads
<1>3. CountRight'
  <2>1. Counted' = Counted
    BY DEF Counted, CountedPoints
  <2> QED BY <2>1 DEF CountRight
<1>4. Broadcasting'
  BY DEF Broadcasting, MutexHeld
<1>5. Fresh' /\ Stretch' /\ UpToDate'
  BY DEF Fresh, Stretch, UpToDate, Seen
<1> QED BY <1>1, <1>2, <1>3, <1>4, <1>5

\* The steps of the peers and of the threads outside the list and the mutex.
LEMMA OutsideStep ==
  ASSUME IInv, NEW c \in Peers, Lasts,
         Handshake(c) \/ Read(c) \/ ReadThrows(c) \/ ReadEnd(c)
           \/ Send(c) \/ Receive(c) \/ Close(c)
  PROVE  IInv'
<1> USE DEF IInv, TypeOK, Lasts
<1>1. CASE Handshake(c)
  <2>1. TypeOK'
    BY <1>1 DEF Handshake, GoTo, peer, histories
  <2> QED BY <1>1, <2>1, QuietStep DEF Handshake, At, GoTo, peer, histories
<1>2. CASE Read(c)
  <2>1. PICK n \in 1..Len(wire[c]) :
          /\ wire' = [wire EXCEPT ![c] = SubSeq(@, n + 1, Len(@))]
          /\ frame' = [frame EXCEPT ![c] = Decoded(SubSeq(wire[c], 1, n))]
          /\ misread' = [misread EXCEPT ![c] = @ \/ ~IsOneFrame(SubSeq(wire[c], 1, n))]
    BY <1>2 DEF Read
  <2>2. wire' \in [Peers -> Seq(Parts)]
    <3>1. wire[c] \in Seq(Parts) /\ n + 1 \in Int /\ Len(wire[c]) \in Int
      OBVIOUS
    <3>2. SubSeq(wire[c], n + 1, Len(wire[c])) \in Seq(Parts)
      BY <3>1, SubSeqProperties
    <3> QED BY <2>1, <3>2
  <2>3. frame' \in [Peers -> Payloads]
    BY <2>1, DecodedType
  <2>4. misread' \in [Peers -> BOOLEAN]
    BY <2>1
  <2>5. TypeOK'
    BY <1>2, <2>2, <2>3, <2>4 DEF Read, GoTo
  <2>6. \A d \in Peers : frame'[d] = frame[d] \/ ~At(d, "write")
    BY <1>2, <2>1 DEF Read, At
  <2> QED BY <1>2, <2>5, <2>6, QuietStep DEF Read, At, GoTo
<1>3. CASE ReadThrows(c)
  <2>1. wire' \in [Peers -> Seq(Parts)]
    BY <1>3 DEF ReadThrows
  <2>2. TypeOK'
    BY <1>3, <2>1 DEF ReadThrows, GoTo
  <2> QED BY <1>3, <2>2, QuietStep DEF ReadThrows, At, GoTo
<1>4. CASE ReadEnd(c)
  <2>1. TypeOK'
    BY <1>4 DEF ReadEnd, GoTo, peer, histories
  <2> QED BY <1>4, <2>1, QuietStep DEF ReadEnd, At, GoTo, peer, histories
<1>5. CASE Send(c)
  <2>1. said' = [said EXCEPT ![c] = @ + 1] /\ said'[c] = said[c] + 1 /\ said[c] \in Nat
    BY <1>5 DEF Send
  <2>2. Whole(<<c, said'[c]>>) \in Parts /\ FirstPart(<<c, said'[c]>>) \in Parts
        /\ SecondPart(<<c, said'[c]>>) \in Parts
    BY <2>1 DEF Whole, FirstPart, SecondPart, Parts, Frames
  <2>3. wire' \in [Peers -> Seq(Parts)] /\ splits' \in 0..MaxSplits
    <3>1. CASE wire' = [wire EXCEPT ![c] = Append(@, Whole(<<c, said'[c]>>))]
               /\ UNCHANGED splits
      BY <2>2, <3>1
    <3>2. CASE splits < MaxSplits /\ splits' = splits + 1
               /\ wire' = [wire EXCEPT ![c] =
                             @ \o <<FirstPart(<<c, said'[c]>>), SecondPart(<<c, said'[c]>>)>>]
      <4>1. <<FirstPart(<<c, said'[c]>>), SecondPart(<<c, said'[c]>>)>> \in Seq(Parts)
        BY <2>2
      <4>2. wire[c] \o <<FirstPart(<<c, said'[c]>>), SecondPart(<<c, said'[c]>>)>> \in Seq(Parts)
        BY <4>1, ConcatProperties
      <4> QED BY <3>2, <4>2, ChatAssumption
    <3> QED BY <1>5, <3>1, <3>2 DEF Send
  <2>4. said' \in [Peers -> Nat]
    BY <2>1
  <2>5. UNCHANGED <<mutex, clients, client_count, pc, frame, target, inbox, open,
                    order, joined, written, misread>>
    BY <1>5 DEF Send, histories
  <2>6. TypeOK'
    BY <2>3, <2>4, <2>5
  <2> QED BY <2>5, <2>6, QuietStep
<1>6. CASE Receive(c)
  <2>1. inbox' \in [Peers -> Seq(Payloads)]
    BY <1>6 DEF Receive
  <2>2. TypeOK'
    BY <1>6, <2>1 DEF Receive, histories
  <2> QED BY <1>6, <2>2, QuietStep DEF Receive, histories
<1>7. CASE Close(c)
  <2>1. inbox' \in [Peers -> Seq(Payloads)] /\ open' \in [Peers -> BOOLEAN]
    BY <1>7 DEF Close
  <2>2. UNCHANGED <<mutex, clients, client_count, pc, frame, target, wire, said, splits,
                    order, joined, written, misread>>
    BY <1>7 DEF Close, histories
  <2>3. TypeOK'
    BY <2>1, <2>2
  <2> QED BY <2>2, <2>3, QuietStep
<1> QED BY <1>1, <1>2, <1>3, <1>4, <1>5, <1>6, <1>7

\* What the steps below keep because they touch neither the sockets' contents nor
\* the frames.
LEMMA PeersKept ==
  ASSUME TypeOK, Lasts, clients' \in Seq(Peers), client_count' \in Nat,
         mutex' \in Peers \cup {Free}, target' \in Nat \ {0},
         inbox' \in [Peers -> Seq(Payloads)], order' \in Seq(Payloads),
         joined' \in [Peers -> Nat], written' \in [Peers -> Seq(Payloads)],
         UNCHANGED <<frame, wire, open, said, splits, misread>>,
         \/ UNCHANGED pc
         \/ \E c \in Peers, q \in {"handshake", "register", "count", "read", "lock",
                                   "write", "leave", "uncount", "gone"} : GoTo(c, q)
  PROVE  TypeOK'
BY DEF TypeOK, GoTo, Lasts

\* push_back under the mutex, when no broadcast is under way.
LEMMA RegisterStep ==
  ASSUME IInv, NEW c \in Peers, Lasts, Register(c)
  PROVE  IInv'
<1> USE ChatAssumption DEF IInv
<1>0. /\ pc[c] = "register" /\ mutex = Free
      /\ clients' = Append(clients, c)
      /\ joined' = [joined EXCEPT ![c] = Len(order)]
      /\ pc' = [pc EXCEPT ![c] = "count"]
      /\ UNCHANGED <<mutex, client_count, frame, target, wire, inbox, open, said, splits,
                     order, written, misread>>
  BY DEF Register, At, GoTo, peer
<1>1. TypeOK'
  <2>1. clients' \in Seq(Peers) /\ joined' \in [Peers -> Nat]
    BY <1>0 DEF TypeOK
  <2> QED BY <1>0, <2>1, PeersKept DEF TypeOK, GoTo
<1>2. /\ clients \in Seq(Peers) /\ Len(clients) \in Nat
      /\ DOMAIN clients = 1..Len(clients)
      /\ DOMAIN clients' = 1..Len(clients) + 1
      /\ clients'[Len(clients) + 1] = c
      /\ \A i \in DOMAIN clients : clients'[i] = clients[i] /\ clients[i] \in Peers
                                   /\ clients[i] # c
  <2>1. \A i \in DOMAIN clients : clients[i] # c
    BY <1>0 DEF ListedThreads
  <2>2. clients \in Seq(Peers)
    BY DEF TypeOK
  <2>3. /\ DOMAIN clients = 1..Len(clients) /\ Len(clients) \in Nat
        /\ \A i \in DOMAIN clients : clients[i] \in Peers
    BY <2>2
  <2>4. /\ DOMAIN clients' = 1..Len(clients) + 1
        /\ clients'[Len(clients) + 1] = c
        /\ \A i \in DOMAIN clients : clients'[i] = clients[i]
    BY <1>0, <2>2
  <2> QED BY <2>1, <2>2, <2>3, <2>4
<1>3. MutexHeld'
  BY <1>0 DEF MutexHeld, At, TypeOK
<1>4. ListedOnce'
  BY <1>2 DEF ListedOnce
<1>5. ListedThreads'
  BY <1>0, <1>2 DEF ListedThreads, TypeOK
<1>6. CountRight'
  <2>1. Counted' = Counted
    BY <1>0 DEF Counted, CountedPoints, TypeOK
  <2> QED BY <1>0, <2>1 DEF CountRight
<1>7. Broadcasting'
  BY <1>0 DEF Broadcasting
<1>8. Fresh'
  BY <1>0 DEF Fresh, TypeOK
<1>9. written[c] = <<>> /\ Len(written[c]) = 0 /\ Seen(c)' = Len(order)
  BY <1>0 DEF Fresh, Seen, TypeOK
<1>10. \A d \in Peers \ {c} : joined'[d] = joined[d] /\ Seen(d)' = Seen(d)
  BY <1>0 DEF Seen, TypeOK
<1>11. Stretch'
  <2>1. UNCHANGED <<order, written>> /\ Len(order) \in Nat
    BY <1>0 DEF TypeOK
  <2>2. ASSUME NEW d \in Peers, d # c
        PROVE  /\ Seen(d)' <= Len(order')
               /\ \A i \in 1..Len(written'[d]) : written'[d][i] = order'[joined'[d] + i]
    BY <1>10, <2>1, <2>2 DEF Stretch
  <2>3. Seen(c)' <= Len(order')
    BY <1>9, <2>1
  <2>4. \A i \in 1..Len(written'[c]) : written'[c][i] = order'[joined'[c] + i]
    BY <1>9, <2>1
  <2> QED BY <2>2, <2>3, <2>4 DEF Stretch
<1>12. UpToDate'
  BY <1>0, <1>2, <1>9, <1>10 DEF UpToDate
<1> QED BY <1>1, <1>3, <1>4, <1>5, <1>6, <1>7, <1>8, <1>11, <1>12

\* The counter follows the thread.
LEMMA CountStep ==
  ASSUME IInv, NEW c \in Peers, Lasts, Count(c) \/ Uncount(c)
  PROVE  IInv'
<1> USE ChatAssumption DEF IInv
<1>0. /\ pc[c] \in {"count", "uncount"}
      /\ pc' = [pc EXCEPT ![c] = IF pc[c] = "count" THEN "read" ELSE "gone"]
      /\ client_count' = IF pc[c] = "count" THEN client_count + 1 ELSE client_count - 1
      /\ UNCHANGED <<mutex, clients, frame, target, wire, inbox, open, said, splits,
                     order, joined, written, misread>>
  BY DEF Count, Uncount, At, GoTo, peer, histories
<1>1. IsFiniteSet(Counted) /\ Cardinality(Counted) \in Nat
  <2>1. Counted \subseteq Peers /\ IsFiniteSet(Peers)
    BY DEF Counted
  <2> QED BY <2>1, FS_Subset, FS_CardinalityType
<1>2. CountRight' /\ client_count' \in Nat
  <2>1. CASE pc[c] = "count"
    <3>1. Counted' = Counted \cup {c} /\ c \notin Counted
      BY <1>0, <2>1 DEF Counted, CountedPoints, TypeOK
    <3>2. Cardinality(Counted') = Cardinality(Counted) + 1
      BY <1>1, <3>1, FS_AddElement
    <3> QED BY <1>0, <1>1, <2>1, <3>2 DEF CountRight
  <2>2. CASE pc[c] = "uncount"
    <3>1. Counted' = Counted \ {c} /\ c \in Counted
      BY <1>0, <2>2 DEF Counted, CountedPoints, TypeOK
    <3>2. Cardinality(Counted') = Cardinality(Counted) - 1 /\ Cardinality(Counted') \in Nat
      BY <1>1, <3>1, FS_RemoveElement, FS_CardinalityType
    <3> QED BY <1>0, <1>1, <2>2, <3>2 DEF CountRight
  <2> QED BY <1>0, <2>1, <2>2
<1>3. TypeOK'
  BY <1>0, <1>2, PeersKept DEF TypeOK, GoTo
<1>4. MutexHeld'
  BY <1>0 DEF MutexHeld, At, TypeOK
<1>5. ListedOnce' /\ ListedThreads'
  <2>0. clients \in Seq(Peers)
    BY DEF TypeOK
  <2>1. \A i \in DOMAIN clients : clients[i] \in Peers /\ pc[clients[i]] # "uncount"
    BY <2>0 DEF ListedThreads
  <2> QED BY <1>0, <2>1 DEF ListedOnce, ListedThreads, TypeOK
<1>6. Broadcasting' /\ Fresh' /\ Stretch' /\ UpToDate'
  BY <1>0 DEF Broadcasting, Fresh, Stretch, UpToDate, Seen, TypeOK
<1> QED BY <1>2, <1>3, <1>4, <1>5, <1>6

\* The erase at the end of the thread, when no broadcast is under way.
LEMMA LeaveStep ==
  ASSUME IInv, NEW c \in Peers, Lasts, Leave(c)
  PROVE  IInv'
<1> USE ChatAssumption DEF IInv
<1>0. /\ pc[c] = "leave" /\ mutex = Free
      /\ clients' = RemoveFirst(clients, c)
      /\ pc' = [pc EXCEPT ![c] = "uncount"]
      /\ UNCHANGED <<mutex, client_count, frame, target, wire, inbox, open, said, splits,
                     order, joined, written, misread>>
  BY DEF Leave, At, GoTo, peer, histories
<1>1. /\ clients' \in Seq(Peers) /\ ListedOnce'
      /\ \A i \in DOMAIN clients' :
           /\ clients'[i] # c
           /\ \E j \in DOMAIN clients : clients'[i] = clients[j]
  <2>0. clients \in Seq(Peers)
    BY DEF TypeOK
  <2>1. \/ (\A i \in DOMAIN clients : clients[i] # c) /\ clients' = clients
        \/ \E k \in 1..Len(clients) : clients[k] = c /\ clients' = RemoveAt(clients, k)
    <3>1. IsInjective(clients)
      BY DEF ListedOnce, IsInjective
    <3> QED BY <1>0, <2>0, <3>1, RemoveFirstEffect
  <2>2. CASE (\A i \in DOMAIN clients : clients[i] # c) /\ clients' = clients
    BY <2>0, <2>2 DEF ListedOnce
  <2>3. ASSUME NEW k \in 1..Len(clients), clients[k] = c, clients' = RemoveAt(clients, k)
        PROVE  /\ clients' \in Seq(Peers) /\ ListedOnce'
               /\ \A i \in DOMAIN clients' :
                    /\ clients'[i] # c
                    /\ \E j \in DOMAIN clients : clients'[i] = clients[j]
    BY <2>3, Removal
  <2> QED BY <2>1, <2>2, <2>3
<1>2. TypeOK'
  BY <1>0, <1>1, PeersKept DEF TypeOK, GoTo
<1>3. MutexHeld'
  BY <1>0 DEF MutexHeld, At, TypeOK
<1>4. ListedThreads'
  BY <1>0, <1>1 DEF ListedThreads, TypeOK
<1>5. CountRight'
  <2>1. Counted' = Counted
    BY <1>0 DEF Counted, CountedPoints, TypeOK
  <2> QED BY <1>0, <2>1 DEF CountRight
<1>6. Broadcasting' /\ Fresh' /\ Stretch'
  BY <1>0 DEF Broadcasting, Fresh, Stretch, Seen, TypeOK
<1>7. UpToDate'
  <2>1. \A d \in Peers : Seen(d)' = Seen(d)
    BY <1>0 DEF Seen
  <2> QED BY <1>0, <1>1, <2>1 DEF UpToDate, TypeOK
<1> QED BY <1>1, <1>2, <1>3, <1>4, <1>5, <1>6, <1>7

\* A broadcast begins: its frame is the last of the order, and nobody has it yet.
LEMMA LockStep ==
  ASSUME IInv, NEW c \in Peers, Lasts, Lock(c)
  PROVE  IInv'
<1> USE ChatAssumption DEF IInv
<1>0. /\ pc[c] = "lock" /\ mutex = Free /\ mutex' = c /\ target' = 1
      /\ order' = Append(order, frame[c])
      /\ pc' = [pc EXCEPT ![c] = "write"]
      /\ UNCHANGED <<clients, client_count, frame, wire, inbox, open, said, splits,
                     joined, written, misread>>
  BY DEF Lock, At, GoTo, peer
<1>1. /\ order \in Seq(Payloads) /\ order' \in Seq(Payloads) /\ Len(order) \in Nat
      /\ Len(order') = Len(order) + 1 /\ order' # <<>>
      /\ order'[Len(order')] = frame[c]
      /\ \A i \in 1..Len(order) : order'[i] = order[i]
  <2>1. order \in Seq(Payloads) /\ frame[c] \in Payloads
    BY DEF TypeOK
  <2> QED BY <1>0, <2>1
<1>2. TypeOK'
  <2>1. /\ clients \in Seq(Peers) /\ client_count \in Nat
        /\ inbox \in [Peers -> Seq(Payloads)]
        /\ joined \in [Peers -> Nat] /\ written \in [Peers -> Seq(Payloads)]
    BY DEF TypeOK
  <2>2. clients' \in Seq(Peers) /\ client_count' \in Nat /\ inbox' \in [Peers -> Seq(Payloads)]
        /\ joined' \in [Peers -> Nat] /\ written' \in [Peers -> Seq(Payloads)]
    BY <1>0, <2>1
  <2>3. mutex' \in Peers \cup {Free} /\ target' \in Nat \ {0} /\ order' \in Seq(Payloads)
    BY <1>0, <1>1
  <2>4. GoTo(c, "write")
    BY <1>0 DEF GoTo
  <2>5. UNCHANGED <<frame, wire, open, said, splits, misread>>
    BY <1>0
  <2> QED BY <2>2, <2>3, <2>4, <2>5, PeersKept
<1>3. MutexHeld'
  BY <1>0 DEF MutexHeld, At, TypeOK
<1>4. clients \in Seq(Peers) /\ Len(clients) \in Nat
      /\ \A i \in DOMAIN clients : i >= 1 /\ clients[i] \in Peers
  <2>1. clients \in Seq(Peers)
    BY DEF TypeOK
  <2> QED BY <2>1
<1>5. ListedOnce' /\ ListedThreads'
  BY <1>0, <1>4 DEF ListedOnce, ListedThreads, TypeOK
<1>6. CountRight'
  <2>1. Counted' = Counted
    BY <1>0 DEF Counted, CountedPoints, TypeOK
  <2> QED BY <1>0, <2>1 DEF CountRight
<1>7. Broadcasting'
  BY <1>0, <1>1, <1>4 DEF Broadcasting
<1>8. Fresh'
  BY <1>0 DEF Fresh, TypeOK
<1>9. Stretch'
  <2>1. \A d \in Peers : joined[d] \in Nat /\ Len(written[d]) \in Nat /\ Seen(d)' = Seen(d)
    BY <1>0 DEF Seen, TypeOK
  <2>2. ASSUME NEW d \in Peers, NEW i \in 1..Len(written[d])
        PROVE  joined[d] + i \in 1..Len(order) /\ written[d][i] = order[joined[d] + i]
    BY <1>1, <2>1 DEF Stretch, Seen
  <2> QED BY <1>0, <1>1, <2>1, <2>2 DEF Stretch, Seen
<1>10. UpToDate'
  <2>1. \A i \in DOMAIN clients : Seen(clients[i])' = Len(order)
    BY <1>0 DEF UpToDate, Seen
  <2>2. mutex' # Free /\ \A i \in DOMAIN clients : ~(i < target')
    BY <1>0, <1>4
  <2> QED BY <1>0, <1>1, <2>1, <2>2 DEF UpToDate
<1> QED BY <1>2, <1>3, <1>5, <1>6, <1>7, <1>8, <1>9, <1>10

\* One write of the broadcast, which succeeds.
LEMMA WriteStep ==
  ASSUME IInv, NEW c \in Peers, Lasts, Write(c)
  PROVE  IInv'
<1> USE ChatAssumption DEF IInv
<1>a. PICK d : d = clients[target]
  OBVIOUS
<1>0. /\ pc[c] = "write" /\ target <= Len(clients) /\ target' = target + 1
      /\ inbox' = IF open[d] THEN [inbox EXCEPT ![d] = Append(@, frame[c])] ELSE inbox
      /\ written' = [written EXCEPT ![d] = Append(@, frame[c])]
      /\ UNCHANGED <<mutex, clients, client_count, pc, frame, wire, open, said, splits,
                     order, joined, misread>>
  BY <1>a DEF Write, At
<1>1. mutex = c /\ mutex # Free /\ order # <<>> /\ frame[c] = order[Len(order)]
  BY <1>0 DEF MutexHeld, At, Broadcasting
<1>2. /\ clients \in Seq(Peers) /\ Len(clients) \in Nat /\ DOMAIN clients = 1..Len(clients)
      /\ target \in DOMAIN clients /\ target \in Nat /\ d \in Peers
      /\ \A i \in DOMAIN clients : i \in Nat /\ clients[i] \in Peers
  <2>1. clients \in Seq(Peers) /\ target \in Nat \ {0}
    BY DEF TypeOK
  <2> QED BY <1>a, <1>0, <2>1
<1>3. /\ written' \in [Peers -> Seq(Payloads)] /\ inbox' \in [Peers -> Seq(Payloads)]
      /\ Len(written'[d]) = Len(written[d]) + 1 /\ Len(written[d]) \in Nat
      /\ written'[d][Len(written[d]) + 1] = frame[c]
      /\ \A i \in 1..Len(written[d]) : written'[d][i] = written[d][i]
      /\ \A e \in Peers \ {d} : written'[e] = written[e]
  <2>1. frame[c] \in Payloads /\ written[d] \in Seq(Payloads) /\ inbox[d] \in Seq(Payloads)
    BY <1>2 DEF TypeOK
  <2>2. Append(written[d], frame[c]) \in Seq(Payloads)
        /\ Append(inbox[d], frame[c]) \in Seq(Payloads)
    BY <2>1
  <2>3. written' \in [Peers -> Seq(Payloads)] /\ inbox' \in [Peers -> Seq(Payloads)]
    BY <1>0, <1>2, <2>2 DEF TypeOK
  <2>4. written'[d] = Append(written[d], frame[c])
        /\ \A e \in Peers \ {d} : written'[e] = written[e]
    BY <1>0, <1>2 DEF TypeOK
  <2> QED BY <2>1, <2>3, <2>4
<1>4. TypeOK'
  <2>1. clients' \in Seq(Peers) /\ target' \in Nat \ {0}
    BY <1>0, <1>2
  <2> QED BY <1>0, <1>3, <2>1 DEF TypeOK, Lasts
<1>5. MutexHeld' /\ ListedOnce' /\ ListedThreads'
  BY <1>0 DEF MutexHeld, At, ListedOnce, ListedThreads
<1>6. CountRight'
  BY <1>0 DEF CountRight, Counted
<1>7. Broadcasting'
  BY <1>0, <1>1, <1>2 DEF Broadcasting
<1>8. Fresh'
  <2>1. pc[d] \notin {"handshake", "register"}
    BY <1>a, <1>2 DEF ListedThreads
  <2> QED BY <1>0, <1>3, <2>1 DEF Fresh
<1>9. Len(order) \in Nat /\ joined[d] \in Nat
  BY <1>2 DEF TypeOK
<1>10. Seen(d) = Len(order) - 1 /\ Seen(d)' = Len(order)
       /\ joined[d] + (Len(written[d]) + 1) = Len(order)
  <2>1. Seen(d) = Len(order) - 1
    BY <1>a, <1>1, <1>2 DEF UpToDate
  <2>2. joined'[d] = joined[d] /\ Len(written'[d]) = Len(written[d]) + 1
    BY <1>0, <1>3
  <2>3. joined[d] + Len(written[d]) = Len(order) - 1
    BY <2>1 DEF Seen
  <2>4. joined[d] + (Len(written[d]) + 1) = Len(order)
    BY <1>3, <1>9, <2>3, SMTT(30)
  <2> QED BY <1>3, <1>9, <2>1, <2>2, <2>3, <2>4 DEF Seen
<1>11. \A e \in Peers \ {d} : Seen(e)' = Seen(e)
  BY <1>0, <1>3 DEF Seen
<1>12. Stretch'
  <2>1. ASSUME NEW e \in Peers
        PROVE  /\ Seen(e)' <= Len(order')
               /\ \A i \in 1..Len(written'[e]) : written'[e][i] = order'[joined'[e] + i]
    <3>1. CASE e # d
      BY <1>0, <1>3, <1>11, <3>1 DEF Stretch
    <3>2. CASE e = d
      <4>1. \A i \in 1..Len(written[d]) : written[d][i] = order[joined[d] + i]
        BY <1>2 DEF Stretch
      <4>2. written'[d][Len(written[d]) + 1] = order[joined[d] + (Len(written[d]) + 1)]
        <5>1. order[joined[d] + (Len(written[d]) + 1)] = order[Len(order)]
          BY <1>10
        <5> QED BY <1>1, <1>3, <5>1
      <4>3. \A i \in 1..Len(written'[d]) : i \in 1..Len(written[d]) \/ i = Len(written[d]) + 1
        BY <1>3
      <4>4. \A i \in 1..Len(written'[d]) : written'[d][i] = order[joined[d] + i]
        BY <1>3, <4>1, <4>2, <4>3
      <4>5. Seen(d)' <= Len(order)
        BY <1>9, <1>10
      <4> QED BY <1>0, <3>2, <4>4, <4>5
    <3> QED BY <3>1, <3>2
  <2> QED BY <2>1 DEF Stretch
<1>13. UpToDate'
  <2>1. ASSUME NEW i \in DOMAIN clients
        PROVE  Seen(clients[i])' = IF i < target + 1 THEN Len(order) ELSE Len(order) - 1
    <3>1. CASE i = target
      BY <1>a, <1>0, <1>2, <1>10, <3>1 DEF Seen
    <3>2. CASE i # target
      <4>1. clients[i] # d
        BY <1>a, <1>2, <3>2 DEF ListedOnce
      <4>2. Seen(clients[i])' = Seen(clients[i])
        BY <1>0, <1>2, <1>3, <4>1 DEF Seen
      <4> QED BY <1>1, <1>2, <3>2, <4>2 DEF UpToDate
    <3> QED BY <3>1, <3>2
  <2> QED BY <1>0, <1>1, <2>1 DEF UpToDate, Seen
<1> QED BY <1>4, <1>5, <1>6, <1>7, <1>8, <1>12, <1>13

\* One write that fails and takes the socket off the list, and the broadcast's end.
LEMMA FailStep ==
  ASSUME IInv, NEW c \in Peers, Lasts, WriteFails(c)
  PROVE  IInv'
<1> USE ChatAssumption DEF IInv
<1>0. /\ pc[c] = "write" /\ target <= Len(clients)
      /\ clients' = RemoveAt(clients, target)
      /\ UNCHANGED <<mutex, client_count, pc, frame, target, wire, inbox, open, said, splits,
                     order, joined, written, misread>>
  BY DEF WriteFails, At, peer, histories
<1>1. mutex = c /\ mutex # Free
  BY <1>0 DEF MutexHeld, At
<1>2. /\ clients \in Seq(Peers) /\ Len(clients) \in Nat /\ DOMAIN clients = 1..Len(clients)
      /\ target \in 1..Len(clients) /\ target \in Nat
  <2>1. clients \in Seq(Peers) /\ target \in Nat \ {0}
    BY DEF TypeOK
  <2> QED BY <1>0, <2>1
<1>3. /\ clients' \in Seq(Peers) /\ ListedOnce' /\ Len(clients') = Len(clients) - 1
      /\ \A i \in DOMAIN clients' : \E j \in DOMAIN clients : clients'[i] = clients[j]
  BY <1>0, <1>2, Removal
<1>4. \A i \in 1..Len(clients') :
        clients'[i] = IF i < target THEN clients[i] ELSE clients[i + 1]
  BY <1>0, <1>2, Removal
<1>5. TypeOK'
  BY <1>0, <1>3, PeersKept DEF TypeOK
<1>6. MutexHeld' /\ ListedThreads' /\ CountRight'
  BY <1>0, <1>3 DEF MutexHeld, At, ListedThreads, CountRight, Counted
<1>7. Broadcasting'
  BY <1>0, <1>2, <1>3 DEF Broadcasting
<1>8. Fresh' /\ Stretch'
  BY <1>0 DEF Fresh, Stretch, Seen
<1>9. UpToDate'
  <2>1. ASSUME NEW i \in DOMAIN clients'
        PROVE  Seen(clients'[i]) = IF i < target THEN Len(order) ELSE Len(order) - 1
    <3>1. i \in 1..Len(clients') /\ i \in 1..Len(clients) /\ i + 1 \in 1..Len(clients)
          /\ i \in Nat
      <4>1. i \in 1..Len(clients')
        BY <1>3
      <4> QED BY <1>2, <1>3, <4>1, SMTT(30)
    <3>2. CASE i < target
      BY <1>1, <1>2, <1>4, <3>1, <3>2 DEF UpToDate
    <3>3. CASE ~(i < target)
      <4>1. clients'[i] = clients[i + 1] /\ ~(i + 1 < target)
        BY <1>2, <1>4, <3>1, <3>3
      <4> QED BY <1>1, <1>2, <3>1, <3>3, <4>1 DEF UpToDate
    <3> QED BY <3>2, <3>3
  <2>2. \A e : Seen(e)' = Seen(e)
    BY <1>0 DEF Seen
  <2> QED BY <1>0, <1>1, <2>1, <2>2 DEF UpToDate
<1> QED BY <1>3, <1>5, <1>6, <1>7, <1>8, <1>9

LEMMA UnlockStep ==
  ASSUME IInv, NEW c \in Peers, Lasts, Unlock(c)
  PROVE  IInv'
<1> USE ChatAssumption DEF IInv
<1>0. /\ pc[c] = "write" /\ target > Len(clients)
      /\ mutex' = Free
      /\ pc' = [pc EXCEPT ![c] = "read"]
      /\ UNCHANGED <<clients, client_count, frame, target, wire, inbox, open, said, splits,
                     order, joined, written, misread>>
  BY DEF Unlock, At, GoTo, peer, histories
<1>1. mutex = c /\ mutex # Free
  BY <1>0 DEF MutexHeld, At
<1>2. /\ clients \in Seq(Peers) /\ Len(clients) \in Nat /\ DOMAIN clients = 1..Len(clients)
      /\ target \in Nat
  BY DEF TypeOK
<1>3. TypeOK'
  BY <1>0, PeersKept DEF TypeOK, GoTo
<1>4. MutexHeld'
  BY <1>0, <1>1 DEF MutexHeld, At, TypeOK
<1>5. ListedOnce' /\ ListedThreads'
  <2>1. \A i \in DOMAIN clients : clients[i] \in Peers
    BY <1>2
  <2> QED BY <1>0, <2>1 DEF ListedOnce, ListedThreads, TypeOK
<1>6. CountRight'
  <2>1. Counted' = Counted
    BY <1>0 DEF Counted, CountedPoints, TypeOK
  <2> QED BY <1>0, <2>1 DEF CountRight
<1>7. Broadcasting' /\ Fresh' /\ Stretch'
  BY <1>0 DEF Broadcasting, Fresh, Stretch, Seen, TypeOK
<1>8. UpToDate'
  <2>1. \A i \in DOMAIN clients : i < target
    BY <1>0, <1>2
  <2>2. \A e : Seen(e)' = Seen(e)
    BY <1>0 DEF Seen
  <2> QED BY <1>0, <2>1, <2>2 DEF UpToDate
<1> QED BY <1>3, <1>4, <1>5, <1>6, <1>7, <1>8

\* Every step keeps the invariant.
LEMMA NextIInv == IInv /\ [Next]_vars => IInv'
<1> SUFFICES ASSUME IInv, [Next]_vars PROVE IInv'
  OBVIOUS
<1>1. ASSUME NEW c \in Peers, Lasts, Handshake(c) \/ Send(c) \/ Receive(c) \/ Close(c)
      PROVE  IInv'
  BY <1>1, OutsideStep
<1>2. ASSUME NEW c \in Peers, Handler(c) PROVE IInv'
  BY <1>2, OutsideStep, RegisterStep, CountStep, LeaveStep, LockStep, WriteStep, FailStep,
     UnlockStep DEF Handler
<1>3. CASE StartFails \/ UNCHANGED vars
  <2>1. /\ UNCHANGED <<mutex, clients, client_count, pc, frame, target, wire, inbox, open,
                       said, splits, order, joined, written, misread>>
        /\ running' \in BOOLEAN
    BY <1>3 DEF StartFails, vars, peer, histories, IInv, TypeOK
  <2>2. TypeOK'
    BY <2>1 DEF IInv, TypeOK
  <2> QED BY <2>1, <2>2, QuietStep
<1> QED BY <1>1, <1>2, <1>3 DEF Next, Receives

-----------------------------------------------------------------------------
\* The invariant says, client by client, what SameConversation says of sequences.
LEMMA StretchIsSubSeq == IInv => SameConversation
<1> SUFFICES ASSUME IInv, NEW c \in Peers
             PROVE  /\ written[c] = SubSeq(order, joined[c] + 1, joined[c] + Len(written[c]))
                    /\ (\E i \in DOMAIN clients : clients[i] = c) /\ mutex = Free
                         => joined[c] + Len(written[c]) = Len(order)
  BY DEF SameConversation
<1> DEFINE n == Len(written[c])
           stretch == SubSeq(order, joined[c] + 1, joined[c] + n)
<1>1. /\ written[c] \in Seq(Payloads) /\ order \in Seq(Payloads)
      /\ joined[c] \in Nat /\ n \in Nat /\ Len(order) \in Nat
      /\ joined[c] + n <= Len(order)
      /\ \A i \in 1..n : written[c][i] = order[joined[c] + i]
  BY DEF IInv, TypeOK, Stretch, Seen
<1>2. /\ stretch \in Seq(Payloads) /\ Len(stretch) = n
      /\ \A i \in 1..n : stretch[i] = order[joined[c] + i]
  BY <1>1, Stretches, SMTT(30)
<1>3. written[c] = stretch
  <2> HIDE DEF stretch
  <2> QED BY <1>1, <1>2, SeqEqual
<1>4. (\E i \in DOMAIN clients : clients[i] = c) /\ mutex = Free
        => joined[c] + Len(written[c]) = Len(order)
  BY DEF IInv, UpToDate, Seen
<1> QED BY <1>3, <1>4

\* Every variable keeps its type, whatever arrives.
THEOREM Types == Spec => []TypeOK
<1>1. IInv => TypeOK
  BY DEF IInv
<1> QED BY <1>1, InitIInv, NextIInv, PTL DEF Spec

\* However many peers there are and whatever TCP does to their frames, all
\* clients are written the same broadcasts in the same order, from joining on.
THEOREM OneConversation == Spec => []SameConversation
BY InitIInv, NextIInv, StretchIsSubSeq, PTL DEF Spec

\* The list and the counter show exactly the connections whose threads live.
THEOREM NoneLeftBehind == Spec => []NoGhosts
<1>1. IInv => NoGhosts
  BY DEF IInv, NoGhosts, ListedOnce, ListedThreads, CountRight, Counted, CountedPoints
<1> QED BY <1>1, InitIInv, NextIInv, PTL DEF Spec

-----------------------------------------------------------------------------
(* The broadcasts of one peer.  Selects(h, s, m, c) says that h is the      *)
(* function by which From goes through the first m elements of s.           *)

Selects(h, s, m, c) ==
  h = [n \in 0..m |-> IF n = 0 THEN <<>>
                      ELSE IF IsOf(s[n], c) THEN Append(h[n - 1], s[n])
                      ELSE h[n - 1]]

LEMMA SelectsAt ==
  ASSUME NEW h, NEW s, NEW m \in Nat, NEW c, Selects(h, s, m, c)
  PROVE  /\ h[0] = <<>>
         /\ \A n \in 1..m : h[n] = IF IsOf(s[n], c) THEN Append(h[n - 1], s[n]) ELSE h[n - 1]
<1>1. \A n \in 0..m : h[n] = IF n = 0 THEN <<>>
                             ELSE IF IsOf(s[n], c) THEN Append(h[n - 1], s[n])
                             ELSE h[n - 1]
  BY DEF Selects
<1>2. 0 \in 0..m /\ \A n \in 1..m : n \in 0..m /\ n # 0
  OBVIOUS
<1> QED BY <1>1, <1>2, Zenon

\* It says the same of what two sequences have in common ...
LEMMA SelectsUnique ==
  ASSUME NEW s, NEW t, NEW c, NEW m \in Nat, NEW k \in Nat,
         NEW h, Selects(h, s, m, c), NEW g, Selects(g, t, k, c),
         NEW n \in Nat, n <= m, n <= k, \A i \in 1..n : s[i] = t[i]
  PROVE  h[n] = g[n]
<1> DEFINE bad == {i \in 0..n : h[i] # g[i]}
<1> SUFFICES ASSUME bad # {} PROVE FALSE
  OBVIOUS
<1>1. PICK i \in bad : \A j \in bad : i <= j
  <2>1. bad \subseteq Nat
    OBVIOUS
  <2> QED BY <2>1, LeastOfNat
<1>2. h[0] = <<>> /\ g[0] = <<>>
  BY SelectsAt
<1>3. i \in 1..n /\ i \in 1..m /\ i \in 1..k /\ i - 1 \in 0..n /\ ~(i <= i - 1)
  BY <1>2
<1>4. h[i - 1] = g[i - 1]
  BY <1>1, <1>3
<1>5. h[i] = IF IsOf(s[i], c) THEN Append(h[i - 1], s[i]) ELSE h[i - 1]
  BY <1>3, SelectsAt
<1>6. g[i] = IF IsOf(t[i], c) THEN Append(g[i - 1], t[i]) ELSE g[i - 1]
  BY <1>3, SelectsAt
<1>7. PICK a, b : a = s[i] /\ b = h[i - 1]
  OBVIOUS
<1>8. t[i] = a /\ g[i - 1] = b
  BY <1>3, <1>4, <1>7
<1>9. h[i] = IF IsOf(a, c) THEN Append(b, a) ELSE b
  BY <1>5, <1>7
<1>10. g[i] = IF IsOf(a, c) THEN Append(b, a) ELSE b
  BY <1>6, <1>8
<1>11. h[i] = g[i]
  BY <1>9, <1>10
<1> QED BY <1>11

\* ... and there is such a function.
LEMMA SelectsExists ==
  ASSUME NEW s, NEW c, NEW m \in Nat
  PROVE  \E h : Selects(h, s, m, c)
<1> DEFINE bad == {i \in Nat : ~\E h : Selects(h, s, i, c)}
<1> SUFFICES ASSUME bad # {} PROVE FALSE
  OBVIOUS
<1>1. PICK i \in bad : \A j \in bad : i <= j
  <2>1. bad \subseteq Nat
    OBVIOUS
  <2> QED BY <2>1, LeastOfNat
<1>2. CASE i = 0
  <2> DEFINE h == [n \in 0..0 |-> <<>>]
  <2>1. h = [n \in 0..0 |-> IF n = 0 THEN <<>>
                            ELSE IF IsOf(s[n], c) THEN Append(h[n - 1], s[n])
                            ELSE h[n - 1]]
    BY \A n \in 0..0 : n = 0
  <2>2. Selects(h, s, 0, c)
    BY <2>1 DEF Selects
  <2> HIDE DEF h
  <2> QED BY <1>2, <2>2
<1>3. CASE i # 0
  <2>1. i - 1 \in Nat /\ i - 1 \notin bad /\ i \in 1..i
    BY <1>1, <1>3
  <2>2. PICK g : Selects(g, s, i - 1, c)
    BY <2>1
  <2> DEFINE new == IF IsOf(s[i], c) THEN Append(g[i - 1], s[i]) ELSE g[i - 1]
             h == [n \in 0..i |-> IF n = i THEN new ELSE g[n]]
  <2>3. g[0] = <<>> /\ \A n \in 1..i - 1 :
          g[n] = IF IsOf(s[n], c) THEN Append(g[n - 1], s[n]) ELSE g[n - 1]
    <3>1. PICK k \in Nat : k = i - 1
      BY <2>1
    <3>2. Selects(g, s, k, c)
      BY <2>2, <3>1
    <3>3. g[0] = <<>>
      BY <3>2, SelectsAt
    <3>4. \A n \in 1..k : g[n] = IF IsOf(s[n], c) THEN Append(g[n - 1], s[n]) ELSE g[n - 1]
      BY <3>2, SelectsAt
    <3> QED BY <3>1, <3>3, <3>4
  <2>4. \A n \in 0..i : /\ n = 0 \/ n \in 1..i - 1 \/ n = i
                        /\ n # 0 => n - 1 \in 0..i /\ n - 1 # i
    BY <2>1
  <2>5. h[i] = new /\ \A n \in 0..i : n # i => h[n] = g[n]
    BY <2>1
  <2> HIDE DEF h
  <2>6. \A n \in 0..i : h[n] = IF n = 0 THEN <<>>
                               ELSE IF IsOf(s[n], c) THEN Append(h[n - 1], s[n])
                               ELSE h[n - 1]
    <3> SUFFICES ASSUME NEW n \in 0..i
                 PROVE  h[n] = IF n = 0 THEN <<>>
                               ELSE IF IsOf(s[n], c) THEN Append(h[n - 1], s[n])
                               ELSE h[n - 1]
      OBVIOUS
    <3>1. CASE n = 0
      BY <1>3, <2>3, <2>5, <3>1
    <3>2. CASE n # 0
      <4>1. h[n - 1] = g[n - 1]
        BY <2>4, <2>5, <3>2
      <4>2. CASE n = i
        BY <2>5, <3>2, <4>1, <4>2
      <4>3. CASE n # i
        <5>1. n \in 1..i - 1 /\ h[n] = g[n]
          BY <2>4, <2>5, <3>2, <4>3
        <5> QED BY <2>3, <3>2, <4>1, <5>1, Zenon
      <4> QED BY <4>2, <4>3
    <3> QED BY <3>1, <3>2
  <2>7. h = [n \in 0..i |-> h[n]]
    BY DEF h
  <2>8. Selects(h, s, i, c)
    BY <2>6, <2>7 DEF Selects
  <2> QED BY <2>8
<1> QED BY <1>2, <1>3

Selector(s, c) == CHOOSE h : Selects(h, s, Len(s), c)

LEMMA FromIs ==
  ASSUME NEW c
  PROVE  From(c) = Selector(order, c)[Len(order)]
BY DEF From, Selector, Selects

\* Another broadcast adds to what was selected, or not.
LEMMA FromAppend ==
  ASSUME NEW c, NEW f \in Payloads, order \in Seq(Payloads), order' = Append(order, f)
  PROVE  From(c)' = IF IsOf(f, c) THEN Append(From(c), f) ELSE From(c)
<1>1. PICK n : n = Len(order)
  OBVIOUS
<1>2. PICK s, t : s = order /\ t = order'
  OBVIOUS
<1>3. n \in Nat /\ Len(s) = n /\ Len(t) = n + 1 /\ t[n + 1] = f /\ \A i \in 1..n : s[i] = t[i]
  BY <1>1, <1>2
<1>4. PICK h, g : h = Selector(s, c) /\ g = Selector(t, c)
  OBVIOUS
<1>5. Selects(h, s, n, c) /\ Selects(g, t, n + 1, c)
  <2>1. Len(s) \in Nat /\ Len(t) \in Nat
    BY <1>3
  <2>2. (\E x : Selects(x, s, Len(s), c)) /\ (\E x : Selects(x, t, Len(t), c))
    BY <2>1, SelectsExists
  <2>3. Selects(h, s, Len(s), c) /\ Selects(g, t, Len(t), c)
    BY <1>4, <2>2, Zenon DEF Selector
  <2> QED BY <1>3, <2>3
<1>6. h[n] = g[n]
  <2>1. n <= n + 1 /\ n \in 0..n
    BY <1>3
  <2> QED BY <1>3, <1>5, <2>1, SelectsUnique
<1>7. g[n + 1] = IF IsOf(f, c) THEN Append(g[n], f) ELSE g[n]
  <2>1. n + 1 \in 1..n + 1 /\ n + 1 \in Nat /\ n + 1 - 1 = n
    BY <1>3
  <2> QED BY <1>3, <1>5, <2>1, SelectsAt
<1>8. From(c) = h[n]
  BY <1>1, <1>2, <1>4, FromIs
<1>9. From(c)' = g[n + 1]
  <2>1. From(c)' = Selector(order', c)[Len(order')]
    BY DEF From, Selector, Selects
  <2> QED BY <1>2, <1>3, <1>4, <2>1
<1> QED BY <1>6, <1>7, <1>8, <1>9

LEMMA FromEmpty ==
  ASSUME NEW c, order = <<>>
  PROVE  From(c) = <<>>
<1>1. Len(order) = 0 /\ 0 \in Nat
  OBVIOUS
<1>2. Selects(Selector(order, c), order, 0, c)
  BY <1>1, SelectsExists DEF Selector
<1> QED BY <1>1, <1>2, SelectsAt, FromIs

-----------------------------------------------------------------------------
(* Frame by frame.  FramesInv is inductive under IInv: as long as each       *)
(* read_some has returned one frame, what a connection's socket holds are    *)
(* the frames behind the one read last, each whole or in two parts.          *)

PartsOf(c) == [frame : {c} \X Nat, part : {"whole", "first", "second"}]

Follows(a, b) == IF a.part = "first" THEN b.part = "second" /\ b.frame = a.frame
                                     ELSE b.part # "second" /\ b.frame[2] = a.frame[2] + 1

\* The parts w are those of the frames from a to k.
Encodes(w, a, k) ==
  /\ \A i \in 1..Len(w) - 1 : Follows(w[i], w[i + 1])
  /\ Len(w) = 0 => a = k + 1
  /\ Len(w) # 0 => /\ w[1].part # "second" /\ w[1].frame[2] = a
                   /\ w[Len(w)].part # "first" /\ w[Len(w)].frame[2] = k

Behind(c) == IF At(c, "lock") THEN Len(From(c)) + 2 ELSE Len(From(c)) + 1
InOrder(c) ==
  /\ From(c) \in Seq(Frames)
  /\ \A i \in 1..Len(From(c)) : From(c)[i] = <<c, i>>
  /\ At(c, "lock") => frame[c] = <<c, Len(From(c)) + 1>>
  /\ Encodes(wire[c], Behind(c), said[c])

OwnParts == \A c \in Peers : /\ wire[c] \in Seq(PartsOf(c))
                             /\ frame[c] \in {Garbled} \cup ({c} \X Nat)
FramesInv == OwnParts /\ \A c \in Peers : ~misread[c] => InOrder(c)

LEMMA PartType ==
  ASSUME NEW c, NEW p \in PartsOf(c)
  PROVE  /\ p.frame \in {c} \X Nat /\ p.frame[1] = c /\ p.frame[2] \in Nat
         /\ p.frame = <<c, p.frame[2]>>
         /\ p.part \in {"whole", "first", "second"}
BY DEF PartsOf

\* A frame sent whole, and one sent in two parts.
LEMMA EncodeWhole ==
  ASSUME NEW c, NEW w \in Seq(PartsOf(c)), NEW a \in Nat, NEW k \in Nat, Encodes(w, a, k),
         NEW p \in PartsOf(c), p.part = "whole", p.frame[2] = k + 1
  PROVE  Encodes(Append(w, p), a, k + 1)
<1>1. PICK n \in Nat : n = Len(w)
  OBVIOUS
<1>2. PICK v : v = Append(w, p)
  OBVIOUS
<1>3. Len(v) = n + 1 /\ v[n + 1] = p /\ \A i \in 1..n : v[i] = w[i]
  BY <1>1, <1>2
<1>4. ASSUME NEW i \in 1..n PROVE Follows(v[i], v[i + 1])
  <2>1. CASE i # n
    <3>1. i \in 1..n - 1 /\ i + 1 \in 1..n
      BY <2>1
    <3> QED BY <1>1, <1>3, <3>1 DEF Encodes
  <2>2. CASE i = n
    <3>1. w[n].part # "first" /\ w[n].frame[2] = k
      BY <1>1, <2>2 DEF Encodes
    <3> QED BY <1>3, <2>2, <3>1 DEF Follows
  <2> QED BY <2>1, <2>2
<1>5. v[1].part # "second" /\ v[1].frame[2] = a
  <2>1. CASE n = 0
    BY <1>1, <1>3, <2>1 DEF Encodes
  <2>2. CASE n # 0
    <3>1. 1 \in 1..n
      BY <2>2
    <3> QED BY <1>1, <1>3, <2>2, <3>1 DEF Encodes
  <2> QED BY <2>1, <2>2
<1>6. Len(v) - 1 = n /\ Len(v) # 0
  BY <1>3
<1> QED BY <1>2, <1>3, <1>4, <1>5, <1>6 DEF Encodes

LEMMA EncodeSplit ==
  ASSUME NEW c, NEW w \in Seq(PartsOf(c)), NEW a \in Nat, NEW k \in Nat, Encodes(w, a, k),
         NEW p \in PartsOf(c), NEW q \in PartsOf(c),
         p.part = "first", q.part = "second", p.frame = q.frame, p.frame[2] = k + 1
  PROVE  Encodes(w \o <<p, q>>, a, k + 1)
<1>1. PICK n \in Nat : n = Len(w)
  OBVIOUS
<1>2. PICK v : v = w \o <<p, q>>
  OBVIOUS
<1>3. /\ Len(v) = n + 2 /\ v[n + 1] = p /\ v[n + 2] = q
      /\ \A i \in 1..n : v[i] = w[i]
  <2>1. PICK u : u = <<p, q>>
    OBVIOUS
  <2>2. u \in Seq(PartsOf(c)) /\ Len(u) = 2 /\ u[1] = p /\ u[2] = q
    BY <2>1
  <2>3. v = w \o u
    BY <1>2, <2>1
  <2>4. Len(w \o u) = Len(w) + Len(u)
    BY <2>2, ConcatProperties, Zenon
  <2>5. \A i \in 1..Len(w) + Len(u) : (w \o u)[i] = IF i <= Len(w) THEN w[i] ELSE u[i - Len(w)]
    BY <2>2, ConcatProperties, Zenon
  <2>6. /\ n + 1 \in 1..n + 2 /\ n + 2 \in 1..n + 2 /\ ~(n + 1 <= n) /\ ~(n + 2 <= n)
        /\ n + 1 - n = 1 /\ n + 2 - n = 2 /\ \A i \in 1..n : i \in 1..n + 2 /\ i <= n
    OBVIOUS
  <2>7. Len(v) = n + 2 /\ \A i \in 1..n + 2 : v[i] = IF i <= n THEN w[i] ELSE u[i - n]
    BY <1>1, <2>2, <2>3, <2>4, <2>5
  <2> QED BY <2>2, <2>6, <2>7
<1>4. ASSUME NEW i \in 1..n + 1 PROVE Follows(v[i], v[i + 1])
  <2>1. CASE i < n
    <3>1. i \in 1..n - 1 /\ i \in 1..n /\ i + 1 \in 1..n
      BY <2>1
    <3> QED BY <1>1, <1>3, <3>1 DEF Encodes
  <2>2. CASE i = n
    <3>1. w[n].part # "first" /\ w[n].frame[2] = k /\ v[n] = w[n]
      BY <1>1, <1>3, <2>2 DEF Encodes
    <3> QED BY <1>3, <2>2, <3>1 DEF Follows
  <2>3. CASE i = n + 1
    <3>1. v[i] = p /\ v[i + 1] = q
      BY <1>3, <2>3
    <3> QED BY <3>1 DEF Follows
  <2> QED BY <2>1, <2>2, <2>3
<1>5. v[1].part # "second" /\ v[1].frame[2] = a
  <2>1. CASE n = 0
    BY <1>1, <1>3, <2>1 DEF Encodes
  <2>2. CASE n # 0
    <3>1. 1 \in 1..n
      BY <2>2
    <3> QED BY <1>1, <1>3, <2>2, <3>1 DEF Encodes
  <2> QED BY <2>1, <2>2
<1>6. Len(v) - 1 = n + 1 /\ Len(v) # 0
  BY <1>3
<1> QED BY <1>2, <1>3, <1>4, <1>5, <1>6 DEF Encodes

\* One read_some that returns one frame.
LEMMA ReadOne ==
  ASSUME NEW c, NEW w \in Seq(PartsOf(c)), NEW a \in Nat, NEW k \in Nat, Encodes(w, a, k),
         NEW n \in 1..Len(w), IsOneFrame(SubSeq(w, 1, n))
  PROVE  /\ Decoded(SubSeq(w, 1, n)) = <<c, a>>
         /\ Encodes(SubSeq(w, n + 1, Len(w)), a + 1, k)
<1>1. PICK m \in Nat : m = Len(w) /\ n \in 1..m
  OBVIOUS
<1>2. \A i \in 1..m : w[i] \in PartsOf(c)
  BY <1>1
<1>3. PICK r : r = SubSeq(w, 1, n)
  OBVIOUS
<1>4. Len(r) = n /\ r[1] = w[1] /\ w[1] \in PartsOf(c)
  <2>1. \A i \in 1..n : w[i] \in PartsOf(c)
    BY <1>1, <1>2
  <2>2. Len(r) = n
    BY <1>3, <2>1, SubSeqProperties
  <2>3. \A i \in 1..n : r[i] = w[i]
    BY <1>3, <2>1, SubSeqProperties
  <2>4. 1 \in 1..n /\ 1 \in 1..m
    BY <1>1
  <2> QED BY <1>2, <2>2, <2>3, <2>4
<1>5. w[1].part # "second" /\ w[1].frame[2] = a
  BY <1>1 DEF Encodes
<1>6. w[1].frame = <<c, a>> /\ w[1].part \in {"whole", "first", "second"}
  BY <1>4, <1>5, PartType
<1>7. \/ n = 1 /\ w[1].part = "whole"
      \/ n = 2 /\ w[1].part = "first"
  BY <1>3, <1>4 DEF IsOneFrame
<1>8. Decoded(r) = <<c, a>>
  BY <1>4, <1>6, <1>7 DEF Decoded
\* The last part of that frame.
<1>9. w[n].part # "first" /\ w[n].frame[2] = a
  <2>1. CASE n = 1 /\ w[1].part = "whole"
    BY <1>5, <2>1
  <2>2. CASE n = 2 /\ w[1].part = "first"
    <3>1. Follows(w[1], w[1 + 1])
      BY <1>1, <2>2 DEF Encodes
    <3> QED BY <1>5, <2>2, <3>1 DEF Follows
  <2> QED BY <1>7, <2>1, <2>2
<1>10. PICK v : v = SubSeq(w, n + 1, m)
  OBVIOUS
<1>11. Len(v) = m - n /\ \A i \in 1..m - n : v[i] = w[n + i]
  <2>1. PICK b \in Nat : b = n + 1 /\ b \in 1..m + 1
    BY <1>1
  <2>2. \A i \in b..m : w[i] \in PartsOf(c)
    BY <1>2, <2>1
  <2>3. Len(SubSeq(w, b, m)) = IF b <= m THEN m - b + 1 ELSE 0
    BY <1>1, <2>1, <2>2, SubSeqProperties
  <2>4. \A i \in 1..m - b + 1 : SubSeq(w, b, m)[i] = w[b + i - 1]
    BY <1>1, <2>1, <2>2, SubSeqProperties
  <2>5. m - b + 1 = m - n /\ \A i \in 1..m - n : b + i - 1 = n + i
    BY <1>1, <2>1
  <2>6. Len(v) = m - n
    BY <1>1, <1>10, <2>1, <2>3, <2>5
  <2> QED BY <1>10, <2>1, <2>4, <2>5, <2>6
<1>12. ASSUME NEW i \in 1..Len(v) - 1 PROVE Follows(v[i], v[i + 1])
  <2>1. /\ i \in 1..m - n /\ i + 1 \in 1..m - n /\ n + i \in 1..m - 1
        /\ n + (i + 1) = n + i + 1
    BY <1>1, <1>11
  <2>2. Follows(w[n + i], w[n + i + 1])
    BY <1>1, <2>1 DEF Encodes
  <2> QED BY <1>11, <2>1, <2>2
<1>13. CASE n = m
  <2>1. Len(v) = 0
    BY <1>1, <1>11, <1>13
  <2>2. w[n].frame[2] = k
    BY <1>1, <1>13 DEF Encodes
  <2>3. a + 1 = k + 1
    BY <1>9, <2>2
  <2>4. Encodes(v, a + 1, k)
    BY <1>12, <2>1, <2>3 DEF Encodes
  <2> QED BY <1>1, <1>3, <1>8, <1>10, <2>4
<1>14. CASE n # m
  <2>1. n \in 1..m - 1 /\ Len(v) # 0 /\ Len(v) \in 1..m - n /\ 1 \in 1..m - n
        /\ n + Len(v) = m
    BY <1>1, <1>11, <1>14
  <2>2. v[1] = w[n + 1] /\ v[Len(v)] = w[m]
    BY <1>11, <2>1
  <2>3. Follows(w[n], w[n + 1])
    BY <1>1, <2>1 DEF Encodes
  <2>4. v[1].part # "second" /\ v[1].frame[2] = a + 1
    BY <1>9, <2>2, <2>3 DEF Follows
  <2>5. v[Len(v)].part # "first" /\ v[Len(v)].frame[2] = k
    BY <1>1, <2>2 DEF Encodes
  <2>6. Encodes(v, a + 1, k)
    BY <1>12, <2>1, <2>4, <2>5 DEF Encodes
  <2> QED BY <1>1, <1>3, <1>8, <1>10, <2>6
<1> QED BY <1>13, <1>14

\* Parts that are whole frames are numbered one after the other.
LEMMA WholesNumbered ==
  ASSUME NEW c, NEW w \in Seq(PartsOf(c)), NEW a \in Nat, NEW k \in Nat, Encodes(w, a, k),
         \A i \in 1..Len(w) : w[i].part = "whole"
  PROVE  /\ \A i \in 1..Len(w) : w[i].frame = <<c, a + i - 1>>
         /\ k = a + Len(w) - 1
<1>1. PICK m \in Nat : m = Len(w)
  OBVIOUS
<1> DEFINE bad == {i \in 1..m : w[i].frame # <<c, a + i - 1>>}
<1>2. ASSUME bad # {} PROVE FALSE
  <2>1. PICK i \in bad : \A j \in bad : i <= j
    <3>1. bad \subseteq Nat
      OBVIOUS
    <3> QED BY <1>2, <3>1, LeastOfNat
  <2>2. i \in 1..m /\ w[i] \in PartsOf(c)
    BY <1>1
  <2>3. w[i].frame[2] # a + i - 1
    BY <2>2, PartType
  <2>4. CASE i = 1
    <3>1. w[1].frame[2] = a
      BY <1>1, <2>2 DEF Encodes
    <3> QED BY <2>3, <2>4, <3>1
  <2>5. CASE i # 1
    <3>1. PICK j \in Nat : j = i - 1 /\ j \in 1..m /\ j \in 1..m - 1 /\ ~(i <= j) /\ j + 1 = i
      BY <2>2, <2>5
    <3>2. w[j].frame = <<c, a + j - 1>>
      BY <2>1, <3>1
    <3>3. w[j].frame[2] = a + j - 1
      BY <3>2
    <3>4. Follows(w[j], w[i]) /\ w[j].part = "whole"
      BY <1>1, <3>1 DEF Encodes
    <3>5. w[i].frame[2] = a + j - 1 + 1
      BY <3>3, <3>4 DEF Follows
    <3> QED BY <2>3, <3>1, <3>5
  <2> QED BY <2>4, <2>5
<1>3. \A i \in 1..m : w[i].frame = <<c, a + i - 1>>
  BY <1>2
<1>4. k = a + m - 1
  <2>1. CASE m = 0
    BY <1>1, <2>1 DEF Encodes
  <2>2. CASE m # 0
    <3>1. m \in 1..m /\ w[m].frame[2] = k
      BY <1>1, <2>2 DEF Encodes
    <3>2. w[m].frame = <<c, a + m - 1>>
      BY <1>3, <3>1
    <3> QED BY <3>1, <3>2
  <2> QED BY <2>1, <2>2
<1> QED BY <1>1, <1>3, <1>4

LEMMA InitFrames == Init => FramesInv
<1> SUFFICES ASSUME Init PROVE FramesInv
  OBVIOUS
<1>1. ASSUME NEW c \in Peers
      PROVE  /\ wire[c] = <<>> /\ frame[c] = Garbled /\ said[c] = 0 /\ ~At(c, "lock")
             /\ From(c) = <<>> /\ Len(From(c)) = 0
  <2>1. wire[c] = <<>> /\ frame[c] = Garbled /\ said[c] = 0 /\ ~At(c, "lock") /\ order = <<>>
    BY DEF Init, At
  <2>2. From(c) = <<>>
    BY <2>1, FromEmpty
  <2> QED BY <2>1, <2>2
<1>2. ASSUME NEW c \in Peers
      PROVE  InOrder(c) /\ wire[c] \in Seq(PartsOf(c)) /\ frame[c] \in {Garbled} \cup ({c} \X Nat)
  <2>1. Behind(c) = 1
    BY <1>1 DEF Behind
  <2>2. Len(wire[c]) = 0 /\ wire[c] \in Seq(PartsOf(c))
    <3>1. PICK e : e = wire[c]
      OBVIOUS
    <3>2. PICK S : S = PartsOf(c)
      OBVIOUS
    <3>3. e = <<>>
      BY <1>1, <3>1
    <3>4. Len(e) = 0 /\ e \in Seq(S)
      BY <3>3
    <3> QED BY <3>1, <3>2, <3>4
  <2>3. Encodes(wire[c], 1, said[c])
    BY <1>1, <2>2 DEF Encodes
  <2>4. From(c) \in Seq(Frames) /\ \A i \in 1..Len(From(c)) : FALSE
    <3>1. PICK e : e = From(c)
      OBVIOUS
    <3>2. PICK S : S = Frames
      OBVIOUS
    <3>3. e = <<>>
      BY <1>1, <3>1
    <3>4. e \in Seq(S) /\ \A i \in 1..Len(e) : FALSE
      BY <3>3
    <3> QED BY <3>1, <3>2, <3>4
  <2> QED BY <1>1, <2>1, <2>2, <2>3, <2>4 DEF InOrder
<1> QED BY <1>2 DEF FramesInv, OwnParts

\* A connection whose frames the step does not touch.
LEMMA SameOrder ==
  ASSUME NEW c \in Peers, InOrder(c), From(c)' = From(c),
         wire'[c] = wire[c], frame'[c] = frame[c], said'[c] = said[c],
         At(c, "lock")' <=> At(c, "lock")
  PROVE  InOrder(c)'
BY DEF InOrder, Behind

LEMMA FramesKept ==
  ASSUME FramesInv, UNCHANGED <<order, wire, frame, said, misread>>,
         \A c \in Peers : At(c, "lock")' <=> At(c, "lock")
  PROVE  FramesInv'
<1>1. \A c \in Peers : From(c)' = From(c)
  BY DEF From
<1>2. ASSUME NEW c \in Peers, ~misread'[c] PROVE InOrder(c)'
  BY <1>1, <1>2, SameOrder DEF FramesInv
<1> QED BY <1>2 DEF FramesInv, OwnParts

\* A frame is sent, whole or in two parts.
LEMMA FramesSend ==
  ASSUME TypeOK, FramesInv, NEW c \in Peers, Send(c)
  PROVE  FramesInv'
<1>1. /\ said' = [said EXCEPT ![c] = @ + 1]
      /\ UNCHANGED <<order, frame, misread, pc>>
      /\ \/ wire' = [wire EXCEPT ![c] = Append(@, Whole(<<c, said'[c]>>))]
         \/ wire' = [wire EXCEPT ![c] =
                       @ \o <<FirstPart(<<c, said'[c]>>), SecondPart(<<c, said'[c]>>)>>]
  BY DEF Send, histories
<1>2. PICK k \in Nat : k = said[c]
  BY DEF TypeOK
<1>3. said'[c] = k + 1 /\ \A d \in Peers \ {c} : said'[d] = said[d]
  BY <1>1, <1>2 DEF TypeOK
<1>4. PICK p, q, r : /\ p = Whole(<<c, k + 1>>)
                     /\ q = FirstPart(<<c, k + 1>>) /\ r = SecondPart(<<c, k + 1>>)
  OBVIOUS
<1>5. /\ p \in PartsOf(c) /\ p.part = "whole" /\ p.frame[2] = k + 1
      /\ q \in PartsOf(c) /\ q.part = "first" /\ q.frame[2] = k + 1
      /\ r \in PartsOf(c) /\ r.part = "second" /\ q.frame = r.frame
  BY <1>4 DEF Whole, FirstPart, SecondPart, PartsOf
<1>6. PICK w : w = wire[c]
  OBVIOUS
<1>7. w \in Seq(PartsOf(c)) /\ DOMAIN wire = Peers
  BY <1>6 DEF FramesInv, OwnParts, TypeOK
<1>8. /\ wire'[c] = Append(w, p) \/ wire'[c] = w \o <<q, r>>
      /\ \A d \in Peers \ {c} : wire'[d] = wire[d]
  BY <1>1, <1>3, <1>4, <1>6, <1>7
<1>9. wire'[c] \in Seq(PartsOf(c))
  <2>1. Append(w, p) \in Seq(PartsOf(c))
    BY <1>5, <1>7
  <2>2. <<q, r>> \in Seq(PartsOf(c))
    BY <1>5
  <2>3. w \o <<q, r>> \in Seq(PartsOf(c))
    BY <1>7, <2>2, ConcatProperties
  <2> QED BY <1>8, <2>1, <2>3
<1>10. OwnParts'
  <2>1. ASSUME NEW d \in Peers
        PROVE  wire'[d] \in Seq(PartsOf(d)) /\ frame'[d] \in {Garbled} \cup ({d} \X Nat)
    <3>1. CASE d = c
      BY <1>1, <1>9, <3>1 DEF FramesInv, OwnParts
    <3>2. CASE d # c
      BY <1>1, <1>8, <3>2 DEF FramesInv, OwnParts
    <3> QED BY <3>1, <3>2
  <2> QED BY <2>1 DEF OwnParts
<1>11. \A d \in Peers : From(d)' = From(d) /\ Behind(d)' = Behind(d) /\ (At(d, "lock")' <=> At(d, "lock"))
  BY <1>1 DEF From, Behind, At
<1>12. ASSUME NEW d \in Peers, ~misread'[d] PROVE InOrder(d)'
  <2>1. InOrder(d)
    BY <1>1, <1>12 DEF FramesInv
  <2>2. CASE d # c
    BY <1>1, <1>3, <1>8, <1>11, <2>1, <2>2, SameOrder
  <2>3. CASE d = c
    <3>1. Encodes(w, Behind(c), k) /\ Behind(c) \in Nat
      BY <1>2, <1>6, <2>1, <2>3 DEF InOrder, Behind
    <3>2. Encodes(wire'[c], Behind(c), k + 1)
      <4>1. Encodes(Append(w, p), Behind(c), k + 1)
        BY <1>2, <1>5, <1>7, <3>1, EncodeWhole
      <4>2. Encodes(w \o <<q, r>>, Behind(c), k + 1)
        BY <1>2, <1>5, <1>7, <3>1, EncodeSplit
      <4> QED BY <1>8, <4>1, <4>2
    <3> QED BY <1>1, <1>3, <1>11, <2>1, <2>3, <3>2 DEF InOrder
  <2> QED BY <2>2, <2>3
<1> QED BY <1>10, <1>12 DEF FramesInv

\* A read_some takes what was read off the socket.
LEMMA FramesRead ==
  ASSUME TypeOK, FramesInv, NEW c \in Peers, Read(c)
  PROVE  FramesInv'
<1>1. PICK n \in 1..Len(wire[c]) :
        /\ wire' = [wire EXCEPT ![c] = SubSeq(@, n + 1, Len(@))]
        /\ frame' = [frame EXCEPT ![c] = Decoded(SubSeq(wire[c], 1, n))]
        /\ misread' = [misread EXCEPT ![c] = @ \/ ~IsOneFrame(SubSeq(wire[c], 1, n))]
  BY DEF Read
<1>2. pc[c] = "read" /\ pc' = [pc EXCEPT ![c] = "lock"] /\ UNCHANGED <<order, said>>
  BY Zenon DEF Read, At, GoTo
<1>3. PICK w : w = wire[c]
  OBVIOUS
<1>4. w \in Seq(PartsOf(c)) /\ DOMAIN wire = Peers /\ DOMAIN frame = Peers
      /\ DOMAIN misread = Peers /\ DOMAIN pc = Peers /\ said[c] \in Nat /\ Len(w) \in Nat
  BY <1>3 DEF FramesInv, OwnParts, TypeOK
<1>5. /\ wire'[c] = SubSeq(w, n + 1, Len(w)) /\ frame'[c] = Decoded(SubSeq(w, 1, n))
      /\ ~misread'[c] => ~misread[c] /\ IsOneFrame(SubSeq(w, 1, n))
      /\ \A d \in Peers \ {c} : wire'[d] = wire[d] /\ frame'[d] = frame[d] /\ misread'[d] = misread[d]
  BY <1>1, <1>3, <1>4
<1>6. /\ ~At(c, "lock") /\ At(c, "lock")'
      /\ \A d \in Peers \ {c} : At(d, "lock")' <=> At(d, "lock")
  BY <1>2, <1>4 DEF At
<1>7. \A d \in Peers : From(d)' = From(d)
  BY <1>2 DEF From
<1>8. wire'[c] \in Seq(PartsOf(c))
  <2>1. n + 1 \in Int /\ Len(w) \in Int /\ \A i \in n + 1..Len(w) : w[i] \in PartsOf(c)
    BY <1>1, <1>3, <1>4
  <2>2. SubSeq(w, n + 1, Len(w)) \in Seq(PartsOf(c))
    BY <1>4, <2>1, SubSeqProperties
  <2> QED BY <1>5, <2>2
<1>9. frame'[c] \in {Garbled} \cup ({c} \X Nat)
  <2>1. PICK r : r = SubSeq(w, 1, n)
    OBVIOUS
  <2>2. n \in 1..Len(w) /\ \A i \in 1..n : w[i] \in PartsOf(c)
    BY <1>1, <1>3, <1>4
  <2>3. r[1] = w[1] /\ w[1] \in PartsOf(c)
    <3>1. \A i \in 1..n : r[i] = w[i]
      BY <1>4, <2>1, <2>2, SubSeqProperties
    <3>2. 1 \in 1..n
      BY <2>2
    <3> QED BY <2>2, <3>1, <3>2
  <2>4. w[1].frame \in {c} \X Nat
    BY <2>3, PartType
  <2> QED BY <1>5, <2>1, <2>3, <2>4 DEF Decoded
<1>10. OwnParts'
  <2>1. ASSUME NEW d \in Peers
        PROVE  wire'[d] \in Seq(PartsOf(d)) /\ frame'[d] \in {Garbled} \cup ({d} \X Nat)
    <3>1. CASE d = c
      BY <1>8, <1>9, <3>1
    <3>2. CASE d # c
      BY <1>5, <3>2 DEF FramesInv, OwnParts
    <3> QED BY <3>1, <3>2
  <2> QED BY <2>1 DEF OwnParts
<1>11. ASSUME NEW d \in Peers, ~misread'[d] PROVE InOrder(d)'
  <2>1. InOrder(d)
    BY <1>5, <1>11 DEF FramesInv
  <2>2. CASE d # c
    BY <1>2, <1>5, <1>6, <1>7, <2>1, <2>2, SameOrder
  <2>3. CASE d = c
    <3>1. PICK a \in Nat : a = Len(From(c)) + 1
      BY <2>1, <2>3 DEF InOrder
    <3>2. Len(From(c)) \in Nat /\ From(c) \in Seq(Frames)
      BY <2>1, <2>3 DEF InOrder
    <3>3. Behind(c) = a /\ Encodes(w, a, said[c])
      BY <1>3, <1>6, <2>1, <2>3, <3>1 DEF InOrder, Behind
    <3>4. n \in 1..Len(w) /\ IsOneFrame(SubSeq(w, 1, n))
      BY <1>1, <1>3, <1>5, <1>11, <2>3
    <3>5. Decoded(SubSeq(w, 1, n)) = <<c, a>>
      BY <1>4, <3>3, <3>4, ReadOne
    <3>6. Encodes(SubSeq(w, n + 1, Len(w)), a + 1, said[c])
      BY <1>4, <3>3, <3>4, ReadOne
    <3>7. Behind(c)' = a + 1
      BY <1>6, <1>7, <3>1, <3>2 DEF Behind
    <3>8. frame'[c] = <<c, Len(From(c)') + 1>>
      BY <1>5, <1>7, <3>1, <3>5
    <3>9. Encodes(wire'[c], Behind(c)', said'[c])
      BY <1>2, <1>5, <3>6, <3>7
    <3>10. From(c)' \in Seq(Frames) /\ \A i \in 1..Len(From(c)') : From(c)'[i] = <<c, i>>
      BY <1>7, <2>1, <2>3 DEF InOrder
    <3> QED BY <2>3, <3>8, <3>9, <3>10 DEF InOrder
  <2> QED BY <2>2, <2>3
<1> QED BY <1>10, <1>11 DEF FramesInv

\* decode_frame throws.
LEMMA FramesThrow ==
  ASSUME TypeOK, FramesInv, NEW c \in Peers, ReadThrows(c)
  PROVE  FramesInv'
<1>1. /\ wire[c] # <<>> /\ wire' = [wire EXCEPT ![c] = Tail(@)]
      /\ misread' = [misread EXCEPT ![c] = TRUE]
      /\ pc[c] = "read" /\ pc' = [pc EXCEPT ![c] = "leave"]
      /\ UNCHANGED <<order, said, frame>>
  BY Zenon DEF ReadThrows, At, GoTo
<1>2. DOMAIN wire = Peers /\ DOMAIN misread = Peers /\ DOMAIN pc = Peers
  BY DEF TypeOK
<1>3. wire'[c] = Tail(wire[c]) /\ misread'[c] /\ \A d \in Peers \ {c} : wire'[d] = wire[d] /\ misread'[d] = misread[d]
  BY <1>1, <1>2
<1>4. Tail(wire[c]) \in Seq(PartsOf(c))
  BY <1>1, HeadTailProperties DEF FramesInv, OwnParts
<1>5. OwnParts'
  <2>1. ASSUME NEW d \in Peers
        PROVE  wire'[d] \in Seq(PartsOf(d)) /\ frame'[d] \in {Garbled} \cup ({d} \X Nat)
    <3>1. CASE d = c
      BY <1>1, <1>3, <1>4, <3>1 DEF FramesInv, OwnParts
    <3>2. CASE d # c
      BY <1>1, <1>3, <3>2 DEF FramesInv, OwnParts
    <3> QED BY <3>1, <3>2
  <2> QED BY <2>1 DEF OwnParts
<1>6. ASSUME NEW d \in Peers, ~misread'[d] PROVE InOrder(d)'
  <2>1. d # c /\ InOrder(d)
    BY <1>3, <1>6 DEF FramesInv
  <2>2. From(d)' = From(d) /\ (At(d, "lock")' <=> At(d, "lock"))
    BY <1>1, <1>2, <2>1 DEF From, At
  <2> QED BY <1>1, <1>3, <2>1, <2>2, SameOrder
<1> QED BY <1>5, <1>6 DEF FramesInv

\* The broadcast begins: the frame that was read last is the next of its peer's.
LEMMA FramesLock ==
  ASSUME TypeOK, FramesInv, NEW c \in Peers, Lock(c)
  PROVE  FramesInv'
<1>1. /\ order' = Append(order, frame[c]) /\ pc[c] = "lock" /\ pc' = [pc EXCEPT ![c] = "write"]
      /\ UNCHANGED <<wire, frame, said, misread>>
  BY Zenon DEF Lock, At, GoTo, peer
<1>2. order \in Seq(Payloads) /\ frame[c] \in Payloads /\ DOMAIN pc = Peers
  BY DEF TypeOK
<1>3. \A d \in Peers : From(d)' = IF IsOf(frame[c], d) THEN Append(From(d), frame[c]) ELSE From(d)
  BY <1>1, <1>2, FromAppend
<1>4. frame[c] \in {Garbled} \cup ({c} \X Nat)
  BY DEF FramesInv, OwnParts
<1>5. OwnParts'
  BY <1>1 DEF FramesInv, OwnParts
<1>6. ASSUME NEW d \in Peers, ~misread'[d] PROVE InOrder(d)'
  <2>1. InOrder(d)
    BY <1>1, <1>6 DEF FramesInv
  <2>2. CASE d # c
    <3>1. ~IsOf(frame[c], d)
      BY <1>4, <2>2 DEF IsOf
    <3>2. At(d, "lock")' <=> At(d, "lock")
      BY <1>1, <1>2, <2>2 DEF At
    <3> QED BY <1>1, <1>3, <2>1, <3>1, <3>2, SameOrder
  <2>3. CASE d = c
    <3>1. PICK s \in Seq(Frames) : s = From(c)
      BY <2>1, <2>3 DEF InOrder
    <3>2. PICK n \in Nat : n = Len(s)
      OBVIOUS
    <3>3. PICK f : f = frame[c] /\ f = <<c, n + 1>>
      BY <1>1, <2>1, <2>3, <3>1, <3>2 DEF InOrder, At
    <3>4. f \in Frames /\ f # Garbled /\ f[1] = c
      BY <3>3, GarbledAssumption DEF Frames
    <3>5. From(c)' = Append(s, f)
      BY <1>3, <3>1, <3>3, <3>4 DEF IsOf
    <3>6. /\ Append(s, f) \in Seq(Frames) /\ Len(Append(s, f)) = n + 1
          /\ Append(s, f)[n + 1] = f /\ \A i \in 1..n : Append(s, f)[i] = s[i]
      BY <3>2, <3>4
    <3>7. \A i \in 1..n : s[i] = <<c, i>>
      BY <2>1, <2>3, <3>1, <3>2 DEF InOrder
    <3>8. \A i \in 1..n + 1 : Append(s, f)[i] = <<c, i>>
      <4>1. \A i \in 1..n + 1 : i \in 1..n \/ i = n + 1
        OBVIOUS
      <4> QED BY <3>3, <3>6, <3>7, <4>1
    <3>9. At(c, "lock") /\ ~At(c, "lock")'
      BY <1>1, <1>2 DEF At
    <3>10. Behind(c) = n + 2 /\ Behind(c)' = n + 1 + 1
      BY <3>1, <3>2, <3>5, <3>6, <3>9 DEF Behind
    <3>11. Encodes(wire'[c], Behind(c)', said'[c])
      <4>1. n + 2 = n + 1 + 1
        OBVIOUS
      <4> QED BY <1>1, <2>1, <2>3, <3>10, <4>1 DEF InOrder
    <3> QED BY <2>3, <3>5, <3>6, <3>8, <3>9, <3>11 DEF InOrder
  <2> QED BY <2>2, <2>3
<1> QED BY <1>5, <1>6 DEF FramesInv

LEMMA NextFrames == TypeOK /\ FramesInv /\ [Next]_vars => FramesInv'
<1> SUFFICES ASSUME TypeOK, FramesInv, [Next]_vars PROVE FramesInv'
  OBVIOUS
<1>1. DOMAIN pc = Peers
  BY DEF TypeOK
<1>2. ASSUME NEW c \in Peers, NEW p, NEW q, At(c, p), GoTo(c, q), p # "lock", q # "lock",
             UNCHANGED <<order, wire, frame, said, misread>>
      PROVE  FramesInv'
  <2>1. \A d \in Peers : At(d, "lock")' <=> At(d, "lock")
    BY <1>1, <1>2 DEF At, GoTo
  <2> QED BY <1>2, <2>1, FramesKept
<1>3. ASSUME NEW c \in Peers, Handshake(c) PROVE FramesInv'
  <2>1. At(c, "handshake") /\ (GoTo(c, "register") \/ GoTo(c, "gone"))
        /\ UNCHANGED <<order, wire, frame, said, misread>>
    BY <1>3, Zenon DEF Handshake, peer, histories
  <2> QED BY <1>2, <2>1
<1>4. ASSUME NEW c \in Peers,
             Register(c) \/ Count(c) \/ Leave(c) \/ Uncount(c) \/ ReadEnd(c) \/ Unlock(c)
      PROVE  FramesInv'
  <2>1. /\ \/ At(c, "register") /\ GoTo(c, "count")
           \/ At(c, "count") /\ GoTo(c, "read")
           \/ At(c, "leave") /\ GoTo(c, "uncount")
           \/ At(c, "uncount") /\ GoTo(c, "gone")
           \/ At(c, "read") /\ GoTo(c, "leave")
           \/ At(c, "write") /\ GoTo(c, "read")
        /\ UNCHANGED <<order, wire, frame, said, misread>>
    BY <1>4, Zenon DEF Register, Count, Leave, Uncount, ReadEnd, Unlock, peer, histories
  <2> QED BY <1>2, <2>1
<1>5. ASSUME NEW c \in Peers, Write(c) \/ WriteFails(c) \/ Receive(c) \/ Close(c) PROVE FramesInv'
  <2>1. UNCHANGED <<pc, order, wire, frame, said, misread>>
    BY <1>5, Zenon DEF Write, WriteFails, Receive, Close, peer, histories
  <2> QED BY <2>1, FramesKept DEF At
<1>6. CASE StartFails \/ UNCHANGED vars
  <2>1. UNCHANGED <<pc, order, wire, frame, said, misread>>
    BY <1>6, Zenon DEF StartFails, vars, peer, histories
  <2> QED BY <2>1, FramesKept DEF At
<1> QED BY <1>3, <1>4, <1>5, <1>6, FramesSend, FramesRead, FramesThrow, FramesLock
        DEF Next, Handler, Receives

\* A peer's frames are broadcast in the order sent, none lost and none twice, as
\* long as each read_some of its thread returned exactly one frame.
THEOREM FramesInTurn == Spec => []NothingLostFrameByFrame
<1>1. TypeOK /\ FramesInv => NothingLostFrameByFrame
  <2> SUFFICES ASSUME TypeOK, FramesInv, NEW c \in Peers, ~misread[c], AllWhole(c)
               PROVE  AllOfItThere(c)
    BY DEF NothingLostFrameByFrame
  <2>1. InOrder(c) /\ wire[c] \in Seq(PartsOf(c)) /\ said[c] \in Nat
    BY DEF FramesInv, OwnParts, TypeOK
  <2>2. PICK w \in Seq(PartsOf(c)), k \in Nat, s \in Seq(Frames) :
          w = wire[c] /\ k = said[c] /\ s = From(c)
    BY <2>1 DEF InOrder
  <2>3. PICK m \in Nat, n \in Nat, a \in Nat : m = Len(w) /\ n = Len(s) /\ a = Behind(c)
    BY <2>2 DEF Behind
  <2>4. (\A i \in 1..m : w[i].frame = <<c, a + i - 1>>) /\ k = a + m - 1
    <3>1. \A i \in 1..Len(w) : w[i].part = "whole"
      BY <2>2 DEF AllWhole
    <3>2. Encodes(w, a, k)
      BY <2>1, <2>2, <2>3 DEF InOrder
    <3> QED BY <2>3, <3>1, <3>2, WholesNumbered
  <2>5. \A i \in 1..n : s[i] = <<c, i>>
    BY <2>1, <2>2, <2>3 DEF InOrder
  <2>6. PICK x, y : x = Pending(c) /\ y = Unread(c)
    OBVIOUS
  <2>7. /\ y \in Seq(Frames) /\ Len(y) = m /\ \A i \in 1..m : y[i] = <<c, a + i - 1>>
    <3>1. DOMAIN w = 1..m
      BY <2>3
    <3>2. y = [i \in 1..m |-> w[i].frame]
      BY <2>2, <2>6, <3>1 DEF Unread
    <3>3. ASSUME NEW i \in 1..m PROVE w[i].frame = <<c, a + i - 1>> /\ w[i].frame \in Frames
      <4>1. w[i].frame = <<c, a + i - 1>>
        BY <2>4
      <4>2. a + i - 1 \in Nat
        <5>1. Behind(c) \in Nat \ {0}
          BY <2>2, <2>3 DEF Behind
        <5> QED BY <2>3, <5>1
      <4> QED BY <4>1, <4>2 DEF Frames
    <3>4. PICK S, g : S = Frames /\ g = [i \in 1..m |-> w[i].frame]
      OBVIOUS
    <3>5. \A i \in 1..m : w[i].frame \in S
      BY <3>3, <3>4
    <3>6. g \in Seq(S) /\ Len(g) = m
      BY <3>4, <3>5
    <3>7. \A i \in 1..m : g[i] = <<c, a + i - 1>>
      BY <3>3, <3>4
    <3> QED BY <3>2, <3>4, <3>6, <3>7
  <2>8. /\ x \in Seq(Frames) /\ a = n + Len(x) + 1 /\ Len(x) \in Nat
        /\ \A i \in 1..Len(x) : x[i] = <<c, n + i>>
    <3>1. CASE At(c, "lock")
      <4>1. x = <<frame[c]>> /\ frame[c] = <<c, n + 1>> /\ a = n + 2
        BY <2>1, <2>2, <2>3, <2>6, <3>1 DEF Pending, Behind, InOrder
      <4>2. frame[c] \in Frames
        BY <4>1 DEF Frames
      <4>3. Len(x) = 1 /\ x \in Seq(Frames) /\ x[1] = frame[c]
        BY <4>1, <4>2
      <4> QED BY <4>1, <4>3
    <3>2. CASE ~At(c, "lock")
      <4>1. x = <<>> /\ a = n + 1
        BY <2>2, <2>3, <2>6, <3>2 DEF Pending, Behind
      <4> QED BY <4>1
    <3> QED BY <3>1, <3>2
  <2>9. PICK l \in Nat : l = Len(x)
    BY <2>8
  <2>10. PICK z : z = s \o x \o y
    OBVIOUS
  <2>11. /\ s \o x \in Seq(Frames) /\ Len(s \o x) = n + l
         /\ \A i \in 1..n + l : (s \o x)[i] = IF i <= n THEN s[i] ELSE x[i - n]
    BY <2>2, <2>3, <2>8, <2>9, ConcatProperties, ZenonT(60)
  <2>12. /\ z \in Seq(Frames) /\ Len(z) = n + l + m
         /\ \A i \in 1..n + l + m : z[i] = IF i <= n + l THEN (s \o x)[i] ELSE y[i - (n + l)]
    <3>1. PICK q : q = s \o x
      OBVIOUS
    <3>2. q \in Seq(Frames) /\ Len(q) = n + l
      BY <2>11, <3>1
    <3>3. z = q \o y
      BY <2>10, <3>1
    <3>4. q \o y \in Seq(Frames)
      BY <2>7, <3>2, ConcatProperties, Zenon
    <3>5. Len(q \o y) = Len(q) + Len(y)
      BY <2>7, <3>2, ConcatProperties, Zenon
    <3>6. \A i \in 1..Len(q) + Len(y) : (q \o y)[i] = IF i <= Len(q) THEN q[i] ELSE y[i - Len(q)]
      BY <2>7, <3>2, ConcatProperties, Zenon
    <3> QED BY <2>7, <3>1, <3>2, <3>3, <3>4, <3>5, <3>6
  <2>13. k = n + l + m
    BY <2>4, <2>8, <2>9
  <2>14. ASSUME NEW i \in 1..k PROVE z[i] = <<c, i>>
    <3>1. CASE i \in 1..n
      <4>1. i <= n + l /\ i <= n /\ i \in 1..n + l /\ i \in 1..n + l + m
        BY <3>1
      <4> QED BY <2>5, <2>11, <2>12, <3>1, <4>1
    <3>2. CASE i \in n + 1..n + l
      <4>1. i <= n + l /\ ~(i <= n) /\ i \in 1..n + l /\ i \in 1..n + l + m /\ i - n \in 1..l
            /\ n + (i - n) = i
        BY <3>2
      <4> QED BY <2>8, <2>9, <2>11, <2>12, <4>1
    <3>3. CASE i \in n + l + 1..n + l + m
      <4>1. ~(i <= n + l) /\ i \in 1..n + l + m /\ i - (n + l) \in 1..m
            /\ a + (i - (n + l)) - 1 = i
        BY <2>8, <2>9, <3>3
      <4> QED BY <2>7, <2>12, <4>1
    <3> QED BY <2>13, <3>1, <3>2, <3>3
  <2>15. z = [i \in 1..k |-> <<c, i>>]
    <3>1. DOMAIN z = 1..k /\ z = [i \in DOMAIN z |-> z[i]]
      BY <2>12, <2>13
    <3> QED BY <2>14, <3>1
  <2> QED BY <2>2, <2>6, <2>10, <2>15 DEF AllOfItThere
<1>2. IInv => TypeOK
  BY DEF IInv
<1> QED BY <1>1, <1>2, InitIInv, NextIInv, InitFrames, NextFrames, PTL DEF Spec
=============================================================================
