--------------------------- MODULE ProgramsProofs --------------------------
(***************************************************************************)
(* The programs of MCPrograms keep their promises for every value of the   *)
(* constants.                                                              *)
(***************************************************************************)
EXTENDS MCPrograms, SequenceLemmas

-----------------------------------------------------------------------------
(* Striped_Unordered_Map                                                   *)

Points == {"out", "change", "contains", "index"}

StripedTypes ==
  /\ phase \in {"insert", "erase", "count", "end"}
  /\ stripedPc \in [Striped!Everyone -> Points]
  /\ i \in [Striped!Everyone -> Nat]
  /\ got \in [Striped!Everyone -> Int]
  /\ \A t \in Striped!Everyone : i[t] <= Striped!Keys(t)

\* A thread at work is one of the phase, at a key of its own loop; only those that
\* change the map are at change.
AtWork == \A t \in Striped!Everyone : stripedPc[t] # "out" =>
            /\ Striped!Active(t)
            /\ stripedPc[t] = "change" <=> t \in Striped!Changers

\* Who changes a stripe is alone in it.
Exclusive ==
  \A t \in Striped!Changers : stripedPc[t] # "out" =>
    \A u \in Striped!Everyone : u # t => ~Striped!Inside(u, Striped!get_striped(Striped!key(t)))

\* operator[] is reached only for a key that is there.
Asked == \A t \in Striped!Everyone : stripedPc[t] = "index" => Striped!Has(Striped!key(t))

Holds == data = {<<k, k * 10>> : k \in Striped!Due}
Answered == \A t \in Striped!Readers : got[t] \in {-1, (i[t] - 1) * 10}

StripedInv == /\ StripedTypes /\ AtWork /\ Exclusive /\ Asked /\ Holds /\ Answered
              /\ count = 0

\* Whole multiples of m are at least m apart.
LEMMA Multiples ==
  ASSUME NEW m \in Nat, NEW x \in Nat, NEW y \in Nat, x < y
  PROVE  x * m + m <= y * m
<1>1. PICK d \in Nat : y = x + 1 + d
  OBVIOUS
<1>2. y * m = x * m + m + d * m
  BY <1>1
<1>3. d * m \in Nat /\ x * m \in Nat
  OBVIOUS
<1> QED BY <1>2, <1>3

\* A number is put together from quotient and remainder in one way.
LEMMA DivMod ==
  ASSUME NEW m \in Nat \ {0}, NEW k \in Nat
  PROVE  /\ k % m \in 0..m - 1 /\ k \div m \in Nat
         /\ k = ((k \div m) * m) + (k % m)
OBVIOUS

\* The quotient and the remainder by m are unique.
LEMMA DivModUnique ==
  ASSUME NEW m \in Nat \ {0}, NEW r \in 0..m - 1, NEW q \in Nat
  PROVE  (r + q * m) % m = r /\ (r + q * m) \div m = q
<1>1. PICK k \in Nat : k = r + q * m
  OBVIOUS
<1>2. PICK x \in 0..m - 1, y \in Nat : x = k % m /\ y = k \div m /\ k = y * m + x
  BY DivMod
<1>3. y * m \in Nat /\ q * m \in Nat
  OBVIOUS
<1>4. ~(y < q)
  BY <1>1, <1>2, <1>3, Multiples
<1>5. ~(q < y)
  BY <1>1, <1>2, <1>3, Multiples
<1>6. y = q
  BY <1>4, <1>5
<1>7. x = r
  BY <1>1, <1>2, <1>3, <1>6
<1> QED BY <1>1, <1>2, <1>6, <1>7

\* The threads, and what each kind works on.
LEMMA ThreadFacts ==
  /\ \A t \in Striped!Changers : /\ t \in Striped!Everyone /\ t \notin Striped!Readers
                                 /\ t # Striped!Main
                                 /\ t[2] \in 0..NUM_THREADS - 1 /\ t = <<"changer", t[2]>>
                                 /\ Striped!Keys(t) = NUM_KEYS
                                 /\ Striped!key(t) = i[t] + t[2] * NUM_KEYS
  /\ \A t \in Striped!Everyone \ Striped!Changers :
       Striped!key(t) = i[t] /\ Striped!Keys(t) = NUM_THREADS * NUM_KEYS
  /\ \A k \in 0..NUM_THREADS - 1 : <<"changer", k>> \in Striped!Changers
  /\ Striped!Readers \subseteq Striped!Everyone /\ Striped!Main \in Striped!Everyone
  /\ Striped!Main \notin Striped!Readers
BY DEF Striped!Everyone, Striped!Changers, Striped!Readers, Striped!Main, Striped!Indices,
       Striped!Keys, Striped!key

\* The thread that inserts and erases a key, and when.
LEMMA Owner ==
  ASSUME NEW k \in Striped!AllKeys
  PROVE  /\ k \in Nat
         /\ k % NUM_KEYS \in 0..NUM_KEYS - 1
         /\ k \div NUM_KEYS \in 0..NUM_THREADS - 1
         /\ k = (k % NUM_KEYS) + ((k \div NUM_KEYS) * NUM_KEYS)
<1> USE StripedAssumption
<1>1. NUM_THREADS * NUM_KEYS \in Nat
  OBVIOUS
<1>2. k \in Nat /\ k < NUM_THREADS * NUM_KEYS
  BY <1>1 DEF Striped!AllKeys
<1>3. PICK r \in 0..NUM_KEYS - 1, q \in Nat :
        r = k % NUM_KEYS /\ q = k \div NUM_KEYS /\ k = q * NUM_KEYS + r
  BY <1>2, DivMod
<1>4. q < NUM_THREADS
  <2>1. SUFFICES ASSUME ~(q < NUM_THREADS) PROVE FALSE
    OBVIOUS
  <2>2. NUM_THREADS * NUM_KEYS <= q * NUM_KEYS
    <3>1. CASE q = NUM_THREADS
      BY <1>1, <3>1
    <3>2. CASE NUM_THREADS < q
      <4>1. q * NUM_KEYS \in Nat
        OBVIOUS
      <4> QED BY <1>1, <3>2, <4>1, Multiples
    <3> QED BY <2>1, <3>1, <3>2
  <2>3. q * NUM_KEYS \in Nat
    OBVIOUS
  <2> QED BY <1>1, <1>2, <1>3, <2>2, <2>3
<1> QED BY <1>2, <1>3, <1>4

Done(k) == k % NUM_KEYS < i[<<"changer", k \div NUM_KEYS>>]

\* A thread's step from one key to the next settles that key and no other.
LEMMA OneDone ==
  ASSUME NEW t \in Striped!Changers, i \in [Striped!Everyone -> Nat],
         i[t] < NUM_KEYS, i' = [i EXCEPT ![t] = @ + 1]
  PROVE  /\ Striped!key(t) \in Striped!AllKeys
         /\ ~Done(Striped!key(t))
         /\ \A k \in Striped!AllKeys : Done(k)' <=> Done(k) \/ k = Striped!key(t)
<1> USE StripedAssumption
<1>1. PICK r \in 0..NUM_KEYS - 1, q \in 0..NUM_THREADS - 1 :
        r = i[t] /\ q = t[2] /\ t = <<"changer", q>> /\ Striped!key(t) = r + q * NUM_KEYS
  BY ThreadFacts
<1>2. (r + q * NUM_KEYS) % NUM_KEYS = r /\ (r + q * NUM_KEYS) \div NUM_KEYS = q
  BY DivModUnique
<1>3. q * NUM_KEYS \in Nat /\ NUM_THREADS * NUM_KEYS \in Nat
  OBVIOUS
<1>4. q * NUM_KEYS + NUM_KEYS <= NUM_THREADS * NUM_KEYS
  BY Multiples
<1>5. Striped!key(t) \in Striped!AllKeys
  BY <1>1, <1>3, <1>4 DEF Striped!AllKeys
<1>6. ~Done(Striped!key(t))
  BY <1>1, <1>2 DEF Done
<1>7. ASSUME NEW k \in Striped!AllKeys
      PROVE  Done(k)' <=> Done(k) \/ k = Striped!key(t)
  <2>1. PICK x \in 0..NUM_KEYS - 1, y \in 0..NUM_THREADS - 1 :
          x = k % NUM_KEYS /\ y = k \div NUM_KEYS /\ k = x + y * NUM_KEYS
    BY Owner
  <2>2. PICK u \in Striped!Everyone : u = <<"changer", y>>
    BY ThreadFacts
  <2>3. Done(k) <=> x < i[u]
    BY <2>1, <2>2 DEF Done
  <2>4. Done(k)' <=> x < i'[u]
    BY <2>1, <2>2 DEF Done
  <2>5. CASE y = q
    <3>1. u = t /\ t \in Striped!Everyone
      BY <1>1, <2>2, <2>5, ThreadFacts
    <3>2. i'[t] = r + 1 /\ i[t] = r
      BY <1>1, <3>1
    <3>3. k = Striped!key(t) <=> x = r
      <4>1. k = x + q * NUM_KEYS
        BY <2>1, <2>5
      <4>2. CASE x = r
        BY <1>1, <4>1, <4>2
      <4>3. CASE k = Striped!key(t)
        BY <1>1, <1>2, <2>1, <4>3
      <4> QED BY <4>2, <4>3
    <3> QED BY <2>3, <2>4, <3>1, <3>2, <3>3
  <2>6. CASE y # q
    <3>1. u # t
      BY <1>1, <2>2, <2>6
    <3>2. i'[u] = i[u]
      BY <3>1
    <3>3. k # Striped!key(t)
      BY <1>1, <1>2, <2>1, <2>6
    <3> QED BY <2>3, <2>4, <3>2, <3>3
  <2> QED BY <2>5, <2>6
<1> QED BY <1>5, <1>6, <1>7

\* What the changers have done leaves in the map.
LEMMA DueIs ==
  Striped!Due = {k \in Striped!AllKeys : \/ phase = "insert" /\ Done(k)
                                         \/ phase = "erase" /\ ~Done(k)}
BY DEF Striped!Due, Done

\* Nothing is done before the threads of a phase start, everything after they end.
LEMMA NothingDone ==
  ASSUME \A t \in Striped!Everyone : i[t] = 0, NEW k \in Striped!AllKeys
  PROVE  ~Done(k)
<1>1. PICK x \in 0..NUM_KEYS - 1, y \in 0..NUM_THREADS - 1 :
        x = k % NUM_KEYS /\ y = k \div NUM_KEYS
  BY Owner
<1>2. i[<<"changer", y>>] = 0
  BY ThreadFacts
<1> QED BY <1>1, <1>2, StripedAssumption DEF Done

\* A phase that no thread works at any more is done with every key.
LEMMA AllDone ==
  ASSUME StripedTypes, phase \in {"insert", "erase"},
         \A t \in Striped!Everyone : ~Striped!Active(t),
         NEW k \in Striped!AllKeys
  PROVE  Done(k)
<1>1. PICK x \in 0..NUM_KEYS - 1, y \in 0..NUM_THREADS - 1 :
        x = k % NUM_KEYS /\ y = k \div NUM_KEYS
  BY Owner
<1>2. PICK t \in Striped!Changers : t = <<"changer", y>>
  BY ThreadFacts
<1>3. t \in Striped!Everyone /\ t # Striped!Main /\ Striped!Keys(t) = NUM_KEYS
  BY ThreadFacts
<1>4. ~(i[t] < NUM_KEYS) /\ i[t] \in Nat
  BY <1>3 DEF Striped!Active, StripedTypes
<1> QED BY <1>1, <1>2, <1>4, StripedAssumption DEF Done

\* Initially nobody is at work and nothing is due.
LEMMA StripedInit == Striped!Init => StripedInv
<1> SUFFICES ASSUME Striped!Init PROVE StripedInv
  OBVIOUS
<1>1. /\ phase = "insert" /\ data = {} /\ count = 0
      /\ stripedPc = [t \in Striped!Everyone |-> "out"]
      /\ i = [t \in Striped!Everyone |-> 0]
      /\ got = [t \in Striped!Everyone |-> -1]
  BY DEF Striped!Init, Striped!Nothing
<1>2. StripedTypes
  <2>1. ASSUME NEW t \in Striped!Everyone PROVE 0 <= Striped!Keys(t)
    <3>1. NUM_THREADS * NUM_KEYS \in Nat /\ NUM_KEYS \in Nat
      BY StripedAssumption
    <3> QED BY <3>1 DEF Striped!Keys
  <2> QED BY <1>1, <2>1 DEF StripedTypes, Points
<1>3. AtWork /\ Exclusive /\ Asked
  BY <1>1, ThreadFacts DEF AtWork, Exclusive, Asked
<1>4. Holds
  <2>1. \A k \in Striped!AllKeys : ~Done(k)
    BY <1>1, NothingDone
  <2>2. Striped!Due = {}
    BY <1>1, <2>1, DueIs
  <2> QED BY <1>1, <2>2 DEF Holds
<1>5. Answered
  BY <1>1, ThreadFacts DEF Answered
<1> QED BY <1>1, <1>2, <1>3, <1>4, <1>5 DEF StripedInv

\* A step that moves no loop variable leaves the keys and what is due alone.
LEMMA SameKeys ==
  ASSUME i' = i
  PROVE  \A t : Striped!key(t)' = Striped!key(t) /\ Striped!Keys(t)' = Striped!Keys(t)
BY DEF Striped!key, Striped!Keys

\* What is due to be in the map depends on i and phase alone.
LEMMA SameDue ==
  ASSUME i' = i, phase' = phase
  PROVE  Striped!Due' = Striped!Due
BY DueIs DEF Done, Striped!Due

\* A thread takes a stripe's lock, alone or with other readers.
LEMMA LockStep ==
  ASSUME StripedInv, NEW t \in Striped!Everyone, Striped!LockAlone(t) \/ Striped!LockShared(t)
  PROVE  StripedInv'
<1>1. /\ Striped!Active(t) /\ stripedPc[t] = "out"
      /\ UNCHANGED <<phase, data, i, got, count>>
      /\ \/ /\ t \in Striped!Changers /\ stripedPc' = [stripedPc EXCEPT ![t] = "change"]
            /\ \A u \in Striped!Everyone : ~Striped!Inside(u, Striped!get_striped(Striped!key(t)))
         \/ /\ t \notin Striped!Changers /\ stripedPc' = [stripedPc EXCEPT ![t] = "contains"]
            /\ \A u \in Striped!Changers : ~Striped!Inside(u, Striped!get_striped(Striped!key(t)))
  BY DEF Striped!LockAlone, Striped!LockShared, Striped!GoTo
<1>2. StripedTypes'
  BY <1>1, SameKeys DEF StripedInv, StripedTypes, Points
<1>3. \A u \in Striped!Everyone \ {t} : stripedPc'[u] = stripedPc[u]
  BY <1>1 DEF StripedInv, StripedTypes
<1>4. stripedPc'[t] = IF t \in Striped!Changers THEN "change" ELSE "contains"
  BY <1>1 DEF StripedInv, StripedTypes
<1>5. \A u : Striped!key(u)' = Striped!key(u) /\ Striped!Active(u)' = Striped!Active(u)
  BY <1>1, SameKeys DEF Striped!Active
<1>6. AtWork'
  BY <1>1, <1>3, <1>4, <1>5 DEF StripedInv, AtWork
<1>7. Exclusive'
  <2> SUFFICES ASSUME NEW v \in Striped!Changers, stripedPc'[v] # "out",
                      NEW u \in Striped!Everyone, u # v
               PROVE  ~Striped!Inside(u, Striped!get_striped(Striped!key(v)))'
    BY DEF Exclusive
  <2>1. v \in Striped!Everyone
    BY ThreadFacts
  <2>2. CASE v = t
    BY <1>1, <1>3, <1>5, <2>2 DEF Striped!Inside, Striped!get_striped
  <2>3. CASE u = t
    <3>1. stripedPc[v] # "out" /\ v # t
      BY <1>3, <2>1, <2>3
    <3>2. ~Striped!Inside(v, Striped!get_striped(Striped!key(t)))
      BY <1>1, <2>1
    <3>3. Striped!get_striped(Striped!key(v)) # Striped!get_striped(Striped!key(t))
      BY <3>1, <3>2 DEF Striped!Inside
    <3> QED BY <1>5, <2>3, <3>3 DEF Striped!Inside, Striped!get_striped
  <2>4. CASE v # t /\ u # t
    BY <1>3, <1>5, <2>1, <2>4 DEF StripedInv, Exclusive, Striped!Inside, Striped!get_striped
  <2> QED BY <2>2, <2>3, <2>4
<1>8. Asked'
  BY <1>1, <1>3, <1>4, <1>5 DEF StripedInv, Asked, Striped!Has
<1>9. Holds'
  BY <1>1, SameDue DEF StripedInv, Holds
<1>10. Answered' /\ count' = 0
  BY <1>1 DEF StripedInv, Answered
<1> QED BY <1>2, <1>6, <1>7, <1>8, <1>9, <1>10 DEF StripedInv

\* A thread gives the lock back and goes on to its next key.
LEMMA UnlockStep ==
  ASSUME StripedInv, NEW t \in Striped!Everyone, stripedPc[t] # "out", phase' = phase,
         got' \in [Striped!Everyone -> Int],
         stripedPc' = [stripedPc EXCEPT ![t] = "out"], i' = [i EXCEPT ![t] = @ + 1]
  PROVE  /\ StripedTypes' /\ AtWork' /\ Exclusive'
         /\ i[t] < Striped!Keys(t)
         /\ stripedPc'[t] = "out" /\ i'[t] = i[t] + 1
         /\ \A u \in Striped!Everyone \ {t} : /\ stripedPc'[u] = stripedPc[u] /\ i'[u] = i[u]
                                              /\ Striped!key(u)' = Striped!key(u)
<1>1. stripedPc'[t] = "out" /\ i'[t] = i[t] + 1 /\ i[t] \in Nat
  BY DEF StripedInv, StripedTypes
<1>2. \A u \in Striped!Everyone \ {t} : stripedPc'[u] = stripedPc[u] /\ i'[u] = i[u]
  BY DEF StripedInv, StripedTypes
<1>3. \A u \in Striped!Everyone \ {t} : Striped!key(u)' = Striped!key(u)
  BY <1>2 DEF Striped!key
<1>4. \A u : Striped!Keys(u)' = Striped!Keys(u)
  BY DEF Striped!Keys
<1>5. i[t] < Striped!Keys(t)
  BY DEF StripedInv, AtWork, Striped!Active
<1>6. \A u \in Striped!Everyone : Striped!Keys(u) \in Nat
  <2>1. NUM_THREADS * NUM_KEYS \in Nat /\ NUM_KEYS \in Nat
    BY StripedAssumption
  <2> QED BY <2>1 DEF Striped!Keys
<1>7. StripedTypes'
  <2>1. /\ stripedPc \in [Striped!Everyone -> Points] /\ i \in [Striped!Everyone -> Nat]
        /\ phase \in {"insert", "erase", "count", "end"}
        /\ \A u \in Striped!Everyone : i[u] <= Striped!Keys(u)
    BY DEF StripedInv, StripedTypes
  <2>2. stripedPc' \in [Striped!Everyone -> Points] /\ i' \in [Striped!Everyone -> Nat]
    BY <2>1 DEF Points
  <2>3. ASSUME NEW u \in Striped!Everyone PROVE i'[u] <= Striped!Keys(u)
    BY <1>1, <1>2, <1>5, <1>6, <2>1
  <2> QED BY <1>4, <2>1, <2>2, <2>3 DEF StripedTypes
<1>8. AtWork'
  BY <1>1, <1>2, <1>4 DEF StripedInv, AtWork, Striped!Active
<1>9. Exclusive'
  <2> SUFFICES ASSUME NEW v \in Striped!Changers, stripedPc'[v] # "out",
                      NEW u \in Striped!Everyone, u # v
               PROVE  ~Striped!Inside(u, Striped!get_striped(Striped!key(v)))'
    BY DEF Exclusive
  <2>1. v \in Striped!Everyone /\ v # t
    BY <1>1, ThreadFacts
  <2>2. CASE u = t
    BY <1>1, <2>2 DEF Striped!Inside
  <2>3. CASE u # t
    BY <1>2, <1>3, <2>1, <2>3 DEF StripedInv, Exclusive, Striped!Inside, Striped!get_striped
  <2> QED BY <2>2, <2>3
<1> QED BY <1>1, <1>2, <1>3, <1>5, <1>7, <1>8, <1>9

\* insert or erase of a key that is the thread's own.
LEMMA ChangeStep ==
  ASSUME StripedInv, NEW t \in Striped!Everyone, Striped!Change(t)
  PROVE  StripedInv'
<1>1. /\ stripedPc[t] = "change" /\ UNCHANGED <<phase, got, count>>
      /\ stripedPc' = [stripedPc EXCEPT ![t] = "out"] /\ i' = [i EXCEPT ![t] = @ + 1]
      /\ data' = Striped!Without(Striped!key(t)) \cup
                 IF phase = "insert" THEN {<<Striped!key(t), Striped!key(t) * 10>>} ELSE {}
  BY DEF Striped!Change, Striped!GoTo, Striped!NextKey
<1>2. /\ StripedTypes' /\ AtWork' /\ Exclusive'
      /\ stripedPc'[t] = "out"
      /\ \A u \in Striped!Everyone \ {t} : /\ stripedPc'[u] = stripedPc[u] /\ i'[u] = i[u]
                                           /\ Striped!key(u)' = Striped!key(u)
  BY <1>1, UnlockStep DEF StripedInv, StripedTypes
<1>3. t \in Striped!Changers /\ phase \in {"insert", "erase"} /\ i[t] < NUM_KEYS
  <2>1. t \in Striped!Changers /\ Striped!Active(t)
    BY <1>1 DEF StripedInv, AtWork
  <2> QED BY <2>1, ThreadFacts DEF Striped!Active
<1>4. PICK k \in Striped!AllKeys : k = Striped!key(t)
  BY <1>1, <1>3, OneDone DEF StripedInv, StripedTypes
<1>5. \A x \in Striped!AllKeys : Done(x)' <=> Done(x) \/ x = k
  BY <1>1, <1>3, <1>4, OneDone DEF StripedInv, StripedTypes
<1>6. ~Done(k)
  BY <1>1, <1>3, <1>4, OneDone DEF StripedInv, StripedTypes
<1>7. Holds'
  <2>1. \A pair : pair \in data <=> \E x \in Striped!Due : pair = <<x, x * 10>>
    BY DEF StripedInv, Holds
  <2>2. Striped!Due' = {x \in Striped!AllKeys : \/ phase' = "insert" /\ Done(x)'
                                                \/ phase' = "erase" /\ ~Done(x)'}
    BY <1>1, DueIs DEF Striped!Due, Done
  <2>3. CASE phase = "insert"
    <3>1. Striped!Due' = Striped!Due \cup {k}
      BY <1>1, <1>5, <1>6, <2>2, <2>3, DueIs
    <3>2. k \notin Striped!Due
      BY <1>6, <2>3, DueIs
    <3>3. \A pair \in data : pair[1] # k
      BY <2>1, <3>2
    <3>4. data' = data \cup {<<k, k * 10>>}
      BY <1>1, <1>4, <2>3, <3>3 DEF Striped!Without
    <3> QED BY <2>1, <3>1, <3>4 DEF Holds
  <2>4. CASE phase = "erase"
    <3>1. Striped!Due' = Striped!Due \ {k}
      BY <1>1, <1>5, <2>2, <2>4, DueIs
    <3>2. data' = {pair \in data : pair[1] # k}
      BY <1>1, <1>4, <2>4 DEF Striped!Without
    <3>3. \A pair : pair \in data' <=> \E x \in Striped!Due \ {k} : pair = <<x, x * 10>>
      BY <2>1, <3>2
    <3> QED BY <3>1, <3>3 DEF Holds
  <2> QED BY <1>3, <2>3, <2>4
<1>8. Asked'
  <2> SUFFICES ASSUME NEW u \in Striped!Everyone, stripedPc'[u] = "index"
               PROVE  Striped!Has(Striped!key(u))'
    BY DEF Asked
  <2>1. u # t
    BY <1>2
  <2>2. stripedPc[u] = "index" /\ Striped!key(u)' = Striped!key(u)
    BY <1>2, <2>1
  <2>3. Striped!key(u) # k
    BY <1>1, <1>3, <1>4, <2>1, <2>2 DEF StripedInv, Exclusive, Striped!Inside
  <2>4. PICK pair \in data : pair[1] = Striped!key(u)
    BY <2>2 DEF StripedInv, Asked, Striped!Has
  <2>5. pair \in data'
    BY <1>1, <1>4, <2>3, <2>4 DEF Striped!Without
  <2> QED BY <2>2, <2>4, <2>5 DEF Striped!Has
<1>9. Answered'
  <2>1. \A u \in Striped!Readers : u \in Striped!Everyone \ {t}
    BY <1>3, ThreadFacts
  <2> QED BY <1>1, <1>2, <2>1 DEF StripedInv, Answered
<1>10. count' = 0
  BY <1>1 DEF StripedInv
<1> QED BY <1>2, <1>7, <1>8, <1>9, <1>10 DEF StripedInv

\* The end of a get.
LEMMA GotStep ==
  ASSUME StripedInv, NEW t \in Striped!Everyone \ Striped!Changers, stripedPc[t] # "out",
         UNCHANGED <<phase, data, count>>,
         stripedPc' = [stripedPc EXCEPT ![t] = "out"], i' = [i EXCEPT ![t] = @ + 1],
         NEW g \in {-1, Striped!key(t) * 10}, got' = [got EXCEPT ![t] = g]
  PROVE  StripedInv'
<1>1. Striped!key(t) = i[t] /\ i[t] \in Nat
  BY ThreadFacts DEF StripedInv, StripedTypes
<1>2. got' \in [Striped!Everyone -> Int] /\ got'[t] = g
      /\ \A u \in Striped!Everyone \ {t} : got'[u] = got[u]
  BY <1>1 DEF StripedInv, StripedTypes
<1>3. /\ StripedTypes' /\ AtWork' /\ Exclusive'
      /\ stripedPc'[t] = "out" /\ i'[t] = i[t] + 1
      /\ \A u \in Striped!Everyone \ {t} : /\ stripedPc'[u] = stripedPc[u] /\ i'[u] = i[u]
                                           /\ Striped!key(u)' = Striped!key(u)
  BY <1>2, UnlockStep
<1>4. Asked'
  BY <1>3 DEF StripedInv, Asked, Striped!Has
<1>5. Striped!Due' = Striped!Due
  <2>1. ASSUME NEW k \in Striped!AllKeys PROVE Done(k)' <=> Done(k)
    <3>1. PICK x, u : /\ x = k % NUM_KEYS /\ u = <<"changer", k \div NUM_KEYS>>
                      /\ u \in Striped!Changers
      BY Owner, ThreadFacts
    <3>2. i'[u] = i[u]
      BY <1>3, <3>1, ThreadFacts
    <3> QED BY <3>1, <3>2 DEF Done
  <2> QED BY <2>1 DEF Striped!Due, Done
<1>6. Holds'
  BY <1>5 DEF StripedInv, Holds
<1>7. Answered'
  <2>1. ASSUME NEW u \in Striped!Readers PROVE got'[u] \in {-1, (i'[u] - 1) * 10}
    <3>1. CASE u = t
      <4>1. i'[t] - 1 = Striped!key(t)
        BY <1>1, <1>3
      <4> QED BY <1>2, <3>1, <4>1
    <3>2. CASE u # t
      <4>1. u \in Striped!Everyone
        BY ThreadFacts
      <4> QED BY <1>2, <1>3, <3>2, <4>1 DEF StripedInv, Answered
    <3> QED BY <3>1, <3>2
  <2> QED BY <2>1 DEF Answered
<1> QED BY <1>3, <1>4, <1>6, <1>7 DEF StripedInv

\* get asks for its key.
LEMMA LooksUpStep ==
  ASSUME StripedInv, NEW t \in Striped!Everyone, Striped!LooksUp(t)
  PROVE  StripedInv'
<1>1. stripedPc[t] = "contains" /\ UNCHANGED <<phase, data, count>>
  BY DEF Striped!LooksUp
<1>2. t \notin Striped!Changers /\ Striped!Active(t)
  BY <1>1 DEF StripedInv, AtWork
<1>3. CASE Striped!Has(Striped!key(t))
  <2>1. stripedPc' = [stripedPc EXCEPT ![t] = "index"] /\ UNCHANGED <<i, got>>
    BY <1>3 DEF Striped!LooksUp, Striped!GoTo
  <2>2. /\ stripedPc'[t] = "index"
        /\ \A u \in Striped!Everyone \ {t} : stripedPc'[u] = stripedPc[u]
    BY <2>1 DEF StripedInv, StripedTypes
  <2>3. \A u : Striped!key(u)' = Striped!key(u) /\ Striped!Active(u)' = Striped!Active(u)
    BY <1>1, <2>1, SameKeys DEF Striped!Active
  <2>4. StripedTypes'
    BY <1>1, <2>1, SameKeys DEF StripedInv, StripedTypes, Points
  <2>5. AtWork'
    BY <1>1, <1>2, <2>2, <2>3 DEF StripedInv, AtWork
  <2>6. \A u \in Striped!Everyone : stripedPc'[u] # "out" <=> stripedPc[u] # "out"
    BY <1>1, <2>2
  <2>7. Exclusive'
    BY <2>3, <2>6, ThreadFacts DEF StripedInv, Exclusive, Striped!Inside, Striped!get_striped
  <2>8. Asked'
    BY <1>1, <1>3, <2>2, <2>3 DEF StripedInv, Asked, Striped!Has
  <2>9. Holds' /\ Answered' /\ count' = 0
    BY <1>1, <2>1, SameDue DEF StripedInv, Holds, Answered
  <2> QED BY <2>4, <2>5, <2>7, <2>8, <2>9 DEF StripedInv
<1>4. CASE ~Striped!Has(Striped!key(t))
  <2>1. /\ stripedPc' = [stripedPc EXCEPT ![t] = "out"] /\ i' = [i EXCEPT ![t] = @ + 1]
        /\ got' = [got EXCEPT ![t] = -1]
    BY <1>4 DEF Striped!LooksUp, Striped!GoTo, Striped!NextKey, Striped!Nothing
  <2> QED BY <1>1, <1>2, <2>1, GotStep
<1> QED BY <1>3, <1>4

\* operator[] of a key that is there.
LEMMA IndexStep ==
  ASSUME StripedInv, NEW t \in Striped!Everyone, Striped!Index(t)
  PROVE  StripedInv'
<1>1. /\ stripedPc[t] = "index" /\ phase' = phase
      /\ data' = IF Striped!Has(Striped!key(t)) THEN data ELSE data \cup {<<Striped!key(t), 0>>}
      /\ got' = [got EXCEPT ![t] = (CHOOSE pair \in data' : pair[1] = Striped!key(t))[2]]
      /\ count' = IF t = Striped!Main THEN count + 1 ELSE count
      /\ stripedPc' = [stripedPc EXCEPT ![t] = "out"] /\ i' = [i EXCEPT ![t] = @ + 1]
  BY DEF Striped!Index, Striped!GoTo, Striped!NextKey
<1>2. t \notin Striped!Changers /\ Striped!Active(t)
  BY <1>1 DEF StripedInv, AtWork
<1>3. PICK pair \in data : pair[1] = Striped!key(t)
  BY <1>1 DEF StripedInv, Asked, Striped!Has
<1>4. data' = data
  BY <1>1, <1>3 DEF Striped!Has
<1>5. ASSUME NEW p \in data, p[1] = Striped!key(t) PROVE p = <<Striped!key(t), Striped!key(t) * 10>>
  BY <1>5 DEF StripedInv, Holds
<1>6. (CHOOSE p \in data : p[1] = Striped!key(t))[2] = Striped!key(t) * 10
  <2>1. PICK q : q = CHOOSE p \in data : p[1] = Striped!key(t)
    OBVIOUS
  <2>2. q \in data /\ q[1] = Striped!key(t)
    BY <1>3, <2>1
  <2> QED BY <1>5, <2>1, <2>2
<1>7. t # Striped!Main
  <2> SUFFICES ASSUME t = Striped!Main PROVE FALSE
    OBVIOUS
  <2>1. phase = "count"
    BY <1>2 DEF Striped!Active
  <2>2. data = {}
    BY <2>1 DEF StripedInv, Holds, Striped!Due
  <2> QED BY <1>3, <2>2
<1>8. PICK g \in {-1, Striped!key(t) * 10} : got' = [got EXCEPT ![t] = g]
  BY <1>1, <1>4, <1>6
<1> QED BY <1>1, <1>2, <1>4, <1>7, <1>8, GotStep

\* The threads of a phase are joined and those of the next start.
LEMMA JoinStep ==
  ASSUME StripedInv, Striped!Join
  PROVE  StripedInv'
<1>1. /\ \A t \in Striped!Everyone : ~Striped!Active(t)
      /\ phase \in {"insert", "erase", "count"}
      /\ phase' = IF phase = "insert" THEN "erase" ELSE IF phase = "erase" THEN "count" ELSE "end"
      /\ i' = IF phase = "count" THEN i ELSE [t \in Striped!Everyone |-> 0]
      /\ got' = [t \in Striped!Everyone |-> -1]
      /\ UNCHANGED <<data, stripedPc, count>>
  BY DEF StripedInv, StripedTypes, Striped!Join, Striped!Nothing
<1>2. \A t \in Striped!Everyone : stripedPc[t] = "out"
  BY <1>1 DEF StripedInv, AtWork
<1>3. StripedTypes'
  <2>1. \A t : Striped!Keys(t)' = Striped!Keys(t)
    BY DEF Striped!Keys
  <2>2. \A t : Striped!Keys(t) \in Nat
    <3>1. NUM_THREADS * NUM_KEYS \in Nat /\ NUM_KEYS \in Nat
      BY StripedAssumption
    <3> QED BY <3>1 DEF Striped!Keys
  <2> QED BY <1>1, <2>1, <2>2 DEF StripedInv, StripedTypes
<1>4. AtWork' /\ Exclusive' /\ Asked'
  BY <1>1, <1>2, ThreadFacts DEF AtWork, Exclusive, Asked
<1>5. Holds'
  <2>1. CASE phase = "insert"
    <3>1. \A k \in Striped!AllKeys : Done(k)
      BY <1>1, <2>1, AllDone DEF StripedInv
    <3>2. \A k \in Striped!AllKeys : ~Done(k)'
      <4>1. \A t \in Striped!Everyone : i'[t] = 0
        BY <1>1, <2>1
      <4> QED BY <4>1, StripedAssumption, Owner, ThreadFacts DEF Done
    <3>3. Striped!Due = Striped!AllKeys
      BY <2>1, <3>1, DueIs
    <3>4. Striped!Due' = Striped!AllKeys
      BY <1>1, <2>1, <3>2 DEF Striped!Due, Done
    <3> QED BY <1>1, <3>3, <3>4 DEF StripedInv, Holds
  <2>2. CASE phase = "erase"
    <3>1. \A k \in Striped!AllKeys : Done(k)
      BY <1>1, <2>2, AllDone DEF StripedInv
    <3>2. Striped!Due = {}
      BY <2>2, <3>1, DueIs
    <3>3. Striped!Due' = {}
      BY <1>1, <2>2 DEF Striped!Due
    <3> QED BY <1>1, <3>2, <3>3 DEF StripedInv, Holds
  <2>3. CASE phase = "count"
    <3>1. Striped!Due = {} /\ Striped!Due' = {}
      BY <1>1, <2>3 DEF Striped!Due
    <3> QED BY <1>1, <3>1 DEF StripedInv, Holds
  <2> QED BY <1>1, <2>1, <2>2, <2>3
<1>6. Answered' /\ count' = 0
  BY <1>1, ThreadFacts DEF StripedInv, Answered
<1> QED BY <1>3, <1>4, <1>5, <1>6 DEF StripedInv

\* Every step of the run keeps the invariant.
LEMMA StripedNext == StripedInv /\ [MCNext]_allVars => StripedInv'
<1> SUFFICES ASSUME StripedInv, [MCNext]_allVars PROVE StripedInv'
  OBVIOUS
<1>1. CASE Striped!Next
  <2>1. ASSUME NEW t \in Striped!Everyone, Striped!Change(t) PROVE StripedInv'
    BY <2>1, ChangeStep
  <2>2. ASSUME NEW t \in Striped!Everyone, Striped!LockAlone(t) \/ Striped!LockShared(t)
        PROVE  StripedInv'
    BY <2>2, LockStep
  <2>3. ASSUME NEW t \in Striped!Everyone, Striped!LooksUp(t) PROVE StripedInv'
    BY <2>3, LooksUpStep
  <2>4. ASSUME NEW t \in Striped!Everyone, Striped!Index(t) PROVE StripedInv'
    BY <2>4, IndexStep
  <2>5. CASE Striped!Join
    BY <2>5, JoinStep
  <2> QED BY <1>1, <2>1, <2>2, <2>3, <2>4, <2>5 DEF Striped!Next
<1>2. CASE UNCHANGED stripedVars
  <2>1. UNCHANGED <<phase, data, stripedPc, i, got, count>>
    BY <1>2 DEF stripedVars
  <2> QED BY <2>1, SameKeys, SameDue
          DEF StripedInv, StripedTypes, AtWork, Exclusive, Asked, Holds, Answered,
              Striped!Active, Striped!Inside, Striped!get_striped, Striped!Has
<1> QED BY <1>1, <1>2 DEF MCNext, ButUsers, ButHttp, ButEcho, ButRedis, allVars

\* The invariant says what the stress test is to show.
LEMMA StripedOutcome == StripedInv => StressOutcome
<1> SUFFICES ASSUME StripedInv PROVE StressOutcome
  OBVIOUS
<1>1. ASSUME NEW t \in Striped!Everyone, NEW u \in Striped!Everyone, t # u, Striped!Writes(t)
      PROVE  ~Striped!Inside(u, Striped!get_striped(Striped!key(t)))
  <2>1. stripedPc[t] = "change"
    BY <1>1 DEF Striped!Writes, StripedInv, Asked
  <2>2. t \in Striped!Changers
    BY <2>1 DEF StripedInv, AtWork
  <2> QED BY <1>1, <2>1, <2>2 DEF StripedInv, Exclusive
<1> QED BY <1>1 DEF StressOutcome, Striped!StressOutcome, Striped!Nothing, StripedInv,
                    Answered, Holds

\* For every number of stripes, of threads and of keys: nobody writes to a stripe
\* in which another thread is, a get returns its key's value or nothing, the map
\* holds what the inserts and erases so far leave in it, and main counts none.
THEOREM StressTestPasses == MCSpec => []StressOutcome
<1>1. MCInit => StripedInv
  BY StripedInit DEF MCInit
<1> QED BY <1>1, StripedNext, StripedOutcome, PTL DEF MCSpec

-----------------------------------------------------------------------------
(* http_server                                                             *)

Parts == [request : Requests, part : {"whole", "first", "second"}]
Contents == {"", "Hello World", "{msg:hi}", "Not Found"}
Responses == [status : Nat, content : Contents, close : BOOLEAN]

HttpTypes ==
  /\ accepting \in BOOLEAN
  /\ httpBacklog \in Seq(Clients) /\ queue \in Seq(Clients)
  /\ serving \in [Threads -> Clients \cup {Nobody}]
  /\ httpPc \in [Threads -> {"idle", "read", "write"}]
  /\ httpResponse \in [Threads -> Responses]
  /\ httpWire \in [Clients -> Seq(Parts)]
  /\ httpSent \in [Clients -> Nat]
  /\ httpOpen \in [Clients -> {"new", "yes", "no"}]
  /\ dropped \subseteq Clients
  /\ replies \in [Clients -> Seq(Contents)]
  /\ misread \in [Clients -> BOOLEAN]

\* A connection is at most in one place: not accepted yet, posted, with a thread,
\* or destroyed.
Once(s) == \A x, y \in DOMAIN s : s[x] = s[y] => x = y
InPool == {serving[t] : t \in Threads} \ {Nobody}
OnePlace ==
  LET waiting == Http!Elements(httpBacklog)
      posted  == Http!Elements(queue) IN
  /\ Once(httpBacklog) /\ Once(queue)
  /\ \A t, u \in Threads : serving[t] = serving[u] /\ serving[t] # Nobody => t = u
  /\ \A t \in Threads : serving[t] = Nobody <=> httpPc[t] = "idle"
  /\ waiting \cap posted = {} /\ waiting \cap InPool = {} /\ waiting \cap dropped = {}
  /\ posted \cap InPool = {} /\ posted \cap dropped = {} /\ InPool \cap dropped = {}
  /\ \A c \in waiting \cup posted \cup InPool \cup dropped : httpOpen[c] # "new"

\* The parts w are those of c's requests from number x to number y, each whole or
\* in two parts; number[n] is that of the request that the n-th part belongs to.
Encodes(w, c, x, y) ==
  \E number \in [1..Len(w) -> 1..y] :
    /\ \A n \in 1..Len(w) : w[n].request = Script[c][number[n]]
    /\ \A n \in 1..Len(w) - 1 :
         IF w[n].part = "first"
           THEN w[n + 1].part = "second" /\ number[n + 1] = number[n]
           ELSE w[n + 1].part # "second" /\ number[n + 1] = number[n] + 1
    /\ Len(w) = 0 => x = y + 1
    /\ Len(w) # 0 => /\ w[1].part # "second" /\ number[1] = x
                     /\ w[Len(w)].part # "first" /\ number[Len(w)] = y

\* Who is about to answer c, and the request that c's socket goes on with.
Writing(c) == {t \in Threads : serving[t] = c /\ httpPc[t] = "write"}
NextRequest(c) == IF Writing(c) = {} THEN Len(replies[c]) + 1 ELSE Len(replies[c]) + 2
Answer(c, n) == Http!route(Script[c][n].path).content

\* As long as each read_some has returned one request.
Conversation(c) ==
  /\ httpSent[c] <= Len(Script[c])
  /\ NextRequest(c) <= httpSent[c] + 1
  /\ \A n \in 1..Len(replies[c]) : replies[c][n] = Answer(c, n)
  /\ \A t \in Writing(c) :
       /\ httpResponse[t].content = Answer(c, Len(replies[c]) + 1)
       /\ httpResponse[t].close = Script[c][Len(replies[c]) + 1].close
  /\ c \notin dropped => Encodes(httpWire[c], c, NextRequest(c), httpSent[c])
  /\ c \in dropped /\ httpOpen[c] = "yes" /\ accepting =>
       \/ replies[c] # <<>> /\ Script[c][Len(replies[c])].close
       \/ Script[c][Len(replies[c]) + 1].bad

HttpInv == /\ HttpTypes /\ OnePlace
           /\ \A c \in Clients : ~misread[c] => Conversation(c)

\* One more at the end, one less at the front.
LEMMA AppendOnce ==
  ASSUME NEW S, NEW s \in Seq(S), NEW e \in S, Once(s), e \notin Http!Elements(s)
  PROVE  /\ Append(s, e) \in Seq(S) /\ Once(Append(s, e))
         /\ Http!Elements(Append(s, e)) = Http!Elements(s) \cup {e}
<1>1. PICK n \in Nat : n = Len(s)
  OBVIOUS
<1>2. PICK v : v = Append(s, e)
  OBVIOUS
<1>3. /\ v \in Seq(S) /\ DOMAIN v = 1..n + 1 /\ DOMAIN s = 1..n
      /\ v[n + 1] = e /\ \A x \in 1..n : v[x] = s[x]
  BY <1>1, <1>2
<1>4. \A x \in 1..n : s[x] # e
  BY <1>3 DEF Http!Elements
<1>5. Once(v)
  BY <1>3, <1>4 DEF Once
<1>6. Http!Elements(v) = Http!Elements(s) \cup {e}
  <2>1. 1..n + 1 = (1..n) \cup {n + 1}
    OBVIOUS
  <2> QED BY <1>3, <2>1 DEF Http!Elements
<1> QED BY <1>2, <1>3, <1>5, <1>6

\* The head and the tail of a sequence that repeats nothing.
LEMMA TailOnce ==
  ASSUME NEW S, NEW s \in Seq(S), s # <<>>, Once(s)
  PROVE  /\ Head(s) \in S /\ Head(s) \in Http!Elements(s)
         /\ Tail(s) \in Seq(S) /\ Once(Tail(s))
         /\ Http!Elements(Tail(s)) = Http!Elements(s) \ {Head(s)}
<1>1. PICK n \in Nat : n = Len(s) /\ n >= 1
  OBVIOUS
<1>2. PICK v : v = Tail(s)
  OBVIOUS
<1>3. /\ v \in Seq(S) /\ DOMAIN v = 1..n - 1 /\ DOMAIN s = 1..n
      /\ Head(s) = s[1] /\ s[1] \in S /\ \A x \in 1..n - 1 : v[x] = s[x + 1]
  BY <1>1, <1>2
<1>4. Once(v)
  <2> SUFFICES ASSUME NEW x \in 1..n - 1, NEW y \in 1..n - 1, v[x] = v[y] PROVE x = y
    BY <1>3 DEF Once
  <2>1. x + 1 \in DOMAIN s /\ y + 1 \in DOMAIN s /\ s[x + 1] = s[y + 1]
    BY <1>1, <1>3
  <2> QED BY <2>1 DEF Once
<1>5. Http!Elements(v) = Http!Elements(s) \ {s[1]}
  <2>1. ASSUME NEW x \in 1..n - 1 PROVE v[x] \in Http!Elements(s) \ {s[1]}
    <3>1. x + 1 \in 1..n /\ x + 1 # 1 /\ 1 \in 1..n
      BY <1>1
    <3>2. v[x] = s[x + 1] /\ s[x + 1] # s[1]
      BY <1>3, <3>1 DEF Once
    <3> QED BY <1>3, <3>1, <3>2 DEF Http!Elements
  <2>2. ASSUME NEW x \in 1..n, s[x] # s[1] PROVE s[x] \in Http!Elements(v)
    <3>1. x - 1 \in 1..n - 1 /\ (x - 1) + 1 = x
      BY <2>2
    <3>2. v[x - 1] = s[x]
      BY <1>3, <3>1
    <3> QED BY <1>3, <3>1, <3>2 DEF Http!Elements
  <2> QED BY <1>3, <2>1, <2>2 DEF Http!Elements
<1>6. Head(s) \in Http!Elements(s)
  <2>1. 1 \in DOMAIN s
    BY <1>1, <1>3
  <2> QED BY <1>3, <2>1 DEF Http!Elements
<1> QED BY <1>2, <1>3, <1>4, <1>5, <1>6

\* A step that does not touch a client's conversation.
LEMMA SameTalk ==
  ASSUME NEW c \in Clients, Conversation(c),
         httpSent'[c] = httpSent[c], replies'[c] = replies[c], httpWire'[c] = httpWire[c],
         Writing(c)' = Writing(c), \A t \in Writing(c) : httpResponse'[t] = httpResponse[t],
         c \in dropped => c \in dropped',
         c \in dropped' /\ httpOpen'[c] = "yes" /\ accepting' =>
           c \in dropped /\ httpOpen[c] = "yes" /\ accepting
  PROVE  Conversation(c)'
<1>1. NextRequest(c)' = NextRequest(c)
  BY DEF NextRequest
<1>2. PICK w, x, y : w = httpWire[c] /\ x = NextRequest(c) /\ y = httpSent[c]
  OBVIOUS
<1>3. c \notin dropped' => Encodes(w, c, x, y)
  BY <1>2 DEF Conversation
<1>4. (c \notin dropped => Encodes(httpWire[c], c, NextRequest(c), httpSent[c]))'
  BY <1>1, <1>2, <1>3 DEF Encodes
<1> QED BY <1>1, <1>4 DEF Conversation, Answer

\* Initially there is nobody.
LEMMA HttpInit == Http!Init => HttpInv
<1> SUFFICES ASSUME Http!Init PROVE HttpInv
  OBVIOUS
<1> USE ScriptAssumption
<1>1. HttpTypes
  <2>1. /\ accepting = TRUE /\ httpBacklog = <<>> /\ queue = <<>> /\ dropped = {}
        /\ serving = [t \in Threads |-> Nobody] /\ httpPc = [t \in Threads |-> "idle"]
        /\ httpWire = [c \in Clients |-> <<>>] /\ httpSent = [c \in Clients |-> 0]
        /\ httpOpen = [c \in Clients |-> "new"] /\ replies = [c \in Clients |-> <<>>]
        /\ misread = [c \in Clients |-> FALSE]
    BY DEF Http!Init
  <2>2. httpBacklog \in Seq(Clients) /\ queue \in Seq(Clients)
    BY <2>1
  <2>3. httpResponse \in [Threads -> Responses]
    <3>1. Http!NoResponse \in Responses
      BY DEF Http!NoResponse, Responses, Contents
    <3> QED BY <3>1 DEF Http!Init
  <2>4. httpWire \in [Clients -> Seq(Parts)]
    BY <2>1
  <2>5. replies \in [Clients -> Seq(Contents)]
    BY <2>1
  <2>6. /\ serving \in [Threads -> Clients \cup {Nobody}]
        /\ httpPc \in [Threads -> {"idle", "read", "write"}]
    BY <2>1
  <2>7. httpSent \in [Clients -> Nat] /\ httpOpen \in [Clients -> {"new", "yes", "no"}]
    BY <2>1
  <2>8. misread \in [Clients -> BOOLEAN]
    BY <2>1
  <2> QED BY <2>1, <2>2, <2>3, <2>4, <2>5, <2>6, <2>7, <2>8 DEF HttpTypes
<1>2. InPool = {} /\ Http!Elements(httpBacklog) = {} /\ Http!Elements(queue) = {}
  BY DEF Http!Init, InPool, Http!Elements
<1>3. OnePlace
  BY <1>2 DEF Http!Init, OnePlace, Once
<1>4. ASSUME NEW c \in Clients PROVE Conversation(c)
  <2>1. /\ Writing(c) = {} /\ replies[c] = <<>> /\ httpSent[c] = 0 /\ httpWire[c] = <<>>
        /\ c \notin dropped
    BY DEF Http!Init, Writing
  <2>2. Len(replies[c]) = 0
    BY <2>1
  <2>3. NextRequest(c) = 1
    BY <2>1, <2>2 DEF NextRequest
  <2>4. Len(Script[c]) \in Nat
    OBVIOUS
  <2>5. Encodes(httpWire[c], c, 1, 0)
    <3>1. PICK w : w = httpWire[c]
      OBVIOUS
    <3>2. Len(w) = 0
      BY <2>1, <3>1
    <3>3. (1..Len(w) = {}) /\ (1..Len(w) - 1 = {}) /\ 1 = 0 + 1
      BY <3>2
    <3>4. PICK number : number = [n \in 1..Len(w) |-> n]
      OBVIOUS
    <3>5. number \in [1..Len(w) -> 1..0]
      BY <3>3, <3>4
    <3>6. Encodes(w, c, 1, 0)
      BY <3>2, <3>3, <3>5, Zenon DEF Encodes
    <3> QED BY <3>1, <3>6
  <2> QED BY <2>1, <2>2, <2>3, <2>4, <2>5 DEF Conversation
<1> QED BY <1>1, <1>3, <1>4 DEF HttpInv

\* The first m of the parts w, r, are c's request number x, and the rest goes on
\* with the next.
IsRequest(c, w, x, y, m, r) ==
  /\ x <= y
  /\ w[1].request = Script[c][x]
  /\ w[1].part = "whole" \/ (w[1].part = "first" /\ m = 2)
  /\ r[1] = w[1] /\ Len(r) = m
  /\ Encodes(SubSeq(w, m + 1, Len(w)), c, x + 1, y)

\* One read_some that returns one request: it is the one expected.
LEMMA RequestRead ==
  ASSUME NEW c, NEW w \in Seq(Parts), NEW x \in Nat \ {0}, NEW y \in Nat, Encodes(w, c, x, y),
         NEW m \in 1..Len(w), NEW r, r = SubSeq(w, 1, m), Http!IsOneRequest(r)
  PROVE  IsRequest(c, w, x, y, m, r)
<1>1. PICK l \in Nat : l = Len(w) /\ m \in 1..l /\ m \in Nat
  OBVIOUS
<1>2. \A n \in 1..l : w[n] \in Parts
  BY <1>1
<1>4. Len(r) = m /\ r[1] = w[1] /\ w[1] \in Parts
  <2>1. \A n \in 1..m : w[n] \in Parts
    BY <1>1, <1>2
  <2>2. Len(r) = m
    BY <1>1, <2>1, SubSeqProperties
  <2>3. \A n \in 1..m : r[n] = w[n]
    BY <1>1, <2>1, SubSeqProperties
  <2>4. 1 \in 1..m /\ 1 \in 1..l
    BY <1>1
  <2> QED BY <1>2, <2>2, <2>3, <2>4
<1>5. PICK number \in [1..l -> 1..y] :
        /\ \A n \in 1..l : w[n].request = Script[c][number[n]]
        /\ \A n \in 1..l - 1 :
             IF w[n].part = "first"
               THEN w[n + 1].part = "second" /\ number[n + 1] = number[n]
               ELSE w[n + 1].part # "second" /\ number[n + 1] = number[n] + 1
        /\ l # 0 => /\ w[1].part # "second" /\ number[1] = x
                    /\ w[l].part # "first" /\ number[l] = y
  BY <1>1, Zenon DEF Encodes
<1>6. /\ l # 0 /\ 1 \in 1..l /\ number[1] \in 1..y /\ number[1] = x /\ w[1].part # "second"
      /\ w[l].part # "first" /\ number[l] = y
  <2>1. l # 0 /\ 1 \in 1..l
    BY <1>1
  <2>2. number[1] = x /\ w[1].part # "second" /\ w[l].part # "first" /\ number[l] = y
    BY <1>5, <2>1, Zenon
  <2> QED BY <1>5, <2>1, <2>2
<1>7. \/ m = 1 /\ w[1].part = "whole"
      \/ m = 2 /\ w[1].part = "first"
  BY <1>4 DEF Http!IsOneRequest
<1>8. w[m].part # "first" /\ number[m] = x
  <2>1. CASE m = 1 /\ w[1].part = "whole"
    BY <1>6, <2>1
  <2>2. CASE m = 2 /\ w[1].part = "first"
    <3>1. 1 \in 1..l - 1 /\ 1 + 1 = m
      BY <1>1, <2>2
    <3>2. w[m].part = "second" /\ number[m] = number[1]
      BY <1>5, <2>2, <3>1
    <3> QED BY <1>6, <3>2
  <2> QED BY <1>7, <2>1, <2>2
<1>9. PICK v : v = SubSeq(w, m + 1, l)
  OBVIOUS
<1>10. Len(v) = l - m /\ \A n \in 1..l - m : v[n] = w[m + n]
  <2>1. PICK b \in Nat : b = m + 1 /\ b \in 1..l + 1
    BY <1>1
  <2>2. \A n \in b..l : w[n] \in Parts
    BY <1>2, <2>1
  <2>3. Len(v) = IF b <= l THEN l - b + 1 ELSE 0
    BY <1>9, <2>1, <2>2, SubSeqProperties
  <2>4. \A n \in 1..l - b + 1 : v[n] = w[b + n - 1]
    BY <1>9, <2>1, <2>2, SubSeqProperties
  <2>5. l - b + 1 = l - m /\ \A n \in 1..l - m : b + n - 1 = m + n
    BY <1>1, <2>1
  <2> QED BY <1>1, <2>1, <2>3, <2>4, <2>5
<1>11. PICK num : num = [n \in 1..l - m |-> number[m + n]]
  OBVIOUS
<1>12. /\ num \in [1..l - m -> 1..y]
       /\ \A n \in 1..l - m : m + n \in 1..l /\ num[n] = number[m + n]
  BY <1>1, <1>5, <1>11
<1>13. ASSUME NEW n \in 1..l - m PROVE v[n].request = Script[c][num[n]]
  <2>1. v[n] = w[m + n] /\ num[n] = number[m + n] /\ m + n \in 1..l
    BY <1>10, <1>12, Zenon
  <2>2. w[m + n].request = Script[c][number[m + n]]
    BY <1>5, <2>1, Zenon
  <2> QED BY <2>1, <2>2, Zenon
<1>14. ASSUME NEW n \in 1..(l - m) - 1
       PROVE  IF v[n].part = "first"
                THEN v[n + 1].part = "second" /\ num[n + 1] = num[n]
                ELSE v[n + 1].part # "second" /\ num[n + 1] = num[n] + 1
  <2>1. /\ n \in 1..l - m /\ n + 1 \in 1..l - m /\ m + n \in 1..l - 1
        /\ m + (n + 1) = (m + n) + 1
    BY <1>1
  <2>2. PICK p \in 1..l - 1 : p = m + n
    BY <2>1
  <2>3. v[n] = w[p] /\ v[n + 1] = w[p + 1] /\ num[n] = number[p] /\ num[n + 1] = number[p + 1]
    BY <1>10, <1>12, <2>1, <2>2
  <2> QED BY <1>5, <2>3
<1>15. l - m = 0 => x + 1 = y + 1
  BY <1>1, <1>6, <1>8
<1>16. ASSUME l - m # 0
       PROVE  /\ v[1].part # "second" /\ num[1] = x + 1
              /\ v[l - m].part # "first" /\ num[l - m] = y
  <2>1. /\ 1 \in 1..l - m /\ l - m \in 1..l - m /\ m + (l - m) = l /\ m \in 1..l - 1
    BY <1>1, <1>16
  <2> QED BY <1>5, <1>6, <1>8, <1>10, <1>12, <2>1
<1>17. Encodes(v, c, x + 1, y)
  BY <1>10, <1>12, <1>13, <1>14, <1>15, <1>16, Zenon DEF Encodes
<1>18. w[1].part = "whole" \/ (w[1].part = "first" /\ m = 2)
  BY <1>7
<1>19. x <= y
  BY <1>6
<1>20. w[1].request = Script[c][x]
  BY <1>5, <1>6
<1> QED BY <1>1, <1>4, <1>9, <1>17, <1>18, <1>19, <1>20 DEF IsRequest

\* A request that is sent, in the parts u: one or two.
LEMMA RequestSent ==
  ASSUME NEW c, NEW w \in Seq(Parts), NEW x \in Nat \ {0}, NEW y \in Nat, Encodes(w, c, x, y),
         NEW u \in Seq(Parts),
         \/ Len(u) = 1 /\ u[1].part = "whole"
         \/ Len(u) = 2 /\ u[1].part = "first" /\ u[2].part = "second",
         \A n \in 1..Len(u) : u[n].request = Script[c][y + 1]
  PROVE  Encodes(w \o u, c, x, y + 1)
<1>1. PICK l \in Nat, m \in 1..2 : l = Len(w) /\ m = Len(u)
  OBVIOUS
<1>2. PICK v, p : v = w \o u /\ p = l + m
  OBVIOUS
<1>3. Len(v) = p /\ \A n \in 1..p : v[n] = IF n <= l THEN w[n] ELSE u[n - l]
  <2>1. Len(w \o u) = Len(w) + Len(u)
    BY ConcatProperties, Zenon
  <2>2. \A n \in 1..Len(w) + Len(u) : (w \o u)[n] = IF n <= Len(w) THEN w[n] ELSE u[n - Len(w)]
    BY ConcatProperties, Zenon
  <2> QED BY <1>1, <1>2, <2>1, <2>2
<1>0. p \in Nat /\ p = l + m /\ l <= p
  BY <1>2
<1>4. PICK number \in [1..l -> 1..y] :
        /\ \A n \in 1..l : w[n].request = Script[c][number[n]]
        /\ \A n \in 1..l - 1 :
             IF w[n].part = "first"
               THEN w[n + 1].part = "second" /\ number[n + 1] = number[n]
               ELSE w[n + 1].part # "second" /\ number[n + 1] = number[n] + 1
        /\ l = 0 => x = y + 1
        /\ l # 0 => /\ w[1].part # "second" /\ number[1] = x
                    /\ w[l].part # "first" /\ number[l] = y
  BY <1>1, Zenon DEF Encodes
<1>5. PICK num : num = [n \in 1..p |-> IF n <= l THEN number[n] ELSE y + 1]
  OBVIOUS
<1>6. /\ num \in [1..p -> 1..y + 1]
      /\ \A n \in 1..l : n \in 1..p /\ n <= l /\ num[n] = number[n] /\ v[n] = w[n]
      /\ \A n \in 1..m : /\ l + n \in 1..p /\ ~(l + n <= l) /\ (l + n) - l = n
                         /\ num[l + n] = y + 1 /\ v[l + n] = u[n]
  BY <1>0, <1>3, <1>4, <1>5
<1>7. ASSUME NEW n \in 1..p PROVE v[n].request = Script[c][num[n]]
  <2>1. CASE n \in 1..l
    BY <1>4, <1>6, <2>1
  <2>2. CASE n \notin 1..l
    <3>1. PICK q \in 1..m : l + q = n
      <4>1. n - l \in 1..m /\ l + (n - l) = n
        BY <1>0, <2>2
      <4> QED BY <4>1, Zenon
    <3>2. num[l + q] = y + 1 /\ v[l + q] = u[q]
      BY <1>6, Zenon
    <3>3. num[n] = y + 1 /\ v[n] = u[q]
      BY <3>1, <3>2, Zenon
    <3> QED BY <1>1, <3>3
  <2> QED BY <2>1, <2>2
<1>8. ASSUME NEW n \in 1..p - 1
      PROVE  IF v[n].part = "first"
               THEN v[n + 1].part = "second" /\ num[n + 1] = num[n]
               ELSE v[n + 1].part # "second" /\ num[n + 1] = num[n] + 1
  <2>1. CASE n < l
    <3>1. n \in 1..l - 1
      BY <2>1
    <3>2. n \in 1..l /\ n + 1 \in 1..l
      BY <3>1
    <3>3. v[n] = w[n] /\ v[n + 1] = w[n + 1] /\ num[n] = number[n] /\ num[n + 1] = number[n + 1]
      BY <1>6, <3>2
    <3> QED BY <1>4, <3>1, <3>3
  <2>2. CASE n = l
    <3>1. l # 0 /\ l \in 1..l /\ 1 \in 1..m
      BY <2>2
    <3>2. v[n].part # "first" /\ num[n] = y
      BY <1>4, <1>6, <2>2, <3>1
    <3>3. v[n + 1].part # "second" /\ num[n + 1] = y + 1
      BY <1>1, <1>6, <2>2, <3>1
    <3> QED BY <3>2, <3>3
  <2>3. CASE n > l
    <3>1. n = l + 1 /\ m = 2 /\ n + 1 = l + 2 /\ 1 \in 1..m /\ 2 \in 1..m
      BY <1>0, <2>3
    <3>2. v[n] = u[1] /\ v[n + 1] = u[2] /\ num[n] = y + 1 /\ num[n + 1] = y + 1
      BY <1>6, <3>1
    <3> QED BY <1>1, <3>1, <3>2
  <2> QED BY <2>1, <2>2, <2>3
<1>9. /\ v[1].part # "second" /\ num[1] = x
      /\ v[p].part # "first" /\ num[p] = y + 1
  <2>1. /\ 1 \in 1..m /\ m \in 1..m
    OBVIOUS
  <2>2. v[p].part # "first" /\ num[p] = y + 1
    <3>1. v[l + m] = u[m] /\ num[l + m] = y + 1
      BY <1>6, <2>1
    <3>2. u[m].part # "first"
      BY <1>1
    <3> QED BY <1>0, <3>1, <3>2
  <2>3. CASE l = 0
    <3>1. v[1] = u[1] /\ num[1] = y + 1
      BY <1>6, <2>1, <2>3
    <3> QED BY <1>1, <1>4, <2>2, <2>3, <3>1
  <2>4. CASE l # 0
    <3>1. 1 \in 1..l
      BY <2>4
    <3> QED BY <1>4, <1>6, <2>2, <2>4, <3>1
  <2> QED BY <2>3, <2>4
<1>10. p # 0
  BY <1>0
<1>11. Len(v) = p
  BY <1>3
<1>12. Encodes(v, c, x, y + 1)
  BY <1>6, <1>7, <1>8, <1>9, <1>10, <1>11, Zenon DEF Encodes
<1> QED BY <1>2, <1>12

\* A connection is accepted and posted.
LEMMA AcceptStep ==
  ASSUME HttpInv, Http!Accept
  PROVE  HttpInv'
<1>1. /\ httpBacklog # <<>> /\ httpBacklog' = Tail(httpBacklog)
      /\ queue' = Append(queue, Head(httpBacklog))
      /\ UNCHANGED <<accepting, serving, httpPc, httpResponse, dropped, httpWire, httpSent,
                     httpOpen, replies, misread>>
  BY DEF Http!Accept, Http!peers
<1>2. PICK h \in Clients : h = Head(httpBacklog)
  BY <1>1 DEF HttpInv, HttpTypes
<1>3. /\ httpBacklog \in Seq(Clients) /\ queue \in Seq(Clients)
      /\ Once(httpBacklog) /\ Once(queue)
  BY DEF HttpInv, HttpTypes, OnePlace
<1>4. /\ h \in Http!Elements(httpBacklog)
      /\ httpBacklog' \in Seq(Clients) /\ Once(httpBacklog')
      /\ Http!Elements(httpBacklog') = Http!Elements(httpBacklog) \ {h}
  BY <1>1, <1>2, <1>3, TailOnce
<1>5. h \notin Http!Elements(queue)
  BY <1>4 DEF HttpInv, OnePlace
<1>6. /\ queue' \in Seq(Clients) /\ Once(queue')
      /\ Http!Elements(queue') = Http!Elements(queue) \cup {h}
  BY <1>1, <1>2, <1>3, <1>5, AppendOnce
<1>7. HttpTypes'
  BY <1>1, <1>4, <1>6 DEF HttpInv, HttpTypes
<1>8. OnePlace'
  <2>1. InPool' = InPool
    BY <1>1 DEF InPool
  <2>2. Http!Elements(httpBacklog)' = Http!Elements(httpBacklog) \ {h}
    BY <1>4 DEF Http!Elements
  <2>3. Http!Elements(queue)' = Http!Elements(queue) \cup {h}
    BY <1>6 DEF Http!Elements
  <2>4. Once(httpBacklog)' /\ Once(queue)'
    BY <1>4, <1>6 DEF Once
  <2> QED BY <1>1, <1>4, <2>1, <2>2, <2>3, <2>4 DEF HttpInv, OnePlace
<1>9. ASSUME NEW c \in Clients, ~misread'[c] PROVE Conversation(c)'
  <2>1. Writing(c)' = Writing(c)
    BY <1>1 DEF Writing
  <2>2. Conversation(c)
    BY <1>1, <1>9 DEF HttpInv
  <2> QED BY <1>1, <2>1, <2>2, SameTalk
<1> QED BY <1>7, <1>8, <1>9 DEF HttpInv

\* accept fails.
LEMMA AcceptFailsStep ==
  ASSUME HttpInv, Http!AcceptFails
  PROVE  HttpInv'
<1>1. /\ accepting' = FALSE
      /\ UNCHANGED <<httpBacklog, queue, serving, httpPc, httpResponse, dropped, httpWire,
                     httpSent, httpOpen, replies, misread>>
  BY DEF Http!AcceptFails, Http!pool, Http!peers
<1>2. HttpTypes'
  BY <1>1 DEF HttpInv, HttpTypes
<1>3. OnePlace'
  BY <1>1 DEF HttpInv, OnePlace, Once, InPool, Http!Elements
<1>4. ASSUME NEW c \in Clients, ~misread'[c] PROVE Conversation(c)'
  <2>1. Writing(c)' = Writing(c)
    BY <1>1 DEF Writing
  <2>2. Conversation(c)
    BY <1>1, <1>4 DEF HttpInv
  <2> QED BY <1>1, <2>1, <2>2, SameTalk
<1> QED BY <1>2, <1>3, <1>4 DEF HttpInv

\* The pool ends: the connections that are posted are dropped.
LEMMA PoolEndsStep ==
  ASSUME HttpInv, Http!PoolEnds
  PROVE  HttpInv'
<1>1. /\ ~accepting /\ queue' = <<>> /\ dropped' = dropped \cup Http!Elements(queue)
      /\ UNCHANGED <<accepting, httpBacklog, serving, httpPc, httpResponse, httpWire, httpSent,
                     httpOpen, replies, misread>>
  BY DEF Http!PoolEnds, Http!peers
<1>2. Http!Elements(queue) \subseteq Clients
  BY DEF HttpInv, HttpTypes, Http!Elements
<1>3. HttpTypes'
  <2>1. queue' \in Seq(Clients)
    BY <1>1
  <2> QED BY <1>1, <1>2, <2>1 DEF HttpInv, HttpTypes
<1>4. OnePlace'
  <2>1. InPool' = InPool
    BY <1>1 DEF InPool
  <2>2. Http!Elements(httpBacklog)' = Http!Elements(httpBacklog)
    BY <1>1 DEF Http!Elements
  <2>3. Http!Elements(queue)' = {} /\ Once(queue)'
    BY <1>1 DEF Http!Elements, Once
  <2>4. Once(httpBacklog)'
    BY <1>1 DEF HttpInv, OnePlace, Once
  <2> QED BY <1>1, <2>1, <2>2, <2>3, <2>4 DEF HttpInv, OnePlace
<1>5. ASSUME NEW c \in Clients, ~misread'[c] PROVE Conversation(c)'
  <2>1. Writing(c)' = Writing(c)
    BY <1>1 DEF Writing
  <2>2. Conversation(c)
    BY <1>1, <1>5 DEF HttpInv
  <2> QED BY <1>1, <2>1, <2>2, SameTalk
<1> QED BY <1>3, <1>4, <1>5 DEF HttpInv

\* A thread of the pool takes a connection.
LEMMA TakeStep ==
  ASSUME HttpInv, NEW t \in Threads, Http!Take(t)
  PROVE  HttpInv'
<1> USE ScriptAssumption
<1>1. /\ httpPc[t] = "idle" /\ queue # <<>> /\ queue' = Tail(queue)
      /\ serving' = [serving EXCEPT ![t] = Head(queue)]
      /\ httpPc' = [httpPc EXCEPT ![t] = "read"]
      /\ UNCHANGED <<accepting, httpBacklog, httpResponse, dropped, httpWire, httpSent,
                     httpOpen, replies, misread>>
  BY DEF Http!Take, Http!peers
<1>2. PICK h \in Clients : h = Head(queue)
  BY <1>1 DEF HttpInv, HttpTypes
<1>3. queue \in Seq(Clients) /\ Once(queue)
  BY DEF HttpInv, HttpTypes, OnePlace
<1>4. /\ h \in Http!Elements(queue) /\ queue' \in Seq(Clients) /\ Once(queue')
      /\ Http!Elements(queue') = Http!Elements(queue) \ {h}
  BY <1>1, <1>2, <1>3, TailOnce
<1>5. /\ serving[t] = Nobody /\ h \notin InPool /\ h # Nobody
      /\ serving'[t] = h /\ httpPc'[t] = "read"
      /\ \A u \in Threads \ {t} : serving'[u] = serving[u] /\ httpPc'[u] = httpPc[u]
  BY <1>1, <1>2, <1>4 DEF HttpInv, HttpTypes, OnePlace
<1>6. HttpTypes'
  BY <1>1, <1>2, <1>4 DEF HttpInv, HttpTypes
<1>7. OnePlace'
  <2>1. InPool' = InPool \cup {h}
    BY <1>5 DEF InPool
  <2>2. Http!Elements(httpBacklog)' = Http!Elements(httpBacklog) /\ Once(httpBacklog)'
    BY <1>1 DEF HttpInv, OnePlace, Http!Elements, Once
  <2>3. Http!Elements(queue)' = Http!Elements(queue) \ {h} /\ Once(queue)'
    BY <1>4 DEF Http!Elements, Once
  <2>4. \A v, u \in Threads : serving'[v] = serving'[u] /\ serving'[v] # Nobody => v = u
    BY <1>5 DEF HttpInv, OnePlace, InPool
  <2>5. \A u \in Threads : serving'[u] = Nobody <=> httpPc'[u] = "idle"
    BY <1>5 DEF HttpInv, OnePlace
  <2>6. h \notin Http!Elements(httpBacklog) /\ h \notin dropped /\ httpOpen[h] # "new"
    BY <1>4 DEF HttpInv, OnePlace
  <2> QED BY <1>1, <1>4, <2>1, <2>2, <2>3, <2>4, <2>5, <2>6 DEF HttpInv, OnePlace
<1>8. ASSUME NEW c \in Clients, ~misread'[c] PROVE Conversation(c)'
  <2>1. Writing(c)' = Writing(c)
    BY <1>1, <1>5 DEF Writing
  <2>2. Conversation(c)
    BY <1>1, <1>8 DEF HttpInv
  <2> QED BY <1>1, <2>1, <2>2, SameTalk
<1> QED BY <1>6, <1>7, <1>8 DEF HttpInv

\* Who is writing to a client is the one thread that serves it.
LEMMA OneWriter ==
  ASSUME HttpInv, NEW t \in Threads, serving[t] # Nobody
  PROVE  /\ serving[t] \in Clients /\ serving[t] \notin dropped
         /\ Writing(serving[t]) = IF httpPc[t] = "write" THEN {t} ELSE {}
         /\ \A c \in Clients \ {serving[t]} : t \notin Writing(c)
BY DEF HttpInv, HttpTypes, OnePlace, Writing, InPool

\* A thread and its connection part.
LEMMA LeavesStep ==
  ASSUME HttpInv, NEW t \in Threads, NEW s \in Clients, s = serving[t], Http!Leaves(t),
         UNCHANGED <<accepting, httpBacklog, httpSent, httpOpen>>,
         httpWire' \in [Clients -> Seq(Parts)], replies' \in [Clients -> Seq(Contents)],
         misread' \in [Clients -> BOOLEAN],
         \A c \in Clients \ {s} : /\ httpWire'[c] = httpWire[c]
                                  /\ replies'[c] = replies[c]
                                  /\ misread'[c] = misread[c],
         ~misread'[s] => Conversation(s)'
  PROVE  HttpInv'
<1> USE ScriptAssumption
<1>1. /\ dropped' = dropped \cup {s} /\ queue' = queue
      /\ serving' = [serving EXCEPT ![t] = Nobody]
      /\ httpResponse' = [httpResponse EXCEPT ![t] = Http!NoResponse]
      /\ httpPc' = [httpPc EXCEPT ![t] = "idle"]
  BY DEF Http!Leaves
<1>2. s \in InPool /\ s # Nobody
  BY DEF InPool
<1>3. /\ serving'[t] = Nobody /\ httpPc'[t] = "idle"
      /\ \A u \in Threads \ {t} : /\ serving'[u] = serving[u] /\ serving[u] # s
                                  /\ httpPc'[u] = httpPc[u] /\ httpResponse'[u] = httpResponse[u]
  BY <1>1, <1>2 DEF HttpInv, HttpTypes, OnePlace
<1>4. HttpTypes'
  <2>1. Http!NoResponse \in Responses
    BY DEF Http!NoResponse, Responses, Contents
  <2>2. httpResponse' \in [Threads -> Responses]
    BY <1>1, <2>1 DEF HttpInv, HttpTypes
  <2> QED BY <1>1, <1>2, <2>2 DEF HttpInv, HttpTypes
<1>5. OnePlace'
  <2>1. InPool' = InPool \ {s}
    <3>1. ASSUME NEW x \in InPool' PROVE x \in InPool \ {s}
      <4>1. PICK u \in Threads : x = serving'[u] /\ x # Nobody
        BY DEF InPool
      <4>2. u \in Threads \ {t}
        BY <1>3, <4>1
      <4> QED BY <1>3, <4>1, <4>2 DEF InPool
    <3>2. ASSUME NEW x \in InPool \ {s} PROVE x \in InPool'
      <4>1. PICK u \in Threads : x = serving[u] /\ x # Nobody /\ u # t
        BY DEF InPool
      <4> QED BY <1>3, <4>1 DEF InPool
    <3> QED BY <3>1, <3>2
  <2>2. Http!Elements(httpBacklog)' = Http!Elements(httpBacklog) /\ Once(httpBacklog)'
    BY <1>1 DEF HttpInv, OnePlace, Http!Elements, Once
  <2>3. Http!Elements(queue)' = Http!Elements(queue) /\ Once(queue)'
    BY <1>1 DEF HttpInv, OnePlace, Http!Elements, Once
  <2>4. \A v, u \in Threads : serving'[v] = serving'[u] /\ serving'[v] # Nobody => v = u
    <3>1. \A v, u \in Threads : serving[v] = serving[u] /\ serving[v] # Nobody => v = u
      BY DEF HttpInv, OnePlace
    <3>2. ASSUME NEW v \in Threads, NEW u \in Threads, serving'[v] = serving'[u],
                 serving'[v] # Nobody
          PROVE  v = u
      <4>1. v # t /\ u # t
        BY <1>3, <3>2
      <4>2. serving[v] = serving[u] /\ serving[v] # Nobody
        BY <1>3, <3>2, <4>1
      <4> QED BY <3>1, <4>2
    <3> QED BY <3>2
  <2>5. \A u \in Threads : serving'[u] = Nobody <=> httpPc'[u] = "idle"
    <3>1. \A u \in Threads : serving[u] = Nobody <=> httpPc[u] = "idle"
      BY DEF HttpInv, OnePlace
    <3>2. ASSUME NEW u \in Threads \ {t} PROVE serving'[u] = Nobody <=> httpPc'[u] = "idle"
      <4>1. serving'[u] = serving[u] /\ httpPc'[u] = httpPc[u]
        BY <1>3, Zenon
      <4> QED BY <3>1, <4>1
    <3> QED BY <1>3, <3>2
  <2> QED BY <1>1, <1>2, <2>1, <2>2, <2>3, <2>4, <2>5 DEF HttpInv, OnePlace
<1>6. ASSUME NEW c \in Clients, ~misread'[c], c # s PROVE Conversation(c)'
  <2>1. Writing(c)' = Writing(c) /\ \A u \in Writing(c) : u \in Threads \ {t}
    BY <1>2, <1>3, <1>6 DEF Writing
  <2>2. Conversation(c)
    BY <1>2, <1>6 DEF HttpInv
  <2> QED BY <1>1, <1>2, <1>3, <1>6, <2>1, <2>2, SameTalk
<1> QED BY <1>2, <1>4, <1>5, <1>6 DEF HttpInv

\* What one read_some takes.
LEMMA Taken ==
  ASSUME NEW w \in Seq(Parts), NEW m \in 1..Len(w)
  PROVE  /\ SubSeq(w, 1, m)[1] \in Parts /\ SubSeq(w, 1, m)[1] = w[1]
         /\ Len(SubSeq(w, 1, m)) = m
         /\ SubSeq(w, m + 1, Len(w)) \in Seq(Parts)
<1>1. PICK l \in Nat : l = Len(w) /\ m \in 1..l /\ m \in Nat
  OBVIOUS
<1>2. \A n \in 1..l : w[n] \in Parts
  BY <1>1
<1>3. SubSeq(w, 1, m)[1] = w[1] /\ Len(SubSeq(w, 1, m)) = m
  <2>1. \A n \in 1..m : w[n] \in Parts
    BY <1>1, <1>2
  <2>2. \A n \in 1..m - 1 + 1 : SubSeq(w, 1, m)[n] = w[1 + n - 1]
    BY <1>1, <2>1, SubSeqProperties
  <2>3. 1 \in 1..m - 1 + 1 /\ 1 + 1 - 1 = 1
    BY <1>1
  <2>4. Len(SubSeq(w, 1, m)) = m
    BY <1>1, <2>1, SubSeqProperties
  <2> QED BY <2>2, <2>3, <2>4
<1>4. SubSeq(w, m + 1, l) \in Seq(Parts)
  <2>1. PICK b \in Nat : b = m + 1 /\ b \in 1..l + 1
    BY <1>1
  <2>2. \A n \in b..l : w[n] \in Parts
    BY <1>2, <2>1
  <2> QED BY <1>1, <2>1, <2>2, SubSeqProperties
<1>5. 1 \in 1..l
  BY <1>1
<1> QED BY <1>1, <1>2, <1>3, <1>4, <1>5

\* A response has the content that its path routes to.
LEMMA Routes ==
  ASSUME NEW path, NEW close \in BOOLEAN
  PROVE  /\ Http!Respond(path, close) \in Responses
         /\ Http!Respond(path, close).content = Http!route(path).content
         /\ Http!Respond(path, close).close = close
<1>1. Http!route(path).status \in Nat /\ Http!route(path).content \in Contents
  BY DEF Http!route, Contents
<1> QED BY <1>1 DEF Http!Respond, Responses

\* What the parser makes of a request that is all there.
LEMMA Parsed ==
  ASSUME NEW r, NEW q, r[1].request = q,
         r[1].part = "whole" \/ (r[1].part = "first" /\ Len(r) = 2)
  PROVE  /\ Http!PathsOf(r) = {q.path}
         /\ Http!Found(r[1].request.close, r) = {q.close}
         /\ Http!Found(r[1].request.bad, r) = {q.bad}
<1>1. Len(r) = 2 => Len(r) > 1 /\ Len(r) # 1
  OBVIOUS
<1>2. Http!Complete(r)
  BY <1>1, Zenon DEF Http!Complete
<1>3. Http!PathsOf(r) = {q.path}
  BY <1>1, <1>2 DEF Http!PathsOf
<1> QED BY <1>2, <1>3 DEF Http!Found

\* What the parser makes of it.
IsParsed(c, x, r) == /\ Http!PathsOf(r) = {Script[c][x].path}
                     /\ Http!Found(r[1].request.close, r) = {Script[c][x].close}
                     /\ Http!Found(r[1].request.bad, r) = {Script[c][x].bad}
\* One request on the wire: what reading and parsing it give.
LEMMA RequestParsed ==
  ASSUME NEW c, NEW w, NEW x, NEW y, NEW m, NEW r, IsRequest(c, w, x, y, m, r)
  PROVE  IsParsed(c, x, r)
<1>1. r[1].request = Script[c][x] /\ (r[1].part = "whole" \/ (r[1].part = "first" /\ Len(r) = 2))
  BY Zenon DEF IsRequest
<1> QED BY <1>1, Parsed, Zenon DEF IsParsed

\* A request that is read in one piece is the one after those answered.
LEMMA ReadAsSent ==
  ASSUME HttpTypes, NEW c \in Clients, Conversation(c), c \notin dropped, Writing(c) = {},
         NEW m \in 1..Len(httpWire[c]), Http!IsOneRequest(SubSeq(httpWire[c], 1, m))
  PROVE  IsRequest(c, httpWire[c], Len(replies[c]) + 1, httpSent[c], m,
                   SubSeq(httpWire[c], 1, m))
<1>1. /\ httpWire[c] \in Seq(Parts) /\ httpSent[c] \in Nat
      /\ Len(replies[c]) + 1 \in Nat \ {0}
  BY DEF HttpTypes
<1>2. Encodes(httpWire[c], c, Len(replies[c]) + 1, httpSent[c])
  BY DEF Conversation, NextRequest
<1> QED BY <1>1, <1>2, RequestRead, Zenon

\* A thread reads a request.
LEMMA ReadStep ==
  ASSUME HttpInv, NEW t \in Threads, Http!Read(t)
  PROVE  HttpInv'
<1> USE ScriptAssumption
<1>1. httpPc[t] = "read" /\ serving[t] # Nobody
  BY DEF Http!Read, HttpInv, OnePlace
<1>2. PICK c \in Clients : c = serving[t]
  BY <1>1, OneWriter
<1>3. PICK m \in 1..Len(httpWire[c]) :
        LET parts == SubSeq(httpWire[c], 1, m) IN
        /\ \E path \in Http!PathsOf(parts), close \in Http!Found(parts[1].request.close, parts) :
             httpResponse' = [httpResponse EXCEPT ![t] = Http!Respond(path, close)]
        /\ Http!Takes(c, m)
  BY <1>2 DEF Http!Read
<1>4. /\ httpPc' = [httpPc EXCEPT ![t] = "write"]
      /\ UNCHANGED <<accepting, httpBacklog, queue, serving, dropped, httpSent, httpOpen, replies>>
  BY DEF Http!Read, Http!peers
<1>5. /\ httpWire' = [httpWire EXCEPT ![c] = SubSeq(@, m + 1, Len(@))]
      /\ misread' = [misread EXCEPT ![c] = @ \/ ~Http!IsOneRequest(SubSeq(httpWire[c], 1, m))]
  BY <1>3 DEF Http!Takes
<1>6. PICK w \in Seq(Parts) : w = httpWire[c] /\ m \in 1..Len(w)
  BY DEF HttpInv, HttpTypes
<1>7. PICK r : r = SubSeq(w, 1, m) /\ r[1] \in Parts
  BY <1>6, Taken
<1>8. PICK path \in Http!PathsOf(r), close \in Http!Found(r[1].request.close, r) :
        httpResponse' = [httpResponse EXCEPT ![t] = Http!Respond(path, close)]
  BY <1>3, <1>6, <1>7
<1>9. close \in BOOLEAN
  BY <1>7 DEF Http!Found, Parts, Requests
<1>10. HttpTypes'
  <2>1. Http!Respond(path, close) \in Responses
    BY <1>9, Routes
  <2>2. httpResponse' \in [Threads -> Responses]
    BY <1>8, <2>1 DEF HttpInv, HttpTypes
  <2>3. SubSeq(w, m + 1, Len(w)) \in Seq(Parts)
    BY <1>6, Taken
  <2>4. httpWire' \in [Clients -> Seq(Parts)]
    BY <1>5, <1>6, <2>3 DEF HttpInv, HttpTypes
  <2>5. misread' \in [Clients -> BOOLEAN]
    BY <1>5 DEF HttpInv, HttpTypes
  <2>6. httpPc' \in [Threads -> {"idle", "read", "write"}]
    BY <1>4 DEF HttpInv, HttpTypes
  <2> QED BY <1>4, <2>2, <2>4, <2>5, <2>6 DEF HttpInv, HttpTypes
<1>11. /\ httpPc'[t] = "write" /\ \A u \in Threads \ {t} : httpPc'[u] = httpPc[u]
       /\ httpResponse'[t] = Http!Respond(path, close)
       /\ \A u \in Threads \ {t} : httpResponse'[u] = httpResponse[u]
       /\ httpWire'[c] = SubSeq(w, m + 1, Len(w))
       /\ \A d \in Clients \ {c} : httpWire'[d] = httpWire[d] /\ misread'[d] = misread[d]
       /\ misread'[c] <=> misread[c] \/ ~Http!IsOneRequest(r)
  BY <1>4, <1>5, <1>6, <1>7, <1>8 DEF HttpInv, HttpTypes
<1>12. OnePlace'
  <2>1. InPool' = InPool
    BY <1>4 DEF InPool
  <2>2. \A u \in Threads : httpPc'[u] = "idle" <=> httpPc[u] = "idle"
    BY <1>1, <1>11
  <2> QED BY <1>4, <2>1, <2>2 DEF HttpInv, OnePlace, Once, Http!Elements
<1>13. ASSUME NEW d \in Clients, ~misread'[d], d # c PROVE Conversation(d)'
  <2>1. Writing(d)' = Writing(d) /\ \A u \in Writing(d) : u \in Threads \ {t}
    BY <1>2, <1>4, <1>11, <1>13 DEF Writing
  <2>2. Conversation(d)
    BY <1>11, <1>13 DEF HttpInv
  <2> QED BY <1>4, <1>11, <1>13, <2>1, <2>2, SameTalk
<1>14. ASSUME ~misread'[c] PROVE Conversation(c)'
  <2>1. ~misread[c] /\ Http!IsOneRequest(r)
    BY <1>11, <1>14
  <2>2. PICK k \in Nat \ {0}, y \in Nat : k = Len(replies[c]) + 1 /\ y = httpSent[c]
    BY DEF HttpInv, HttpTypes
  <2>3. /\ Conversation(c) /\ c \notin dropped /\ Writing(c) = {} /\ k <= y
        /\ Http!PathsOf(r) = {Script[c][k].path}
        /\ Http!Found(r[1].request.close, r) = {Script[c][k].close}
        /\ Encodes(SubSeq(w, m + 1, Len(w)), c, k + 1, y)
    <3>1. Conversation(c) /\ c \notin dropped /\ Writing(c) = {} /\ HttpTypes
      BY <1>1, <1>2, <2>1, OneWriter DEF HttpInv
    <3>2. r = SubSeq(httpWire[c], 1, m)
      BY <1>6, <1>7
    <3>3. IsRequest(c, w, k, y, m, r)
      BY <1>6, <2>1, <2>2, <3>1, <3>2, ReadAsSent
    <3>4. IsParsed(c, k, r)
      BY <3>3, RequestParsed, Zenon
    <3> QED BY <3>1, <3>3, <3>4, Zenon DEF IsRequest, IsParsed
  <2>4. Writing(c)' = {t}
    <3>1. \A u \in Threads : serving[u] = c => u = t
      BY <1>1, <1>2 DEF HttpInv, OnePlace
    <3> QED BY <1>2, <1>4, <1>11, <3>1 DEF Writing
  <2>5. NextRequest(c)' = k + 1
    BY <1>4, <2>2, <2>4 DEF NextRequest
  <2>6. httpResponse'[t].content = Answer(c, k) /\ httpResponse'[t].close = Script[c][k].close
    BY <1>8, <1>9, <1>11, <2>3, Routes DEF Answer
  <2>7. (c \notin dropped => Encodes(httpWire[c], c, NextRequest(c), httpSent[c]))'
    <3>1. PICK v : v = SubSeq(w, m + 1, Len(w)) /\ Encodes(v, c, k + 1, y)
      BY <2>3
    <3>2. httpWire'[c] = v /\ NextRequest(c)' = k + 1 /\ httpSent'[c] = y
      BY <1>4, <1>11, <2>2, <2>5, <3>1
    <3>3. Encodes(httpWire'[c], c, NextRequest(c)', httpSent'[c])
      BY <3>1, <3>2, Zenon
    <3>4. Encodes(httpWire[c], c, NextRequest(c), httpSent[c])'
      BY <3>3 DEF Encodes
    <3> QED BY <3>4
  <2>8. httpSent'[c] = y /\ replies'[c] = replies[c] /\ c \notin dropped'
    BY <1>4, <2>2, <2>3
  <2>9. NextRequest(c)' <= httpSent'[c] + 1
    BY <2>3, <2>5, <2>8
  <2>10. \A u \in Writing(c)' :
           /\ httpResponse'[u].content = Answer(c, Len(replies'[c]) + 1)
           /\ httpResponse'[u].close = Script[c][Len(replies'[c]) + 1].close
    BY <2>2, <2>4, <2>6, <2>8
  <2> QED BY <2>2, <2>3, <2>7, <2>8, <2>9, <2>10 DEF Conversation, Answer
<1> QED BY <1>10, <1>12, <1>13, <1>14 DEF HttpInv

\* A thread that parts from a client to which it has said all it should.
LEMMA PartingTalk ==
  ASSUME HttpInv, NEW t \in Threads, NEW s \in Clients, s = serving[t], Http!Leaves(t),
         UNCHANGED <<accepting, httpSent, httpOpen>>, Conversation(s),
         NEW a \in Seq(Contents), a = replies'[s], Len(a) <= httpSent[s],
         \A n \in 1..Len(a) : a[n] = Answer(s, n),
         httpOpen[s] = "yes" /\ accepting => \/ a # <<>> /\ Script[s][Len(a)].close
                                             \/ Script[s][Len(a) + 1].bad
  PROVE  Conversation(s)'
<1> USE ScriptAssumption
<1>1. /\ dropped' = dropped \cup {s}
      /\ serving' = [serving EXCEPT ![t] = Nobody]
  BY DEF Http!Leaves
<1>2. Writing(s)' = {}
  <2>1. \A u \in Threads : serving'[u] # s
    BY <1>1 DEF HttpInv, HttpTypes, OnePlace
  <2> QED BY <2>1 DEF Writing
<1>3. NextRequest(s)' = Len(a) + 1
  BY <1>2 DEF NextRequest
<1>4. httpSent'[s] \in Nat /\ Len(a) \in Nat /\ NextRequest(s)' <= httpSent'[s] + 1
  BY <1>3 DEF HttpInv, HttpTypes
<1>5. httpSent'[s] <= Len(Script[s]) /\ s \in dropped'
  BY <1>1 DEF Conversation
<1> QED BY <1>2, <1>4, <1>5 DEF Conversation, Answer

\* The Content-Length of a request is no number.
LEMMA ReadThrowsStep ==
  ASSUME HttpInv, NEW t \in Threads, Http!ReadThrows(t)
  PROVE  HttpInv'
<1>1. httpPc[t] = "read" /\ serving[t] # Nobody
  BY DEF Http!ReadThrows, HttpInv, OnePlace
<1>2. PICK c \in Clients : c = serving[t]
  BY <1>1, OneWriter
<1>3. PICK m \in 1..Len(httpWire[c]) :
        LET parts == SubSeq(httpWire[c], 1, m) IN
        TRUE \in Http!Found(parts[1].request.bad, parts) /\ Http!Takes(c, m)
  BY <1>2 DEF Http!ReadThrows
<1>4. Http!Leaves(t) /\ UNCHANGED <<accepting, httpBacklog, httpSent, httpOpen, replies>>
  BY DEF Http!ReadThrows, Http!peers
<1>5. /\ httpWire' = [httpWire EXCEPT ![c] = SubSeq(@, m + 1, Len(@))]
      /\ misread' = [misread EXCEPT ![c] = @ \/ ~Http!IsOneRequest(SubSeq(httpWire[c], 1, m))]
  BY <1>3 DEF Http!Takes
<1>6. /\ httpWire \in [Clients -> Seq(Parts)] /\ misread \in [Clients -> BOOLEAN]
      /\ replies \in [Clients -> Seq(Contents)]
  BY DEF HttpInv, HttpTypes
<1>7. SubSeq(httpWire[c], m + 1, Len(httpWire[c])) \in Seq(Parts)
  BY <1>6, Taken
<1>8. /\ httpWire' \in [Clients -> Seq(Parts)] /\ misread' \in [Clients -> BOOLEAN]
      /\ \A d \in Clients \ {c} : httpWire'[d] = httpWire[d] /\ misread'[d] = misread[d]
      /\ misread'[c] <=> misread[c] \/ ~Http!IsOneRequest(SubSeq(httpWire[c], 1, m))
  BY <1>5, <1>6, <1>7
<1>9. ASSUME ~misread'[c] PROVE Conversation(c)'
  <2>1. ~misread[c] /\ Http!IsOneRequest(SubSeq(httpWire[c], 1, m))
    BY <1>8, <1>9
  <2>2. Conversation(c) /\ c \notin dropped /\ Writing(c) = {} /\ HttpTypes
    BY <1>1, <1>2, <2>1, OneWriter DEF HttpInv
  <2>3. PICK k : k = Len(replies[c]) + 1
    OBVIOUS
  <2>4. PICK r : r = SubSeq(httpWire[c], 1, m)
    OBVIOUS
  <2>5. IsRequest(c, httpWire[c], k, httpSent[c], m, r)
    BY <2>1, <2>2, <2>3, <2>4, ReadAsSent
  <2>6. IsParsed(c, k, r) /\ k <= httpSent[c]
    BY <2>5, RequestParsed, Zenon DEF IsRequest
  <2>7. Script[c][k].bad
    BY <1>3, <2>4, <2>6 DEF IsParsed
  <2>8. /\ replies[c] \in Seq(Contents) /\ httpSent[c] \in Nat /\ replies'[c] = replies[c]
        /\ Len(replies[c]) <= httpSent[c]
    BY <1>4, <2>2, <2>3, <2>6 DEF HttpTypes
  <2>9. \A n \in 1..Len(replies[c]) : replies[c][n] = Answer(c, n)
    BY <2>2 DEF Conversation
  <2> QED BY <1>2, <1>4, <2>2, <2>3, <2>7, <2>8, <2>9, PartingTalk
<1> QED BY <1>2, <1>4, <1>6, <1>8, <1>9, LeavesStep

\* A connection that its peer has closed is given up, at read_some or at write.
LEMMA GivenUp ==
  ASSUME HttpInv, NEW t \in Threads, httpPc[t] # "idle", httpOpen[serving[t]] = "no",
         Http!Leaves(t),
         UNCHANGED <<accepting, httpBacklog, httpWire, httpSent, httpOpen, replies, misread>>
  PROVE  HttpInv'
<1>1. serving[t] # Nobody
  BY DEF HttpInv, OnePlace
<1>2. PICK c \in Clients : c = serving[t]
  BY <1>1, OneWriter
<1>3. /\ httpWire \in [Clients -> Seq(Parts)] /\ misread \in [Clients -> BOOLEAN]
      /\ replies \in [Clients -> Seq(Contents)] /\ httpSent \in [Clients -> Nat]
  BY DEF HttpInv, HttpTypes
<1>4. ASSUME ~misread[c] PROVE Conversation(c)'
  <2>1. Conversation(c)
    BY <1>4 DEF HttpInv
  <2>2. /\ replies[c] \in Seq(Contents) /\ Len(replies[c]) \in Nat /\ httpSent[c] \in Nat
        /\ Len(replies[c]) <= httpSent[c]
    BY <1>3, <2>1 DEF Conversation, NextRequest
  <2>3. \A n \in 1..Len(replies[c]) : replies[c][n] = Answer(c, n)
    BY <2>1 DEF Conversation
  <2> QED BY <1>2, <2>1, <2>2, <2>3, PartingTalk
<1> QED BY <1>2, <1>3, <1>4, LeavesStep

\* A thread reads the end of a connection.
LEMMA ReadEndStep ==
  ASSUME HttpInv, NEW t \in Threads, Http!ReadEnd(t)
  PROVE  HttpInv'
<1>1. /\ httpPc[t] # "idle" /\ httpOpen[serving[t]] = "no" /\ Http!Leaves(t)
      /\ UNCHANGED <<accepting, httpBacklog, httpWire, httpSent, httpOpen, replies, misread>>
  BY DEF Http!ReadEnd, Http!peers
<1> QED BY <1>1, GivenUp

\* A write fails, as the peer has gone.
LEMMA WriteFailsStep ==
  ASSUME HttpInv, NEW t \in Threads, Http!WriteFails(t)
  PROVE  HttpInv'
<1>1. /\ httpPc[t] # "idle" /\ httpOpen[serving[t]] = "no" /\ Http!Leaves(t)
      /\ UNCHANGED <<accepting, httpBacklog, httpWire, httpSent, httpOpen, replies, misread>>
  BY DEF Http!WriteFails, Http!peers
<1> QED BY <1>1, GivenUp

\* A response is written: it is the one to the request after those answered.
LEMMA WriteStep ==
  ASSUME HttpInv, NEW t \in Threads, Http!Write(t)
  PROVE  HttpInv'
<1>1. httpPc[t] = "write" /\ serving[t] # Nobody
  BY DEF Http!Write, HttpInv, OnePlace
<1>2. PICK c \in Clients : c = serving[t]
  BY <1>1, OneWriter
<1>3. PICK a \in Seq(Contents) : a = replies[c]
  BY DEF HttpInv, HttpTypes
<1>4. PICK e \in Contents : e = httpResponse[t].content
  BY DEF HttpInv, HttpTypes, Responses
<1>5. PICK b \in Seq(Contents) : b = Append(a, e)
  BY AppendProperties, Zenon
<1>6. /\ Len(b) = Len(a) + 1 /\ Len(a) \in Nat /\ b[Len(a) + 1] = e
      /\ \A n \in 1..Len(a) : b[n] = a[n]
  BY <1>5
<1>7. /\ replies' = [replies EXCEPT ![c] = b]
      /\ UNCHANGED <<accepting, httpBacklog, httpWire, httpSent, httpOpen, misread>>
  BY <1>2, <1>3, <1>4, <1>5 DEF Http!Write, Http!peers
<1>8. /\ replies' \in [Clients -> Seq(Contents)] /\ replies'[c] = b
      /\ \A d \in Clients \ {c} : replies'[d] = replies[d]
  BY <1>7 DEF HttpInv, HttpTypes
<1>9. /\ httpWire \in [Clients -> Seq(Parts)] /\ misread \in [Clients -> BOOLEAN]
      /\ httpSent[c] \in Nat
  BY DEF HttpInv, HttpTypes
<1>10. Writing(c) = {t} /\ c \notin dropped
  BY <1>1, <1>2, OneWriter
<1>11. ASSUME ~misread[c]
       PROVE  /\ Conversation(c) /\ Len(b) <= httpSent[c]
              /\ \A n \in 1..Len(b) : b[n] = Answer(c, n)
              /\ httpResponse[t].close = Script[c][Len(b)].close
  <2>1. Conversation(c)
    BY <1>11 DEF HttpInv
  <2>2. Len(b) <= httpSent[c]
    BY <1>3, <1>6, <1>9, <1>10, <2>1 DEF Conversation, NextRequest
  <2>3. e = Answer(c, Len(b)) /\ httpResponse[t].close = Script[c][Len(b)].close
    BY <1>3, <1>4, <1>6, <1>10, <2>1 DEF Conversation
  <2>4. \A n \in 1..Len(a) : a[n] = Answer(c, n)
    BY <1>3, <2>1 DEF Conversation
  <2>5. \A n \in 1..Len(b) : n = Len(b) \/ n \in 1..Len(a)
    BY <1>6
  <2> QED BY <1>6, <2>1, <2>2, <2>3, <2>4, <2>5
<1>12. CASE httpResponse[t].close
  <2>1. Http!Leaves(t)
    BY <1>12 DEF Http!Write
  <2>2. ASSUME ~misread[c] PROVE Conversation(c)'
    <3>1. b # <<>>
      BY <1>6
    <3>2. Script[c][Len(b)].close
      BY <1>11, <1>12, <2>2
    <3> QED BY <1>2, <1>7, <1>8, <1>11, <2>1, <2>2, <3>1, <3>2, PartingTalk
  <2> QED BY <1>2, <1>7, <1>8, <1>9, <2>1, <2>2, LeavesStep
<1>13. CASE ~httpResponse[t].close
  <2>1. /\ httpPc' = [httpPc EXCEPT ![t] = "read"]
        /\ httpResponse' = [httpResponse EXCEPT ![t] = Http!NoResponse]
        /\ UNCHANGED <<queue, serving, dropped>>
    BY <1>13 DEF Http!Write
  <2>2. /\ httpPc'[t] = "read"
        /\ \A u \in Threads \ {t} : httpPc'[u] = httpPc[u] /\ httpResponse'[u] = httpResponse[u]
    BY <2>1 DEF HttpInv, HttpTypes
  <2>3. HttpTypes'
    <3>1. Http!NoResponse \in Responses
      BY DEF Http!NoResponse, Responses, Contents
    <3>2. httpResponse' \in [Threads -> Responses]
      BY <2>1, <3>1 DEF HttpInv, HttpTypes
    <3>3. httpPc' \in [Threads -> {"idle", "read", "write"}]
      BY <2>1 DEF HttpInv, HttpTypes
    <3> QED BY <1>7, <1>8, <2>1, <3>2, <3>3 DEF HttpInv, HttpTypes
  <2>4. OnePlace'
    <3>1. InPool' = InPool
      BY <2>1 DEF InPool
    <3>2. \A u \in Threads : httpPc'[u] = "idle" <=> httpPc[u] = "idle"
      BY <1>1, <2>2
    <3>3. Http!Elements(httpBacklog)' = Http!Elements(httpBacklog) /\ Once(httpBacklog)'
      BY <1>7 DEF HttpInv, OnePlace, Http!Elements, Once
    <3>4. Http!Elements(queue)' = Http!Elements(queue) /\ Once(queue)'
      BY <2>1 DEF HttpInv, OnePlace, Http!Elements, Once
    <3>5. UNCHANGED <<serving, dropped, httpOpen>>
      BY <1>7, <2>1
    <3> QED BY <3>1, <3>2, <3>3, <3>4, <3>5 DEF HttpInv, OnePlace
  <2>5. ASSUME NEW d \in Clients, ~misread'[d], d # c PROVE Conversation(d)'
    <3>1. Writing(d)' = Writing(d) /\ \A u \in Writing(d) : u \in Threads \ {t}
      BY <1>2, <2>1, <2>2, <2>5 DEF Writing
    <3>2. Conversation(d)
      BY <1>7, <2>5 DEF HttpInv
    <3> QED BY <1>7, <1>8, <2>1, <2>2, <2>5, <3>1, <3>2, SameTalk
  <2>6. ASSUME ~misread'[c] PROVE Conversation(c)'
    <3>1. ~misread[c]
      BY <1>7, <2>6
    <3>2. Writing(c)' = {}
      BY <1>10, <2>1, <2>2 DEF Writing
    <3>3. PICK x \in Nat : x = Len(a) + 2
      BY <1>6
    <3>4. NextRequest(c) = x
      BY <1>3, <1>10, <3>3 DEF NextRequest
    <3>5. NextRequest(c)' = x
      BY <1>6, <1>8, <3>2, <3>3 DEF NextRequest
    <3>6. PICK w, y : w = httpWire[c] /\ y = httpSent[c]
      OBVIOUS
    <3>7. Encodes(w, c, x, y)
      BY <1>10, <1>11, <3>1, <3>4, <3>6 DEF Conversation
    <3>8. (Encodes(httpWire[c], c, NextRequest(c), httpSent[c]))'
      BY <1>7, <3>5, <3>6, <3>7 DEF Encodes
    <3>9. /\ httpSent'[c] <= Len(Script[c])
          /\ NextRequest(c)' <= httpSent'[c] + 1
      BY <1>7, <1>11, <3>1, <3>4, <3>5 DEF Conversation
    <3>10. \A n \in 1..Len(replies'[c]) : replies'[c][n] = Answer(c, n)
      BY <1>8, <1>11, <3>1
    <3>11. c \notin dropped'
      BY <1>10, <2>1
    <3> QED BY <3>2, <3>8, <3>9, <3>10, <3>11 DEF Conversation, Answer
  <2> QED BY <2>3, <2>4, <2>5, <2>6 DEF HttpInv
<1> QED BY <1>12, <1>13

\* A peer connects: its connection is nowhere yet.
LEMMA ConnectStep ==
  ASSUME HttpInv, NEW c \in Clients, Http!Connect(c)
  PROVE  HttpInv'
<1> USE ScriptAssumption
<1>1. /\ httpOpen[c] = "new" /\ httpOpen' = [httpOpen EXCEPT ![c] = "yes"]
      /\ httpBacklog' = Append(httpBacklog, c)
      /\ UNCHANGED <<accepting, queue, serving, httpPc, httpResponse, dropped, httpWire,
                     httpSent, replies, misread>>
  BY DEF Http!Connect, Http!pool
<1>2. /\ c \notin Http!Elements(httpBacklog) /\ c \notin Http!Elements(queue)
      /\ c \notin InPool /\ c \notin dropped
  BY <1>1 DEF HttpInv, OnePlace
<1>3. httpBacklog \in Seq(Clients) /\ Once(httpBacklog)
  BY DEF HttpInv, HttpTypes, OnePlace
<1>4. /\ httpBacklog' \in Seq(Clients) /\ Once(httpBacklog')
      /\ Http!Elements(httpBacklog') = Http!Elements(httpBacklog) \cup {c}
  BY <1>1, <1>2, <1>3, AppendOnce
<1>5. /\ httpOpen' \in [Clients -> {"new", "yes", "no"}] /\ httpOpen'[c] = "yes"
      /\ \A d \in Clients \ {c} : httpOpen'[d] = httpOpen[d]
  BY <1>1 DEF HttpInv, HttpTypes
<1>6. HttpTypes'
  BY <1>1, <1>4, <1>5 DEF HttpInv, HttpTypes
<1>7. OnePlace'
  <2>1. InPool' = InPool
    BY <1>1 DEF InPool
  <2>2. /\ Http!Elements(httpBacklog)' = Http!Elements(httpBacklog) \cup {c}
        /\ Once(httpBacklog)'
    BY <1>4 DEF Http!Elements, Once
  <2>3. Http!Elements(queue)' = Http!Elements(queue) /\ Once(queue)'
    BY <1>1 DEF HttpInv, OnePlace, Http!Elements, Once
  <2>4. ASSUME NEW d \in Http!Elements(httpBacklog)' \cup Http!Elements(queue)' \cup InPool'
                           \cup dropped'
        PROVE  httpOpen'[d] # "new"
    <3>1. CASE d = c
      BY <1>5, <3>1
    <3>2. CASE d # c
      <4>1. /\ d \in Http!Elements(httpBacklog) \cup Http!Elements(queue) \cup InPool
                       \cup dropped
            /\ dropped \subseteq Clients
        BY <1>1, <2>1, <2>2, <2>3, <2>4, <3>2 DEF HttpInv, HttpTypes
      <4>2. Http!Elements(httpBacklog) \subseteq Clients /\ Http!Elements(queue) \subseteq Clients
        BY DEF HttpInv, HttpTypes, Http!Elements
      <4>3. InPool \subseteq Clients
        BY DEF HttpInv, HttpTypes, InPool
      <4>4. httpOpen[d] # "new"
        BY <4>1 DEF HttpInv, OnePlace
      <4> QED BY <1>5, <3>2, <4>1, <4>2, <4>3, <4>4
    <3> QED BY <3>1, <3>2
  <2> QED BY <1>1, <1>2, <2>1, <2>2, <2>3, <2>4 DEF HttpInv, OnePlace
<1>8. ASSUME NEW d \in Clients, ~misread'[d] PROVE Conversation(d)'
  <2>1. Writing(d)' = Writing(d)
    BY <1>1 DEF Writing
  <2>2. Conversation(d)
    BY <1>1, <1>8 DEF HttpInv
  <2>3. d \in dropped' /\ httpOpen'[d] = "yes" => httpOpen[d] = "yes"
    BY <1>1, <1>2, <1>5
  <2> QED BY <1>1, <2>1, <2>2, <2>3, SameTalk
<1> QED BY <1>6, <1>7, <1>8 DEF HttpInv

\* A peer closes its end.
LEMMA CloseStep ==
  ASSUME HttpInv, NEW c \in Clients, Http!Close(c)
  PROVE  HttpInv'
<1>1. /\ httpOpen[c] = "yes" /\ httpOpen' = [httpOpen EXCEPT ![c] = "no"]
      /\ UNCHANGED <<accepting, httpBacklog, queue, serving, httpPc, httpResponse, dropped,
                     httpWire, httpSent, replies, misread>>
  BY DEF Http!Close, Http!pool
<1>2. httpOpen' \in [Clients -> {"new", "yes", "no"}]
  BY <1>1 DEF HttpInv, HttpTypes
<1>3. \A d : /\ httpOpen[d] # "new" /\ d \in Clients => httpOpen'[d] # "new"
             /\ d \in Clients /\ httpOpen'[d] = "yes" => httpOpen[d] = "yes"
  BY <1>1 DEF HttpInv, HttpTypes
<1>4. HttpTypes'
  BY <1>1, <1>2 DEF HttpInv, HttpTypes
<1>5. OnePlace'
  <2>1. InPool' = InPool /\ InPool \subseteq Clients /\ dropped \subseteq Clients
    BY <1>1 DEF InPool, HttpInv, HttpTypes
  <2>2. /\ Http!Elements(httpBacklog)' = Http!Elements(httpBacklog) /\ Once(httpBacklog)'
        /\ Http!Elements(httpBacklog) \subseteq Clients
    BY <1>1 DEF HttpInv, HttpTypes, OnePlace, Http!Elements, Once
  <2>3. /\ Http!Elements(queue)' = Http!Elements(queue) /\ Once(queue)'
        /\ Http!Elements(queue) \subseteq Clients
    BY <1>1 DEF HttpInv, HttpTypes, OnePlace, Http!Elements, Once
  <2> QED BY <1>1, <1>3, <2>1, <2>2, <2>3 DEF HttpInv, OnePlace
<1>6. ASSUME NEW d \in Clients, ~misread'[d] PROVE Conversation(d)'
  <2>1. Writing(d)' = Writing(d)
    BY <1>1 DEF Writing
  <2>2. Conversation(d)
    BY <1>1, <1>6 DEF HttpInv
  <2> QED BY <1>1, <1>3, <2>1, <2>2, SameTalk
<1> QED BY <1>4, <1>5, <1>6 DEF HttpInv

\* The parts of one request.
LEMMA Sending ==
  ASSUME NEW q \in Requests
  PROVE  /\ <<Http!Whole(q)>> \in Seq(Parts) /\ Http!Whole(q).request = q
         /\ Http!Whole(q).part = "whole"
         /\ <<Http!FirstPart(q), Http!SecondPart(q)>> \in Seq(Parts)
         /\ Http!FirstPart(q).request = q /\ Http!SecondPart(q).request = q
         /\ Http!FirstPart(q).part = "first" /\ Http!SecondPart(q).part = "second"
<1>1. Http!Whole(q) \in Parts /\ Http!FirstPart(q) \in Parts /\ Http!SecondPart(q) \in Parts
  BY DEF Parts, Http!Whole, Http!FirstPart, Http!SecondPart
<1>2. <<Http!Whole(q)>> \in Seq(Parts) /\ <<Http!FirstPart(q), Http!SecondPart(q)>> \in Seq(Parts)
  BY <1>1
<1> QED BY <1>2 DEF Http!Whole, Http!FirstPart, Http!SecondPart

\* A peer sends its next request, whole or in two parts.
LEMMA SendStep ==
  ASSUME HttpInv, NEW c \in Clients, Http!Send(c)
  PROVE  HttpInv'
<1> USE ScriptAssumption
<1>1. /\ httpOpen[c] = "yes" /\ c \notin dropped /\ httpSent[c] < Len(Script[c])
      /\ httpSent' = [httpSent EXCEPT ![c] = @ + 1]
      /\ UNCHANGED <<accepting, httpBacklog, queue, serving, httpPc, httpResponse, dropped,
                     httpOpen, replies, misread>>
  BY DEF Http!Send, Http!pool
<1>2. PICK w \in Seq(Parts), y \in Nat : w = httpWire[c] /\ y = httpSent[c]
  BY DEF HttpInv, HttpTypes
<1>3. /\ httpSent'[c] = y + 1 /\ httpSent' \in [Clients -> Nat]
      /\ \A d \in Clients \ {c} : httpSent'[d] = httpSent[d]
  BY <1>1, <1>2 DEF HttpInv, HttpTypes
<1>4. PICK q \in Requests : q = Script[c][y + 1]
  <2>1. y + 1 \in 1..Len(Script[c])
    BY <1>1, <1>2
  <2> QED BY <2>1
<1>5. PICK u \in Seq(Parts) :
        /\ \/ Len(u) = 1 /\ u[1].part = "whole"
           \/ Len(u) = 2 /\ u[1].part = "first" /\ u[2].part = "second"
        /\ \A n \in 1..Len(u) : u[n].request = q
        /\ httpWire' = [httpWire EXCEPT ![c] = w \o u]
  <2>1. CASE httpWire' = [httpWire EXCEPT ![c] = Append(@, Http!Whole(q))]
    <3>1. PICK u \in Seq(Parts) : u = <<Http!Whole(q)>>
      BY Sending
    <3>2. Len(u) = 1 /\ u[1] = Http!Whole(q) /\ Append(w, Http!Whole(q)) = w \o u
      BY <3>1
    <3>3. \A n \in 1..Len(u) : u[n].request = q
      BY <3>2, Sending
    <3>4. u[1].part = "whole"
      BY <3>2, Sending
    <3> QED BY <1>2, <2>1, <3>2, <3>3, <3>4
  <2>2. CASE httpWire' = [httpWire EXCEPT ![c] = @ \o <<Http!FirstPart(q), Http!SecondPart(q)>>]
    <3>1. PICK u \in Seq(Parts) : u = <<Http!FirstPart(q), Http!SecondPart(q)>>
      BY Sending
    <3>2. Len(u) = 2 /\ u[1] = Http!FirstPart(q) /\ u[2] = Http!SecondPart(q)
      BY <3>1
    <3>3. \A n \in 1..Len(u) : u[n].request = q
      BY <3>2, Sending
    <3>4. u[1].part = "first" /\ u[2].part = "second"
      BY <3>2, Sending
    <3> QED BY <1>2, <2>2, <3>1, <3>2, <3>3, <3>4
  <2> QED BY <1>3, <1>4, <2>1, <2>2 DEF Http!Send
<1>6. PICK v \in Seq(Parts) : v = w \o u
  BY ConcatProperties, Zenon
<1>7. /\ httpWire'[c] = v /\ httpWire' \in [Clients -> Seq(Parts)]
      /\ \A d \in Clients \ {c} : httpWire'[d] = httpWire[d]
  BY <1>5, <1>6 DEF HttpInv, HttpTypes
<1>8. HttpTypes'
  BY <1>1, <1>3, <1>7 DEF HttpInv, HttpTypes
<1>9. OnePlace'
  <2>1. InPool' = InPool
    BY <1>1 DEF InPool
  <2>2. Http!Elements(httpBacklog)' = Http!Elements(httpBacklog) /\ Once(httpBacklog)'
    BY <1>1 DEF HttpInv, OnePlace, Http!Elements, Once
  <2>3. Http!Elements(queue)' = Http!Elements(queue) /\ Once(queue)'
    BY <1>1 DEF HttpInv, OnePlace, Http!Elements, Once
  <2> QED BY <1>1, <2>1, <2>2, <2>3 DEF HttpInv, OnePlace
<1>10. ASSUME NEW d \in Clients, ~misread'[d], d # c PROVE Conversation(d)'
  <2>1. Writing(d)' = Writing(d)
    BY <1>1 DEF Writing
  <2>2. Conversation(d)
    BY <1>1, <1>10 DEF HttpInv
  <2> QED BY <1>1, <1>3, <1>7, <1>10, <2>1, <2>2, SameTalk
<1>11. ASSUME ~misread'[c] PROVE Conversation(c)'
  <2>1. Conversation(c)
    BY <1>1, <1>11 DEF HttpInv
  <2>2. Writing(c)' = Writing(c)
    BY <1>1 DEF Writing
  <2>3. PICK x \in Nat \ {0} : x = NextRequest(c)
    <3>1. Len(replies[c]) \in Nat
      BY DEF HttpInv, HttpTypes
    <3>2. NextRequest(c) \in Nat \ {0}
      BY <3>1 DEF NextRequest
    <3> QED BY <3>2
  <2>4. NextRequest(c)' = x
    BY <1>1, <2>2, <2>3 DEF NextRequest
  <2>5. Encodes(w, c, x, y)
    BY <1>1, <1>2, <2>1, <2>3 DEF Conversation
  <2>6. Encodes(w \o u, c, x, y + 1)
    BY <1>4, <1>5, <2>5, RequestSent
  <2>7. (Encodes(httpWire[c], c, NextRequest(c), httpSent[c]))'
    <3>1. PICK z : z = y + 1
      OBVIOUS
    <3>2. Encodes(v, c, x, z)
      BY <1>6, <2>6, <3>1
    <3>3. httpWire'[c] = v /\ NextRequest(c)' = x /\ httpSent'[c] = z
      BY <1>3, <1>7, <2>4, <3>1
    <3> QED BY <3>2, <3>3 DEF Encodes
  <2>8. httpSent'[c] <= Len(Script[c]) /\ NextRequest(c)' <= httpSent'[c] + 1
    <3>1. Len(Script[c]) \in Nat
      OBVIOUS
    <3> QED BY <1>1, <1>2, <1>3, <2>1, <2>3, <2>4, <3>1 DEF Conversation
  <2> QED BY <1>1, <2>1, <2>2, <2>7, <2>8 DEF Conversation, Answer
<1> QED BY <1>8, <1>9, <1>10, <1>11 DEF HttpInv

\* Every step of the run keeps the invariant.
LEMMA HttpNext == HttpInv /\ [MCNext]_allVars => HttpInv'
<1> SUFFICES ASSUME HttpInv, [MCNext]_allVars PROVE HttpInv'
  OBVIOUS
<1>1. CASE Http!Next
  <2>1. CASE Http!Accept
    BY <2>1, AcceptStep
  <2>2. CASE Http!AcceptFails \/ Http!PoolEnds
    BY <2>2, AcceptFailsStep, PoolEndsStep
  <2>3. ASSUME NEW t \in Threads, Http!handle_client(t) PROVE HttpInv'
    BY <2>3, TakeStep, ReadStep, ReadThrowsStep, ReadEndStep, WriteStep, WriteFailsStep
       DEF Http!handle_client
  <2>4. ASSUME NEW c \in Clients, Http!Connect(c) \/ Http!Send(c) \/ Http!Close(c)
        PROVE  HttpInv'
    BY <2>4, ConnectStep, SendStep, CloseStep
  <2> QED BY <1>1, <2>1, <2>2, <2>3, <2>4 DEF Http!Next
<1>2. CASE UNCHANGED httpVars
  <2>1. UNCHANGED <<accepting, httpBacklog, queue, serving, httpPc, httpResponse, httpWire,
                    httpSent, httpOpen, dropped, replies, misread>>
    BY <1>2 DEF httpVars
  <2>2. HttpTypes'
    BY <2>1 DEF HttpInv, HttpTypes
  <2>3. OnePlace'
    BY <2>1 DEF HttpInv, OnePlace, Once, InPool, Http!Elements
  <2>4. ASSUME NEW c \in Clients, ~misread'[c] PROVE Conversation(c)'
    <3>1. Writing(c)' = Writing(c)
      BY <2>1 DEF Writing
    <3>2. Conversation(c)
      BY <2>1, <2>4 DEF HttpInv
    <3> QED BY <2>1, <3>1, <3>2, SameTalk
  <2> QED BY <2>2, <2>3, <2>4 DEF HttpInv
<1> QED BY <1>1, <1>2 DEF MCNext, ButUsers, ButEcho, ButRedis, ButStriped, servers, allVars

\* The invariant says what a client is to see.
LEMMA HttpOutcome == HttpInv => AnswersMatch
<1> USE ScriptAssumption
<1> SUFFICES ASSUME HttpInv, NEW c \in Clients, ~misread[c]
             PROVE  /\ replies[c] = SubSeq(Http!Expected(c), 1, Len(replies[c]))
                    /\ Http!AtRead(c) /\ httpWire[c] = <<>> => Len(replies[c]) = httpSent[c]
                    /\ c \in dropped /\ httpOpen[c] = "yes" /\ accepting =>
                         \/ replies[c] # <<>> /\ Script[c][Len(replies[c])].close
                         \/ Script[c][Len(replies[c]) + 1].bad
  BY DEF AnswersMatch, Http!AnswersMatch
<1>1. Conversation(c)
  BY DEF HttpInv
<1>2. PICK a \in Seq(Contents), y \in Nat : a = replies[c] /\ y = httpSent[c]
  BY DEF HttpInv, HttpTypes
<1>3. PICK k \in Nat, l \in Nat : k = Len(a) /\ l = Len(Script[c])
  OBVIOUS
<1>4. k <= y /\ y <= l
  BY <1>1, <1>2, <1>3 DEF Conversation, NextRequest
<1>5. a = SubSeq(Http!Expected(c), 1, k)
  <2>1. PICK e : e = Http!Expected(c)
    OBVIOUS
  <2>2. \A n \in 1..l : e[n] = Answer(c, n)
    BY <1>3, <2>1 DEF Http!Expected, Answer
  <2>3. \A n \in 1..k : e[n] \in Contents /\ a[n] = e[n]
    <3>1. \A n \in 1..k : a[n] = Answer(c, n) /\ a[n] \in Contents /\ n \in 1..l
      BY <1>1, <1>2, <1>3, <1>4 DEF Conversation
    <3> QED BY <2>2, <3>1
  <2>4. /\ SubSeq(e, 1, k) \in Seq(Contents) /\ Len(SubSeq(e, 1, k)) = k
        /\ \A n \in 1..k : SubSeq(e, 1, k)[n] = e[n]
    <3>1. k \in Int /\ 1 \in Int
      BY <1>3
    <3>2. \A n \in 1..k : e[n] \in Contents
      BY <2>3
    <3>3. SubSeq(e, 1, k) \in Seq(Contents)
      BY <1>3, <3>1, <3>2, SubSeqProperties
    <3>4. Len(SubSeq(e, 1, k)) = IF 1 <= k THEN k - 1 + 1 ELSE 0
      BY <1>3, <3>1, <3>2, SubSeqProperties
    <3>5. \A n \in 1..k - 1 + 1 : SubSeq(e, 1, k)[n] = e[1 + n - 1]
      BY <1>3, <3>1, <3>2, SubSeqProperties
    <3>6. k - 1 + 1 = k /\ \A n \in 1..k : 1 + n - 1 = n
      BY <1>3
    <3> QED BY <1>3, <3>3, <3>4, <3>5, <3>6
  <2>5. PICK b \in Seq(Contents) : b = SubSeq(e, 1, k)
    BY <2>4
  <2>6. Len(a) = Len(b) /\ \A n \in 1..Len(a) : a[n] = b[n]
    BY <1>3, <2>3, <2>4, <2>5
  <2>7. a = b
    BY <2>6, SeqEqual
  <2> QED BY <2>1, <2>5, <2>7
<1>6. ASSUME Http!AtRead(c), httpWire[c] = <<>> PROVE k = y
  <2>1. PICK t \in Threads : serving[t] = c /\ httpPc[t] = "read"
    BY <1>6 DEF Http!AtRead
  <2>2. Writing(c) = {} /\ c \notin dropped
    BY <2>1, OneWriter
  <2>3. Encodes(httpWire[c], c, k + 1, y)
    BY <1>1, <1>2, <1>3, <2>2 DEF Conversation, NextRequest
  <2>4. Len(httpWire[c]) = 0
    BY <1>6
  <2>5. k + 1 = y + 1
    BY <2>3, <2>4, Zenon DEF Encodes
  <2> QED BY <2>5
<1> QED BY <1>1, <1>2, <1>3, <1>5, <1>6 DEF Conversation

\* For every set of clients, their scripts and every number of threads: a client's
\* requests are answered one by one, in order, each with what its path routes to; a
\* thread that waits for more owes nothing, and a connection that its peer still
\* has is closed only after a request that says so, at a malformed one, or if
\* accept failed.  As long as each read_some of handle_client returned one request.
THEOREM AnswersInOrder == MCSpec => []AnswersMatch
<1>1. MCInit => HttpInv
  BY HttpInit DEF MCInit
<1> QED BY <1>1, HttpNext, HttpOutcome, PTL DEF MCSpec

-----------------------------------------------------------------------------
(* redis_demo                                                              *)

\* What sessions answer, and what is logged of them.
Texts == Seq(STRING) \cup {<<"OK">>, <<"Bad body format">>, <<"Unsupported method">>}
Entries == [request : Messages, answer : Texts, healthy : BOOLEAN]

RedisTypes ==
  /\ redisAt \in {"accept", "read", "act", "write", "shut", "down"}
  /\ redisBacklog \in Seq(Clients)
  /\ redisAt \in {"read", "act", "write", "shut"} => redisPeer \in Clients
  /\ request \in [Clients -> Messages \cup {Redis!NoRequest}]
  /\ redisAt = "act" => request[redisPeer].method # "none"
  /\ redisLost \in Nat /\ refused \in Nat /\ linked \in BOOLEAN
  /\ redisStore \subseteq Seq(STRING) \X Seq(STRING)
  /\ log \in Seq(Entries)

\* The session e sets key, to the value; the sessions in l that set it.
Sets(e, key) == /\ e.request.method = "POST"
                /\ Redis!Split(e.request.body) # 0
                /\ Redis!KeyIn(e.request.body) = key
Value(e) == Redis!ValueIn(e.request.body)
Setting(l, n, key) == {j \in 1..n : Sets(l[j], key)}
IsLatest(j, s) == j \in s /\ \A k \in s : k <= j

\* What Redis has, s, was posted, one value for a key.
WasPosted(l, s) ==
  /\ \A pair \in s : \E j \in Setting(l, Len(l), pair[1]) : pair[2] = Value(l[j])
  /\ \A a, b \in s : a[1] = b[1] => a = b

\* It is what was posted last.
IsUpToDate(l, s) ==
  \A j \in 1..Len(l) :
    LET key == Redis!KeyIn(l[j].request.body) IN
    IsLatest(j, Setting(l, Len(l), key)) => <<key, Value(l[j])>> \in s

\* A session's answer, if it is to a GET, and p are the sessions that set the key.
IsTrue(e, l, p) ==
  e.request.method = "GET" =>
    /\ e.answer = <<>> \/ \E j \in p : e.answer = Value(l[j])
    /\ e.healthy => /\ p = {} => e.answer = <<>>
                    /\ \A j \in p : IsLatest(j, p) => e.answer = Value(l[j])
AllTrue(l) ==
  \A n \in 1..Len(l) : IsTrue(l[n], l, Setting(l, n - 1, Redis!KeyOf(l[n].request.target)))

\* What a GET of key finds in s, and that this, v, is right if the sessions in p set it.
In(s, key) == IF {pair \in s : pair[1] = key} = {}
                THEN <<>> ELSE (CHOOSE pair \in {pair \in s : pair[1] = key} : TRUE)[2]
IsFound(l, s, p, v) ==
  /\ v \in Seq(STRING)
  /\ v = <<>> \/ \E j \in p : v = Value(l[j])
  /\ IsUpToDate(l, s) => /\ p = {} => v = <<>>
                         /\ \A j \in p : IsLatest(j, p) => v = Value(l[j])

\* All of it; and as long as Redis did as told, it has what was posted last.
RedisInv ==
  /\ RedisTypes
  /\ WasPosted(log, redisStore) /\ AllTrue(log)
  /\ redisLost = 0 /\ refused = 0 => linked /\ IsUpToDate(log, redisStore)

\* Where the first "=" is.
LEMMA SplitIs ==
  ASSUME NEW b \in Seq(STRING)
  PROVE  \/ Redis!Split(b) = 0 /\ \A n \in 1..Len(b) : b[n] # "="
         \/ /\ Redis!Split(b) \in 1..Len(b) /\ b[Redis!Split(b)] = "="
            /\ \A n \in 1..Redis!Split(b) - 1 : b[n] # "="
<1> DEFINE signs == {n \in 1..Len(b) : b[n] = "="}
<1>1. Redis!Split(b) = IF signs # {} THEN Redis!Min(signs) ELSE 0
  BY DEF Redis!Split, Redis!SelectInSeq
<1>2. CASE signs = {}
  BY <1>1, <1>2
<1>3. CASE signs # {}
  <2>1. signs \subseteq Nat
    OBVIOUS
  <2>2. \E m \in signs : \A n \in signs : m <= n
    <3> HIDE DEF signs
    <3> QED BY <1>3, <2>1, LeastOfNat
  <2>3. PICK s : s \in signs /\ s = Redis!Split(b) /\ \A n \in signs : s <= n
    <3> HIDE DEF signs
    <3>1. Redis!Min(signs) \in signs /\ \A n \in signs : Redis!Min(signs) <= n
      BY <2>2, Zenon DEF Redis!Min
    <3> QED BY <1>1, <1>3, <3>1
  <2>4. s \in 1..Len(b) /\ b[s] = "="
    BY <2>3
  <2>5. ASSUME NEW n \in 1..s - 1 PROVE b[n] # "="
    <3>1. n \in 1..Len(b) /\ ~(s <= n)
      BY <2>4
    <3> QED BY <2>3, <3>1
  <2> QED BY <2>3, <2>4, <2>5
<1> QED BY <1>2, <1>3

\* The key and the value.
LEMMA SplitTypes ==
  ASSUME NEW b \in Seq(STRING), Redis!Split(b) # 0
  PROVE  Redis!KeyIn(b) \in Seq(STRING) /\ Redis!ValueIn(b) \in Seq(STRING)
<1>1. PICK l \in Nat, s \in Nat : l = Len(b) /\ s = Redis!Split(b) /\ s \in 1..l
  BY SplitIs
<1>2. \A n \in 1..l : b[n] \in STRING
  BY <1>1
<1>3. PICK x \in Nat, y \in Nat : x = s - 1 /\ y = s + 1 /\ x <= l /\ y <= l + 1
  BY <1>1
<1>4. (\A n \in 1..x : n \in 1..l) /\ (\A n \in y..l : n \in 1..l)
  BY <1>3
<1>5. (\A n \in 1..x : b[n] \in STRING) /\ (\A n \in y..l : b[n] \in STRING)
  BY <1>2, <1>4, Zenon
<1>6. SubSeq(b, 1, x) \in Seq(STRING) /\ SubSeq(b, y, l) \in Seq(STRING)
  BY <1>5, SubSeqProperties
<1> QED BY <1>1, <1>3, <1>6 DEF Redis!KeyIn, Redis!ValueIn

\* The body b is key, "=", v.
Cut(b, key, v) ==
  /\ Len(b) = Len(key) + 1 + Len(v) /\ b[Len(key) + 1] = "="
  /\ \A n \in 1..Len(key) : b[n] = key[n]
  /\ \A n \in 1..Len(v) : b[Len(key) + 1 + n] = v[n]

\* The split finds the key and the value.
LEMMA SplitCuts ==
  ASSUME NEW b \in Seq(STRING), NEW key \in Seq(STRING), NEW v \in Seq(STRING),
         \A n \in 1..Len(key) : key[n] # "="
  PROVE  Cut(b, key, v) <=>
           Redis!Split(b) # 0 /\ Redis!KeyIn(b) = key /\ Redis!ValueIn(b) = v
<1>1. PICK l \in Nat, k \in Nat, m \in Nat : l = Len(b) /\ k = Len(key) /\ m = Len(v)
  OBVIOUS
<1>2. \A n \in 1..l : b[n] \in STRING
  BY <1>1
<1>3. PICK s : s = Redis!Split(b)
  OBVIOUS
<1>4. \/ s = 0 /\ \A n \in 1..l : b[n] # "="
      \/ s \in 1..l /\ b[s] = "=" /\ \A n \in 1..s - 1 : b[n] # "="
  BY <1>1, <1>3, SplitIs
<1>5. ASSUME s \in 1..l
      PROVE  /\ SubSeq(b, 1, s - 1) \in Seq(STRING) /\ Len(SubSeq(b, 1, s - 1)) = s - 1
             /\ \A n \in 1..s - 1 : SubSeq(b, 1, s - 1)[n] = b[n]
             /\ SubSeq(b, s + 1, l) \in Seq(STRING) /\ Len(SubSeq(b, s + 1, l)) = l - s
             /\ \A n \in 1..l - s : SubSeq(b, s + 1, l)[n] = b[s + n]
  <2>1. PICK x \in Nat, y \in Nat : x = s - 1 /\ y = s + 1 /\ x <= l /\ y <= l + 1
    BY <1>5
  <2>2. (\A n \in 1..x : b[n] \in STRING) /\ (\A n \in y..l : b[n] \in STRING)
    <3>1. (\A n \in 1..x : n \in 1..l) /\ (\A n \in y..l : n \in 1..l)
      BY <1>5, <2>1
    <3> QED BY <1>2, <3>1, Zenon
  <2>3. /\ SubSeq(b, 1, x) \in Seq(STRING)
        /\ Len(SubSeq(b, 1, x)) = IF 1 <= x THEN x - 1 + 1 ELSE 0
        /\ \A n \in 1..x - 1 + 1 : SubSeq(b, 1, x)[n] = b[1 + n - 1]
    BY <2>2, SubSeqProperties
  <2>4. /\ SubSeq(b, y, l) \in Seq(STRING)
        /\ Len(SubSeq(b, y, l)) = IF y <= l THEN l - y + 1 ELSE 0
        /\ \A n \in 1..l - y + 1 : SubSeq(b, y, l)[n] = b[y + n - 1]
    BY <2>2, SubSeqProperties
  <2>5. x - 1 + 1 = x /\ l - y + 1 = l - s /\ \A n \in Nat : 1 + n - 1 = n /\ y + n - 1 = s + n
    BY <1>5, <2>1
  <2> QED BY <1>5, <2>1, <2>3, <2>4, <2>5
<1>6. ASSUME Cut(b, key, v)
      PROVE  Redis!Split(b) # 0 /\ Redis!KeyIn(b) = key /\ Redis!ValueIn(b) = v
  <2>1. /\ l = k + 1 + m /\ b[k + 1] = "="
        /\ \A n \in 1..k : b[n] = key[n] /\ b[n] # "="
        /\ \A n \in 1..m : b[k + 1 + n] = v[n]
    BY <1>1, <1>6 DEF Cut
  <2>2. k + 1 \in 1..l
    BY <2>1
  <2>3. s \in 1..l /\ s = k + 1
    <3>1. s \in 1..l /\ ~(k + 1 < s) /\ ~(s < k + 1)
      BY <1>4, <2>1, <2>2
    <3> QED BY <3>1
  <2>4. PICK u \in Seq(STRING) : u = SubSeq(b, 1, s - 1)
    BY <1>5, <2>3
  <2>5. PICK w \in Seq(STRING) : w = SubSeq(b, s + 1, l)
    BY <1>5, <2>3
  <2>6. Len(u) = k /\ \A n \in 1..k : u[n] = key[n]
    BY <1>5, <2>1, <2>3, <2>4
  <2>7. Len(w) = m /\ \A n \in 1..m : w[n] = v[n]
    <3>1. l - s = m /\ \A n \in 1..m : s + n = k + 1 + n
      BY <2>1, <2>3
    <3> QED BY <1>5, <2>1, <2>3, <2>5, <3>1
  <2>8. u = key
    BY <1>1, <2>6, SeqEqual
  <2>9. w = v
    BY <1>1, <2>7, SeqEqual
  <2>10. Redis!KeyIn(b) = SubSeq(b, 1, s - 1) /\ Redis!ValueIn(b) = SubSeq(b, s + 1, l)
    BY <1>1, <1>3 DEF Redis!KeyIn, Redis!ValueIn
  <2>11. Redis!Split(b) # 0
    BY <1>3, <2>3
  <2> QED BY <2>4, <2>5, <2>8, <2>9, <2>10, <2>11, Zenon
<1>7. ASSUME Redis!Split(b) # 0, Redis!KeyIn(b) = key, Redis!ValueIn(b) = v
      PROVE  Cut(b, key, v)
  <2>1. s \in 1..l /\ b[s] = "="
    BY <1>3, <1>4, <1>7
  <2>2. key = SubSeq(b, 1, s - 1) /\ v = SubSeq(b, s + 1, l)
    BY <1>1, <1>3, <1>7 DEF Redis!KeyIn, Redis!ValueIn
  <2>3. /\ k = s - 1 /\ \A n \in 1..k : key[n] = b[n]
        /\ m = l - s /\ \A n \in 1..m : v[n] = b[s + n]
    BY <1>1, <1>5, <2>1, <2>2
  <2>4. s = k + 1 /\ l = k + 1 + m
    BY <2>1, <2>3
  <2> QED BY <1>1, <2>1, <2>3, <2>4 DEF Cut
<1> QED BY <1>6, <1>7

\* A target that begins with a slash, "=" and v, and a slash and the body.
LEMMA TargetCuts ==
  ASSUME NEW b \in Seq(STRING), NEW v \in Seq(STRING), NEW S, STRING \subseteq S,
         NEW target \in Seq(S), target # <<>>, Head(target) = "/",
         Tail(target) \in Seq(STRING)
  PROVE  /\ target \o <<"=">> \o v = <<"/">> \o b <=> Cut(b, Tail(target), v)
         /\ ~Redis!Contains(target, "=") => \A n \in 1..Len(Tail(target)) : Tail(target)[n] # "="
<1>1. PICK n \in Nat, l \in Nat, m \in Nat : n = Len(target) /\ l = Len(b) /\ m = Len(v)
  OBVIOUS
<1>2. PICK key \in Seq(STRING) : key = Tail(target)
  OBVIOUS
<1>3. PICK k \in Nat : n = k + 1
  <2>1. n # 0
    BY <1>1
  <2>2. n - 1 \in Nat /\ n = (n - 1) + 1
    BY <2>1
  <2> QED BY <2>2
<1>4. Len(key) = k /\ (\A j \in 1..k : key[j] = target[j + 1]) /\ target[1] = "/"
  <2>1. /\ Len(Tail(target)) = Len(target) - 1
        /\ \A j \in 1..Len(Tail(target)) : Tail(target)[j] = target[j + 1]
    BY HeadTailProperties, Zenon
  <2>2. Len(key) = Len(target) - 1 /\ \A j \in 1..Len(key) : key[j] = target[j + 1]
    BY <1>2, <2>1, Zenon
  <2>3. Len(target) - 1 = k
    BY <1>1, <1>3
  <2>4. Len(key) = k
    BY <2>2, <2>3, Zenon
  <2>5. target[1] = "/"
    OBVIOUS
  <2> QED BY <2>2, <2>4, <2>5, Zenon
<1>5. PICK T : S \subseteq T /\ STRING \subseteq T /\ "=" \in T /\ "/" \in T
  <2>1. S \subseteq S \cup {"=", "/"} /\ STRING \subseteq S \cup {"=", "/"}
    OBVIOUS
  <2>2. "=" \in S \cup {"=", "/"} /\ "/" \in S \cup {"=", "/"}
    OBVIOUS
  <2> QED BY <2>1, <2>2, Zenon
<1>6. target \in Seq(T) /\ b \in Seq(T) /\ v \in Seq(T)
  BY <1>5, SeqMonotonic, Zenon
<1>7. PICK x \in Seq(T) :
        /\ x = target \o <<"=">> \o v /\ Len(x) = k + 2 + m
        /\ \A j \in 1..k + 1 : x[j] = target[j]
        /\ x[k + 2] = "=" /\ \A j \in 1..m : x[k + 2 + j] = v[j]
  <2>0. PICK e \in Seq(T) : e = <<"=">> /\ Len(e) = 1 /\ e[1] = "="
    <3>1. <<"=">> \in Seq(T) /\ Len(<<"=">>) = 1 /\ <<"=">>[1] = "="
      BY <1>5
    <3> QED BY <3>1, Zenon
  <2>1. PICK u \in Seq(T) : u = target \o e
    BY <1>6, ConcatProperties, Zenon
  <2>2. Len(u) = k + 2 /\ u[k + 2] = "=" /\ \A j \in 1..k + 1 : u[j] = target[j]
    <3>1. /\ Len(u) = Len(target) + Len(e)
          /\ \A j \in 1..Len(target) + Len(e) :
               u[j] = IF j <= Len(target) THEN target[j] ELSE e[j - Len(target)]
      BY <1>6, <2>1, ConcatProperties, Zenon
    <3>2. /\ Len(target) + Len(e) = k + 2 /\ ~(k + 2 <= Len(target))
          /\ (k + 2) - Len(target) = 1 /\ k + 2 \in 1..k + 2
      BY <1>1, <1>3, <2>0
    <3>3. \A j \in 1..k + 1 : j \in 1..k + 2 /\ j <= Len(target)
      BY <1>1, <1>3
    <3> QED BY <2>0, <3>1, <3>2, <3>3
  <2>3. PICK x \in Seq(T) : x = u \o v
    BY <1>6, ConcatProperties, Zenon
  <2>4. /\ Len(x) = k + 2 + m /\ \A j \in 1..k + 2 : x[j] = u[j]
        /\ \A j \in 1..m : x[k + 2 + j] = v[j]
    <3>1. /\ Len(x) = Len(u) + Len(v)
          /\ \A j \in 1..Len(u) + Len(v) :
               x[j] = IF j <= Len(u) THEN u[j] ELSE v[j - Len(u)]
      BY <1>6, <2>3, ConcatProperties, Zenon
    <3>2. /\ Len(u) = k + 2 /\ Len(v) = m
          /\ \A j \in 1..k + 2 : j \in 1..k + 2 + m /\ j <= k + 2
      BY <1>1, <2>2
    <3>3. ASSUME NEW j \in 1..m PROVE x[k + 2 + j] = v[j]
      <4>1. /\ k + 2 + j \in 1..k + 2 + m /\ ~(k + 2 + j <= k + 2)
            /\ (k + 2 + j) - (k + 2) = j
        OBVIOUS
      <4> QED BY <3>1, <3>2, <4>1
    <3> QED BY <3>1, <3>2, <3>3
  <2>5. k + 2 \in 1..k + 2 /\ \A j \in 1..k + 1 : j \in 1..k + 2
    OBVIOUS
  <2>6. x = target \o <<"=">> \o v
    BY <2>0, <2>1, <2>3, Zenon
  <2> QED BY <2>2, <2>4, <2>5, <2>6
<1>8. PICK y \in Seq(T) :
        /\ y = <<"/">> \o b /\ Len(y) = l + 1 /\ y[1] = "/"
        /\ \A j \in 1..l : y[j + 1] = b[j]
  <2>1. PICK u \in Seq(T) : u = <<"/">> /\ Len(u) = 1 /\ u[1] = "/"
    <3>1. <<"/">> \in Seq(T) /\ Len(<<"/">>) = 1 /\ <<"/">>[1] = "/"
      BY <1>5
    <3> QED BY <3>1, Zenon
  <2>2. PICK y \in Seq(T) : y = u \o b
    BY <1>6, ConcatProperties, Zenon
  <2>3. Len(y) = l + 1 /\ y[1] = "/" /\ \A j \in 1..l : y[j + 1] = b[j]
    BY <1>1, <1>6, <2>1, <2>2
  <2> QED BY <2>1, <2>2, <2>3
<1>9. ASSUME x = y PROVE Cut(b, key, v)
  <2>1. l = k + 1 + m /\ k + 1 \in 1..l
    BY <1>7, <1>8, <1>9
  <2>2. b[k + 1] = "="
    <3>1. y[(k + 1) + 1] = b[k + 1] /\ (k + 1) + 1 = k + 2
      BY <1>8, <2>1
    <3> QED BY <1>7, <1>9, <3>1
  <2>3. ASSUME NEW j \in 1..k PROVE b[j] = key[j]
    <3>1. j + 1 \in 1..k + 1 /\ j \in 1..l
      BY <2>1
    <3>2. y[j + 1] = b[j] /\ x[j + 1] = target[j + 1] /\ key[j] = target[j + 1]
      BY <1>4, <1>7, <1>8, <3>1, Zenon
    <3> QED BY <1>9, <3>2
  <2>4. ASSUME NEW j \in 1..m PROVE b[k + 1 + j] = v[j]
    <3>1. k + 1 + j \in 1..l /\ (k + 1 + j) + 1 = k + 2 + j
      BY <2>1
    <3>2. y[(k + 1 + j) + 1] = b[k + 1 + j] /\ x[k + 2 + j] = v[j]
      BY <1>7, <1>8, <3>1, Zenon
    <3> QED BY <1>9, <3>1, <3>2
  <2> QED BY <1>1, <1>4, <2>1, <2>2, <2>3, <2>4 DEF Cut
<1>10. ASSUME Cut(b, key, v) PROVE x = y
  <2>1. /\ l = k + 1 + m /\ b[k + 1] = "="
        /\ \A j \in 1..k : b[j] = key[j]
        /\ \A j \in 1..m : b[k + 1 + j] = v[j]
    BY <1>1, <1>4, <1>10 DEF Cut
  <2>2. ASSUME NEW j \in 1..Len(x) PROVE x[j] = y[j]
    <3>1. CASE j = 1
      <4>1. 1 \in 1..k + 1
        OBVIOUS
      <4> QED BY <1>4, <1>7, <1>8, <3>1, <4>1
    <3>2. CASE j # 1 /\ j <= k + 1
      <4>1. PICK q \in 1..k : j = q + 1
        <5>1. j - 1 \in 1..k /\ j = (j - 1) + 1
          BY <1>7, <3>2
        <5> QED BY <5>1, Zenon
      <4>2. q + 1 \in 1..k + 1 /\ q \in 1..l
        BY <2>1
      <4>3. /\ x[q + 1] = target[q + 1] /\ key[q] = target[q + 1] /\ y[q + 1] = b[q]
            /\ b[q] = key[q]
        BY <1>4, <1>7, <1>8, <2>1, <4>2, Zenon
      <4> QED BY <4>1, <4>3
    <3>3. CASE j = k + 2
      <4>1. k + 1 \in 1..l /\ (k + 1) + 1 = k + 2
        BY <2>1
      <4>2. y[(k + 1) + 1] = b[k + 1]
        BY <1>8, <4>1
      <4> QED BY <1>7, <2>1, <3>3, <4>1, <4>2
    <3>4. CASE j > k + 2
      <4>1. PICK q \in 1..m : j = k + 2 + q
        <5>1. j - (k + 2) \in 1..m /\ j = k + 2 + (j - (k + 2))
          BY <1>7, <3>4
        <5> QED BY <5>1, Zenon
      <4>2. k + 1 + q \in 1..l /\ (k + 1 + q) + 1 = k + 2 + q
        BY <2>1
      <4>3. x[k + 2 + q] = v[q] /\ y[(k + 1 + q) + 1] = b[k + 1 + q] /\ b[k + 1 + q] = v[q]
        BY <1>7, <1>8, <2>1, <4>2, Zenon
      <4> QED BY <4>1, <4>2, <4>3
    <3> QED BY <1>7, <3>1, <3>2, <3>3, <3>4
  <2>3. Len(x) = Len(y)
    BY <1>7, <1>8, <2>1
  <2> QED BY <2>2, <2>3, SeqEqual
<1>11. ASSUME ~Redis!Contains(target, "="), NEW j \in 1..k PROVE key[j] # "="
  <2>1. j + 1 \in 1..n /\ key[j] = target[j + 1]
    BY <1>3, <1>4
  <2> QED BY <1>1, <1>11, <2>1 DEF Redis!Contains
<1>12. target \o <<"=">> \o v = x /\ <<"/">> \o b = y
  BY <1>7, <1>8
<1> QED BY <1>2, <1>4, <1>9, <1>10, <1>11, <1>12

\* Nothing is posted at first.
LEMMA RedisInit == Redis!Init => RedisInv
<1> SUFFICES ASSUME Redis!Init PROVE RedisInv
  OBVIOUS
<1>1. /\ redisAt = "accept" /\ redisBacklog = <<>> /\ linked = TRUE /\ log = <<>>
      /\ request = [p \in Clients |-> Redis!NoRequest]
      /\ redisStore = {} /\ redisLost = 0 /\ refused = 0
  BY DEF Redis!Init
<1>2. request \in [Clients -> Messages \cup {Redis!NoRequest}]
  BY <1>1
<1>3. redisBacklog \in Seq(Clients) /\ log \in Seq(Entries) /\ 1..Len(log) = {}
  BY <1>1
<1> QED BY <1>1, <1>2, <1>3 DEF RedisInv, RedisTypes, WasPosted, IsUpToDate, AllTrue

\* A session is logged: the earlier ones stay.
IsLogged(l, m, e, g) ==
  /\ g \in Seq(Entries) /\ Len(g) = m + 1 /\ g[m + 1] = e
  /\ \A j \in 1..m : g[j] = l[j]
  /\ \A n \in 0..m : \A key : Setting(g, n, key) = Setting(l, n, key)
  /\ \A key : Setting(g, m + 1, key) =
                Setting(l, m, key) \cup (IF Sets(e, key) THEN {m + 1} ELSE {})

\* A log that is longer by one entry is one in which that entry is logged.
LEMMA Logged ==
  ASSUME NEW l \in Seq(Entries), NEW m \in Nat, m = Len(l), NEW e \in Entries,
         NEW g, g = Append(l, e)
  PROVE  IsLogged(l, m, e, g)
<1>1. /\ g \in Seq(Entries) /\ Len(g) = m + 1 /\ g[m + 1] = e
      /\ \A j \in 1..m : g[j] = l[j]
  OBVIOUS
<1>2. 1..m + 1 = (1..m) \cup {m + 1} /\ m + 1 \notin 1..m
  OBVIOUS
<1>3. ASSUME NEW key
      PROVE  Setting(g, m + 1, key) =
               Setting(l, m, key) \cup (IF Sets(e, key) THEN {m + 1} ELSE {})
  BY <1>1, <1>2 DEF Setting
<1>4. ASSUME NEW n \in 0..m, NEW key PROVE Setting(g, n, key) = Setting(l, n, key)
  <2>1. \A j \in 1..n : j \in 1..m
    OBVIOUS
  <2> QED BY <1>1, <2>1 DEF Setting
<1> QED BY <1>1, <1>3, <1>4 DEF IsLogged

\* The earlier answers stay true: what set their keys before them is the same.
LEMMA AllTrueStays ==
  ASSUME NEW l \in Seq(Entries), NEW m \in Nat, m = Len(l), AllTrue(l), NEW e \in Entries,
         NEW g, g = Append(l, e), IsTrue(e, l, Setting(l, m, Redis!KeyOf(e.request.target)))
  PROVE  AllTrue(g)
<1>1. /\ Len(g) = m + 1 /\ g[m + 1] = e
      /\ \A j \in 1..m : g[j] = l[j]
      /\ \A n \in 0..m : \A key : Setting(g, n, key) = Setting(l, n, key)
  <2>1. IsLogged(l, m, e, g)
    BY Logged, Zenon
  <2> QED BY <2>1 DEF IsLogged
<1>2. ASSUME NEW n \in 0..m, NEW k, NEW d, IsTrue(d, l, Setting(l, n, k))
      PROVE  IsTrue(d, g, Setting(g, n, k))
  <2>1. PICK p : p = Setting(l, n, k)
    OBVIOUS
  <2>2. Setting(g, n, k) = p /\ \A j \in p : g[j] = l[j]
    BY <1>1, <2>1 DEF Setting
  <2> QED BY <1>2, <2>1, <2>2 DEF IsTrue
<1>3. ASSUME NEW n \in 1..m
      PROVE  IsTrue(g[n], g, Setting(g, n - 1, Redis!KeyOf(g[n].request.target)))
  <2>1. n - 1 \in 0..m /\ g[n] = l[n]
    BY <1>1
  <2>2. IsTrue(l[n], l, Setting(l, n - 1, Redis!KeyOf(l[n].request.target)))
    BY DEF AllTrue
  <2> QED BY <1>2, <2>1, <2>2
<1>4. IsTrue(g[m + 1], g, Setting(g, (m + 1) - 1, Redis!KeyOf(g[m + 1].request.target)))
  <2>1. (m + 1) - 1 = m /\ m \in 0..m
    OBVIOUS
  <2> QED BY <1>1, <1>2, <2>1
<1>5. 1..m + 1 = (1..m) \cup {m + 1}
  OBVIOUS
<1> QED BY <1>1, <1>3, <1>4, <1>5 DEF AllTrue

\* A session that sets nothing leaves what was posted.
LEMMA PostsNothing ==
  ASSUME NEW l \in Seq(Entries), NEW s, WasPosted(l, s), NEW e \in Entries,
         NEW g, g = Append(l, e), \A key : ~Sets(e, key)
  PROVE  WasPosted(g, s) /\ (IsUpToDate(l, s) => IsUpToDate(g, s))
<1>1. PICK m \in Nat : m = Len(l)
  OBVIOUS
<1>2. /\ Len(g) = m + 1 /\ \A j \in 1..m : g[j] = l[j]
      /\ \A key : Setting(g, m + 1, key) = Setting(l, m, key)
  <2>1. IsLogged(l, m, e, g)
    BY <1>1, Logged, Zenon
  <2> QED BY <2>1 DEF IsLogged
<1>3. \A key : \A j \in Setting(l, m, key) : j \in 1..m /\ g[j] = l[j]
  BY <1>2 DEF Setting
<1>4. WasPosted(g, s)
  BY <1>1, <1>2, <1>3 DEF WasPosted
<1>5. ASSUME IsUpToDate(l, s), NEW j \in 1..m + 1, NEW k, k = Redis!KeyIn(g[j].request.body),
             IsLatest(j, Setting(g, m + 1, k))
      PROVE  <<k, Value(g[j])>> \in s
  <2>1. j \in 1..m /\ g[j] = l[j]
    BY <1>2, <1>3, <1>5 DEF IsLatest
  <2> QED BY <1>1, <1>2, <1>5, <2>1 DEF IsUpToDate
<1> QED BY <1>2, <1>4, <1>5 DEF IsUpToDate

\* A session that sets key to v: the store, s before, is s or new after it.
IsPosted(l, s, g, new) == /\ WasPosted(g, s) /\ WasPosted(g, new)
                          /\ IsUpToDate(l, s) => IsUpToDate(g, new)

\* The store before a session that sets a key, and the one after it.
LEMMA PostsOne ==
  ASSUME NEW l \in Seq(Entries), NEW s \in SUBSET (Seq(STRING) \X Seq(STRING)),
         WasPosted(l, s), NEW e \in Entries, NEW g, g = Append(l, e),
         NEW key \in Seq(STRING), NEW v \in Seq(STRING), Sets(e, key), Value(e) = v,
         NEW new, new = {pair \in s : pair[1] # key} \cup {<<key, v>>}
  PROVE  IsPosted(l, s, g, new)
<1>1. PICK m \in Nat : m = Len(l)
  OBVIOUS
<1>2. /\ Len(g) = m + 1 /\ g[m + 1] = e /\ \A j \in 1..m : g[j] = l[j]
      /\ \A k : Setting(g, m + 1, k) = Setting(l, m, k) \cup (IF k = key THEN {m + 1} ELSE {})
  <2>1. \A k : Sets(e, k) <=> k = key
    BY DEF Sets
  <2>2. IsLogged(l, m, e, g)
    BY <1>1, Logged, Zenon
  <2> QED BY <2>1, <2>2 DEF IsLogged
<1>3. \A k : \A j \in Setting(l, m, k) : j \in 1..m /\ g[j] = l[j] /\ Sets(l[j], k)
  BY <1>2 DEF Setting
<1>4. PICK w : w = <<key, v>> /\ w[1] = key /\ w[2] = v
  <2>1. <<key, v>>[1] = key /\ <<key, v>>[2] = v
    OBVIOUS
  <2> QED BY <2>1, Zenon
<1>5. \A pair \in s : \E j \in Setting(g, m + 1, pair[1]) : pair[2] = Value(g[j])
  <2> SUFFICES ASSUME NEW pair \in s
               PROVE  \E j \in Setting(g, m + 1, pair[1]) : pair[2] = Value(g[j])
    OBVIOUS
  <2>1. PICK j \in Setting(l, m, pair[1]) : pair[2] = Value(l[j])
    BY <1>1 DEF WasPosted
  <2> QED BY <1>2, <1>3, <2>1
<1>6. \A a, b \in s : a[1] = b[1] => a = b
  BY DEF WasPosted
<1>7. WasPosted(g, s)
  BY <1>2, <1>5, <1>6 DEF WasPosted
<1>8. WasPosted(g, new)
  <2>1. \E j \in Setting(g, m + 1, w[1]) : w[2] = Value(g[j])
    BY <1>2, <1>4
  <2>2. \A pair \in new : pair = w \/ (pair \in s /\ pair[1] # key)
    BY <1>4
  <2>3. \A pair \in new : \E j \in Setting(g, m + 1, pair[1]) : pair[2] = Value(g[j])
    BY <1>5, <2>1, <2>2
  <2>4. \A a, b \in new : a[1] = b[1] => a = b
    BY <1>4, <1>6, <2>2
  <2> QED BY <1>2, <2>3, <2>4 DEF WasPosted
<1>9. ASSUME IsUpToDate(l, s), NEW j \in 1..m + 1, NEW k, k = Redis!KeyIn(g[j].request.body),
             IsLatest(j, Setting(g, m + 1, k))
      PROVE  <<k, Value(g[j])>> \in new
  <2>1. CASE k = key
    <3>1. m + 1 \in Setting(g, m + 1, k)
      BY <1>2, <2>1
    <3>2. m + 1 <= j
      BY <1>9, <3>1 DEF IsLatest
    <3>3. j = m + 1
      BY <3>2
    <3> QED BY <1>2, <2>1, <3>3
  <2>2. CASE k # key
    <3>1. j \in Setting(l, m, k) /\ IsLatest(j, Setting(l, m, k))
      BY <1>2, <1>9, <2>2 DEF IsLatest
    <3>2. j \in 1..m /\ g[j] = l[j]
      BY <1>3, <3>1
    <3>3. <<k, Value(l[j])>> \in s
      BY <1>1, <1>9, <3>1, <3>2 DEF IsUpToDate
    <3>4. <<k, Value(l[j])>>[1] = k
      OBVIOUS
    <3> QED BY <2>2, <3>2, <3>3, <3>4
  <2> QED BY <2>1, <2>2
<1>10. IsUpToDate(l, s) => IsUpToDate(g, new)
  BY <1>2, <1>9 DEF IsUpToDate
<1> QED BY <1>7, <1>8, <1>10 DEF IsPosted

\* What a GET finds is what was posted, last if the store is up to date.
LEMMA FindsPosted ==
  ASSUME NEW l \in Seq(Entries), NEW m \in Nat, m = Len(l),
         NEW s \in SUBSET (Seq(STRING) \X Seq(STRING)), WasPosted(l, s), NEW key, NEW p,
         p = Setting(l, m, key), NEW v, v = In(s, key)
  PROVE  IsFound(l, s, p, v)
<1>1. ASSUME IsUpToDate(l, s), NEW j \in p, IsLatest(j, p) PROVE <<key, Value(l[j])>> \in s
  <2>1. j \in 1..m /\ Sets(l[j], key)
    BY DEF Setting
  <2>2. Redis!KeyIn(l[j].request.body) = key
    BY <2>1 DEF Sets
  <2> QED BY <1>1, <2>1, <2>2 DEF IsUpToDate
<1>2. CASE \A pair \in s : pair[1] # key
  <2>1. v = <<>>
    BY <1>2 DEF In
  <2>2. IsUpToDate(l, s) => \A j \in p : ~IsLatest(j, p)
    <3>1. ASSUME NEW x PROVE <<key, x>>[1] = key
      OBVIOUS
    <3> QED BY <1>1, <1>2, <3>1
  <2>3. <<>> \in Seq(STRING)
    OBVIOUS
  <2> QED BY <2>1, <2>2, <2>3 DEF IsFound
<1>3. CASE \E pair \in s : pair[1] = key
  <2>1. PICK pair \in s : pair[1] = key /\ v = pair[2]
    BY <1>3 DEF In
  <2>2. PICK j \in p : v = Value(l[j])
    BY <2>1 DEF WasPosted
  <2>3. ASSUME IsUpToDate(l, s), NEW k \in p, IsLatest(k, p) PROVE v = Value(l[k])
    <3>1. <<key, Value(l[k])>> \in s
      BY <1>1, <2>3
    <3>2. <<key, Value(l[k])>>[1] = key /\ <<key, Value(l[k])>>[2] = Value(l[k])
      OBVIOUS
    <3>3. <<key, Value(l[k])>> = pair
      BY <2>1, <3>1, <3>2, Zenon DEF WasPosted
    <3> QED BY <2>1, <3>2, <3>3
  <2>4. v \in Seq(STRING)
    BY <2>1
  <2> QED BY <2>2, <2>3, <2>4 DEF IsFound
<1> QED BY <1>2, <1>3

\* A request is acted upon and answered.
LEMMA RedisActs ==
  ASSUME RedisInv, Redis!do_action
  PROVE  RedisInv'
<1>1. PICK r : r = request[redisPeer]
  OBVIOUS
<1>2. redisAt = "act" /\ redisAt' = "write" /\ UNCHANGED <<redisPeer, request, redisBacklog>>
  BY DEF Redis!do_action
<1>3. PICK l \in Seq(Entries), s \in SUBSET (Seq(STRING) \X Seq(STRING)) :
        /\ l = log /\ s = redisStore /\ WasPosted(l, s) /\ AllTrue(l)
        /\ redisLost = 0 /\ refused = 0 => linked /\ IsUpToDate(l, s)
  BY DEF RedisInv, RedisTypes
<1>4. redisLost \in Nat /\ refused \in Nat /\ linked \in BOOLEAN /\ redisPeer \in Clients
  BY <1>2 DEF RedisInv, RedisTypes
<1>5. PICK m \in Nat : m = Len(l)
  OBVIOUS
<1>6. r.method # "none" => r \in Messages
  BY <1>1, <1>4 DEF RedisInv, RedisTypes, Redis!NoRequest
<1>7. ASSUME NEW e \in Entries, NEW g \in Seq(Entries), log' = g, WasPosted(g, redisStore'),
             AllTrue(g), redisLost' \in Nat, refused' \in Nat, linked' \in BOOLEAN,
             redisStore' \subseteq Seq(STRING) \X Seq(STRING),
             redisLost' = 0 /\ refused' = 0 => linked' /\ IsUpToDate(g, redisStore')
      PROVE  RedisInv'
  <2>1. RedisTypes'
    <3>1. (/\ redisAt \in {"accept", "read", "act", "write", "shut", "down"}
           /\ redisAt = "act" => request[redisPeer].method # "none"
           /\ redisBacklog \in Seq(Clients))'
      BY <1>2, <1>7 DEF RedisInv, RedisTypes
    <3>2. (/\ redisAt \in {"read", "act", "write", "shut"} => redisPeer \in Clients
           /\ request \in [Clients -> Messages \cup {Redis!NoRequest}])'
      BY <1>2, <1>4, <1>7 DEF RedisInv, RedisTypes
    <3> QED BY <1>7, <3>1, <3>2 DEF RedisTypes
  <2>2. (WasPosted(log, redisStore) /\ AllTrue(log))'
    BY <1>7
  <2>3. (IsUpToDate(log, redisStore))' <=> IsUpToDate(g, redisStore')
    BY <1>7
  <2> QED BY <1>7, <2>1, <2>2, <2>3 DEF RedisInv
<1>8. CASE r.method = "GET" /\ \E value \in {Redis!Found(Redis!KeyOf(r.target)), <<>>} :
             Redis!Get(Redis!KeyOf(r.target), value) /\ Redis!Answers(200, value)
  <2>1. PICK key, value : key = Redis!KeyOf(r.target) /\ Redis!Get(key, value)
                          /\ Redis!Answers(200, value)
    BY <1>8
  <2>2. PICK p, v : p = Setting(l, m, key) /\ v = Redis!Found(key) /\ IsFound(l, s, p, v)
    <3>1. PICK p : p = Setting(l, m, key)
      OBVIOUS
    <3>2. PICK v : v = Redis!Found(key)
      OBVIOUS
    <3>3. v = In(s, key)
      BY <1>3, <3>2 DEF In, Redis!Found, Redis!Stored
    <3>4. IsFound(l, s, p, v)
      BY <1>3, <1>5, <3>1, <3>3, FindsPosted, Zenon
    <3> QED BY <3>1, <3>2, <3>4
  <2>3. PICK e : e = [request |-> r, answer |-> value,
                      healthy |-> (redisLost' = 0 /\ refused' = 0)]
    OBVIOUS
  <2>4. /\ e.request = r /\ e.answer = value /\ (e.healthy <=> redisLost' = 0 /\ refused' = 0)
        /\ log' = Append(l, e)
    BY <1>1, <1>3, <2>1, <2>3 DEF Redis!Answers
  <2>5. \/ linked /\ value = v /\ UNCHANGED <<redisStore, linked, redisLost, refused>>
        \/ refused' = refused + 1 /\ value = <<>> /\ UNCHANGED <<redisStore, linked, redisLost>>
        \/ /\ redisLost' = redisLost + 1 /\ linked' = FALSE /\ value = <<>>
           /\ UNCHANGED <<redisStore, refused>>
        \/ ~linked /\ value = <<>> /\ UNCHANGED <<redisStore, linked, redisLost, refused>>
    BY <2>1, <2>2 DEF Redis!Get, Redis!LinkBreaks, Redis!redis
  <2>6. value \in Seq(STRING)
    <3>1. <<>> \in Seq(STRING)
      OBVIOUS
    <3> QED BY <2>2, <2>5, <3>1 DEF IsFound
  <2>7. r \in Messages
    BY <1>6, <1>8
  <2>8. e \in Entries
    BY <2>3, <2>6, <2>7 DEF Entries, Texts
  <2>9. IsTrue(e, l, p)
    <3>1. value = <<>> \/ \E j \in p : value = Value(l[j])
      BY <2>2, <2>5 DEF IsFound
    <3>2. e.healthy => value = v /\ IsUpToDate(l, s)
      BY <1>3, <1>4, <2>4, <2>5
    <3> QED BY <2>2, <2>4, <3>1, <3>2 DEF IsTrue, IsFound
  <2>10. \A k : ~Sets(e, k)
    BY <1>8, <2>4 DEF Sets
  <2>11. PICK g : g = Append(l, e)
    OBVIOUS
  <2>12. IsTrue(e, l, Setting(l, m, Redis!KeyOf(e.request.target)))
    BY <2>1, <2>2, <2>4, <2>9
  <2>13. AllTrue(g)
    BY <1>3, <1>5, <2>8, <2>11, <2>12, AllTrueStays
  <2>14. WasPosted(g, s) /\ (IsUpToDate(l, s) => IsUpToDate(g, s))
    BY <1>3, <2>8, <2>10, <2>11, PostsNothing
  <2>15. g \in Seq(Entries)
    BY <2>8, <2>11
  <2>16. redisStore' = s /\ redisLost' \in Nat /\ refused' \in Nat /\ linked' \in BOOLEAN
    <3>1. redisStore' = s
      BY <1>3, <2>5
    <3>2. redisLost' \in Nat
      BY <1>4, <2>5
    <3>3. refused' \in Nat
      BY <1>4, <2>5
    <3>4. linked' \in BOOLEAN
      BY <1>4, <2>5, Zenon
    <3> QED BY <3>1, <3>2, <3>3, <3>4
  <2>17. redisLost' = 0 /\ refused' = 0 => linked' /\ IsUpToDate(g, s)
    BY <1>3, <1>4, <2>5, <2>14
  <2>18. log' = g
    BY <2>4, <2>11
  <2> QED BY <1>7, <2>8, <2>13, <2>14, <2>15, <2>16, <2>17, <2>18
<1>9. CASE /\ r.method = "POST" /\ Redis!Split(r.body) # 0
           /\ Redis!Set(Redis!KeyIn(r.body), Redis!ValueIn(r.body))
           /\ Redis!Answers(200, <<"OK">>)
  <2>1. r \in Messages /\ r.body \in Seq(STRING)
    BY <1>6, <1>9 DEF Messages
  <2>2. PICK key \in Seq(STRING), v \in Seq(STRING) :
          key = Redis!KeyIn(r.body) /\ v = Redis!ValueIn(r.body)
    BY <1>9, <2>1, SplitTypes
  <2>3. PICK e : e = [request |-> r, answer |-> <<"OK">>,
                      healthy |-> (redisLost' = 0 /\ refused' = 0)]
    OBVIOUS
  <2>4. e.request = r /\ log' = Append(l, e)
    BY <1>1, <1>3, <1>9, <2>3 DEF Redis!Answers
  <2>5. PICK new : new = {pair \in s : pair[1] # key} \cup {<<key, v>>}
    OBVIOUS
  <2>6. (redisStore \ Redis!Stored(key)) \cup {<<key, v>>} = new
    BY <1>3, <2>5 DEF Redis!Stored
  <2>7. \/ linked /\ redisStore' = new /\ UNCHANGED <<linked, redisLost, refused>>
        \/ refused' = refused + 1 /\ UNCHANGED <<redisStore, linked, redisLost>>
        \/ /\ redisLost' = redisLost + 1 /\ linked' = FALSE /\ redisStore' \in {s, new}
           /\ UNCHANGED refused
        \/ ~linked /\ UNCHANGED <<redisStore, linked, redisLost, refused>>
    <3>1. Redis!Set(key, v)
      BY <1>9, <2>2
    <3> QED BY <1>3, <2>6, <3>1 DEF Redis!Set, Redis!LinkBreaks, Redis!redis
  <2>8. e \in Entries
    BY <2>1, <2>3 DEF Entries, Texts
  <2>9. Sets(e, key) /\ Value(e) = v
    BY <1>9, <2>2, <2>4 DEF Sets, Value
  <2>10. PICK g : g = Append(l, e)
    OBVIOUS
  <2>11. IsPosted(l, s, g, new)
    BY <1>3, <2>5, <2>8, <2>9, <2>10, PostsOne, Zenon
  <2>12. AllTrue(g)
    <3>1. IsTrue(e, l, Setting(l, m, Redis!KeyOf(e.request.target)))
      BY <1>9, <2>4 DEF IsTrue
    <3> QED BY <1>3, <1>5, <2>8, <2>10, <3>1, AllTrueStays
  <2>13. g \in Seq(Entries) /\ log' = g
    BY <2>4, <2>8, <2>10
  <2>14. /\ redisStore' \in {s, new} /\ WasPosted(g, redisStore')
         /\ redisStore' \subseteq Seq(STRING) \X Seq(STRING)
    <3>1. redisStore' \in {s, new}
      BY <1>3, <2>7
    <3>2. new \subseteq Seq(STRING) \X Seq(STRING)
      BY <2>5
    <3> QED BY <2>11, <3>1, <3>2 DEF IsPosted
  <2>15. redisLost' \in Nat /\ refused' \in Nat /\ linked' \in BOOLEAN
    <3>1. redisLost' \in Nat
      BY <1>4, <2>7
    <3>2. refused' \in Nat
      BY <1>4, <2>7
    <3>3. linked' \in BOOLEAN
      BY <1>4, <2>7, Zenon
    <3> QED BY <3>1, <3>2, <3>3
  <2>16. redisLost' = 0 /\ refused' = 0 => linked' /\ IsUpToDate(g, redisStore')
    <3>1. redisLost' = 0 /\ refused' = 0 =>
            linked' /\ redisStore' = new /\ redisLost = 0 /\ refused = 0
      BY <1>3, <1>4, <2>7
    <3> QED BY <1>3, <2>11, <3>1 DEF IsPosted
  <2> QED BY <1>7, <2>8, <2>12, <2>13, <2>14, <2>15, <2>16
<1>10. ASSUME NEW body \in Texts, r.method # "GET",
              r.method # "POST" \/ Redis!Split(r.body) = 0,
              UNCHANGED Redis!redis, Redis!Answers(400, body), r.method # "none"
       PROVE  RedisInv'
  <2>1. r \in Messages
    BY <1>6, <1>10
  <2>2. PICK e : e = [request |-> r, answer |-> body,
                      healthy |-> (redisLost' = 0 /\ refused' = 0)]
    OBVIOUS
  <2>3. e.request = r /\ log' = Append(l, e)
    BY <1>1, <1>3, <1>10, <2>2 DEF Redis!Answers
  <2>4. e \in Entries
    BY <2>1, <2>2 DEF Entries
  <2>5. \A k : ~Sets(e, k)
    BY <1>10, <2>3 DEF Sets
  <2>6. PICK g : g = Append(l, e)
    OBVIOUS
  <2>7. WasPosted(g, s) /\ (IsUpToDate(l, s) => IsUpToDate(g, s))
    BY <1>3, <2>4, <2>5, <2>6, PostsNothing
  <2>8. AllTrue(g)
    <3>1. IsTrue(e, l, Setting(l, m, Redis!KeyOf(e.request.target)))
      BY <1>10, <2>3 DEF IsTrue
    <3> QED BY <1>3, <1>5, <2>4, <2>6, <3>1, AllTrueStays
  <2>9. g \in Seq(Entries) /\ log' = g
    BY <2>3, <2>4, <2>6
  <2>10. UNCHANGED <<redisStore, linked, redisLost, refused>>
    BY <1>10 DEF Redis!redis
  <2> QED BY <1>3, <1>4, <1>7, <2>4, <2>7, <2>8, <2>9, <2>10
<1>11. r.method # "none"
  BY <1>1, <1>2 DEF RedisInv, RedisTypes
<1> QED BY <1>1, <1>8, <1>9, <1>10, <1>11 DEF Redis!do_action, Texts

\* A step that no session logs, and that leaves what Redis has.
LEMMA Unlogged ==
  ASSUME RedisInv, RedisTypes', UNCHANGED <<redisStore, redisLost, refused, log>>,
         linked' = linked \/ linked' = TRUE
  PROVE  RedisInv'
<1>1. (WasPosted(log, redisStore) /\ AllTrue(log))'
  BY DEF RedisInv
<1>2. (IsUpToDate(log, redisStore))' <=> IsUpToDate(log, redisStore)
  OBVIOUS
<1> QED BY <1>1, <1>2 DEF RedisInv

\* The server takes the next connection.
LEMMA RedisAccepts ==
  ASSUME RedisInv, Redis!Accept
  PROVE  RedisInv'
<1>1. redisBacklog \in Seq(Clients) /\ redisBacklog # <<>>
  BY DEF RedisInv, RedisTypes, Redis!Accept
<1>2. Head(redisBacklog) \in Clients /\ Tail(redisBacklog) \in Seq(Clients)
  BY <1>1, HeadTailProperties, Zenon
<1>3. /\ redisAt' = "read" /\ redisPeer' \in Clients /\ redisBacklog' \in Seq(Clients)
      /\ UNCHANGED <<request, redisStore, linked, redisLost, refused, log>>
  BY <1>2 DEF Redis!Accept, Redis!redis
<1>4. RedisTypes'
  BY <1>3 DEF RedisInv, RedisTypes
<1> QED BY <1>3, <1>4, Unlogged

\* The server has read a request, which is not "none".
LEMMA RedisReads ==
  ASSUME RedisInv, Redis!Read
  PROVE  RedisInv'
<1>1. /\ redisAt = "read" /\ redisAt' = "act" /\ request[redisPeer].method # "none"
      /\ UNCHANGED <<redisPeer, request, redisBacklog, redisStore, linked, redisLost, refused, log>>
  BY DEF Redis!Read, Redis!redis
<1>2. RedisTypes'
  BY <1>1 DEF RedisInv, RedisTypes
<1> QED BY <1>1, <1>2, Unlogged

\* The end of a session, in whatever way, and a restart of the server.
LEMMA RedisEnds ==
  ASSUME RedisInv, \/ Redis!Write \/ Redis!Shutdown \/ Redis!Restart
                   \/ Redis!SessionFails \/ Redis!AcceptFails
  PROVE  RedisInv'
<1>1. /\ redisAt' \in {"write", "shut", "accept", "down"}
      /\ UNCHANGED <<request, redisStore, redisLost, refused, log>>
      /\ linked' = linked \/ linked' = TRUE
      /\ redisAt' = "shut" => redisPeer' = redisPeer /\ redisAt = "write"
      /\ redisAt' # "write"
      /\ redisBacklog' = redisBacklog \/ redisBacklog' = <<>>
  BY DEF Redis!Write, Redis!Shutdown, Redis!SessionFails, Redis!AcceptFails, Redis!Ends,
         Redis!Restart, Redis!redis
<1>2. redisBacklog' \in Seq(Clients)
  <2>1. redisBacklog \in Seq(Clients) /\ <<>> \in Seq(Clients)
    BY DEF RedisInv, RedisTypes
  <2> QED BY <1>1, <2>1
<1>3. RedisTypes'
  <2>1. linked' \in BOOLEAN
    BY <1>1, Zenon DEF RedisInv, RedisTypes
  <2> QED BY <1>1, <1>2, <2>1 DEF RedisInv, RedisTypes
<1> QED BY <1>1, <1>3, Unlogged

\* A peer connects, sends a request, one of its offers, or goes.
LEMMA PeerActs ==
  ASSUME RedisInv, NEW q \in Clients, Redis!Connect(q) \/ Redis!Send(q) \/ Redis!Reset(q)
  PROVE  RedisInv'
<1>1. UNCHANGED <<redisAt, redisPeer, redisStore, linked, redisLost, refused, log>>
  BY DEF Redis!Connect, Redis!Send, Redis!Reset, Redis!redis
<1>2. redisBacklog' \in Seq(Clients)
  <2>1. redisBacklog \in Seq(Clients) /\ Append(redisBacklog, q) \in Seq(Clients)
    BY AppendProperties, Zenon DEF RedisInv, RedisTypes
  <2> QED BY <2>1 DEF Redis!Connect, Redis!Send, Redis!Reset
<1>3. \/ UNCHANGED request
      \/ /\ request[q] = Redis!NoRequest
         /\ \E r \in Messages : request' = [request EXCEPT ![q] = r]
  BY OffersAssumption DEF Redis!Connect, Redis!Send, Redis!Reset
<1>4. request' \in [Clients -> Messages \cup {Redis!NoRequest}]
  BY <1>3 DEF RedisInv, RedisTypes
<1>5. redisAt = "act" => request'[redisPeer].method # "none"
  <2>1. Redis!NoRequest.method = "none"
    BY DEF Redis!NoRequest
  <2>2. CASE UNCHANGED request
    BY <2>2 DEF RedisInv, RedisTypes
  <2>3. CASE /\ request[q] = Redis!NoRequest
             /\ \E r \in Messages : request' = [request EXCEPT ![q] = r]
    <3>1. ASSUME redisAt = "act" PROVE redisPeer \in Clients /\ redisPeer # q
      BY <2>1, <2>3, <3>1 DEF RedisInv, RedisTypes
    <3>2. request \in [Clients -> Messages \cup {Redis!NoRequest}]
      BY DEF RedisInv, RedisTypes
    <3> QED BY <2>3, <3>1, <3>2 DEF RedisInv, RedisTypes
  <2> QED BY <1>3, <2>2, <2>3
<1>6. RedisTypes'
  BY <1>1, <1>2, <1>4, <1>5 DEF RedisInv, RedisTypes
<1> QED BY <1>1, <1>6, Unlogged

\* Every step of every program keeps the invariant.
LEMMA RedisNext == RedisInv /\ [MCNext]_allVars => RedisInv'
<1> SUFFICES ASSUME RedisInv, [MCNext]_allVars PROVE RedisInv'
  OBVIOUS
<1>1. CASE UNCHANGED redisVars
  BY <1>1 DEF redisVars, RedisInv, RedisTypes, WasPosted, AllTrue, IsUpToDate
<1>2. CASE program = "redis" /\ Redis!Next /\ ButRedis
  BY <1>2, RedisAccepts, RedisReads, RedisActs, RedisEnds, PeerActs DEF Redis!Next, Redis!Server
<1> QED
  BY <1>1, <1>2 DEF MCNext, ButUsers, ButHttp, ButEcho, ButStriped, servers, allVars

\* Some session of those before n is the latest.
LEMMA LatestIn ==
  ASSUME NEW n \in Nat, NEW p, p \subseteq 1..n, p # {}
  PROVE  \E j \in p : IsLatest(j, p)
<1> DEFINE T == {n - j : j \in p}
<1>1. T \subseteq Nat /\ T # {}
  <2>1. \A j \in p : n - j \in Nat
    OBVIOUS
  <2>2. PICK j \in p : TRUE
    OBVIOUS
  <2> QED BY <2>1, <2>2
<1>2. PICK t \in T : \A u \in T : t <= u
  <2> HIDE DEF T
  <2> QED BY <1>1, LeastOfNat
<1>3. PICK j \in p : t = n - j
  OBVIOUS
<1>4. ASSUME NEW k \in p PROVE k <= j
  <2>1. n - j <= n - k
    BY <1>2, <1>3
  <2>2. j \in Nat /\ k \in Nat
    OBVIOUS
  <2> QED BY <2>1, <2>2
<1> QED BY <1>4 DEF IsLatest

\* The earlier sessions that post for a target are those that set its key.
LEMMA PostsAreSets ==
  ASSUME NEW e \in Entries, NEW S, STRING \subseteq S, NEW target \in Seq(S),
         target # <<>>, Head(target) = "/", Tail(target) \in Seq(STRING),
         ~Redis!Contains(target, "=")
  PROVE  /\ \A v \in Seq(STRING) : Redis!Posts(e.request, target, v) <=>
                                     Sets(e, Tail(target)) /\ Value(e) = v
         /\ (\E n \in 0..Len(e.request.body) :
               Redis!Posts(e.request, target,
                           SubSeq(e.request.body, n + 1, Len(e.request.body))))
              <=> Sets(e, Tail(target))
<1>1. PICK b \in Seq(STRING) : b = e.request.body
  BY DEF Entries, Messages
<1>2. PICK key \in Seq(STRING) :
        /\ key = Tail(target) /\ \A n \in 1..Len(key) : key[n] # "="
        /\ \A v \in Seq(STRING) : target \o <<"=">> \o v = <<"/">> \o b <=> Cut(b, key, v)
  BY TargetCuts
<1>3. ASSUME NEW v \in Seq(STRING)
      PROVE  Redis!Posts(e.request, target, v) <=> Sets(e, key) /\ Value(e) = v
  <2>1. Cut(b, key, v) <=> Redis!Split(b) # 0 /\ Redis!KeyIn(b) = key /\ Redis!ValueIn(b) = v
    BY <1>2, SplitCuts
  <2> QED BY <1>1, <1>2, <2>1 DEF Redis!Posts, Sets, Value
<1>4. ASSUME NEW n \in 0..Len(b), Redis!Posts(e.request, target, SubSeq(b, n + 1, Len(b)))
      PROVE  Sets(e, key)
  <2>1. SubSeq(b, n + 1, Len(b)) \in Seq(STRING)
    OBVIOUS
  <2> QED BY <1>3, <1>4, <2>1
<1>5. ASSUME Sets(e, key)
      PROVE  \E n \in 0..Len(b) : Redis!Posts(e.request, target, SubSeq(b, n + 1, Len(b)))
  <2>1. PICK n \in 0..Len(b) : n = Redis!Split(b)
    BY SplitIs
  <2>2. SubSeq(b, n + 1, Len(b)) = Value(e) /\ Value(e) \in Seq(STRING)
    BY <1>1, <1>5, <2>1, SplitTypes DEF Sets, Value, Redis!ValueIn
  <2>3. Redis!Posts(e.request, target, SubSeq(b, n + 1, Len(b)))
    BY <1>3, <1>5, <2>2
  <2> QED BY <2>3
<1> QED BY <1>1, <1>2, <1>3, <1>4, <1>5

\* A target with its slash, and the key behind it.
LEMMA SlashInFront ==
  ASSUME NEW S, STRING \subseteq S, "/" \in S, NEW raw \in Seq(STRING),
         NEW target, target = Redis!Slashed(raw)
  PROVE  /\ target \in Seq(S) /\ target # <<>> /\ Head(target) = "/"
         /\ Tail(target) = Redis!KeyOf(raw) /\ Tail(target) \in Seq(STRING)
<1>1. PICK l \in Nat : l = Len(raw)
  OBVIOUS
<1>2. raw \in Seq(S)
  BY SeqMonotonic, Zenon
<1>3. CASE raw # <<>> /\ Head(raw) = "/"
  <2>1. target = raw /\ Tail(raw) = Redis!KeyOf(raw)
    BY <1>3 DEF Redis!Slashed, Redis!KeyOf
  <2>2. Tail(raw) \in Seq(STRING)
    BY <1>3, HeadTailProperties, Zenon
  <2> QED BY <1>2, <1>3, <2>1, <2>2
<1>4. CASE ~(raw # <<>> /\ Head(raw) = "/")
  <2>1. PICK u \in Seq(S) : u = <<"/">> /\ Len(u) = 1 /\ u[1] = "/"
    <3>1. <<"/">> \in Seq(S) /\ Len(<<"/">>) = 1 /\ <<"/">>[1] = "/"
      OBVIOUS
    <3> QED BY <3>1, Zenon
  <2>2. PICK t \in Seq(S) : t = target /\ t = u \o raw
    <3>1. target = u \o raw
      BY <1>4, <2>1 DEF Redis!Slashed
    <3> QED BY <1>2, <2>1, <3>1, ConcatProperties, Zenon
  <2>3. Len(t) = 1 + l /\ t[1] = "/" /\ \A n \in 1..l : t[n + 1] = raw[n]
    BY <1>1, <1>2, <2>1, <2>2
  <2>4. t # <<>> /\ Head(t) = "/"
    BY <2>3
  <2>5. Tail(t) \in Seq(S) /\ Len(Tail(t)) = l /\ \A n \in 1..l : Tail(t)[n] = t[n + 1]
    BY <1>1, <2>3, <2>4
  <2>6. Tail(t) = raw
    BY <1>1, <1>2, <2>3, <2>5, SeqEqual
  <2>7. Redis!KeyOf(raw) = raw
    BY <1>4 DEF Redis!KeyOf
  <2> QED BY <2>2, <2>4, <2>6, <2>7
<1> QED BY <1>3, <1>4

\* The invariant says what the property does.
LEMMA RedisOutcome == RedisInv => AnswersAreTrue
<1> SUFFICES ASSUME RedisInv, NEW n \in DOMAIN log,
                    NEW target, target = Redis!Slashed(log[n].request.target),
                    log[n].request.method = "GET", ~Redis!Contains(target, "=")
             PROVE  /\ \/ log[n].answer = <<>>
                       \/ \E j \in Redis!PostsFor(n, target) :
                            Redis!Posts(log[j].request, target, log[n].answer)
                    /\ log[n].healthy =>
                         IF Redis!PostsFor(n, target) = {}
                           THEN log[n].answer = <<>>
                           ELSE Redis!Posts(log[CHOOSE j \in Redis!PostsFor(n, target) :
                                                  \A k \in Redis!PostsFor(n, target) : k <= j].request,
                                            target, log[n].answer)
  BY DEF AnswersAreTrue, Redis!AnswersAreTrue
<1>1. PICK l \in Seq(Entries) : l = log
  BY DEF RedisInv, RedisTypes
<1>2. n \in 1..Len(l) /\ n - 1 \in Nat /\ \A j \in 1..n - 1 : j \in 1..Len(l) /\ l[j] \in Entries
  BY <1>1
<1>3. PICK e \in Entries : e = l[n]
  BY <1>2
<1>4. PICK S : STRING \subseteq S /\ "/" \in S
  <2>1. STRING \subseteq STRING \cup {"/"} /\ "/" \in STRING \cup {"/"}
    OBVIOUS
  <2> QED BY <2>1, Zenon
<1>5. /\ e.request.method = "GET" /\ target \in Seq(S) /\ target # <<>> /\ Head(target) = "/"
      /\ Tail(target) = Redis!KeyOf(e.request.target) /\ Tail(target) \in Seq(STRING)
  <2>1. PICK raw \in Seq(STRING) : raw = e.request.target /\ target = Redis!Slashed(raw)
    BY <1>1, <1>3 DEF Entries, Messages
  <2>2. e.request.method = "GET"
    BY <1>1, <1>3
  <2> QED BY <1>4, <2>1, <2>2, SlashInFront
<1>6. PICK key : key = Tail(target) /\ key = Redis!KeyOf(e.request.target)
  BY <1>5
<1>7. PICK p : p = Setting(l, n - 1, key)
  OBVIOUS
<1>8. /\ e.answer = <<>> \/ \E j \in p : e.answer = Value(l[j])
      /\ e.healthy => /\ p = {} => e.answer = <<>>
                      /\ \A j \in p : IsLatest(j, p) => e.answer = Value(l[j])
  <2>1. IsTrue(e, l, p)
    BY <1>1, <1>2, <1>3, <1>6, <1>7 DEF RedisInv, AllTrue
  <2> QED BY <1>5, <2>1 DEF IsTrue
<1>9. Redis!PostsFor(n, target) = p
  <2>1. \A j \in 1..n - 1 :
          (\E k \in 0..Len(log[j].request.body) :
             Redis!Posts(log[j].request, target,
                         SubSeq(log[j].request.body, k + 1, Len(log[j].request.body))))
            <=> Sets(l[j], key)
    BY <1>1, <1>2, <1>4, <1>5, <1>6, PostsAreSets
  <2> QED BY <1>7, <2>1 DEF Redis!PostsFor, Setting
<1>10. ASSUME NEW j \in p, e.answer = Value(l[j])
       PROVE  Redis!Posts(log[j].request, target, log[n].answer)
  <2>1. l[j] \in Entries /\ Sets(l[j], key)
    BY <1>2, <1>7 DEF Setting
  <2>2. Value(l[j]) \in Seq(STRING)
    <3>1. l[j].request.body \in Seq(STRING)
      BY <2>1 DEF Entries, Messages
    <3> QED BY <2>1, <3>1, SplitTypes DEF Sets, Value
  <2>3. Redis!Posts(l[j].request, target, Value(l[j]))
    BY <1>4, <1>5, <1>6, <2>1, <2>2, PostsAreSets
  <2> QED BY <1>1, <1>3, <1>10, <2>3
<1>11. ASSUME p # {}
       PROVE  LET j == CHOOSE j \in p : \A k \in p : k <= j IN j \in p /\ IsLatest(j, p)
  <2>1. \E j \in p : \A k \in p : k <= j
    BY <1>2, <1>7, <1>11, LatestIn DEF IsLatest, Setting
  <2> QED BY <2>1 DEF IsLatest
<1> QED BY <1>1, <1>3, <1>8, <1>9, <1>10, <1>11

\* For every set of peers and whatever requests they make: a GET is answered with
\* what some earlier POST gave for that key, or with nothing; and with what the last
\* one gave, as long as Redis had always been reached and done as told.  Through
\* restarts, lost connections and sessions that fail.
THEOREM GetsAreTrue == MCSpec => []AnswersAreTrue
<1>1. MCInit => RedisInv
  BY RedisInit DEF MCInit
<1> QED BY <1>1, RedisNext, RedisOutcome, PTL DEF MCSpec

-----------------------------------------------------------------------------
(* User_Manager                                                            *)

Stages == {"ready", "call", "insert", "wait", "commit", "failed", "finished"}
Rows == {S \in SUBSET Users : IsFiniteSet(S)}
IdSets == {S \in SUBSET Nat : IsFiniteSet(S)}
Works == [removed : Rows, added : Rows, ddl : BOOLEAN, creates : BOOLEAN]
Orphans == [by : Processes, call : KnownCalls, met : IdSets, work : Works,
            sent : BOOLEAN, number : Nat]

UserTypes ==
  /\ setup \in Setups /\ table \in BOOLEAN /\ users \in Rows /\ lost \in Nat
  /\ work \in [Processes -> Works] /\ met \in [Processes -> IdSets]
  /\ orphans \in SUBSET Orphans /\ IsFiniteSet(orphans)
  /\ conn \in [Processes -> {"none", "open", "broken"}]
  /\ pc \in [Processes -> Stages]
  /\ next \in [Processes -> Nat \ {0}]
  /\ view \in [Processes -> [ids : IdSets, table : BOOLEAN]]
  /\ \A p \in Processes : InCall(p) => next[p] <= Len(Program(p))

\* The transactions that have written and are not over.
Transactions == [who : {"process", "orphan"} \X (Processes \cup Nat),
                 call : KnownCalls, met : IdSets, work : Works]
Tx(p) == [who |-> <<"process", p>>, call |-> Call(p), met |-> met[p], work |-> work[p]]
Left(o) == [who |-> <<"orphan", o.number>>, call |-> o.call, met |-> o.met, work |-> o.work]
Working(p) == At(p, "commit") /\ conn[p] = "open"
OpenBut(p) == {Tx(q) : q \in {r \in Processes \ {p} : Working(r)}} \cup {Left(o) : o \in orphans}
Open == {Tx(q) : q \in {r \in Processes : Working(r)}} \cup {Left(o) : o \in orphans}

Ids(S) == {u.id : u \in S}
Distinct(S) == \A u, v \in S : Key(u) = Key(v) => u = v

\* Ids that x brings in, and those that some call has met.
NewIds(x) == Ids(x.added) \ Ids(x.removed)
AllMet == (UNION {met[p] : p \in Processes}) \cup (UNION {o.met : o \in orphans})

\* The changes x are what call k is for.
IsMeant(k, u) == k.op = "clearUsers" \/ u.name = k.name
Does(k, x) ==
  /\ \A u \in x.removed : IsMeant(k, u)
  /\ k.op = "registerUser" => /\ x.removed = {}
                              /\ \E u \in Users : x.added = {u} /\ Key(u) = <<k.name, k.age>>
  /\ k.op = "increaseUserAge" => x.added = {[u EXCEPT !.age = @ + k.years] : u \in x.removed}
  /\ k.op \in {"deleteUserByName", "clearUsers"} => x.added = {}
  /\ k.op \in {"createTable", "query"} => x.removed = {} /\ x.added = {}

\* Transaction t can commit on the rows U: what it removes is there, nobody else has
\* the keys or the ids that it brings in, it is what its call is for, and has met all
\* that it has to.
Sound(t, U, M) ==
  /\ t.work.removed \subseteq U
  /\ Keys(t.work.added) \cap Keys(U \ t.work.removed) = {}
  /\ NewIds(t.work) \cap (Ids(U) \cup M) = {}
  /\ Does(t.call, t.work)
  /\ Sweeps(t.call) => \A u \in U : u.id \in t.met /\ IsMeant(t.call, u) => u \in t.work.removed

\* The locks keep transactions apart.
Apart(x, y) == /\ x.removed \cap y.removed = {}
               /\ Keys(x.added) \cap Keys(y.added) = {}
               /\ NewIds(x) \cap NewIds(y) = {}
Consistent(T, U, M) == /\ \A t \in T : Sound(t, U, M)
                       /\ \A t, v \in T : t # v => Apart(t.work, v.work)

\* Orphans are numbered.
Numbered == /\ \A o \in orphans : o.number < lost
            /\ \A o, d \in orphans : o.number = d.number => o = d

\* The snapshot of a statement that waits has what its call has to meet.
SeenAll == \A p \in Processes : At(p, "wait") /\ Sweeps(Call(p)) =>
             \A u \in users : u.id \in met[p] => u.id \in view[p].ids

DirectoryInv == /\ UserTypes /\ Numbered /\ SeenAll
                /\ Distinct(users) /\ Consistent(Open, users, AllMet)

\* Fewer transactions, met ids that were met before or are there.
LEMMA FewerConsistent ==
  ASSUME NEW T, NEW U, NEW M, Consistent(T, U, M), NEW S \in SUBSET T,
         NEW L, L \subseteq M \cup Ids(U)
  PROVE  Consistent(S, U, L)
BY DEF Consistent, Sound

\* Another owner of the same transaction.
LEMMA OwnerConsistent ==
  ASSUME NEW T, NEW U, NEW M, Consistent(T, U, M), NEW t \in T, NEW v,
         v.call = t.call, v.met = t.met, v.work = t.work
  PROVE  Consistent((T \ {t}) \cup {v}, U, M)
<1> DEFINE S == (T \ {t}) \cup {v}
<1>1. \A a \in S : Sound(a, U, M)
  <2>1. Sound(v, U, M)
    BY DEF Consistent, Sound
  <2> QED BY <2>1 DEF Consistent
<1>2. ASSUME NEW a \in S, NEW b \in S, a # b PROVE Apart(a.work, b.work)
  <2>1. CASE a = v
    <3>1. b \in T /\ b # t
      BY <1>2, <2>1
    <3> QED BY <2>1, <3>1 DEF Consistent
  <2>2. CASE b = v
    <3>1. a \in T /\ a # t
      BY <1>2, <2>2
    <3> QED BY <2>2, <3>1 DEF Consistent
  <2>3. CASE a # v /\ b # v
    BY <1>2, <2>3 DEF Consistent
  <2> QED BY <2>1, <2>2, <2>3
<1> QED BY <1>1, <1>2 DEF Consistent

\* One more transaction.
LEMMA MoreConsistent ==
  ASSUME NEW T, NEW U, NEW M, Consistent(T, U, M), NEW t, Sound(t, U, M),
         \A v \in T : Apart(t.work, v.work)
  PROVE  Consistent(T \cup {t}, U, M)
<1>1. \A v \in T : Apart(v.work, t.work)
  BY DEF Apart
<1> QED BY <1>1 DEF Consistent

\* A transaction writes what is no duplicate.
LEMMA WritesDistinct ==
  ASSUME NEW U \in SUBSET Users, Distinct(U), NEW t \in Transactions, NEW M, Sound(t, U, M),
         NEW V, V = (U \ t.work.removed) \cup t.work.added
  PROVE  Distinct(V) /\ Distinct(t.work.added)
<1> PICK x \in Works, k \in KnownCalls : x = t.work /\ k = t.call
  BY DEF Transactions
<1>1. Does(k, x) /\ x.removed \subseteq U /\ Keys(x.added) \cap Keys(U \ x.removed) = {}
  BY DEF Sound
<1>2. Distinct(x.added)
  <2>1. CASE k.op = "increaseUserAge"
    <3>1. k.years \in Int
      BY <2>1 DEF KnownCalls
    <3>2. ASSUME NEW u \in x.removed, NEW v \in x.removed,
                 Key([u EXCEPT !.age = @ + k.years]) = Key([v EXCEPT !.age = @ + k.years])
          PROVE  u = v
      <4>1. u \in Users /\ v \in Users
        BY <1>1
      <4>2. u.name = v.name /\ u.age + k.years = v.age + k.years
        BY <3>2, <4>1 DEF Key, Users
      <4>3. u.age \in Int /\ v.age \in Int
        BY <4>1 DEF Users
      <4>4. u.age = v.age
        <5>1. PICK a \in Int, b \in Int, y \in Int : a = u.age /\ b = v.age /\ y = k.years
          BY <3>1, <4>3, Zenon
        <5>2. a + y = b + y
          BY <4>2, <5>1, Zenon
        <5>3. a = b
          BY <5>2
        <5> QED BY <5>1, <5>3, Zenon
      <4>5. Key(u) = Key(v)
        BY <4>2, <4>4 DEF Key
      <4> QED BY <1>1, <4>5 DEF Distinct
    <3>3. x.added = {[u EXCEPT !.age = @ + k.years] : u \in x.removed}
      BY <1>1, <2>1 DEF Does
    <3> QED BY <3>2, <3>3 DEF Distinct
  <2>2. CASE k.op = "registerUser"
    BY <1>1, <2>2 DEF Does, Distinct
  <2>3. CASE k.op \notin {"increaseUserAge", "registerUser"}
    <3>1. x.added = {}
      BY <1>1, <2>3 DEF Does, KnownCalls
    <3> QED BY <3>1 DEF Distinct
  <2> QED BY <2>1, <2>2, <2>3
<1>3. \A u \in x.added, v \in U \ x.removed : Key(u) # Key(v)
  BY <1>1 DEF Keys
<1> QED BY <1>2, <1>3 DEF Distinct

\* What a row added has its id from.
LEMMA IdsFrom ==
  ASSUME NEW U \in SUBSET Users, NEW x \in Works, NEW k \in KnownCalls, Does(k, x),
         x.removed \subseteq U, NEW a \in x.added
  PROVE  \/ a.id \in NewIds(x)
         \/ \E r \in x.removed : r.id = a.id /\ r.name = a.name
<1>1. CASE k.op = "increaseUserAge"
  <2>1. PICK r \in x.removed : a = [r EXCEPT !.age = @ + k.years]
    BY <1>1 DEF Does
  <2>2. r \in Users
    OBVIOUS
  <2>3. r.id = a.id /\ r.name = a.name
    BY <2>1, <2>2 DEF Users
  <2> QED BY <2>3
<1>2. CASE k.op = "registerUser"
  BY <1>2 DEF Does, NewIds, Ids
<1>3. CASE k.op \notin {"increaseUserAge", "registerUser"}
  BY <1>3 DEF Does, KnownCalls
<1> QED BY <1>1, <1>2, <1>3

\* A transaction commits: what it has written is no duplicate, and the others can
\* still commit.
LEMMA CommitConsistent ==
  ASSUME NEW T \in SUBSET Transactions, NEW U \in SUBSET Users, NEW M, Consistent(T, U, M),
         \A v \in T : v.met \subseteq M, NEW t \in T,
         NEW V, V = (U \ t.work.removed) \cup t.work.added
  PROVE  /\ Consistent(T \ {t}, V, M)
         /\ \A u \in V : u.id \in M => u.id \in Ids(U)
<1> PICK x \in Works, k \in KnownCalls : x = t.work /\ k = t.call
  BY DEF Transactions
<1>1. Sound(t, U, M)
  BY DEF Consistent
<1>2. /\ Does(k, x) /\ x.removed \subseteq U
      /\ NewIds(x) \cap (Ids(U) \cup M) = {}
  BY <1>1 DEF Sound
<1>3. \A a \in x.added : \/ a.id \in NewIds(x)
                         \/ \E r \in x.removed : r.id = a.id /\ r.name = a.name
  BY <1>2, IdsFrom
<1>4. \A u \in V : u.id \in Ids(U) \cup NewIds(x)
  BY <1>2, <1>3 DEF Ids
<1>5. \A u \in V : u.id \in M => u.id \in Ids(U)
  BY <1>2, <1>4
<1>6. ASSUME NEW v \in T \ {t} PROVE Sound(v, V, M)
  <2> PICK y \in Works : y = v.work
    BY DEF Transactions
  <2>1. /\ y.removed \subseteq U
        /\ Keys(y.added) \cap Keys(U \ y.removed) = {}
        /\ NewIds(y) \cap (Ids(U) \cup M) = {}
        /\ Does(v.call, y)
        /\ Sweeps(v.call) => \A u \in U : u.id \in v.met /\ IsMeant(v.call, u) => u \in y.removed
    BY DEF Consistent, Sound
  <2>2. /\ x.removed \cap y.removed = {} /\ Keys(x.added) \cap Keys(y.added) = {}
        /\ NewIds(x) \cap NewIds(y) = {}
    BY DEF Consistent, Apart
  <2>3. y.removed \subseteq V
    BY <2>1, <2>2
  <2>4. Keys(y.added) \cap Keys(V \ y.removed) = {}
    BY <2>1, <2>2 DEF Keys
  <2>5. NewIds(y) \cap (Ids(V) \cup M) = {}
    BY <1>4, <2>1, <2>2 DEF Ids
  <2>6. ASSUME Sweeps(v.call), NEW u \in V, u.id \in v.met, IsMeant(v.call, u)
        PROVE  u \in y.removed
    <3>1. CASE u \in U
      BY <2>1, <2>6, <3>1
    <3>2. CASE u \in x.added
      <4>1. u.id \notin NewIds(x)
        BY <1>2, <2>6
      <4>2. PICK r \in x.removed : r.id = u.id /\ r.name = u.name
        BY <1>3, <3>2, <4>1
      <4>3. r \in y.removed
        BY <1>2, <2>1, <2>6, <4>2 DEF IsMeant
      <4> QED BY <2>2, <4>2, <4>3
    <3> QED BY <3>1, <3>2
  <2> QED BY <2>1, <2>3, <2>4, <2>5, <2>6 DEF Sound
<1>7. \A v, w \in T \ {t} : v # w => Apart(v.work, w.work)
  BY DEF Consistent
<1> QED BY <1>5, <1>6, <1>7 DEF Consistent

-----------------------------------------------------------------------------
(* A fresh id is fresh: there are finitely many rows, transactions and     *)
(* processes.                                                              *)

\* The image of a finite set is finite.
LEMMA FiniteImage ==
  ASSUME NEW S, IsFiniteSet(S), NEW f, DOMAIN f = S
  PROVE  IsFiniteSet({f[x] : x \in S})
<1> DEFINE T == {f[x] : x \in S}
<1>1. [x \in S |-> f[x]] \in Surjection(S, T)
  BY DEF Surjection
<1> QED BY <1>1, FS_Surjection DEF ExistsSurjection

\* Finitely many rows have finitely many ids.
LEMMA FiniteIds ==
  ASSUME NEW S, IsFiniteSet(S)
  PROVE  IsFiniteSet(Ids(S))
<1> DEFINE f == [u \in S |-> u.id]
<1>1. IsFiniteSet({f[u] : u \in S})
  <2>1. DOMAIN f = S
    OBVIOUS
  <2> HIDE DEF f
  <2> QED BY <2>1, FiniteImage
<1>2. {f[u] : u \in S} = Ids(S)
  BY DEF Ids
<1> QED BY <1>1, <1>2

\* A finite union of finite sets is finite.
LEMMA FiniteUnion ==
  ASSUME NEW S, IsFiniteSet(S), NEW f, DOMAIN f = S, \A x \in S : IsFiniteSet(f[x])
  PROVE  IsFiniteSet(UNION {f[x] : x \in S})
<1> DEFINE T == {f[x] : x \in S}
<1>1. IsFiniteSet(T)
  BY FiniteImage
<1>2. \A t \in T : IsFiniteSet(t)
  OBVIOUS
<1> QED BY <1>1, <1>2, FS_UNION

\* Some number up to one more than a finite set has elements is not in the set.
LEMMA SomeNumberFree ==
  ASSUME NEW S, IsFiniteSet(S)
  PROVE  \E n \in 1..Cardinality(S) + 1 : n \notin S
<1>1. PICK m \in Nat : m = Cardinality(S)
  BY FS_CardinalityType
<1> SUFFICES ASSUME 1..m + 1 \subseteq S PROVE FALSE
  BY <1>1
<1>2. IsFiniteSet(1..m + 1) /\ Cardinality(1..m + 1) = m + 1
  BY FS_Interval
<1>3. Cardinality(1..m + 1) <= m
  BY <1>1, FS_Subset
<1> QED BY <1>2, <1>3

\* No row, no transaction and no call has the id that SERIAL gives next.
LEMMA FreshIdIsNew ==
  ASSUME UserTypes
  PROVE  /\ FreshId \in Nat /\ FreshId \notin Ids(users) /\ FreshId \notin AllMet
         /\ \A q \in Processes : FreshId \notin Ids(work[q].added)
         /\ \A o \in orphans : FreshId \notin Ids(o.work.added)
<1>1. PICK A, B : /\ A = UNION {work[p].added : p \in Processes}
                  /\ B = UNION {o.work.added : o \in orphans}
  OBVIOUS
<1>2. PICK C, D, E : /\ C = UNION {view[p].ids : p \in Processes}
                     /\ D = UNION {met[p] : p \in Processes}
                     /\ E = UNION {o.met : o \in orphans}
  OBVIOUS
<1>3. UsedIds = Ids(users \cup A \cup B) \cup C \cup D \cup E
  <2>1. UsedIds = {u.id : u \in users \cup A \cup B} \cup C \cup D \cup E
    BY <1>1, <1>2, Zenon DEF UsedIds
  <2> QED BY <2>1 DEF Ids
<1>4. IsFiniteSet(Processes) /\ IsFiniteSet(orphans) /\ IsFiniteSet(users)
  BY SetupsAssumption DEF UserTypes, Rows
<1>5. IsFiniteSet(A) /\ IsFiniteSet(B)
  <2> DEFINE f == [q \in Processes |-> work[q].added]
             g == [o \in orphans |-> o.work.added]
  <2>1. \A q \in Processes : IsFiniteSet(f[q])
    BY DEF UserTypes, Works, Rows
  <2>2. \A o \in orphans : IsFiniteSet(g[o])
    BY DEF UserTypes, Orphans, Works, Rows
  <2>3. A = UNION {f[q] : q \in Processes} /\ B = UNION {g[o] : o \in orphans}
    BY <1>1
  <2>4. DOMAIN f = Processes /\ DOMAIN g = orphans
    OBVIOUS
  <2> HIDE DEF f, g
  <2> QED BY <1>4, <2>1, <2>2, <2>3, <2>4, FiniteUnion
<1>6. IsFiniteSet(C) /\ IsFiniteSet(D) /\ IsFiniteSet(E)
  <2> DEFINE f == [q \in Processes |-> view[q].ids]
             g == [q \in Processes |-> met[q]]
             h == [o \in orphans |-> o.met]
  <2>1. \A q \in Processes : IsFiniteSet(f[q]) /\ IsFiniteSet(g[q])
    BY DEF UserTypes, IdSets
  <2>2. \A o \in orphans : IsFiniteSet(h[o])
    BY DEF UserTypes, Orphans, IdSets
  <2>3. /\ C = UNION {f[q] : q \in Processes} /\ D = UNION {g[q] : q \in Processes}
        /\ E = UNION {h[o] : o \in orphans}
    BY <1>2
  <2>4. DOMAIN f = Processes /\ DOMAIN g = Processes /\ DOMAIN h = orphans
    OBVIOUS
  <2> HIDE DEF f, g, h
  <2> QED BY <1>4, <2>1, <2>2, <2>3, <2>4, FiniteUnion
<1>7. IsFiniteSet(UsedIds)
  BY <1>3, <1>4, <1>5, <1>6, FiniteIds, FS_Union
<1>8. PICK m \in Nat : m = Cardinality(UsedIds)
  BY <1>7, FS_CardinalityType
<1>9. FreshId \in 1..m + 1 /\ FreshId \notin UsedIds
  BY <1>7, <1>8, SomeNumberFree DEF FreshId
<1>10. /\ Ids(users) \subseteq UsedIds /\ AllMet \subseteq UsedIds
       /\ \A q \in Processes : Ids(work[q].added) \subseteq UsedIds
       /\ \A o \in orphans : Ids(o.work.added) \subseteq UsedIds
  <2>1. AllMet = D \cup E
    BY <1>2, Zenon DEF AllMet
  <2>2. /\ \A q \in Processes : work[q].added \subseteq A
        /\ \A o \in orphans : o.work.added \subseteq B
    BY <1>1
  <2> QED BY <1>3, <2>1, <2>2 DEF Ids
<1> QED BY <1>9, <1>10

-----------------------------------------------------------------------------
(* Types                                                                   *)

\* A process in a call has one.
LEMMA CallKnown ==
  ASSUME UserTypes, NEW p \in Processes, next[p] <= Len(Program(p))
  PROVE  Call(p) \in KnownCalls
<1>1. Program(p) \in Seq(KnownCalls)
  BY SetupsAssumption DEF UserTypes, Program
<1>2. next[p] \in DOMAIN Program(p)
  BY <1>1 DEF UserTypes
<1> QED BY <1>1, <1>2 DEF Call

\* What a statement writes is rows.
LEMMA ChangesAreWork ==
  ASSUME UserTypes, NEW p \in Processes, Call(p) \in KnownCalls, Writes(Call(p))
  PROVE  Changes(p) \in Works /\ Hit(p) \in Rows
<1> DEFINE k == Call(p)
<1>1. users \in SUBSET Users /\ IsFiniteSet(users)
  BY DEF UserTypes, Rows
<1>2. Hit(p) \in SUBSET Users /\ IsFiniteSet(Hit(p))
  BY <1>1, FS_Subset DEF Hit
<1>3. Hit(p) \in Rows /\ {} \in Rows
  BY <1>2, FS_EmptySet DEF Rows
<1>4. NoWork \in Works
  BY <1>3 DEF NoWork, Works
<1>5. CASE k.op = "registerUser"
  <2>1. k.name \in STRING /\ k.age \in Int
    BY <1>5 DEF KnownCalls
  <2> DEFINE u == [id |-> FreshId, name |-> k.name, age |-> k.age]
  <2>2. u \in Users
    BY <2>1, FreshIdIsNew DEF Users
  <2>3. {u} \in Rows
    BY <2>2, FS_Singleton DEF Rows
  <2>4. Changes(p) = [NoWork EXCEPT !.added = {u}]
    BY <1>5 DEF Changes
  <2> QED BY <1>3, <2>3, <2>4 DEF NoWork, Works
<1>6. CASE k.op = "increaseUserAge"
  <2>1. k.years \in Int
    BY <1>6 DEF KnownCalls
  <2> DEFINE f == [u \in Hit(p) |-> [u EXCEPT !.age = @ + k.years]]
             S == {[u EXCEPT !.age = @ + k.years] : u \in Hit(p)}
  <2>2. IsFiniteSet({f[u] : u \in Hit(p)})
    <3>1. DOMAIN f = Hit(p)
      OBVIOUS
    <3> HIDE DEF f
    <3> QED BY <1>2, <3>1, FiniteImage
  <2>3. {f[u] : u \in Hit(p)} = S
    OBVIOUS
  <2>4. \A u \in Hit(p) : [u EXCEPT !.age = @ + k.years] \in Users
    BY <1>2, <2>1 DEF Users
  <2>5. S \in Rows
    BY <2>2, <2>3, <2>4 DEF Rows
  <2>6. Changes(p) = [NoWork EXCEPT !.removed = Hit(p), !.added = S]
    BY <1>6 DEF Changes
  <2> QED BY <1>3, <2>5, <2>6 DEF NoWork, Works
<1>7. CASE k.op \in {"deleteUserByName", "clearUsers"}
  <2>1. Changes(p) = [NoWork EXCEPT !.removed = Hit(p)]
    BY <1>7 DEF Changes
  <2> QED BY <1>3, <2>1 DEF NoWork, Works
<1>8. CASE k.op = "createTable"
  <2>1. Changes(p) = [NoWork EXCEPT !.ddl = TRUE, !.creates = ~view[p].table]
    BY <1>8 DEF Changes
  <2> QED BY <1>3, <2>1 DEF NoWork, Works
<1> QED BY <1>3, <1>5, <1>6, <1>7, <1>8 DEF KnownCalls, Writes

\* Between the steps of a call.
Underway == \A p \in Processes : /\ At(p, "insert") => Call(p).op = "registerUser"
                                 /\ pc[p] \in {"wait", "commit"} => Writes(Call(p))

\* Every step keeps the types.
LEMMA UserTypesKept ==
  ASSUME UserTypes, Underway, Next
  PROVE  UserTypes'
<1> USE DEF UserTypes, Stages
<1>0. NoWork \in Works /\ NoView \in [ids : IdSets, table : BOOLEAN] /\ {} \in IdSets
  BY FS_EmptySet DEF NoWork, NoView, Works, Rows, IdSets
<1>1. Ids(users) \in IdSets
  <2>1. Ids(users) \subseteq Nat
    BY DEF Rows, Users, Ids
  <2> QED BY <2>1, FiniteIds DEF Rows, IdSets
<1>2. ASSUME NEW p \in Processes, InCall(p) PROVE Call(p) \in KnownCalls
  BY <1>2, CallKnown
<1>3. ASSUME NEW p \in Processes, NEW c \in {"none", "open", "broken"}
      PROVE  [conn EXCEPT ![p] = c] \in [Processes -> {"none", "open", "broken"}]
  OBVIOUS
<1>4. ASSUME NEW p \in Processes, Returns(p), InCall(p), UNCHANGED setup
      PROVE  /\ pc' \in [Processes -> Stages]
             /\ next' \in [Processes -> Nat \ {0}]
             /\ met' \in [Processes -> IdSets]
             /\ \A q \in Processes : InCall(q)' => next'[q] <= Len(Program(q)')
  BY <1>0, <1>4 DEF Returns, GoTo, InCall, Program
<1>5. ASSUME NEW p \in Processes, Raises(p), UNCHANGED setup
      PROVE  /\ pc' \in [Processes -> Stages]
             /\ next' \in [Processes -> Nat \ {0}]
             /\ met' \in [Processes -> IdSets]
             /\ conn' \in [Processes -> {"none", "open", "broken"}]
             /\ view' \in [Processes -> [ids : IdSets, table : BOOLEAN]]
             /\ \A q \in Processes : InCall(q)' => next'[q] <= Len(Program(q)')
  BY <1>0, <1>5 DEF Raises, GoTo, InCall, Program
<1>6. ASSUME NEW p \in Processes, Begin(p) PROVE UserTypes'
  BY <1>0, <1>1, <1>6 DEF Begin, At, GoTo, InCall, Program, Ids, store
<1>7. ASSUME NEW p \in Processes, UserExists(p) PROVE UserTypes'
  <2>1. conn' \in [Processes -> {"none", "open", "broken"}] /\ InCall(p)
    BY <1>7 DEF UserExists, Connected, At, InCall
  <2>2. CASE Returns(p)
    BY <1>4, <1>7, <2>1, <2>2 DEF UserExists, store
  <2>3. CASE GoTo(p, "insert") /\ UNCHANGED <<next, met>>
    BY <1>7, <2>1, <2>3 DEF UserExists, store, GoTo, InCall, Program
  <2> QED BY <1>7, <2>2, <2>3 DEF UserExists
<1>8. ASSUME NEW p \in Processes, Query(p) PROVE UserTypes'
  <2>1. conn' \in [Processes -> {"none", "open", "broken"}] /\ InCall(p)
    BY <1>8 DEF Query, Connected, At, InCall
  <2> QED BY <1>4, <1>8, <2>1 DEF Query, store
<1>9. ASSUME NEW p \in Processes, Statement(p) PROVE UserTypes'
  <2>1. conn' \in [Processes -> {"none", "open", "broken"}] /\ InCall(p)
    BY <1>9 DEF Statement, Connected, At, InCall
  <2>2. view' \in [Processes -> [ids : IdSets, table : BOOLEAN]]
    BY <1>0, <1>1, <1>9 DEF Statement, Ids
  <2> QED BY <1>9, <2>1, <2>2 DEF Statement, store, GoTo, InCall, Program
<1>10. ASSUME NEW p \in Processes, Execute(p) PROVE UserTypes'
  <2>1. InCall(p) /\ Writes(Call(p))
    BY <1>10 DEF Execute, At, InCall, Underway
  <2>2. Changes(p) \in Works
    BY <1>2, <2>1, ChangesAreWork
  <2>3. work' \in [Processes -> Works]
    BY <1>10, <2>2 DEF Execute
  <2>4. view' \in [Processes -> [ids : IdSets, table : BOOLEAN]]
    BY <1>0, <1>10 DEF Execute
  <2>5. /\ UNCHANGED <<setup, table, users, orphans, conn, next, lost, met>>
        /\ pc' = [pc EXCEPT ![p] = "commit"]
    BY <1>10 DEF Execute, store, history, GoTo
  <2>6. \A q \in Processes : InCall(q)' => next[q] <= Len(Program(q))
    BY <2>1, <2>5 DEF InCall
  <2> QED BY <2>3, <2>4, <2>5, <2>6 DEF Program
<1>11. ASSUME NEW p \in Processes, Refused(p) PROVE UserTypes'
  BY <1>5, <1>11 DEF Refused, store
<1>12. ASSUME NEW p \in Processes, NEW x \in Works, Commits(p, x)
       PROVE  table' \in BOOLEAN /\ users' \in Rows
  <2>1. IsFiniteSet(users \ x.removed) /\ IsFiniteSet(x.added)
    BY FS_Subset DEF Works, Rows
  <2>2. IsFiniteSet((users \ x.removed) \cup x.added)
    BY <2>1, FS_Union
  <2>3. users' = (users \ x.removed) \cup x.added
    BY <1>12 DEF Commits
  <2>4. users \subseteq Users /\ x.added \subseteq Users
    BY DEF Works, Rows
  <2>5. x.creates \in BOOLEAN /\ table' = (table \/ x.creates)
    BY <1>12 DEF Works, Commits
  <2> QED BY <2>2, <2>3, <2>4, <2>5 DEF Rows
<1>13. ASSUME NEW p \in Processes, Commit(p) PROVE UserTypes'
  <2>1. InCall(p) /\ work[p] \in Works
    BY <1>13 DEF Commit, At, InCall
  <2> QED BY <1>0, <1>4, <1>12, <1>13, <2>1 DEF Commit
<1>14. ASSUME NEW p \in Processes, Broken(p) \/ SchemaFails(p) PROVE UserTypes'
  BY <1>5, <1>14 DEF Broken, SchemaFails, store
<1>15. ASSUME NEW p \in Processes, InCall(p), NEW b \in BOOLEAN
       PROVE  /\ Orphan(p, b) \in Orphans /\ IsFiniteSet(orphans \cup {Orphan(p, b)})
  <2>1. Orphan(p, b) \in Orphans
    BY <1>2, <1>15 DEF Orphan, Orphans
  <2> QED BY <2>1, FS_AddElement
<1>16. ASSUME NEW p \in Processes, Lose(p) PROVE UserTypes'
  <2>1. orphans' \in SUBSET Orphans /\ IsFiniteSet(orphans')
    BY <1>15, <1>16 DEF Lose, At, InCall
  <2>2. work' \in [Processes -> Works] /\ lost' \in Nat
    BY <1>0, <1>16 DEF Lose
  <2>3. conn' \in [Processes -> {"none", "open", "broken"}]
    BY <1>16 DEF Lose
  <2> QED BY <1>16, <2>1, <2>2, <2>3 DEF Lose, history, InCall, Program
<1>17. ASSUME NEW p \in Processes, CommitInDoubt(p) PROVE UserTypes'
  <2>1. InCall(p)
    BY <1>17 DEF CommitInDoubt, At, InCall
  <2>2. orphans' \in SUBSET Orphans /\ IsFiniteSet(orphans')
    BY <1>15, <1>17, <2>1 DEF CommitInDoubt
  <2>3. work' \in [Processes -> Works] /\ lost' \in Nat
    BY <1>0, <1>17 DEF CommitInDoubt
  <2> QED BY <1>5, <1>17, <2>2, <2>3 DEF CommitInDoubt
<1>18. ASSUME NEW p \in Processes, ConnectFails(p) PROVE UserTypes'
  BY <1>5, <1>18 DEF ConnectFails, store
<1>19. ASSUME NEW p \in Processes, Restart(p) PROVE UserTypes'
  BY <1>19 DEF Restart, GoTo, store, history, InCall, Program
<1>20. ASSUME NEW o \in orphans, Settle(o) PROVE UserTypes'
  <2>1. o.work \in Works /\ o.by \in Processes
    BY DEF Orphans
  <2>2. IsFiniteSet(orphans') /\ orphans' \in SUBSET Orphans
    BY <1>20, FS_Subset DEF Settle
  <2>3. table' \in BOOLEAN /\ users' \in Rows
    BY <1>12, <1>20, <2>1 DEF Settle
  <2> QED BY <1>20, <2>2, <2>3 DEF Settle, InCall, Program
<1> QED BY <1>6, <1>7, <1>8, <1>9, <1>10, <1>11, <1>13, <1>14, <1>16, <1>17, <1>18, <1>19, <1>20
        DEF Next, Process, Disturbance

-----------------------------------------------------------------------------
(* A step moves one process, or settles one orphan.                        *)

OnlyMoves(p) ==
  /\ setup' = setup
  /\ \A q \in Processes \ {p} :
       /\ pc'[q] = pc[q] /\ conn'[q] = conn[q] /\ work'[q] = work[q] /\ met'[q] = met[q]
       /\ next'[q] = next[q] /\ view'[q] = view[q]

\* A step of p leaves the other processes where they are.
LEMMA OthersStay ==
  ASSUME UserTypes, NEW p \in Processes, Process(p) \/ Disturbance(p)
  PROVE  OnlyMoves(p)
<1> USE DEF UserTypes, OnlyMoves, GoTo
<1>1. CASE Begin(p)
  BY <1>1 DEF Begin
<1>2. CASE UserExists(p)
  BY <1>2 DEF UserExists, Connected, Returns
<1>3. CASE Query(p)
  BY <1>3 DEF Query, Connected, Returns
<1>4. CASE Statement(p)
  BY <1>4 DEF Statement, Connected
<1>5. CASE Execute(p)
  BY <1>5 DEF Execute, history
<1>6. CASE Refused(p)
  BY <1>6 DEF Refused, Raises
<1>7. CASE Commit(p)
  BY <1>7 DEF Commit, Returns
<1>8. CASE Broken(p) \/ SchemaFails(p)
  BY <1>8 DEF Broken, SchemaFails, Raises
<1>9. CASE Lose(p)
  BY <1>9 DEF Lose, history
<1>10. CASE CommitInDoubt(p)
  BY <1>10 DEF CommitInDoubt, Raises
<1>11. CASE ConnectFails(p)
  BY <1>11 DEF ConnectFails, Raises
<1>12. CASE Restart(p)
  BY <1>12 DEF Restart, history
<1> QED BY <1>1, <1>2, <1>3, <1>4, <1>5, <1>6, <1>7, <1>8, <1>9, <1>10, <1>11, <1>12
        DEF Process, Disturbance

\* Every step keeps what is known of a call between its steps.
LEMMA UnderwayKept ==
  ASSUME UserTypes, Underway, Next
  PROVE  Underway'
<1> USE DEF UserTypes, Underway, At
<1>1. ASSUME NEW p \in Processes, OnlyMoves(p),
             /\ At(p, "insert")' => Call(p)'.op = "registerUser"
             /\ pc'[p] \in {"wait", "commit"} => Writes(Call(p)')
      PROVE  Underway'
  BY <1>1 DEF OnlyMoves, Call, Program
<1>2. ASSUME NEW p \in Processes, Process(p) \/ Disturbance(p) PROVE Underway'
  <2>1. OnlyMoves(p)
    BY <1>2, OthersStay
  <2> SUFFICES /\ At(p, "insert")' => Call(p)'.op = "registerUser"
               /\ pc'[p] \in {"wait", "commit"} => Writes(Call(p)')
    BY <1>1, <2>1
  <2> USE DEF GoTo
  <2>2. CASE pc'[p] \notin {"insert", "wait", "commit"}
    BY <2>2
  <2>3. CASE UserExists(p) /\ pc'[p] \in {"insert", "wait", "commit"}
    BY <2>3 DEF UserExists, Returns, Call, Program
  <2>4. CASE Statement(p)
    <3>1. Call(p)' = Call(p) /\ pc'[p] = "wait"
      BY <2>4 DEF Statement, Call, Program
    <3>2. Writes(Call(p))
      BY <2>4 DEF Statement, Writes
    <3> QED BY <3>1, <3>2
  <2>5. CASE Execute(p)
    <3>1. Call(p)' = Call(p) /\ pc'[p] = "commit" /\ At(p, "wait")
      BY <2>5 DEF Execute, Call, Program
    <3> QED BY <3>1
  <2>6. CASE Lose(p)
    <3>1. Call(p)' = Call(p) /\ pc' = pc
      BY <2>6 DEF Lose, Call, Program
    <3> QED BY <3>1
  <2>7. CASE Begin(p) \/ Query(p) \/ Refused(p) \/ Commit(p) \/ Broken(p) \/ CommitInDoubt(p)
             \/ ConnectFails(p) \/ Restart(p) \/ SchemaFails(p)
    BY <2>2, <2>7 DEF Begin, Query, Refused, Commit, Broken, CommitInDoubt, ConnectFails, Restart,
                      SchemaFails, Raises, Returns
  <2> QED BY <1>2, <2>2, <2>3, <2>4, <2>5, <2>6, <2>7 DEF Process, Disturbance
<1>3. ASSUME NEW o \in orphans, Settle(o) PROVE Underway'
  BY <1>3 DEF Settle, Call, Program
<1> QED BY <1>2, <1>3 DEF Next

\* The transaction of p is one of its own.
LEMMA OpenIs ==
  ASSUME NEW p \in Processes
  PROVE  /\ Open = OpenBut(p) \cup IF Working(p) THEN {Tx(p)} ELSE {}
         /\ Tx(p) \notin OpenBut(p)
<1>1. \A q \in Processes \ {p} : Tx(p) # Tx(q)
  BY DEF Tx
<1>2. \A o \in orphans : Tx(p) # Left(o)
  BY DEF Tx, Left
<1> QED BY <1>1, <1>2 DEF Open, OpenBut

\* What is open after a step of p.
LEMMA OpenThen ==
  ASSUME NEW p \in Processes, OnlyMoves(p),
         {Left(o) : o \in orphans} \subseteq {Left(o) : o \in orphans'}
  PROVE  Open' = OpenBut(p) \cup {Left(o) : o \in orphans'}
                            \cup IF Working(p)' THEN {Tx(p)'} ELSE {}
<1>1. \A q \in Processes \ {p} : Tx(q)' = Tx(q) /\ (Working(q)' <=> Working(q))
  BY DEF OnlyMoves, Tx, Working, At, Call, Program
<1>2. Open' = {Tx(q)' : q \in {r \in Processes : Working(r)'}} \cup {Left(o) : o \in orphans'}
  BY DEF Open, Left
<1> QED BY <1>1, <1>2 DEF OpenBut

\* A step of p meets nothing new but what p meets.
LEMMA MetThen ==
  ASSUME UserTypes, NEW p \in Processes, OnlyMoves(p), NEW X, met'[p] \subseteq AllMet \cup X,
         \A o \in orphans' : o.met \subseteq AllMet
  PROVE  AllMet' \subseteq AllMet \cup X
<1>1. \A q \in Processes : met[q] \subseteq AllMet
  BY DEF AllMet
<1>2. \A q \in Processes : met'[q] \subseteq AllMet \cup X
  BY <1>1 DEF OnlyMoves
<1> QED BY <1>2 DEF AllMet

\* The types of the open transactions.
LEMMA OpenTypes ==
  ASSUME UserTypes
  PROVE  Open \in SUBSET Transactions /\ \A t \in Open : t.met \subseteq AllMet
<1>1. ASSUME NEW p \in Processes, Working(p)
      PROVE  Tx(p) \in Transactions /\ Tx(p).met \subseteq AllMet
  <2>1. Call(p) \in KnownCalls
    BY <1>1, CallKnown DEF UserTypes, Working, At, InCall
  <2> QED BY <2>1 DEF UserTypes, Transactions, Tx, AllMet
<1>2. ASSUME NEW o \in orphans
      PROVE  Left(o) \in Transactions /\ Left(o).met \subseteq AllMet
  BY DEF UserTypes, Orphans, Transactions, Left, AllMet
<1> QED BY <1>1, <1>2 DEF Open

-----------------------------------------------------------------------------
(* Every transaction can commit.                                           *)

\* Orphans are told apart by what they leave.
LEMMA NumberedKept ==
  ASSUME UserTypes, Numbered, Next
  PROVE  Numbered'
<1> USE DEF UserTypes, Numbered
<1>1. ASSUME NEW p \in Processes, NEW b \in BOOLEAN, lost' = lost + 1,
             orphans' = orphans \/ orphans' = orphans \cup {Orphan(p, b)}
      PROVE  Numbered'
  <2>1. Orphan(p, b).number = lost
    BY DEF Orphan
  <2>2. \A o \in orphans : o.number \in Nat /\ o.number < lost
    BY DEF Orphans
  <2> HIDE DEF UserTypes
  <2>3. lost \in Nat
    BY DEF UserTypes
  <2>4. \A o \in orphans : o.number < lost' /\ o.number # lost
    BY <1>1, <2>2, <2>3
  <2>5. lost < lost'
    BY <1>1, <2>3
  <2> QED BY <1>1, <2>1, <2>4, <2>5
<1>2. ASSUME NEW p \in Processes, Process(p) PROVE Numbered'
  BY <1>2 DEF Process, Begin, UserExists, Query, Statement, Execute, Refused, Commit, Broken,
                 SchemaFails, store
<1>3. ASSUME NEW p \in Processes, Disturbance(p) PROVE Numbered'
  BY <1>1, <1>3 DEF Disturbance, Lose, CommitInDoubt, ConnectFails, Restart, store
<1>4. ASSUME NEW o \in orphans, Settle(o) PROVE Numbered'
  BY <1>4 DEF Settle
<1> QED BY <1>2, <1>3, <1>4 DEF Next

\* What a statement writes is sound, and apart from the other transactions.
LEMMA ChangesSound ==
  ASSUME UserTypes, Underway, SeenAll, NEW p \in Processes, At(p, "wait"),
         ~Waits(p), ~Collides(Changes(p))
  PROVE  /\ \A t : t.call = Call(p) /\ t.met = met[p] /\ t.work = Changes(p)
                     => Sound(t, users, AllMet)
         /\ \A v \in OpenBut(p) : Apart(Changes(p), v.work)
<1> PICK k, x : k = Call(p) /\ x = Changes(p)
  OBVIOUS
<1>1. k \in KnownCalls /\ Writes(k)
  BY CallKnown DEF UserTypes, Underway, At, InCall
<1>2. x \in Works /\ Hit(p) \in Rows
  BY <1>1, ChangesAreWork
<1>3. /\ Hit(p) \subseteq users
      /\ \A u \in Hit(p) : IsMeant(k, u)
      /\ \A u \in users : u.id \in view[p].ids /\ IsMeant(k, u) => u \in Hit(p)
  BY DEF Hit, IsMeant
<1>4. /\ Does(k, x) /\ x.removed \subseteq users /\ NewIds(x) \subseteq {FreshId}
      /\ Sweeps(k) => x.removed = Hit(p)
  <2>1. CASE k.op = "registerUser"
    <3> DEFINE u == [id |-> FreshId, name |-> k.name, age |-> k.age]
    <3>1. x = [NoWork EXCEPT !.added = {u}]
      BY <2>1 DEF Changes
    <3>2. x.removed = {} /\ x.added = {u}
      BY <3>1 DEF NoWork
    <3>3. u \in Users /\ Key(u) = <<k.name, k.age>>
      BY <1>1, <2>1, FreshIdIsNew DEF KnownCalls, Users, Key
    <3>4. Does(k, x)
      BY <2>1, <3>2, <3>3 DEF Does
    <3>5. NewIds(x) = {FreshId}
      BY <3>2 DEF NewIds, Ids
    <3> QED BY <2>1, <3>2, <3>4, <3>5 DEF Sweeps
  <2>2. CASE k.op = "increaseUserAge"
    <3> DEFINE S == {[u EXCEPT !.age = @ + k.years] : u \in Hit(p)}
    <3>1. x = [NoWork EXCEPT !.removed = Hit(p), !.added = S]
      BY <2>2 DEF Changes
    <3>2. x.removed = Hit(p) /\ x.added = S
      BY <3>1 DEF NoWork
    <3>3. \A u \in Hit(p) : [u EXCEPT !.age = @ + k.years].id = u.id
      BY <1>2 DEF Rows, Users
    <3>4. NewIds(x) = {}
      <4>1. \A a \in S : a.id \in Ids(Hit(p))
        BY <3>3 DEF Ids
      <4>2. Ids(S) \subseteq Ids(Hit(p))
        BY <4>1 DEF Ids
      <4> QED BY <3>2, <4>2 DEF NewIds
    <3> QED BY <1>3, <2>2, <3>2, <3>4 DEF Does
  <2>3. CASE k.op \in {"deleteUserByName", "clearUsers"}
    <3>1. x = [NoWork EXCEPT !.removed = Hit(p)]
      BY <2>3 DEF Changes
    <3>2. x.removed = Hit(p) /\ x.added = {}
      BY <3>1 DEF NoWork
    <3> QED BY <1>3, <2>3, <3>2 DEF Does, NewIds, Ids
  <2>4. CASE k.op = "createTable"
    <3>1. x = [NoWork EXCEPT !.ddl = TRUE, !.creates = ~view[p].table]
      BY <2>4 DEF Changes
    <3>2. x.removed = {} /\ x.added = {}
      BY <3>1 DEF NoWork
    <3> QED BY <2>4, <3>2 DEF Does, NewIds, Ids, Sweeps
  <2> QED BY <1>1, <2>1, <2>2, <2>3, <2>4 DEF KnownCalls, Writes
<1>5. NewIds(x) \cap (Ids(users) \cup AllMet) = {}
  BY <1>4, FreshIdIsNew
<1>6. Sweeps(k) => \A u \in users : u.id \in met[p] /\ IsMeant(k, u) => u \in x.removed
  BY <1>3, <1>4 DEF SeenAll
<1>7. Keys(x.added) \cap Keys(users \ x.removed) = {}
  BY DEF Collides
<1>8. ASSUME NEW v \in OpenBut(p) PROVE Apart(x, v.work)
  <2>1. v.work \in OpenWork(p)
    BY DEF OpenBut, OpenWork, Working, At, Tx, Left
  <2>2. /\ x.removed \cap v.work.removed = {}
        /\ Keys(x.added) \cap Keys(v.work.added) = {}
    BY <2>1 DEF Waits, WaitsFor, Keys
  <2>3. FreshId \notin Ids(v.work.added)
    BY FreshIdIsNew DEF OpenBut, Tx, Left
  <2>4. NewIds(x) \cap NewIds(v.work) = {}
    BY <1>4, <2>3 DEF NewIds
  <2> QED BY <2>2, <2>4 DEF Apart
<1> QED BY <1>4, <1>5, <1>6, <1>7, <1>8 DEF Sound

\* A step of p that writes nothing and leaves nothing open.
LEMMA QuietConsistent ==
  ASSUME UserTypes, Consistent(Open, users, AllMet), NEW p \in Processes, OnlyMoves(p),
         users' = users, orphans' = orphans, ~Working(p)', met'[p] \subseteq AllMet \cup Ids(users)
  PROVE  Consistent(Open', users', AllMet')
<1>1. Open' = OpenBut(p)
  BY OpenThen DEF OpenBut
<1>2. Open' \subseteq Open
  BY <1>1, OpenIs
<1>3. \A o \in orphans' : o.met \subseteq AllMet
  BY DEF AllMet
<1>4. AllMet' \subseteq AllMet \cup Ids(users)
  BY <1>3, MetThen
<1> QED BY <1>2, <1>4, FewerConsistent

\* p's transaction loses its client.
LEMMA OrphanConsistent ==
  ASSUME UserTypes, Consistent(Open, users, AllMet), NEW p \in Processes, OnlyMoves(p),
         users' = users, Working(p), ~Working(p)', met'[p] \subseteq met[p],
         NEW b \in BOOLEAN, orphans' = orphans \cup {Orphan(p, b)}
  PROVE  Consistent(Open', users', AllMet')
<1> PICK v : v = Left(Orphan(p, b))
  OBVIOUS
<1>1. Open' = OpenBut(p) \cup {v}
  BY OpenThen DEF OpenBut
<1>2. Open = OpenBut(p) \cup {Tx(p)} /\ Tx(p) \notin OpenBut(p)
  BY OpenIs
<1>3. Open' = (Open \ {Tx(p)}) \cup {v} /\ Tx(p) \in Open
  BY <1>1, <1>2
<1>4. v.call = Tx(p).call /\ v.met = Tx(p).met /\ v.work = Tx(p).work
  BY DEF Left, Orphan, Tx
<1>5. Consistent(Open', users, AllMet)
  BY <1>3, <1>4, OwnerConsistent
<1>6. met[p] \subseteq AllMet /\ \A o \in orphans' : o.met \subseteq AllMet
  BY DEF AllMet, Orphan
<1>7. AllMet' \subseteq AllMet \cup {}
  BY <1>6, MetThen
<1> QED BY <1>5, <1>7, FewerConsistent

\* What no transaction and no step of another process can take from a snapshot.
SeenStays == \A u \in users' : u.id \in AllMet => u.id \in Ids(users)

\* The snapshots of the others still have what their calls have to meet.
LEMMA SeenAllKept ==
  ASSUME UserTypes, SeenAll, NEW p \in Processes, OnlyMoves(p), SeenStays,
         At(p, "wait")' /\ Sweeps(Call(p)') =>
           \A u \in users' : u.id \in met'[p] => u.id \in view'[p].ids
  PROVE  SeenAll'
<1>1. ASSUME NEW q \in Processes \ {p}, At(q, "wait")', Sweeps(Call(q)'),
             NEW u \in users', u.id \in met'[q]
      PROVE  u.id \in view'[q].ids
  <2>1. At(q, "wait") /\ met'[q] = met[q] /\ Call(q)' = Call(q) /\ view'[q] = view[q]
    BY <1>1 DEF OnlyMoves, Call, Program, At
  <2>2. u.id \in AllMet
    BY <1>1, <2>1 DEF AllMet
  <2>3. PICK w \in users : w.id = u.id
    BY <2>2 DEF SeenStays, Ids
  <2> QED BY <1>1, <2>1, <2>3 DEF SeenAll
<1> QED BY <1>1 DEF SeenAll

DirectoryOpen == DirectoryInv /\ Underway

\* Every step keeps the invariant.
LEMMA DirectoryStep ==
  ASSUME DirectoryOpen, Next
  PROVE  DirectoryOpen'
<1> USE DEF DirectoryOpen, DirectoryInv
<1>1. UserTypes' /\ Underway' /\ Numbered'
  BY UserTypesKept, UnderwayKept, NumberedKept
<1> SUFFICES SeenAll' /\ Distinct(users') /\ Consistent(Open', users', AllMet')
  BY <1>1
<1>2. users' = users => SeenStays
  BY DEF SeenStays, Ids
<1>3. ASSUME NEW p \in Processes, Process(p) \/ Disturbance(p) PROVE OnlyMoves(p)
  BY <1>3, OthersStay
<1>4. ASSUME NEW p \in Processes, OnlyMoves(p), users' = users, orphans' = orphans,
             pc'[p] \notin {"wait", "commit"}, met'[p] \subseteq met[p] \cup Ids(users)
      PROVE  SeenAll' /\ Distinct(users') /\ Consistent(Open', users', AllMet')
  <2>1. ~Working(p)' /\ ~At(p, "wait")'
    BY <1>4 DEF Working, At
  <2>2. met'[p] \subseteq AllMet \cup Ids(users)
    BY <1>4 DEF AllMet
  <2>3. Consistent(Open', users', AllMet')
    BY <1>4, <2>1, <2>2, QuietConsistent
  <2>4. SeenAll'
    BY <1>2, <1>4, <2>1, SeenAllKept
  <2> QED BY <1>4, <2>3, <2>4
<1>5. ASSUME NEW p \in Processes,
             \/ Begin(p) \/ UserExists(p) \/ Query(p) \/ Refused(p) \/ Broken(p)
             \/ SchemaFails(p) \/ ConnectFails(p) \/ Restart(p)
      PROVE  SeenAll' /\ Distinct(users') /\ Consistent(Open', users', AllMet')
  <2>1. OnlyMoves(p) /\ users' = users /\ orphans' = orphans
    BY <1>3, <1>5 DEF Process, Disturbance, Begin, UserExists, Query, Refused, Broken,
                      SchemaFails, ConnectFails, Restart, store
  <2>2. pc'[p] \notin {"wait", "commit"}
    BY <1>5 DEF UserTypes, Begin, UserExists, Query, Refused, Broken, SchemaFails, ConnectFails,
                Restart, Returns, Raises, GoTo
  <2>3. met'[p] \subseteq met[p] \cup Ids(users)
    BY <1>5 DEF UserTypes, Begin, UserExists, Query, Refused, Broken, SchemaFails, ConnectFails,
                Restart, Returns, Raises, Ids, history
  <2> QED BY <1>4, <2>1, <2>2, <2>3
<1>6. ASSUME NEW p \in Processes, Statement(p)
      PROVE  SeenAll' /\ Distinct(users') /\ Consistent(Open', users', AllMet')
  <2>1. OnlyMoves(p) /\ users' = users /\ orphans' = orphans /\ met' = met /\ Call(p)' = Call(p)
    BY <1>3, <1>6 DEF Process, Statement, store, Call, Program
  <2>2. ~Working(p)'
    BY <1>6 DEF UserTypes, Statement, GoTo, Working, At
  <2>3. met'[p] \subseteq AllMet \cup Ids(users)
    BY <2>1 DEF AllMet
  <2>4. Consistent(Open', users', AllMet')
    BY <2>1, <2>2, <2>3, QuietConsistent
  <2>5. Sweeps(Call(p)) => view'[p].ids = Ids(users)
    BY <1>6 DEF UserTypes, Statement, Ids
  <2>6. Sweeps(Call(p)) => \A u \in users : u.id \in view'[p].ids
    BY <2>5 DEF Ids
  <2>7. SeenAll'
    BY <1>2, <2>1, <2>6, SeenAllKept
  <2> QED BY <2>1, <2>4, <2>7
<1>7. ASSUME NEW p \in Processes, Execute(p)
      PROVE  SeenAll' /\ Distinct(users') /\ Consistent(Open', users', AllMet')
  <2>1. /\ OnlyMoves(p) /\ users' = users /\ orphans' = orphans /\ met' = met
        /\ Call(p)' = Call(p) /\ conn' = conn
    BY <1>3, <1>7 DEF Process, Execute, store, history, Call, Program
  <2>2. /\ At(p, "wait") /\ conn[p] = "open" /\ ~Waits(p) /\ ~Collides(Changes(p))
        /\ work'[p] = Changes(p) /\ pc'[p] = "commit"
    BY <1>7 DEF UserTypes, Execute, GoTo
  <2>3. ~Working(p) /\ Working(p)' /\ ~At(p, "wait")'
    BY <2>1, <2>2 DEF Working, At
  <2> PICK t : t = Tx(p)'
    OBVIOUS
  <2>4. t.call = Call(p) /\ t.met = met[p] /\ t.work = Changes(p)
    BY <2>1, <2>2 DEF Tx
  <2>5. Sound(t, users, AllMet) /\ \A v \in OpenBut(p) : Apart(t.work, v.work)
    BY <2>2, <2>4, ChangesSound
  <2>6. Open = OpenBut(p)
    BY <2>3, OpenIs
  <2>7. Open' = Open \cup {t}
    BY <2>1, <2>3, <2>6, OpenThen DEF OpenBut
  <2>8. Consistent(Open \cup {t}, users, AllMet)
    BY <2>5, <2>6, MoreConsistent
  <2>9. AllMet' = AllMet
    BY <2>1 DEF AllMet
  <2>10. SeenAll'
    BY <1>2, <2>1, <2>3, SeenAllKept
  <2> QED BY <2>1, <2>7, <2>8, <2>9, <2>10
<1>8. ASSUME NEW p \in Processes, Commit(p)
      PROVE  SeenAll' /\ Distinct(users') /\ Consistent(Open', users', AllMet')
  <2>1. OnlyMoves(p) /\ orphans' = orphans
    BY <1>3, <1>8 DEF Process, Commit
  <2>2. Working(p) /\ users' = (users \ work[p].removed) \cup work[p].added
    BY <1>8 DEF Commit, Commits, Working
  <2>3. met'[p] = {} /\ pc'[p] \in {"finished", "ready"}
    BY <1>8 DEF UserTypes, Commit, Returns, GoTo
  <2>4. ~Working(p)' /\ ~At(p, "wait")'
    BY <2>3 DEF Working, At
  <2> PICK t : t = Tx(p)
    OBVIOUS
  <2>5. Open = OpenBut(p) \cup {t} /\ t \notin OpenBut(p) /\ t \in Open
    BY <2>2, OpenIs
  <2>6. users' = (users \ t.work.removed) \cup t.work.added
    BY <2>2 DEF Tx
  <2>7. Open \in SUBSET Transactions /\ \A v \in Open : v.met \subseteq AllMet
    BY OpenTypes
  <2>8. users \in SUBSET Users
    BY DEF UserTypes, Rows
  <2>9. Consistent(Open \ {t}, users', AllMet) /\ SeenStays
    BY <2>5, <2>6, <2>7, <2>8, CommitConsistent DEF SeenStays
  <2>10. Distinct(users')
    <3>1. t \in Transactions /\ Sound(t, users, AllMet)
      BY <2>5, <2>7 DEF Consistent
    <3> QED BY <2>6, <2>8, <3>1, WritesDistinct
  <2>11. Open' = Open \ {t}
    BY <2>1, <2>4, <2>5, OpenThen DEF OpenBut
  <2>12. AllMet' \subseteq AllMet \cup {}
    <3>1. \A o \in orphans' : o.met \subseteq AllMet
      BY <2>1 DEF AllMet
    <3> QED BY <2>1, <2>3, <3>1, MetThen
  <2>13. Consistent(Open', users', AllMet')
    BY <2>9, <2>11, <2>12, FewerConsistent
  <2>14. SeenAll'
    BY <2>1, <2>4, <2>9, SeenAllKept
  <2> QED BY <2>10, <2>13, <2>14
<1>9. ASSUME NEW p \in Processes, Lose(p)
      PROVE  SeenAll' /\ Distinct(users') /\ Consistent(Open', users', AllMet')
  <2>1. /\ OnlyMoves(p) /\ users' = users /\ met' = met /\ pc' = pc /\ view' = view
        /\ Call(p)' = Call(p) /\ conn[p] = "open"
    BY <1>3, <1>9 DEF Disturbance, Lose, history, Call, Program
  <2>2. ~Working(p)'
    BY <1>9 DEF UserTypes, Lose, Working
  <2>3. ASSUME At(p, "commit") PROVE Consistent(Open', users', AllMet')
    <3>1. Working(p) /\ orphans' = orphans \cup {Orphan(p, FALSE)}
      BY <1>9, <2>1, <2>3 DEF Lose, Working
    <3> QED BY <2>1, <2>2, <3>1, OrphanConsistent
  <2>4. ASSUME ~At(p, "commit") PROVE Consistent(Open', users', AllMet')
    <3>1. orphans' = orphans /\ met'[p] \subseteq AllMet \cup Ids(users)
      BY <1>9, <2>1, <2>4 DEF Lose, AllMet
    <3> QED BY <2>1, <2>2, <3>1, QuietConsistent
  <2>5. SeenAll'
    <3>1. At(p, "wait")' /\ Sweeps(Call(p)') =>
             \A u \in users' : u.id \in met'[p] => u.id \in view'[p].ids
      BY <2>1 DEF SeenAll, At
    <3> QED BY <1>2, <2>1, <3>1, SeenAllKept
  <2> QED BY <2>1, <2>3, <2>4, <2>5
<1>10. ASSUME NEW p \in Processes, CommitInDoubt(p)
       PROVE  SeenAll' /\ Distinct(users') /\ Consistent(Open', users', AllMet')
  <2>1. /\ OnlyMoves(p) /\ users' = users /\ Working(p)
        /\ orphans' = orphans \cup {Orphan(p, TRUE)}
    BY <1>3, <1>10 DEF Disturbance, CommitInDoubt, Working
  <2>2. pc'[p] = "failed" /\ met'[p] \subseteq met[p]
    BY <1>10 DEF UserTypes, CommitInDoubt, Raises, GoTo
  <2>3. ~Working(p)' /\ ~At(p, "wait")'
    BY <2>2 DEF Working, At
  <2>4. Consistent(Open', users', AllMet')
    BY <2>1, <2>2, <2>3, OrphanConsistent
  <2>5. SeenAll'
    BY <1>2, <2>1, <2>3, SeenAllKept
  <2> QED BY <2>1, <2>4, <2>5
<1>11. ASSUME NEW o \in orphans, Settle(o)
       PROVE  SeenAll' /\ Distinct(users') /\ Consistent(Open', users', AllMet')
  <2>1. /\ orphans' = orphans \ {o}
        /\ UNCHANGED <<setup, work, conn, pc, next, view, met>>
    BY <1>11 DEF Settle
  <2> PICK t : t = Left(o)
    OBVIOUS
  <2>2. Open' = {Tx(p) : p \in {r \in Processes : Working(r)}} \cup {Left(d) : d \in orphans'}
    BY <2>1 DEF Open, Tx, Left, Working, At, Call, Program
  <2>3. \A d \in orphans \ {o} : Left(d) # t
    BY DEF Numbered, Left
  <2>4. \A p \in Processes : Tx(p) # t
    BY DEF Tx, Left
  <2>5. Open' = Open \ {t} /\ t \in Open
    BY <2>1, <2>2, <2>3, <2>4 DEF Open
  <2>6. AllMet' \subseteq AllMet
    BY <2>1 DEF AllMet
  <2>7. users \in SUBSET Users
    BY DEF UserTypes, Rows
  <2>8. ASSUME users' = users
        PROVE  Distinct(users') /\ Consistent(Open', users', AllMet') /\ SeenStays
    <3>1. Consistent(Open', users', AllMet')
      BY <2>5, <2>6, <2>8, FewerConsistent
    <3> QED BY <1>2, <2>8, <3>1
  <2>9. ASSUME Commits(o.by, o.work)
        PROVE  Distinct(users') /\ Consistent(Open', users', AllMet') /\ SeenStays
    <3>1. users' = (users \ t.work.removed) \cup t.work.added
      BY <2>9 DEF Commits, Left
    <3>2. Open \in SUBSET Transactions /\ \A v \in Open : v.met \subseteq AllMet
      BY OpenTypes
    <3>3. Consistent(Open \ {t}, users', AllMet) /\ SeenStays
      BY <2>5, <2>7, <3>1, <3>2, CommitConsistent DEF SeenStays
    <3>4. t \in Transactions /\ Sound(t, users, AllMet)
      BY <2>5, <3>2 DEF Consistent
    <3>5. Distinct(users')
      BY <2>7, <3>1, <3>4, WritesDistinct
    <3>6. Consistent(Open', users', AllMet')
      BY <2>5, <2>6, <3>3, FewerConsistent
    <3> QED BY <3>3, <3>5, <3>6
  <2>10. Distinct(users') /\ Consistent(Open', users', AllMet') /\ SeenStays
    <3>1. users' = users \/ Commits(o.by, o.work)
      BY <1>11 DEF Settle
    <3> QED BY <1>2, <2>8, <2>9, <3>1
  <2>11. SeenAll'
    <3>1. ASSUME NEW q \in Processes, At(q, "wait")', Sweeps(Call(q)'), NEW u \in users',
                 u.id \in met'[q]
          PROVE  u.id \in view'[q].ids
      <4>1. At(q, "wait") /\ Sweeps(Call(q)) /\ u.id \in met[q]
        BY <2>1, <3>1 DEF Call, Program, At
      <4>2. u.id \in AllMet
        BY <4>1 DEF AllMet
      <4>3. PICK w \in users : w.id = u.id
        BY <2>10, <4>2 DEF SeenStays, Ids
      <4> QED BY <2>1, <4>1, <4>3 DEF SeenAll
    <3> QED BY <3>1 DEF SeenAll
  <2> QED BY <2>10, <2>11
<1> QED BY <1>5, <1>6, <1>7, <1>8, <1>9, <1>10, <1>11 DEF Next, Process, Disturbance

\* The invariant holds at the start, which is a start of the directory.
LEMMA DirectoryStarts ==
  ASSUME Init
  PROVE  DirectoryOpen /\ Directory!Init
<1> USE DEF Init
<1>0. {} \in Rows /\ {} \in IdSets /\ NoWork \in Works /\ NoView \in [ids : IdSets, table : BOOLEAN]
  BY FS_EmptySet DEF NoWork, NoView, Works, Rows, IdSets
<1>1. \A p \in Processes : ~InCall(p) /\ ~At(p, "wait") /\ ~At(p, "failed") /\ ~Working(p)
  BY DEF InCall, At, Working
<1>2. UserTypes
  <2>1. table \in BOOLEAN /\ users \in Rows
    BY SetupsAssumption DEF Rows
  <2>2. IsFiniteSet(orphans)
    BY FS_EmptySet
  <2> QED BY <1>0, <1>1, <2>1, <2>2 DEF UserTypes, Stages
<1>3. Underway
  BY DEF Underway, At
<1>4. Numbered /\ SeenAll
  BY <1>1 DEF Numbered, SeenAll
<1>5. Distinct(users)
  BY SetupsAssumption DEF Distinct
<1>6. Open = {}
  BY <1>1 DEF Open
<1>7. Consistent(Open, users, AllMet)
  BY <1>6 DEF Consistent
<1>8. Directory!Init
  BY <1>1, <1>5 DEF Distinct, Key, Directory!Init, Directory!NoDuplicates, Directory!Key
<1> QED BY <1>2, <1>3, <1>4, <1>5, <1>7, <1>8 DEF DirectoryOpen, DirectoryInv

-----------------------------------------------------------------------------
(* The steps of the directory                                              *)

\* The directory's view of the processes and the orphans.
CallOf == [p \in Processes |-> IF InCall(p) THEN Call(p) ELSE None]
Failed == {p \in Processes : At(p, "failed")}
Doubt(o) == [call |-> o.call, met |-> o.met, number |-> o.number]
Doubts == {Doubt(o) : o \in {d \in orphans : d.sent}}

\* What a step of p changes in what the directory sees.
LEMMA ViewThen ==
  ASSUME UserTypes, NEW p \in Processes, OnlyMoves(p)
  PROVE  /\ CallOf' = [CallOf EXCEPT ![p] = IF InCall(p)' THEN Call(p)' ELSE None]
         /\ Failed' = (Failed \ {p}) \cup IF At(p, "failed")' THEN {p} ELSE {}
<1>1. \A q \in Processes \ {p} : /\ InCall(q)' = InCall(q) /\ Call(q)' = Call(q)
                                 /\ At(q, "failed")' = At(q, "failed")
  BY DEF OnlyMoves, InCall, Call, Program, At
<1> QED BY <1>1 DEF CallOf, Failed

\* What a transaction has done when it commits is the effect of its call.
LEMMA CommitIsEffect ==
  ASSUME users \in SUBSET Users, Distinct(users), NEW t \in Transactions, NEW M, Sound(t, users, M),
         users' = (users \ t.work.removed) \cup t.work.added
  PROVE  Directory!Effect(t.call, t.met)
<1> PICK x \in Works, k \in KnownCalls : x = t.work /\ k = t.call
  BY DEF Transactions
<1> PICK ids : ids = t.met
  OBVIOUS
<1>1. /\ Does(k, x) /\ x.removed \subseteq users
      /\ NewIds(x) \cap (Ids(users) \cup M) = {}
      /\ Sweeps(k) => \A u \in users : u.id \in ids /\ IsMeant(k, u) => u \in x.removed
  BY DEF Sound
<1>2. Directory!NoDuplicates(users')
  <2>1. Distinct(users')
    BY WritesDistinct
  <2> QED BY <2>1 DEF Distinct, Key, Directory!NoDuplicates, Directory!Key
<1>3. users' = (users \ x.removed) \cup x.added
  OBVIOUS
<1>4. CASE k.op = "registerUser"
  <2>1. x.removed = {}
    BY <1>1, <1>4 DEF Does
  <2>2. PICK u \in Users : x.added = {u} /\ Key(u) = <<k.name, k.age>>
    BY <1>1, <1>4 DEF Does
  <2>3. u.id \in NewIds(x)
    BY <2>1, <2>2 DEF NewIds, Ids
  <2>4. u \notin users
    BY <1>1, <2>3 DEF Ids
  <2>5. u \in users' /\ users' \ {u} = users
    BY <1>3, <2>1, <2>2, <2>4
  <2>6. Directory!Key(u) = <<k.name, k.age>>
    BY <2>2 DEF Key, Directory!Key
  <2>7. Directory!Register(k)
    BY <1>2, <2>5, <2>6 DEF Directory!Register
  <2> QED BY <1>4, <2>7 DEF Directory!Effect
<1>5. CASE Sweeps(k)
  <2>1. x.removed \in SUBSET Directory!Meant(k)
    BY <1>1 DEF Does, IsMeant, Directory!Meant
  <2>2. Directory!MustMeet(k, ids) \subseteq x.removed
    BY <1>1, <1>5 DEF IsMeant, Directory!MustMeet, Directory!Meant
  <2>3. x.added = IF k.op = "increaseUserAge"
                    THEN {[u EXCEPT !.age = @ + k.years] : u \in x.removed}
                    ELSE {}
    BY <1>1, <1>5 DEF Does, Sweeps
  <2>4. users' = (users \ x.removed) \cup IF k.op = "increaseUserAge"
                    THEN {[u EXCEPT !.age = @ + k.years] : u \in x.removed}
                    ELSE {}
    BY <1>3, <2>3, Zenon
  <2>5. Directory!Sweep(k, ids)
    BY <1>2, <2>1, <2>2, <2>4 DEF Directory!Sweep
  <2> QED BY <1>5, <2>5 DEF Directory!Effect, Directory!Sweeps, Sweeps
<1>6. CASE k.op \in {"createTable", "query"}
  <2>1. users' = users
    BY <1>1, <1>3, <1>6 DEF Does
  <2> QED BY <1>6, <2>1 DEF Directory!Effect
<1> QED BY <1>4, <1>5, <1>6 DEF KnownCalls, Sweeps

\* A call that returns or raises ends for the directory too.
LEMMA EndsStep ==
  ASSUME UserTypes, NEW p \in Processes, OnlyMoves(p), InCall(p),
         pc'[p] \in {"ready", "finished", "failed"},
         met' = [met EXCEPT ![p] = {}]
  PROVE  Directory!Ends(p)
<1>1. Call(p) # None
  <2>1. Call(p) \in KnownCalls
    BY CallKnown DEF UserTypes
  <2> QED BY <2>1, SetupsAssumption
<1>2. ~InCall(p)'
  BY DEF InCall
<1>3. CallOf' = [CallOf EXCEPT ![p] = None]
  BY <1>2, ViewThen
<1>4. CallOf[p] # None
  BY <1>1 DEF CallOf
<1> QED BY <1>3, <1>4 DEF CallOf, Directory!Ends

\* A call that returns, having had its effect.
LEMMA ReturnsStep ==
  ASSUME UserTypes, NEW p \in Processes, OnlyMoves(p), InCall(p), Returns(p), orphans' = orphans,
         Directory!Effect(Call(p), met[p])
  PROVE  Directory!Returns(p)
<1>1. pc'[p] \in {"ready", "finished"} /\ met' = [met EXCEPT ![p] = {}]
  BY DEF UserTypes, Returns, GoTo
<1>2. Directory!Ends(p)
  BY <1>1, EndsStep
<1>3. Failed' = Failed
  <2>1. ~At(p, "failed") /\ ~At(p, "failed")'
    BY <1>1 DEF At, InCall
  <2> QED BY <2>1, ViewThen DEF Failed
<1>4. CallOf[p] = Call(p)
  BY DEF CallOf
<1>5. Directory!Effect(CallOf[p], met[p])
  BY <1>4
<1> QED BY <1>2, <1>3, <1>5 DEF CallOf, Failed, Directory!Returns

\* A call that raises, and leaves nothing or one doubt more.
LEMMA RaisesStep ==
  ASSUME UserTypes, NEW p \in Processes, OnlyMoves(p), InCall(p), Raises(p), users' = users,
         \/ Doubts' = Doubts
         \/ \E d : /\ d = [call |-> Call(p), met |-> met[p], number |-> d.number]
                   /\ \A e \in Doubts : e.number # d.number
                   /\ Doubts' = Doubts \cup {d}
  PROVE  Directory!Raises(p)
<1>1. pc'[p] = "failed" /\ met' = [met EXCEPT ![p] = {}]
  BY DEF UserTypes, Raises, GoTo
<1>2. Directory!Ends(p)
  BY <1>1, EndsStep
<1>3. Failed' = Failed \cup {p}
  BY <1>1, ViewThen DEF At
<1>4. CallOf[p] = Call(p)
  BY DEF CallOf
<1>5. \/ Doubts' = Doubts
      \/ \E d \in Doubts' : /\ d = [call |-> CallOf[p], met |-> met[p], number |-> d.number]
                            /\ \A e \in Doubts : e.number # d.number
                            /\ Doubts' = Doubts \cup {d}
  BY <1>4
<1> QED BY <1>2, <1>3, <1>5 DEF CallOf, Failed, Doubts, Doubt, Directory!Raises

\* Steps that the directory does not see.
LEMMA UnseenStep ==
  ASSUME UserTypes, NEW p \in Processes, OnlyMoves(p), users' = users, met' = met, Doubts' = Doubts,
         InCall(p), InCall(p)', Call(p)' = Call(p)
  PROVE  UNCHANGED Directory!vars
<1>1. ~At(p, "failed") /\ ~At(p, "failed")'
  BY DEF At, InCall
<1>2. CallOf' = CallOf
  BY ViewThen DEF CallOf
<1>3. Failed' = Failed
  BY <1>1, ViewThen DEF Failed
<1> QED BY <1>2, <1>3 DEF CallOf, Failed, Doubts, Doubt, Directory!vars

\* Every step is a step of the directory, or one it does not see.
LEMMA DirectoryFollows ==
  ASSUME DirectoryOpen, Next
  PROVE  [Directory!Next]_(Directory!vars)
<1> USE DEF DirectoryOpen, DirectoryInv
<1>1. ASSUME NEW p \in Processes, Process(p) \/ Disturbance(p) PROVE OnlyMoves(p)
  BY <1>1, OthersStay
<1>2. orphans' = orphans => Doubts' = Doubts
  BY DEF Doubts, Doubt
<1>3. ASSUME NEW p \in Processes, Begin(p) PROVE Directory!Begin(p)
  <2>1. /\ At(p, "ready") /\ pc'[p] = "call" /\ orphans' = orphans /\ users' = users
        /\ Call(p)' = Call(p) /\ OnlyMoves(p)
        /\ next[p] <= Len(Program(p)) /\ next[p] \in Nat \ {0}
        /\ met' = [met EXCEPT ![p] = IF Sweeps(Call(p)) THEN {u.id : u \in users} ELSE {}]
    BY <1>1, <1>3 DEF UserTypes, Process, Begin, GoTo, store, Call, Program
  <2>2. Call(p) \in Calls
    <3>1. Program(p) \in Seq(KnownCalls) /\ setup \in Setups
      BY SetupsAssumption DEF UserTypes, Program
    <3>2. next[p] \in DOMAIN Program(p)
      BY <2>1, <3>1
    <3>3. Call(p) \in {setup.program[p][j] : j \in DOMAIN setup.program[p]}
      BY <3>2 DEF Call, Program
    <3> DEFINE Of(s, q) == {s.program[q][j] : j \in DOMAIN s.program[q]}
               All == {Of(s, q) : s \in Setups, q \in Processes}
    <3>4. Calls = UNION All
      BY DEF Calls
    <3>5. Of(setup, p) \in All
      BY <3>1
    <3> HIDE DEF All
    <3> QED BY <3>3, <3>4, <3>5
  <2>3. CallOf[p] = None /\ p \notin Failed /\ ~At(p, "failed")' /\ InCall(p)'
    BY <2>1 DEF CallOf, Failed, InCall, At
  <2>4. CallOf' = [CallOf EXCEPT ![p] = Call(p)] /\ Failed' = Failed
    BY <2>1, <2>3, ViewThen
  <2>5. Sweeps(Call(p)) = Directory!Sweeps(Call(p))
    BY DEF Sweeps, Directory!Sweeps
  <2>6. Doubts' = Doubts
    BY <1>2, <2>1
  <2> QED BY <2>1, <2>2, <2>3, <2>4, <2>5, <2>6
          DEF CallOf, Failed, Doubts, Doubt, Directory!Begin
<1>4. ASSUME NEW p \in Processes, UserExists(p)
      PROVE  Directory!Returns(p) \/ UNCHANGED Directory!vars
  <2>1. /\ InCall(p) /\ OnlyMoves(p) /\ orphans' = orphans /\ users' = users
        /\ Call(p).op = "registerUser"
    BY <1>1, <1>4 DEF Process, UserExists, At, InCall, store
  <2>2. CASE <<Call(p).name, Call(p).age>> \in Keys(users)
    <3>1. Returns(p)
      BY <1>4, <2>2 DEF UserExists
    <3>2. \E u \in users : Directory!Key(u) = <<Call(p).name, Call(p).age>>
      BY <2>2 DEF Keys, Key, Directory!Key
    <3>3. Directory!Effect(Call(p), met[p])
      BY <2>1, <3>2 DEF Directory!Effect, Directory!Register
    <3> QED BY <2>1, <3>1, <3>3, ReturnsStep
  <2>3. CASE <<Call(p).name, Call(p).age>> \notin Keys(users)
    <3>1. pc'[p] = "insert" /\ met' = met /\ Call(p)' = Call(p)
      BY <1>4, <2>3 DEF UserTypes, UserExists, GoTo, Call, Program
    <3>2. InCall(p)'
      BY <3>1 DEF InCall
    <3> QED BY <1>2, <2>1, <3>1, <3>2, UnseenStep
  <2> QED BY <2>2, <2>3
<1>5. ASSUME NEW p \in Processes, Query(p) PROVE Directory!Returns(p)
  <2>1. InCall(p) /\ OnlyMoves(p) /\ orphans' = orphans /\ users' = users /\ Returns(p)
    BY <1>1, <1>5 DEF Process, Query, At, InCall, store
  <2>2. Directory!Effect(Call(p), met[p])
    BY <1>5, <2>1 DEF Query, Writes, Directory!Effect
  <2> QED BY <2>1, <2>2, ReturnsStep
<1>6. ASSUME NEW p \in Processes, Statement(p) \/ Execute(p) PROVE UNCHANGED Directory!vars
  <2>1. OnlyMoves(p) /\ orphans' = orphans /\ users' = users /\ met' = met /\ Call(p)' = Call(p)
    BY <1>1, <1>6 DEF Process, Statement, Execute, store, history, Call, Program
  <2>2. InCall(p) /\ InCall(p)'
    BY <1>6 DEF UserTypes, Statement, Execute, At, GoTo, InCall
  <2> QED BY <1>2, <2>1, <2>2, UnseenStep
<1>7. ASSUME NEW p \in Processes, Refused(p) \/ Broken(p) \/ SchemaFails(p) \/ ConnectFails(p)
      PROVE  Directory!Raises(p)
  <2>1. OnlyMoves(p) /\ orphans' = orphans /\ users' = users /\ Raises(p) /\ InCall(p)
    BY <1>1, <1>7 DEF Process, Disturbance, Refused, Broken, SchemaFails, ConnectFails, store,
                      At, InCall
  <2> QED BY <1>2, <2>1, RaisesStep
<1>8. ASSUME NEW p \in Processes, Commit(p) PROVE Directory!Returns(p)
  <2>1. /\ OnlyMoves(p) /\ orphans' = orphans /\ Returns(p) /\ InCall(p) /\ Working(p)
        /\ users' = (users \ work[p].removed) \cup work[p].added
    BY <1>1, <1>8 DEF Process, Commit, Commits, At, InCall, Working
  <2>2. Tx(p) \in Open
    BY <2>1 DEF Open
  <2>3. Tx(p) \in Transactions /\ Sound(Tx(p), users, AllMet)
    BY <2>2, OpenTypes DEF Consistent
  <2>4. Tx(p).call = Call(p) /\ Tx(p).met = met[p] /\ Tx(p).work = work[p]
    BY DEF Tx
  <2>5. users \in SUBSET Users
    BY DEF UserTypes, Rows
  <2>6. users' = (users \ Tx(p).work.removed) \cup Tx(p).work.added
    BY <2>1, <2>4
  <2>7. Directory!Effect(Tx(p).call, Tx(p).met)
    BY <2>3, <2>5, <2>6, CommitIsEffect
  <2> QED BY <2>1, <2>4, <2>7, ReturnsStep
<1>9. ASSUME NEW p \in Processes, Lose(p)
      PROVE  UNCHANGED Directory!vars
  <2>1. OnlyMoves(p) /\ users' = users /\ met' = met /\ pc' = pc /\ next' = next /\ setup' = setup
    BY <1>1, <1>9 DEF Disturbance, Lose, history
  <2>2. Doubts' = Doubts
    <3>1. orphans' = orphans \/ orphans' = orphans \cup {Orphan(p, FALSE)}
      BY <1>9 DEF Lose
    <3>2. {o \in orphans' : o.sent} = {o \in orphans : o.sent}
      BY <3>1 DEF Orphan
    <3> QED BY <3>2 DEF Doubts, Doubt
  <2>3. CallOf' = CallOf /\ Failed' = Failed
    BY <2>1 DEF CallOf, Failed, InCall, Call, Program, At
  <2> QED BY <2>1, <2>2, <2>3 DEF CallOf, Failed, Doubts, Doubt, Directory!vars
<1>10. ASSUME NEW p \in Processes, CommitInDoubt(p) PROVE Directory!Raises(p)
  <2>1. /\ OnlyMoves(p) /\ users' = users /\ InCall(p) /\ Raises(p)
        /\ orphans' = orphans \cup {Orphan(p, TRUE)}
    BY <1>1, <1>10 DEF Disturbance, CommitInDoubt, At, InCall
  <2> PICK d : d = Doubt(Orphan(p, TRUE))
    OBVIOUS
  <2>2. d = [call |-> Call(p), met |-> met[p], number |-> lost]
    BY DEF Doubt, Orphan
  <2>3. Doubts' = Doubts \cup {d}
    <3>1. {o \in orphans' : o.sent} = {o \in orphans : o.sent} \cup {Orphan(p, TRUE)}
      BY <2>1 DEF Orphan
    <3>2. Doubts' = {Doubt(o) : o \in {c \in orphans' : c.sent}}
      BY DEF Doubts, Doubt
    <3> QED BY <3>1, <3>2 DEF Doubts
  <2>4. \A e \in Doubts : e.number # lost
    BY DEF UserTypes, Orphans, Numbered, Doubts, Doubt
  <2>5. d.number = lost
    BY DEF Doubt, Orphan
  <2>6. d = [call |-> Call(p), met |-> met[p], number |-> d.number]
    BY <2>2, <2>5, Zenon
  <2> QED BY <2>1, <2>3, <2>4, <2>5, <2>6, RaisesStep
<1>11. ASSUME NEW p \in Processes, Restart(p) PROVE Directory!Recovers(p)
  <2>1. /\ OnlyMoves(p) /\ orphans' = orphans /\ users' = users /\ met' = met
        /\ pc[p] = "failed" /\ pc'[p] = "ready"
    BY <1>1, <1>11 DEF UserTypes, Disturbance, Restart, store, history, At, GoTo
  <2>2. ~InCall(p) /\ ~InCall(p)' /\ ~At(p, "failed")' /\ p \in Failed
    BY <2>1 DEF InCall, At, Failed
  <2>3. CallOf' = CallOf /\ Failed' = Failed \ {p}
    BY <2>1, <2>2, ViewThen DEF CallOf
  <2> QED BY <1>2, <2>1, <2>2, <2>3 DEF CallOf, Failed, Doubts, Doubt, Directory!Recovers
<1>12. ASSUME NEW o \in orphans, Settle(o)
       PROVE  UNCHANGED Directory!vars \/ (o.sent /\ Directory!Settles(Doubt(o)))
  <2>1. orphans' = orphans \ {o} /\ UNCHANGED <<setup, pc, next, met>>
    BY <1>12 DEF Settle
  <2>2. CallOf' = CallOf /\ Failed' = Failed
    BY <2>1 DEF CallOf, Failed, InCall, Call, Program, At
  <2>3. CASE ~o.sent
    <3>1. {d \in orphans' : d.sent} = {d \in orphans : d.sent}
      BY <2>1, <2>3
    <3>2. Doubts' = Doubts
      BY <3>1 DEF Doubts, Doubt
    <3>3. users' = users
      BY <1>12, <2>3 DEF Settle
    <3> QED BY <2>1, <2>2, <3>2, <3>3 DEF CallOf, Failed, Doubts, Doubt, Directory!vars
  <2>4. CASE o.sent
    <3>1. \A d \in orphans \ {o} : Doubt(d) # Doubt(o)
      BY DEF Numbered, Doubt
    <3>2. Doubts' = {Doubt(d) : d \in {c \in orphans' : c.sent}}
      BY DEF Doubts, Doubt
    <3>3. Doubts' = Doubts \ {Doubt(o)}
      BY <2>1, <3>1, <3>2 DEF Doubts
    <3>4. Directory!Effect(o.call, o.met) \/ users' = users
      <4>1. CASE Commits(o.by, o.work)
        <5>1. Left(o) \in Open
          BY DEF Open
        <5>2. Left(o) \in Transactions /\ Sound(Left(o), users, AllMet)
          BY <5>1, OpenTypes DEF Consistent
        <5>3. Left(o).call = o.call /\ Left(o).met = o.met /\ Left(o).work = o.work
          BY DEF Left
        <5>4. users \in SUBSET Users
          BY DEF UserTypes, Rows
        <5>5. users' = (users \ Left(o).work.removed) \cup Left(o).work.added
          BY <4>1, <5>3 DEF Commits
        <5>6. Directory!Effect(Left(o).call, Left(o).met)
          BY <5>2, <5>4, <5>5, CommitIsEffect
        <5> QED BY <5>3, <5>6
      <4> QED BY <1>12, <4>1 DEF Settle
    <3>5. Doubt(o).call = o.call /\ Doubt(o).met = o.met
      BY DEF Doubt
    <3>6. Directory!Effect(Doubt(o).call, Doubt(o).met) \/ users' = users
      BY <3>4, <3>5
    <3>7. Directory!Settles(Doubt(o))
      BY <2>1, <2>2, <3>3, <3>6 DEF CallOf, Failed, Doubts, Doubt, Directory!Settles
    <3> QED BY <2>4, <3>7
  <2> QED BY <2>3, <2>4, <1>12
<1>13. ASSUME NEW p \in Processes, Process(p) \/ Disturbance(p)
       PROVE  \/ UNCHANGED Directory!vars
              \/ Directory!Begin(p) \/ Directory!Returns(p)
              \/ Directory!Raises(p) \/ Directory!Recovers(p)
  BY <1>3, <1>4, <1>5, <1>6, <1>7, <1>8, <1>9, <1>10, <1>11, <1>13 DEF Process, Disturbance
<1>14. ASSUME NEW o \in orphans, Settle(o) PROVE [Directory!Next]_(Directory!vars)
  <2>1. o.sent => Doubt(o) \in Doubts
    BY DEF Doubts
  <2> QED BY <1>12, <1>14, <2>1 DEF Doubts, Doubt, Directory!Next
<1> QED BY <1>13, <1>14 DEF Next, Directory!Next

\* The same, beside the other programs.
LEMMA DirectoryNext ==
  ASSUME DirectoryOpen, [MCNext]_allVars
  PROVE  DirectoryOpen' /\ [Directory!Next]_(Directory!vars)
<1>1. Next \/ UNCHANGED vars
  BY DEF MCNext, ButHttp, ButEcho, ButRedis, ButStriped, allVars
<1>2. CASE Next
  BY <1>2, DirectoryStep, DirectoryFollows
<1>3. CASE UNCHANGED vars
  <2>1. UNCHANGED <<setup, table, users, work, orphans, conn, pc, next, view, lost, met>>
    BY <1>3 DEF vars
  <2>2. UserTypes' /\ Underway' /\ Numbered' /\ SeenAll'
    BY <2>1 DEF DirectoryOpen, DirectoryInv, UserTypes, Underway, Numbered, SeenAll,
                InCall, At, Call, Program
  <2>3. Open' = Open /\ AllMet' = AllMet
    BY <2>1 DEF Open, AllMet, Tx, Left, Working, At, Call, Program
  <2>4. DirectoryOpen'
    BY <2>1, <2>2, <2>3 DEF DirectoryOpen, DirectoryInv
  <2>5. UNCHANGED Directory!vars
    BY <2>1 DEF Directory!vars, InCall, At, Call, Program
  <2> QED BY <2>4, <2>5
<1> QED BY <1>1, <1>2, <1>3

\* For every number of processes and whatever programs they run: a call of UserService
\* that returns has done what it is for, once, though registerUser asks and inserts in
\* two transactions; one that raises has done nothing, unless its connection was lost
\* in the commit.
THEOREM DirectoryKept == MCSpec => ImplementsDirectory
<1>1. MCInit => DirectoryOpen /\ Directory!Init
  BY DirectoryStarts DEF MCInit
<1> QED BY <1>1, DirectoryNext, PTL DEF MCSpec, ImplementsDirectory, Directory!Spec
-----------------------------------------------------------------------------
(* User_Manager's main, by itself                                          *)

IsMain(p) == Program(p) = MainProgram
Healthy(p) == conn[p] # "broken" /\ pc[p] # "failed"

\* p's call number n has its locks, or is over.
Past(p, n) == next[p] > n \/ (next[p] = n /\ At(p, "commit"))

\* The users at call number n, and what getUserCount has returned by then.
MainKeys(n) ==
  (IF n \in 4..21 THEN {<<"Alice", 25>>} ELSE {})
  \cup (IF n >= 22 THEN {<<"Alice", 30>>} ELSE {})
  \cup (IF n \in 5..24 THEN {<<"Bob", 30>>} ELSE {})
  \cup (IF n >= 6 THEN {<<"Charlie", 35>>} ELSE {})
  \cup (IF n >= 8 THEN {<<"David", 28>>} ELSE {})
  \cup (IF n >= 9 THEN {<<"Eve", 22>>} ELSE {})
MainCounts(n) == CASE n <= 18 -> <<>>
                   [] n \in 19..26 -> <<5>>
                   [] n \in 27..28 -> <<5, 4>>
                   [] n \in 29..30 -> <<5, 4, 4>>
                   [] OTHER -> <<5, 4, 4, 4>>

\* The table is locked against createTable by all others, and against all others by it.
TableLocks == /\ \A p \in Processes : Working(p) => (work[p].ddl <=> Call(p).op = "createTable")
              /\ \A o \in orphans : o.work.ddl <=> o.call.op = "createTable"

\* A transaction of an earlier run is over when this one clears the table.
NoPast(p) == /\ Past(p, 1) => \A o \in orphans : o.by = p => o.call.op = "createTable"
             /\ Past(p, 2) => \A o \in orphans : o.by # p

\* What p alone on the table finds there.
FindsOwn(p) ==
  /\ next[p] >= 3 => Keys(users) = MainKeys(next[p]) /\ counts[p] = MainCounts(next[p])
  /\ At(p, "wait") /\ Sweeps(Call(p)) => Ids(users) \subseteq view[p].ids
  /\ At(p, "commit") /\ Sweeps(Call(p)) => work[p].removed = {u \in users : IsMeant(Call(p), u)}
  /\ next[p] >= 3 /\ pc[p] \in {"insert", "wait", "commit"} /\ Call(p).op = "registerUser" =>
       <<Call(p).name, Call(p).age>> \notin Keys(users)

\* p is in createTable, which does not get to read schema.sql.
Unread(p) == Call(p) = createTable /\ ~setup.schema

MainWay(p) ==
  /\ conn[p] = "broken" => lost > 0
  /\ At(p, "failed") => lost > 0 \/ disturbed[p] \/ Unread(p)
  /\ At(p, "finished") => next[p] = 31 /\ conn[p] = "open"
  /\ next[p] <= 31
  /\ next[p] <= 2 => counts[p] = <<>>
  /\ At(p, "wait") /\ next[p] = 1 /\ ~disturbed[p] => view[p].table = table \/ lost > 0
  /\ Healthy(p) => NoPast(p)
  /\ Healthy(p) /\ ~disturbed[p] => FindsOwn(p)

MainTypes == disturbed \in [Processes -> BOOLEAN] /\ counts \in [Processes -> Seq(Nat)]
MainInv == MainTypes /\ TableLocks /\ \A p \in Processes : IsMain(p) => MainWay(p)

\* main's program, call by call.
MainCall(n) == CASE n = 1 -> createTable [] n = 2 -> clearUsers
                 [] n \in {3, 6} -> registerUser("Alice", 25) [] n = 4 -> registerUser("Bob", 30)
                 [] n = 5 -> registerUser("Charlie", 35) [] n = 7 -> registerUser("David", 28)
                 [] n = 8 -> registerUser("Eve", 22) [] n = 21 -> increaseUserAge("Alice", 5)
                 [] n = 24 -> deleteUserByName("Bob") [] n \in {27, 29} -> registerUser("Alice", 30)
                 [] n \in {18, 26, 28, 30} -> getUserCount [] OTHER -> select

\* s is the first n calls of main's program.
Begins(s, n, S) == s \in Seq(S) /\ Len(s) = n /\ \A j \in 1..n : s[j] = MainCall(j)

Continues(t, m, n, S) == t \in Seq(S) /\ Len(t) = n /\ \A j \in 1..n : t[j] = MainCall(m + j)

\* Another part of main's program behind its beginning.
LEMMA BeginsLonger ==
  ASSUME NEW S, NEW s, NEW m \in Nat, Begins(s, m, S), NEW t, NEW k \in Nat, Continues(t, m, k, S)
  PROVE  Begins(s \o t, m + k, S)
<1>1. s \in Seq(S) /\ Len(s) = m /\ t \in Seq(S) /\ Len(t) = k
  BY DEF Begins, Continues
<1>2. /\ s \o t \in Seq(S) /\ Len(s \o t) = m + k
      /\ \A j \in 1..m : (s \o t)[j] = s[j]
      /\ \A j \in m + 1..m + k : (s \o t)[j] = t[j - m]
  <2>1. s \o t \in Seq(S) /\ Len(s \o t) = m + k
    BY <1>1, ConcatProperties
  <2>2. \A j \in 1..m + k : (s \o t)[j] = IF j <= m THEN s[j] ELSE t[j - m]
    BY <1>1, ConcatProperties
  <2>3. /\ \A j \in 1..m : j \in 1..m + k /\ j <= m
        /\ \A j \in m + 1..m + k : j \in 1..m + k /\ ~(j <= m)
    OBVIOUS
  <2> QED BY <2>1, <2>2, <2>3
<1>3. \A j \in 1..m : s[j] = MainCall(j)
  BY DEF Begins
<1>4. \A j \in m + 1..m + k : t[j - m] = MainCall(j)
  <2>1. \A j \in 1..k : t[j] = MainCall(m + j)
    BY DEF Continues
  <2>2. \A j \in m + 1..m + k : j - m \in 1..k /\ m + (j - m) = j
    OBVIOUS
  <2> QED BY <2>1, <2>2
<1>5. \A j \in 1..m + k : j \in 1..m \/ j \in m + 1..m + k
  OBVIOUS
<1>6. \A j \in 1..m + k : (s \o t)[j] = MainCall(j)
  BY <1>2, <1>3, <1>4, <1>5, Zenon
<1> QED BY <1>2, <1>6 DEF Begins

\* The parts of main's program, put together.
LEMMA MainCalls ==
  Len(MainProgram) = 30 /\ \A n \in 1..30 : MainProgram[n] = MainCall(n)
<1> DEFINE S == {MainCall(n) : n \in 1..30}
<1>1. \A n \in 1..30 : MainCall(n) \in S
  OBVIOUS
<1> HIDE DEF S
<1> DEFINE Selects(m, n) == \A j \in 1..n : MainCall(m + j) = select
<1>2. ASSUME NEW m \in Nat, NEW n \in Nat, Selects(m, n), m + n <= 30, n > 0
      PROVE  Continues(Queries(n), m, n, S)
  <2>1. select \in S
    <3>1. MainCall(m + 1) = select /\ m + 1 \in 1..30
      BY <1>2
    <3> QED BY <1>1, <3>1
  <2>2. Queries(n) \in Seq(S) /\ Len(Queries(n)) = n /\ \A j \in 1..n : Queries(n)[j] = select
    BY <2>1 DEF Queries
  <2> QED BY <1>2, <2>2 DEF Continues
<1>3. ASSUME NEW m \in 0..29, NEW c, MainCall(m + 1) = c
      PROVE  Continues(<<c>>, m, 1, S)
  <2>1. c \in S
    BY <1>1, <1>3
  <2> QED BY <1>3, <2>1 DEF Continues
<1> DEFINE s1 == <<createTable, clearUsers,
             registerUser("Alice", 25), registerUser("Bob", 30), registerUser("Charlie", 35),
             registerUser("Alice", 25), registerUser("David", 28), registerUser("Eve", 22)>>
           s9 == <<getUserCount, registerUser("Alice", 30), getUserCount,
                   registerUser("Alice", 30), getUserCount>>
<1>4. Begins(s1, 8, S)
  <2>1. \A n \in 1..8 : s1[n] = MainCall(n)
    BY DEF MainCall
  <2>2. Len(s1) = 8 /\ s1 = [n \in 1..8 |-> s1[n]]
    OBVIOUS
  <2> HIDE DEF s1
  <2>3. \A n \in 1..8 : s1[n] \in S
    BY <1>1, <2>1
  <2>4. s1 \in Seq(S)
    BY <2>2, <2>3
  <2> QED BY <2>1, <2>2, <2>4 DEF Begins
<1>5. Continues(s9, 25, 5, S)
  <2>1. \A n \in 1..5 : s9[n] = MainCall(25 + n)
    BY DEF MainCall
  <2>2. Len(s9) = 5 /\ s9 = [n \in 1..5 |-> s9[n]]
    OBVIOUS
  <2> HIDE DEF s9
  <2>3. \A n \in 1..5 : s9[n] \in S
    BY <1>1, <2>1
  <2>4. s9 \in Seq(S)
    BY <2>2, <2>3
  <2> QED BY <2>1, <2>2, <2>4 DEF Continues
<1> DEFINE s2 == s1 \o Queries(9)
           s3 == s2 \o <<getUserCount>>
           s4 == s3 \o Queries(2)
           s5 == s4 \o <<increaseUserAge("Alice", 5)>>
           s6 == s5 \o Queries(2)
           s7 == s6 \o <<deleteUserByName("Bob")>>
           s8 == s7 \o Queries(1)
<1>6. MainProgram = s8 \o s9
  BY DEF MainProgram
<1>7. /\ Selects(8, 9) /\ Selects(18, 2) /\ Selects(21, 2) /\ Selects(24, 1)
      /\ MainCall(17 + 1) = getUserCount /\ MainCall(20 + 1) = increaseUserAge("Alice", 5)
      /\ MainCall(23 + 1) = deleteUserByName("Bob")
  BY DEF MainCall
<1> HIDE DEF Selects
<1>8. /\ Continues(Queries(9), 8, 9, S) /\ Continues(<<getUserCount>>, 17, 1, S)
      /\ Continues(Queries(2), 18, 2, S) /\ Continues(<<increaseUserAge("Alice", 5)>>, 20, 1, S)
      /\ Continues(Queries(2), 21, 2, S) /\ Continues(<<deleteUserByName("Bob")>>, 23, 1, S)
      /\ Continues(Queries(1), 24, 1, S)
  <2>1. Continues(Queries(9), 8, 9, S)
    BY <1>2, <1>7
  <2>2. Continues(Queries(2), 18, 2, S)
    BY <1>2, <1>7
  <2>3. Continues(Queries(2), 21, 2, S)
    BY <1>2, <1>7
  <2>4. Continues(Queries(1), 24, 1, S)
    BY <1>2, <1>7
  <2>5. Continues(<<getUserCount>>, 17, 1, S)
    BY <1>3, <1>7
  <2>6. Continues(<<increaseUserAge("Alice", 5)>>, 20, 1, S)
    BY <1>3, <1>7
  <2>7. Continues(<<deleteUserByName("Bob")>>, 23, 1, S)
    BY <1>3, <1>7
  <2> QED BY <2>1, <2>2, <2>3, <2>4, <2>5, <2>6, <2>7
<1> HIDE DEF s1, s9
<1>9. Begins(s2, 17, S)
  <2>1. Begins(s2, 8 + 9, S)
    BY <1>4, <1>8, BeginsLonger
  <2> QED BY <2>1
<1> HIDE DEF s2
<1>10. Begins(s3, 18, S)
  <2>1. Begins(s3, 17 + 1, S)
    BY <1>8, <1>9, BeginsLonger
  <2> QED BY <2>1
<1> HIDE DEF s3
<1>11. Begins(s4, 20, S)
  <2>1. Begins(s4, 18 + 2, S)
    BY <1>8, <1>10, BeginsLonger
  <2> QED BY <2>1
<1> HIDE DEF s4
<1>12. Begins(s5, 21, S)
  <2>1. Begins(s5, 20 + 1, S)
    BY <1>8, <1>11, BeginsLonger
  <2> QED BY <2>1
<1> HIDE DEF s5
<1>13. Begins(s6, 23, S)
  <2>1. Begins(s6, 21 + 2, S)
    BY <1>8, <1>12, BeginsLonger
  <2> QED BY <2>1
<1> HIDE DEF s6
<1>14. Begins(s7, 24, S)
  <2>1. Begins(s7, 23 + 1, S)
    BY <1>8, <1>13, BeginsLonger
  <2> QED BY <2>1
<1> HIDE DEF s7
<1>15. Begins(s8, 25, S)
  <2>1. Begins(s8, 24 + 1, S)
    BY <1>8, <1>14, BeginsLonger
  <2> QED BY <2>1
<1> HIDE DEF s8
<1>16. Begins(MainProgram, 30, S)
  <2>1. Begins(s8 \o s9, 25 + 5, S)
    BY <1>5, <1>15, BeginsLonger
  <2> QED BY <1>6, <2>1
<1> QED BY <1>16 DEF Begins

\* What call k makes of the keys K.
KeysAfter(k, K) ==
  CASE k.op = "registerUser" -> K \cup {<<k.name, k.age>>}
    [] k.op = "increaseUserAge" ->
         {<<y[1], IF y[1] = k.name THEN y[2] + k.years ELSE y[2]>> : y \in K}
    [] k.op = "deleteUserByName" -> {y \in K : y[1] # k.name}
    [] k.op = "clearUsers" -> {}
    [] OTHER -> K

\* The calls of main and the users that they leave, one by one.
LEMMA MainKeysAfter ==
  ASSUME NEW n \in 3..30
  PROVE  MainKeys(n + 1) = KeysAfter(MainCall(n), MainKeys(n))
<1>0. \/ n \in {3, 6} \/ n = 4 \/ n = 5 \/ n = 7 \/ n = 8 \/ n = 21 \/ n = 24 \/ n \in {27, 29}
      \/ n \in 9..20 \cup {22, 23, 25, 26, 28, 30}
  OBVIOUS
<1>1. CASE n \in 9..20 \cup {22, 23, 25, 26, 28, 30}
  <2>1. MainCall(n).op = "query"
    BY <1>1 DEF MainCall, select, getUserCount
  <2>2. MainKeys(n + 1) = MainKeys(n)
    BY <1>1 DEF MainKeys
  <2> QED BY <2>1, <2>2 DEF KeysAfter
<1> USE DEF MainCall, registerUser, increaseUserAge, deleteUserByName, select, getUserCount,
            KeysAfter, MainKeys
<1>2. CASE n \in {3, 6}
  <2>1. CASE n = 3
    BY <2>1
  <2>2. CASE n = 6
    BY <2>2
  <2> QED BY <1>2, <2>1, <2>2
<1>3. CASE n = 4
  BY <1>3
<1>4. CASE n = 5
  BY <1>4
<1>5. CASE n = 7
  BY <1>5
<1>6. CASE n = 8
  BY <1>6
<1>7. CASE n \in {27, 29}
  BY <1>7
<1>8. CASE n = 21
  BY <1>8
<1>9. CASE n = 24
  BY <1>9
<1> HIDE DEF MainCall, KeysAfter, MainKeys
<1> QED BY <1>0, <1>1, <1>2, <1>3, <1>4, <1>5, <1>6, <1>7, <1>8, <1>9

\* main's ages fit, and an older Alice finds her place free.
LEMMA MainFits ==
  ASSUME NEW n \in 3..30
  PROVE  /\ MainCall(n).op = "registerUser" => MainCall(n).age \in 1..35
         /\ MainCall(n).op = "increaseUserAge" =>
              \A y \in MainKeys(n) : y[1] = MainCall(n).name =>
                /\ y[2] + MainCall(n).years \in 1..35
                /\ <<y[1], y[2] + MainCall(n).years>> \notin MainKeys(n)
         /\ MainCall(n).op # "createTable"
<1> USE DEF MainCall, registerUser, increaseUserAge, deleteUserByName, select, getUserCount
<1>1. CASE n = 21
  BY <1>1 DEF MainKeys
<1>2. CASE n # 21
  BY <1>2
<1> QED BY <1>1, <1>2

\* How many users main has when it counts them.
LEMMA MainSizes ==
  /\ \A m \in 9..18 : Cardinality(MainKeys(m)) = 5
  /\ \A m \in 25..31 : MainKeys(m) = Remaining
  /\ Cardinality(Remaining) = 4
<1> DEFINE A == {<<"Charlie", 35>>}
           B == A \cup {<<"David", 28>>}
           C == B \cup {<<"Eve", 22>>}
           D == C \cup {<<"Alice", 30>>}
           E == C \cup {<<"Alice", 25>>}
           F == E \cup {<<"Bob", 30>>}
<1>1. IsFiniteSet(A) /\ Cardinality(A) = 1
  BY FS_Singleton
<1>2. IsFiniteSet(B) /\ Cardinality(B) = 2
  <2>1. <<"David", 28>> \notin A
    OBVIOUS
  <2> HIDE DEF A
  <2> QED BY <1>1, <2>1, FS_AddElement
<1>3. IsFiniteSet(C) /\ Cardinality(C) = 3
  <2>1. <<"Eve", 22>> \notin B
    OBVIOUS
  <2> HIDE DEF B
  <2> QED BY <1>2, <2>1, FS_AddElement
<1>4. Cardinality(D) = 4
  <2>1. <<"Alice", 30>> \notin C
    OBVIOUS
  <2> HIDE DEF C
  <2> QED BY <1>3, <2>1, FS_AddElement
<1>5. IsFiniteSet(E) /\ Cardinality(E) = 4
  <2>1. <<"Alice", 25>> \notin C
    OBVIOUS
  <2> HIDE DEF C
  <2> QED BY <1>3, <2>1, FS_AddElement
<1>6. Cardinality(F) = 5
  <2>1. <<"Bob", 30>> \notin E
    OBVIOUS
  <2> HIDE DEF E
  <2> QED BY <1>5, <2>1, FS_AddElement
<1>7. \A m \in 9..18 : MainKeys(m) = F
  BY DEF MainKeys
<1>8. Remaining = D
  BY DEF Remaining
<1>9. \A m \in 25..31 : MainKeys(m) = D
  BY DEF MainKeys
<1> HIDE DEF D, F
<1> QED BY <1>4, <1>6, <1>7, <1>8, <1>9

\* main's counts.
LEMMA MainCountsAfter ==
  ASSUME NEW n \in 3..30
  PROVE  MainCounts(n + 1) = IF MainCall(n) = getUserCount
                               THEN Append(MainCounts(n), Cardinality(MainKeys(n)))
                               ELSE MainCounts(n)
<1>1. CASE n \in {18, 26, 28, 30}
  <2>1. MainCall(n) = getUserCount
    BY <1>1 DEF MainCall
  <2>2. MainCounts(n + 1) = Append(MainCounts(n), Cardinality(MainKeys(n)))
    <3>1. CASE n = 18
      BY MainSizes, <3>1 DEF MainCounts
    <3>2. CASE n = 26
      BY MainSizes, <3>2 DEF MainCounts
    <3>3. CASE n = 28
      BY MainSizes, <3>3 DEF MainCounts
    <3>4. CASE n = 30
      BY MainSizes, <3>4 DEF MainCounts
    <3> QED BY <1>1, <3>1, <3>2, <3>3, <3>4
  <2> QED BY <2>1, <2>2
<1>2. CASE n \notin {18, 26, 28, 30}
  <2>1. MainCall(n).op # "query" \/ MainCall(n).counts = FALSE
    BY <1>2 DEF MainCall, createTable, clearUsers, registerUser, increaseUserAge, deleteUserByName,
                select
  <2>2. MainCall(n) # getUserCount
    BY <2>1 DEF getUserCount
  <2>3. MainCounts(n + 1) = MainCounts(n)
    <3>1. CASE n < 18
      <4>1. MainCounts(n) = <<>>
        BY <3>1 DEF MainCounts
      <4>2. MainCounts(n + 1) = <<>>
        BY <3>1 DEF MainCounts
      <4> QED BY <4>1, <4>2
    <3>2. CASE n \in 19..25
      BY <3>2 DEF MainCounts
    <3>3. CASE n = 27
      BY <3>3 DEF MainCounts
    <3>4. CASE n = 29
      BY <3>4 DEF MainCounts
    <3> QED BY <1>2, <3>1, <3>2, <3>3, <3>4
  <2> QED BY <2>2, <2>3
<1> QED BY <1>1, <1>2

\* What a committed call makes of the keys in the table, if it has met all its users.
LEMMA CommitKeys ==
  ASSUME NEW U \in SUBSET Users, NEW k \in KnownCalls, NEW x \in Works, Does(k, x),
         Sweeps(k) => x.removed = {u \in U : IsMeant(k, u)}
  PROVE  Keys((U \ x.removed) \cup x.added) = KeysAfter(k, Keys(U))
<1> PICK V : V = (U \ x.removed) \cup x.added
  OBVIOUS
<1>1. CASE k.op = "registerUser"
  <2>1. PICK u \in Users : x.added = {u} /\ Key(u) = <<k.name, k.age>>
    BY <1>1 DEF Does
  <2>2. V = U \cup {u}
    BY <1>1, <2>1 DEF Does
  <2>3. Keys(V) = Keys(U) \cup {<<k.name, k.age>>}
    BY <2>1, <2>2 DEF Keys
  <2> QED BY <1>1, <2>3 DEF KeysAfter
<1>2. CASE k.op = "increaseUserAge"
  <2> DEFINE Older(u) == [u EXCEPT !.age = @ + k.years]
             After(y) == <<y[1], IF y[1] = k.name THEN y[2] + k.years ELSE y[2]>>
  <2>1. x.removed = {u \in U : u.name = k.name} /\ x.added = {Older(u) : u \in x.removed}
    BY <1>2 DEF Does, Sweeps, IsMeant
  <2>2. \A u \in U : u.name = k.name => Key(Older(u)) = After(Key(u))
    BY DEF Key, Users
  <2>3. \A u \in U : u.name # k.name => Key(u) = After(Key(u))
    BY DEF Key, Users
  <2> HIDE DEF Older, After
  <2>4. Keys(V) = {Key(u) : u \in U \ x.removed} \cup {Key(Older(u)) : u \in x.removed}
    BY <2>1 DEF Keys
  <2>5. Keys(V) = {After(Key(u)) : u \in U}
    BY <2>1, <2>2, <2>3, <2>4
  <2>6. Keys(V) = {After(y) : y \in Keys(U)}
    BY <2>5 DEF Keys
  <2> QED BY <1>2, <2>6 DEF KeysAfter, After
<1>3. CASE k.op = "deleteUserByName"
  <2>1. V = {u \in U : u.name # k.name}
    BY <1>3 DEF Does, Sweeps, IsMeant
  <2>2. Keys(V) = {y \in Keys(U) : y[1] # k.name}
    BY <2>1 DEF Keys, Key
  <2> QED BY <1>3, <2>2 DEF KeysAfter
<1>4. CASE k.op = "clearUsers"
  <2>1. V = {}
    BY <1>4 DEF Does, Sweeps, IsMeant
  <2> QED BY <1>4, <2>1 DEF KeysAfter, Keys
<1>5. CASE k.op \in {"createTable", "query"}
  <2>1. V = U
    BY <1>5 DEF Does
  <2> QED BY <1>5, <2>1 DEF KeysAfter
<1> QED BY <1>1, <1>2, <1>3, <1>4, <1>5 DEF KnownCalls

\* There are as many users as keys, when no user is a duplicate.
LEMMA KeyCount ==
  ASSUME NEW U, IsFiniteSet(U), Distinct(U)
  PROVE  Cardinality(Keys(U)) = Cardinality(U)
<1> DEFINE f == [u \in U |-> Key(u)]
<1>1. f \in Bijection(U, Keys(U))
  <2>1. f \in Injection(U, Keys(U))
    BY DEF Distinct, Keys, Injection, IsInjective
  <2>2. f \in Surjection(U, Keys(U))
    BY DEF Keys, Surjection
  <2> QED BY <2>1, <2>2 DEF Bijection
<1>2. ExistsBijection(U, Keys(U))
  BY <1>1 DEF ExistsBijection
<1> QED BY <1>2, FS_Bijection

\* What a statement writes, and locks.
LEMMA ChangesAre ==
  ASSUME UserTypes, NEW p \in Processes, Call(p) \in KnownCalls, Writes(Call(p))
  PROVE  /\ Changes(p).ddl <=> Call(p).op = "createTable"
         /\ Changes(p).creates <=> Call(p).op = "createTable" /\ ~view[p].table
         /\ Sweeps(Call(p)) => Changes(p).removed = Hit(p)
         /\ \A u \in Changes(p).added :
              \/ Call(p).op = "registerUser" /\ Key(u) = <<Call(p).name, Call(p).age>>
              \/ /\ Call(p).op = "increaseUserAge"
                 /\ \E v \in users : /\ v.name = Call(p).name
                                     /\ Key(u) = <<v.name, v.age + Call(p).years>>
<1> PICK k : k = Call(p)
  OBVIOUS
<1>1. CASE k.op = "registerUser"
  <2> DEFINE u == [id |-> FreshId, name |-> k.name, age |-> k.age]
  <2>1. Changes(p) = [NoWork EXCEPT !.added = {u}]
    BY <1>1 DEF Changes
  <2>2. Key(u) = <<k.name, k.age>>
    BY DEF Key
  <2> QED BY <1>1, <2>1, <2>2 DEF NoWork, Sweeps
<1>2. CASE k.op = "increaseUserAge"
  <2> DEFINE Older(u) == [u EXCEPT !.age = @ + k.years]
             S == {Older(u) : u \in Hit(p)}
  <2>1. Changes(p) = [NoWork EXCEPT !.removed = Hit(p), !.added = S]
    BY <1>2 DEF Changes
  <2>2. ASSUME NEW u \in Hit(p)
        PROVE  u \in users /\ u.name = k.name /\ Key(Older(u)) = <<u.name, u.age + k.years>>
    BY <1>2 DEF Hit, UserTypes, Rows, Users, Key
  <2> HIDE DEF Older
  <2>3. \A v \in S : \E u \in users : u.name = k.name /\ Key(v) = <<u.name, u.age + k.years>>
    BY <2>2
  <2>4. /\ Changes(p).removed = Hit(p) /\ Changes(p).added = S
        /\ Changes(p).ddl = FALSE /\ Changes(p).creates = FALSE
    BY <2>1 DEF NoWork
  <2> QED BY <1>2, <2>3, <2>4
<1>3. CASE k.op \in {"deleteUserByName", "clearUsers"}
  <2>1. Changes(p) = [NoWork EXCEPT !.removed = Hit(p)]
    BY <1>3 DEF Changes
  <2> QED BY <1>3, <2>1 DEF NoWork
<1>4. CASE k.op = "createTable"
  <2>1. Changes(p) = [NoWork EXCEPT !.ddl = TRUE, !.creates = ~view[p].table]
    BY <1>4 DEF Changes
  <2>2. view[p].table \in BOOLEAN
    BY DEF UserTypes
  <2> QED BY <1>4, <2>1, <2>2 DEF NoWork, Sweeps
<1> QED BY <1>1, <1>2, <1>3, <1>4 DEF KnownCalls, Writes

\* A transaction begins to write in Execute alone, and is left behind in no good health.
LEMMA LeftBehind ==
  ASSUME UserTypes, NEW p \in Processes, Process(p) \/ Disturbance(p)
  PROVE  /\ Working(p)' => Execute(p)
         /\ orphans' # orphans =>
              /\ Working(p) /\ ~Healthy(p)'
              /\ \E b \in BOOLEAN : orphans' = orphans \cup {Orphan(p, b)}
<1> USE DEF UserTypes, Working, Healthy, At, GoTo
<1>1. CASE Begin(p)
  BY <1>1 DEF Begin, store
<1>2. CASE UserExists(p)
  BY <1>2 DEF UserExists, Returns, store
<1>3. CASE Query(p)
  BY <1>3 DEF Query, Returns, store
<1>4. CASE Statement(p)
  BY <1>4 DEF Statement, store
<1>5. CASE Execute(p)
  BY <1>5 DEF Execute, store
<1>6. CASE Refused(p)
  BY <1>6 DEF Refused, Raises, store
<1>7. CASE Commit(p)
  BY <1>7 DEF Commit, Returns
<1>8. CASE Broken(p) \/ SchemaFails(p)
  BY <1>8 DEF Broken, SchemaFails, Raises, store
<1>9. CASE Lose(p)
  BY <1>9 DEF Lose
<1>10. CASE CommitInDoubt(p)
  BY <1>10 DEF CommitInDoubt, Raises
<1>11. CASE ConnectFails(p)
  BY <1>11 DEF ConnectFails, Raises, store
<1>12. CASE Restart(p)
  BY <1>12 DEF Restart, store
<1> QED BY <1>1, <1>2, <1>3, <1>4, <1>5, <1>6, <1>7, <1>8, <1>9, <1>10, <1>11, <1>12
        DEF Process, Disturbance

\* Every step keeps the locks of the table.
LEMMA TableLocksKept ==
  ASSUME UserTypes, Underway, TableLocks, Next
  PROVE  TableLocks'
<1>1. ASSUME NEW p \in Processes, Process(p) \/ Disturbance(p) PROVE TableLocks'
  <2>1. OnlyMoves(p)
    BY <1>1, OthersStay
  <2>2. ASSUME NEW q \in Processes \ {p}, Working(q)'
        PROVE  work'[q].ddl <=> Call(q)'.op = "createTable"
    <3>1. Working(q) /\ work'[q] = work[q] /\ Call(q)' = Call(q)
      BY <2>1, <2>2 DEF OnlyMoves, Working, At, Call, Program
    <3> QED BY <3>1 DEF TableLocks
  <2>3. ASSUME Working(p)'
        PROVE  work'[p].ddl <=> Call(p)'.op = "createTable"
    <3>1. Execute(p)
      BY <1>1, <2>3, LeftBehind
    <3>2. Call(p)' = Call(p) /\ work'[p] = Changes(p) /\ At(p, "wait")
      BY <3>1 DEF Execute, Call, Program, UserTypes
    <3>3. Call(p) \in KnownCalls /\ Writes(Call(p))
      BY <3>2, CallKnown DEF UserTypes, Underway, InCall, At
    <3> QED BY <3>2, <3>3, ChangesAre
  <2>4. ASSUME NEW o \in orphans' PROVE o.work.ddl <=> o.call.op = "createTable"
    <3>1. CASE o \in orphans
      BY <3>1 DEF TableLocks
    <3>2. CASE o \notin orphans
      <4>1. Working(p) /\ \E b \in BOOLEAN : o = Orphan(p, b)
        BY <1>1, <2>4, <3>2, LeftBehind
      <4>2. o.work = work[p] /\ o.call = Call(p)
        BY <4>1 DEF Orphan
      <4> QED BY <4>1, <4>2 DEF TableLocks
    <3> QED BY <3>1, <3>2
  <2> QED BY <2>2, <2>3, <2>4 DEF TableLocks
<1>2. ASSUME NEW o \in orphans, Settle(o) PROVE TableLocks'
  BY <1>2 DEF Settle, TableLocks, Working, At, Call, Program
<1> QED BY <1>1, <1>2 DEF Next

\* Where p is, and what it knows.
Rests(p) == /\ setup' = setup /\ pc'[p] = pc[p] /\ conn'[p] = conn[p] /\ next'[p] = next[p]
            /\ view'[p] = view[p] /\ work'[p] = work[p] /\ counts'[p] = counts[p]
            /\ (lost > 0 => lost' > 0) /\ (disturbed[p] => disturbed'[p])

\* A step of another process lets p rest, and changes the table only if p is told.
LEMMA OthersLeave ==
  ASSUME UserTypes, MainTypes, NEW q \in Processes, NEW p \in Processes \ {q},
         Process(q) \/ Disturbance(q)
  PROVE  Rests(p) /\ (~disturbed'[p] => users' = users /\ table' = table)
<1> USE DEF UserTypes, MainTypes
<1>1. OnlyMoves(q)
  BY OthersStay
<1>2. /\ counts'[p] = counts[p] /\ (lost > 0 => lost' > 0)
      /\ (disturbed[p] => disturbed'[p]) /\ (~disturbed'[p] => users' = users /\ table' = table)
  <2>1. CASE Begin(q)
    BY <2>1 DEF Begin, store
  <2>2. CASE UserExists(q)
    BY <2>2 DEF UserExists, store
  <2>3. CASE Query(q)
    BY <2>3 DEF Query, store
  <2>4. CASE Statement(q)
    BY <2>4 DEF Statement, store
  <2>5. CASE Execute(q)
    BY <2>5 DEF Execute, store, history
  <2>6. CASE Refused(q)
    BY <2>6 DEF Refused, store
  <2>7. CASE Commit(q)
    <3>1. /\ users' = (users \ work[q].removed) \cup work[q].added
          /\ table' = (table \/ work[q].creates)
          /\ disturbed'[p] = (disturbed[p] \/ work[q].removed \cup work[q].added # {}
                                           \/ work[q].creates)
      BY <2>7 DEF Commit, Commits
    <3>2. ASSUME ~disturbed'[p] PROVE users' = users /\ table' = table
      <4>1. work[q].removed = {} /\ work[q].added = {} /\ ~work[q].creates
        BY <3>1, <3>2
      <4> QED BY <3>1, <4>1
    <3>3. disturbed[p] => disturbed'[p]
      BY <3>1
    <3>4. counts' = counts /\ lost' = lost
      BY <2>7 DEF Commit
    <3> QED BY <3>2, <3>3, <3>4
  <2>8. CASE Broken(q) \/ SchemaFails(q)
    BY <2>8 DEF Broken, SchemaFails, store
  <2>9. CASE Lose(q)
    BY <2>9 DEF Lose, history
  <2>10. CASE CommitInDoubt(q)
    BY <2>10 DEF CommitInDoubt
  <2>11. CASE ConnectFails(q)
    BY <2>11 DEF ConnectFails, store
  <2>12. CASE Restart(q)
    BY <2>12 DEF Restart, store, history
  <2> QED BY <2>1, <2>2, <2>3, <2>4, <2>5, <2>6, <2>7, <2>8, <2>9, <2>10, <2>11, <2>12
          DEF Process, Disturbance
<1> QED BY <1>1, <1>2 DEF OnlyMoves, Rests

\* The server deals with one that was left behind: p rests, and the table changes only
\* if p is told or has left it behind itself.
LEMMA SettleLeaves ==
  ASSUME DirectoryOpen, MainTypes, NEW o \in orphans, Settle(o), NEW p \in Processes
  PROVE  /\ Rests(p) /\ lost' > 0 /\ orphans' \subseteq orphans
         /\ ~disturbed'[p] /\ (o.by = p => o.call.op = "createTable") => users' = users
<1> USE DEF DirectoryOpen, DirectoryInv, UserTypes, MainTypes
<1>1. lost > 0
  BY DEF Numbered, Orphans
<1>2. UNCHANGED <<setup, work, conn, pc, next, view, counts, lost>> /\ orphans' \subseteq orphans
  BY DEF Settle
<1>3. \/ UNCHANGED <<table, users, disturbed>>
      \/ Commits(o.by, o.work)
  BY DEF Settle
<1>4. Commits(o.by, o.work) =>
        /\ users' = (users \ o.work.removed) \cup o.work.added
        /\ disturbed'[p] = (disturbed[p] \/ (p # o.by /\ (o.work.removed \cup o.work.added # {}
                                                            \/ o.work.creates)))
  BY DEF Commits
<1>5. disturbed[p] => disturbed'[p]
  BY <1>3, <1>4
<1>6. ASSUME o.call.op = "createTable" PROVE o.work.removed = {} /\ o.work.added = {}
  <2>1. Left(o) \in Open
    BY DEF Open
  <2>2. Sound(Left(o), users, AllMet)
    BY <2>1 DEF Consistent
  <2> QED BY <1>6, <2>2 DEF Sound, Left, Does
<1>7. ASSUME ~disturbed'[p], o.by = p => o.call.op = "createTable", Commits(o.by, o.work)
      PROVE  users' = users
  <2>1. o.work.removed = {} /\ o.work.added = {}
    BY <1>4, <1>6, <1>7
  <2> QED BY <1>4, <1>7, <2>1
<1> QED BY <1>1, <1>2, <1>3, <1>5, <1>7 DEF Rests

\* What p does in call number n, if p is main.
LEMMA MainCallIs ==
  ASSUME UserTypes, NEW p \in Processes, IsMain(p)
  PROVE  /\ Len(Program(p)) = 30
         /\ next[p] <= 30 => next[p] \in 1..30 /\ Call(p) = MainCall(next[p])
<1>1. Program(p) = MainProgram /\ Call(p) = Program(p)[next[p]]
  BY DEF IsMain, Call
<1>2. next[p] <= 30 => next[p] \in 1..30
  <2>1. next[p] \in Nat \ {0}
    BY DEF UserTypes
  <2> QED BY <2>1
<1> QED BY <1>1, <1>2, MainCalls

\* The first two calls.
LEMMA MainOpens ==
  ASSUME UserTypes, NEW p \in Processes, IsMain(p)
  PROVE  /\ next[p] = 1 => Call(p).op = "createTable"
         /\ next[p] = 2 => Call(p).op = "clearUsers"
         /\ next[p] \in 3..30 => Call(p).op # "createTable"
<1>1. /\ next[p] = 1 => Call(p) = createTable
      /\ next[p] = 2 => Call(p) = clearUsers
  BY MainCallIs DEF MainCall
<1>2. next[p] \in 3..30 => Call(p).op # "createTable"
  BY MainCallIs, MainFits
<1> QED BY <1>1, <1>2 DEF createTable, clearUsers

\* While p rests it stays on its way.
LEMMA WayStays ==
  ASSUME UserTypes, NEW p \in Processes, IsMain(p), MainWay(p), Rests(p),
         \A o \in orphans' : o.by = p => o \in orphans,
         Healthy(p) /\ ~disturbed'[p] => users' = users \/ ~Past(p, 1),
         lost' > 0 \/ (~disturbed'[p] => table' = table)
  PROVE  MainWay(p)'
<1>1. /\ Call(p)' = Call(p) /\ (Healthy(p)' <=> Healthy(p))
      /\ \A c : At(p, c)' <=> At(p, c)
      /\ \A n : Past(p, n)' <=> Past(p, n)
  BY DEF Rests, Call, Program, Healthy, At, Past
<1>2. Healthy(p) => NoPast(p)'
  BY <1>1 DEF MainWay, NoPast
<1>3. ASSUME Healthy(p), ~disturbed'[p] PROVE FindsOwn(p)'
  <2>1. ~disturbed[p] /\ FindsOwn(p)
    BY <1>3 DEF Rests, MainWay
  <2>2. CASE users' = users
    BY <1>1, <2>1, <2>2 DEF FindsOwn, Rests
  <2>3. CASE ~Past(p, 1)
    <3>1. next[p] = 1 /\ ~At(p, "commit")
      BY <2>3 DEF Past, UserTypes
    <3>2. ~Sweeps(Call(p))
      BY <3>1, MainOpens DEF Sweeps
    <3> QED BY <1>1, <3>1, <3>2 DEF FindsOwn, Rests
  <2> QED BY <1>3, <2>2, <2>3
<1>4. /\ conn'[p] = "broken" => lost' > 0
      /\ At(p, "failed")' => lost' > 0 \/ disturbed'[p] \/ Unread(p)'
      /\ At(p, "finished")' => next'[p] = 31 /\ conn'[p] = "open"
      /\ next'[p] <= 31
      /\ next'[p] <= 2 => counts'[p] = <<>>
  BY <1>1 DEF MainWay, Rests, Unread
<1>5. At(p, "wait")' /\ next'[p] = 1 /\ ~disturbed'[p] => view'[p].table = table' \/ lost' > 0
  BY <1>1 DEF MainWay, Rests
<1> QED BY <1>1, <1>2, <1>3, <1>4, <1>5 DEF MainWay

\* A call that raises, with a reason.
LEMMA FailsWay ==
  ASSUME UserTypes, NEW p \in Processes, MainWay(p), Raises(p), counts' = counts,
         setup' = setup, lost' > 0 \/ disturbed'[p] \/ Unread(p)
  PROVE  MainWay(p)'
<1>1. pc'[p] = "failed" /\ conn'[p] = "none" /\ next' = next
  BY DEF Raises, GoTo, UserTypes
<1>2. ~Healthy(p)'
  BY <1>1 DEF Healthy
<1>3. Unread(p)' <=> Unread(p)
  BY <1>1 DEF Unread, Call, Program
<1> QED BY <1>1, <1>2, <1>3 DEF MainWay, At

\* A call that returns, and what it has left.
LEMMA ReturnsWay ==
  ASSUME UserTypes, NEW p \in Processes, IsMain(p), MainWay(p), Returns(p), InCall(p),
         conn'[p] = "open", setup' = setup, orphans' = orphans, NoPast(p),
         Past(p, 2) \/ next[p] = 1,
         Past(p, 1),
         next[p] <= 2 => counts'[p] = counts[p],
         next[p] >= 2 /\ ~disturbed'[p] =>
           Keys(users') = MainKeys(next[p] + 1) /\ counts'[p] = MainCounts(next[p] + 1)
  PROVE  MainWay(p)'
<1>1. /\ next[p] \in 1..30 /\ next'[p] = next[p] + 1
      /\ pc'[p] = IF next[p] = 30 THEN "finished" ELSE "ready"
  BY MainCallIs DEF UserTypes, Returns, GoTo
<1>2. Healthy(p)' /\ pc'[p] \in {"ready", "finished"}
  BY <1>1 DEF Healthy
<1>3. NoPast(p)'
  <2>1. \A o \in orphans : o.by = p => o.call.op = "createTable"
    BY DEF NoPast
  <2>2. Past(p, 2)' => next[p] # 1
    BY <1>1, <1>2 DEF Past, At
  <2>3. Past(p, 2)' => \A o \in orphans : o.by # p
    BY <2>2 DEF NoPast
  <2> QED BY <2>1, <2>3 DEF NoPast
<1>4. ~disturbed'[p] => FindsOwn(p)'
  <2>1. next'[p] >= 3 => next[p] >= 2
    BY <1>1
  <2> QED BY <1>1, <1>2, <2>1 DEF FindsOwn, At
<1>5. next'[p] <= 2 => counts'[p] = <<>>
  <2>1. next'[p] <= 2 => next[p] <= 2
    BY <1>1
  <2> QED BY <2>1 DEF MainWay
<1>6. /\ conn'[p] # "broken" /\ ~At(p, "failed")' /\ ~At(p, "wait")'
      /\ At(p, "finished")' => next'[p] = 31
      /\ next'[p] <= 31
  BY <1>1, <1>2 DEF At
<1> QED BY <1>3, <1>4, <1>5, <1>6 DEF MainWay, At

\* main alone is not refused.
LEMMA NotRefused ==
  ASSUME DirectoryOpen, NEW p \in Processes, IsMain(p), MainWay(p), Refused(p), ~disturbed[p]
  PROVE  lost > 0
<1> USE DEF DirectoryOpen, DirectoryInv
<1> SUFFICES ASSUME ~(lost > 0) PROVE FALSE
  OBVIOUS
<1>1. At(p, "wait") /\ InCall(p) /\ conn[p] = "open"
  BY DEF Refused, InCall, At
<1>2. FindsOwn(p)
  BY <1>1 DEF MainWay, Healthy, At
<1> PICK k, x, n : k = Call(p) /\ x = Changes(p) /\ n = next[p]
  OBVIOUS
<1>3. k \in KnownCalls /\ Writes(k)
  BY <1>1, CallKnown DEF UserTypes, Underway, At
<1>4. x \in Works
  BY <1>3, ChangesAreWork
<1>5. n \in 1..30 /\ k = MainCall(n)
  BY <1>1, MainCallIs DEF UserTypes
<1> HIDE DEF DirectoryOpen, DirectoryInv
<1>6. /\ n = 1 \/ n = 2 \/ n \in 3..30
      /\ n = 1 => k.op = "createTable"
      /\ n = 2 => k.op = "clearUsers"
      /\ n \in 3..30 => k.op # "createTable"
  <2>1. UserTypes
    BY DEF DirectoryOpen, DirectoryInv
  <2>2. n = 1 \/ n = 2 \/ n \in 3..30
    BY <1>5
  <2>3. /\ n = 1 => k.op = "createTable"
        /\ n = 2 => k.op = "clearUsers"
        /\ n \in 3..30 => k.op # "createTable"
    BY <2>1, MainOpens
  <2> QED BY <2>2, <2>3
<1>7. UserTypes
  BY DEF DirectoryOpen, DirectoryInv
<1>8. ~CreatedMeanwhile(x)
  <2>1. x.creates => n = 1 /\ ~view[p].table
    <3>1. x.creates => k.op = "createTable" /\ ~view[p].table
      BY <1>3, <1>7, ChangesAre
    <3> QED BY <1>6, <3>1
  <2>2. n = 1 => view[p].table = table
    BY <1>1 DEF MainWay
  <2> QED BY <2>1, <2>2 DEF CreatedMeanwhile
<1>9. ASSUME NEW u \in x.added
      PROVE  n \in 3..30 /\ u.age \in 1..35 /\ Key(u) \notin Keys(users)
  <2>1. n \in 3..30
    <3>1. k.op \in {"registerUser", "increaseUserAge"}
      BY <1>3, <1>9, <1>7, ChangesAre
    <3> QED BY <1>6, <3>1
  <2>2. Keys(users) = MainKeys(n)
    BY <1>2, <2>1 DEF FindsOwn
  <2>3. u.age = Key(u)[2]
    BY DEF Key
  <2>4. CASE k.op = "registerUser"
    <3>1. Key(u) = <<k.name, k.age>>
      BY <1>3, <1>9, <1>7, <2>4, ChangesAre
    <3>2. <<k.name, k.age>> \notin Keys(users)
      BY <1>1, <1>2, <2>1, <2>4 DEF FindsOwn, At
    <3>3. k.age \in 1..35
      BY <1>5, <2>1, <2>4, MainFits
    <3> QED BY <2>1, <2>3, <3>1, <3>2, <3>3
  <2>5. CASE k.op # "registerUser"
    <3>1. k.op = "increaseUserAge"
      BY <1>3, <1>9, <1>7, <2>5, ChangesAre
    <3>2. PICK v \in users : v.name = k.name /\ Key(u) = <<v.name, v.age + k.years>>
      BY <1>3, <1>9, <1>7, <2>5, ChangesAre
    <3> PICK y : y = Key(v)
      OBVIOUS
    <3>3. y \in MainKeys(n) /\ y[1] = k.name /\ Key(u) = <<y[1], y[2] + k.years>>
      BY <2>2, <3>2 DEF Keys, Key
    <3>4. y[2] + k.years \in 1..35 /\ <<y[1], y[2] + k.years>> \notin MainKeys(n)
      BY <1>5, <2>1, <3>1, <3>3, MainFits
    <3> QED BY <2>1, <2>2, <2>3, <3>3, <3>4
  <2> QED BY <2>4, <2>5
<1>10. ~OutOfRange(x)
  BY <1>9, MaxAgeAssumption DEF OutOfRange
<1>11. ~MayCollide(x)
  BY <1>9 DEF MayCollide, Keys
<1> QED BY <1>8, <1>10, <1>11 DEF Refused

\* What main does keeps it on its way.
LEMMA OwnWay ==
  ASSUME DirectoryOpen, MainInv, NEW p \in Processes, IsMain(p), Process(p) \/ Disturbance(p)
  PROVE  MainWay(p)'
<1> USE DEF DirectoryOpen, DirectoryInv
<1>1. OnlyMoves(p) /\ MainWay(p) /\ MainTypes
  BY OthersStay DEF MainInv
<1>2. lost \in Nat /\ (conn[p] = "broken" => lost > 0) /\ next[p] <= 31
  BY <1>1 DEF UserTypes, MainWay
<1>3. InCall(p) => /\ next[p] \in 1..30 /\ Call(p) = MainCall(next[p]) /\ Call(p) \in KnownCalls
                   /\ pc[p] # "failed"
  BY MainCallIs, CallKnown DEF UserTypes, InCall
<1>4. users \in SUBSET Users /\ IsFiniteSet(users) /\ Distinct(users)
  BY DEF UserTypes, Rows
<1>5. /\ next[p] = 1 => Call(p).op = "createTable"
      /\ next[p] = 2 => Call(p).op = "clearUsers"
      /\ next[p] \in 3..30 => Call(p).op # "createTable"
  BY MainOpens
<1> HIDE DEF DirectoryOpen, DirectoryInv
<1>6. UserTypes /\ Underway /\ DOMAIN pc = Processes /\ DOMAIN next = Processes
      /\ DOMAIN conn = Processes /\ DOMAIN view = Processes /\ DOMAIN work = Processes
  BY DEF DirectoryOpen, DirectoryInv, UserTypes
<1>7. CASE Begin(p)
  <2>1. /\ pc'[p] = "call" /\ setup' = setup /\ At(p, "ready")
        /\ UNCHANGED <<table, users, orphans, conn, next, view, work, counts, lost, disturbed>>
    BY <1>6, <1>7 DEF Begin, GoTo, store
  <2>2. /\ Call(p)' = Call(p) /\ (Healthy(p)' <=> Healthy(p))
        /\ \A n : Past(p, n)' => Past(p, n)
    BY <2>1 DEF Call, Program, Healthy, Past, At
  <2>3. Healthy(p) => NoPast(p)'
    BY <1>1, <2>1, <2>2 DEF MainWay, NoPast
  <2>4. Healthy(p) /\ ~disturbed[p] => FindsOwn(p)'
    BY <1>1, <2>1, <2>2 DEF MainWay, FindsOwn, At
  <2> QED BY <1>1, <2>1, <2>2, <2>3, <2>4 DEF MainWay, At
<1>8. CASE UserExists(p)
  <2>1. /\ At(p, "call") /\ InCall(p) /\ Call(p).op = "registerUser" /\ conn[p] # "broken"
        /\ conn'[p] = "open" /\ setup' = setup
        /\ UNCHANGED <<table, users, orphans, view, work, counts, lost, disturbed>>
    BY <1>6, <1>8 DEF UserExists, Connected, store, At, InCall
  <2>2. Healthy(p) /\ NoPast(p) /\ (~disturbed[p] => FindsOwn(p))
    BY <1>1, <2>1 DEF Healthy, MainWay, At
  <2>3. next[p] \in 3..30 /\ Past(p, 1) /\ Past(p, 2)
    <3>1. next[p] # 1 /\ next[p] # 2
      BY <1>5, <2>1
    <3>2. next[p] \in 3..30
      BY <1>3, <2>1, <3>1
    <3> QED BY <3>2 DEF Past
  <2>4. CASE <<Call(p).name, Call(p).age>> \in Keys(users)
    <3>1. Returns(p)
      BY <1>8, <2>4 DEF UserExists
    <3>2. ~disturbed[p] => Keys(users) = MainKeys(next[p]) /\ counts[p] = MainCounts(next[p])
      BY <2>2, <2>3 DEF FindsOwn
    <3>3. MainKeys(next[p] + 1) = KeysAfter(Call(p), MainKeys(next[p]))
      BY <1>3, <2>1, <2>3, MainKeysAfter
    <3>4. ~disturbed[p] => Keys(users) = MainKeys(next[p] + 1)
      BY <2>1, <2>4, <3>2, <3>3 DEF KeysAfter
    <3>5. MainCounts(next[p] + 1) = MainCounts(next[p])
      <4>1. MainCall(next[p]) # getUserCount
        BY <1>3, <2>1 DEF getUserCount
      <4> QED BY <2>3, <4>1, MainCountsAfter
    <3> QED BY <1>1, <1>6, <2>1, <2>2, <2>3, <3>1, <3>2, <3>4, <3>5, ReturnsWay
  <2>5. CASE <<Call(p).name, Call(p).age>> \notin Keys(users)
    <3>1. pc'[p] = "insert" /\ next' = next
      BY <1>6, <1>8, <2>5 DEF UserExists, GoTo
    <3>2. Call(p)' = Call(p) /\ (\A n : Past(p, n)' => Past(p, n))
      BY <2>1, <3>1 DEF Call, Program, Past, At
    <3>3. NoPast(p)'
      BY <2>1, <2>2, <3>2 DEF NoPast
    <3>4. ~disturbed[p] => FindsOwn(p)'
      BY <2>1, <2>2, <2>5, <3>1, <3>2 DEF FindsOwn, At
    <3> QED BY <1>1, <2>1, <2>2, <3>1, <3>3, <3>4 DEF MainWay, At
  <2> QED BY <2>4, <2>5
<1>9. CASE Query(p)
  <2>1. /\ At(p, "call") /\ InCall(p) /\ Call(p).op = "query" /\ conn[p] # "broken"
        /\ conn'[p] = "open" /\ setup' = setup /\ Returns(p)
        /\ UNCHANGED <<table, users, orphans, view, work, lost, disturbed>>
    BY <1>6, <1>9 DEF Query, Writes, Connected, store, At, InCall
  <2>2. Healthy(p) /\ NoPast(p) /\ (~disturbed[p] => FindsOwn(p))
    BY <1>1, <2>1 DEF Healthy, MainWay, At
  <2>3. next[p] \in 3..30 /\ Past(p, 1) /\ Past(p, 2)
    <3>1. next[p] # 1 /\ next[p] # 2
      BY <1>5, <2>1
    <3>2. next[p] \in 3..30
      BY <1>3, <2>1, <3>1
    <3> QED BY <3>2 DEF Past
  <2>4. ~disturbed[p] => Keys(users) = MainKeys(next[p]) /\ counts[p] = MainCounts(next[p])
    BY <2>2, <2>3 DEF FindsOwn
  <2>5. MainKeys(next[p] + 1) = MainKeys(next[p])
    <3>1. MainKeys(next[p] + 1) = KeysAfter(Call(p), MainKeys(next[p]))
      BY <1>3, <2>1, <2>3, MainKeysAfter
    <3> QED BY <2>1, <3>1 DEF KeysAfter
  <2>6. counts'[p] = IF Call(p).counts THEN Append(counts[p], Cardinality(users)) ELSE counts[p]
    BY <1>1, <1>9 DEF Query, MainTypes
  <2>7. Call(p).counts <=> Call(p) = getUserCount
    BY <1>3, <2>1 DEF KnownCalls, getUserCount
  <2>8. ~disturbed[p] => counts'[p] = MainCounts(next[p] + 1)
    <3>1. MainCounts(next[p] + 1) =
            IF Call(p) = getUserCount
              THEN Append(MainCounts(next[p]), Cardinality(MainKeys(next[p])))
              ELSE MainCounts(next[p])
      BY <1>3, <2>1, <2>3, MainCountsAfter
    <3>2. Cardinality(Keys(users)) = Cardinality(users)
      BY <1>4, KeyCount
    <3> QED BY <2>4, <2>6, <2>7, <3>1, <3>2
  <2> QED BY <1>1, <1>6, <2>1, <2>2, <2>3, <2>4, <2>5, <2>8, ReturnsWay
<1>10. CASE Statement(p)
  <2>1. /\ pc'[p] = "wait" /\ conn'[p] = "open" /\ conn[p] # "broken" /\ setup' = setup
        /\ pc[p] \in {"insert", "call"} /\ InCall(p) /\ Writes(Call(p))
        /\ Call(p).op = "registerUser" => At(p, "insert")
        /\ view'[p].table = table /\ (Sweeps(Call(p)) => view'[p].ids = Ids(users))
        /\ UNCHANGED <<table, users, orphans, next, work, counts, lost>>
    BY <1>6, <1>10 DEF Statement, Connected, store, At, GoTo, InCall, Ids, Underway, Writes
  <2>2. Call(p)' = Call(p) /\ (\A n : Past(p, n)' => Past(p, n)) /\ Healthy(p)
    BY <2>1 DEF Call, Program, Past, At, Healthy
  <2>3. NoPast(p)'
    BY <1>1, <2>1, <2>2 DEF MainWay, NoPast
  <2>4. disturbed'[p] = (disturbed[p] /\ Call(p).op # "clearUsers")
    BY <1>1, <1>10 DEF MainTypes, Statement
  <2>5. ASSUME ~disturbed'[p] PROVE FindsOwn(p)'
    <3>1. CASE disturbed[p]
      <4>1. Call(p).op = "clearUsers"
        BY <2>4, <2>5, <3>1
      <4>2. next[p] = 2
        <5>1. ~(next[p] \in 3..30)
          <6>1. ASSUME next[p] \in 3..30 PROVE MainCall(next[p]).op # "clearUsers"
            BY <6>1 DEF MainCall, registerUser, increaseUserAge, deleteUserByName, select,
                        getUserCount
          <6> QED BY <1>3, <2>1, <4>1, <6>1
        <5> QED BY <1>3, <1>5, <2>1, <4>1, <5>1
      <4> QED BY <2>1, <2>2, <4>1, <4>2 DEF FindsOwn, At
    <3>2. CASE ~disturbed[p]
      <4>1. FindsOwn(p)
        BY <1>1, <2>2, <3>2 DEF MainWay
      <4> QED BY <2>1, <2>2, <4>1 DEF FindsOwn, At
    <3> QED BY <3>1, <3>2
  <2> QED BY <1>1, <2>1, <2>3, <2>5 DEF MainWay, At
<1>11. CASE Execute(p)
  <2>1. /\ pc'[p] = "commit" /\ At(p, "wait") /\ conn[p] = "open" /\ setup' = setup /\ InCall(p)
        /\ work'[p] = Changes(p) /\ ~Waits(p) /\ Writes(Call(p))
        /\ UNCHANGED <<table, users, orphans, conn, next, counts, lost, disturbed>>
    BY <1>6, <1>11 DEF Execute, store, history, At, GoTo, InCall, Underway
  <2>2. /\ Call(p)' = Call(p) /\ Healthy(p) /\ NoPast(p) /\ (~disturbed[p] => FindsOwn(p))
    BY <1>1, <2>1 DEF Call, Program, Healthy, MainWay, At
  <2>3. Call(p) \in KnownCalls /\ (Changes(p).ddl <=> Call(p).op = "createTable")
        /\ (Sweeps(Call(p)) => Changes(p).removed = Hit(p))
    BY <1>3, <1>6, <2>1, ChangesAre
  <2>4. \A o \in orphans : o.call.op = "createTable" <=> Call(p).op = "createTable"
    <3>1. ASSUME NEW o \in orphans PROVE o.work.ddl = Changes(p).ddl
      BY <2>1 DEF Waits, OpenWork, WaitsFor
    <3> QED BY <2>3, <3>1 DEF MainInv, TableLocks
  <2>5. NoPast(p)'
    <3>1. CASE next[p] = 1
      BY <1>5, <2>1, <2>4, <3>1 DEF NoPast, Past
    <3>2. CASE next[p] # 1
      <4>1. Past(p, 1)
        BY <1>3, <2>1, <3>2 DEF Past
      <4>2. Call(p).op # "createTable"
        BY <1>3, <1>5, <2>1, <3>2, MainFits
      <4> QED BY <2>2, <2>1, <2>4, <4>1, <4>2 DEF NoPast
    <3> QED BY <3>1, <3>2
  <2>6. ASSUME ~disturbed[p] PROVE FindsOwn(p)'
    <3>1. ASSUME Sweeps(Call(p)) PROVE work'[p].removed = {u \in users : IsMeant(Call(p), u)}
      <4>1. \A u \in users : u.id \in view[p].ids
        BY <2>1, <2>2, <2>6, <3>1 DEF FindsOwn, Ids
      <4>2. Hit(p) = {u \in users : IsMeant(Call(p), u)}
        BY <4>1 DEF Hit, IsMeant
      <4> QED BY <2>1, <2>3, <3>1, <4>2
    <3> QED BY <2>1, <2>2, <2>6, <3>1 DEF FindsOwn, At
  <2> QED BY <1>1, <2>1, <2>5, <2>6 DEF MainWay, At
<1>12. CASE Refused(p)
  <2>1. Raises(p) /\ UNCHANGED <<setup, counts, lost, disturbed>>
    BY <1>12 DEF Refused
  <2>2. lost > 0 \/ disturbed[p]
    BY <1>1, <1>12, NotRefused
  <2> QED BY <1>1, <1>6, <2>1, <2>2, FailsWay
<1>13. CASE Commit(p)
  <2>1. /\ At(p, "commit") /\ conn[p] = "open" /\ InCall(p) /\ Working(p) /\ Returns(p)
        /\ Writes(Call(p)) /\ UNCHANGED <<setup, orphans, conn, counts, lost>>
        /\ users' = (users \ work[p].removed) \cup work[p].added
    BY <1>6, <1>13 DEF Commit, Commits, At, InCall, Working, Underway
  <2>2. disturbed'[p] = disturbed[p]
    BY <1>1, <1>13 DEF Commit, Commits, MainTypes
  <2>3. Healthy(p) /\ NoPast(p) /\ (~disturbed[p] => FindsOwn(p))
    BY <1>1, <2>1 DEF Healthy, MainWay, At
  <2>4. Past(p, 1) /\ (Past(p, 2) \/ next[p] = 1)
    BY <1>3, <2>1 DEF Past
  <2> PICK x : x = work[p]
    OBVIOUS
  <2>5. x \in Works /\ Does(Call(p), x)
    <3>1. Tx(p) \in Open
      BY <2>1 DEF Open
    <3>2. Sound(Tx(p), users, AllMet)
      BY <3>1 DEF DirectoryOpen, DirectoryInv, Consistent
    <3> QED BY <1>6, <3>2 DEF Sound, Tx, UserTypes
  <2>6. ASSUME ~disturbed[p], next[p] >= 2
        PROVE  Keys(users') = MainKeys(next[p] + 1) /\ counts[p] = MainCounts(next[p] + 1)
    <3>1. Sweeps(Call(p)) => x.removed = {u \in users : IsMeant(Call(p), u)}
      BY <2>1, <2>3, <2>6 DEF FindsOwn
    <3>2. Keys(users') = KeysAfter(Call(p), Keys(users))
      BY <1>3, <1>4, <2>1, <2>5, <3>1, CommitKeys
    <3>3. CASE next[p] = 2
      <4>1. Keys(users') = {}
        BY <1>5, <3>2, <3>3 DEF KeysAfter
      <4>2. MainKeys(3) = {} /\ MainCounts(3) = <<>>
        BY DEF MainKeys, MainCounts
      <4>3. counts[p] = <<>>
        BY <1>1, <3>3 DEF MainWay
      <4> QED BY <3>3, <4>1, <4>2, <4>3
    <3>4. CASE next[p] # 2
      <4>1. next[p] \in 3..30
        BY <1>3, <2>1, <2>6, <3>4
      <4>2. Keys(users) = MainKeys(next[p]) /\ counts[p] = MainCounts(next[p])
        BY <2>3, <2>6, <4>1 DEF FindsOwn
      <4>3. Keys(users') = MainKeys(next[p] + 1)
        BY <1>3, <2>1, <3>2, <4>1, <4>2, MainKeysAfter
      <4>4. MainCall(next[p]) # getUserCount
        BY <1>3, <2>1 DEF getUserCount, Writes
      <4> QED BY <4>1, <4>2, <4>3, <4>4, MainCountsAfter
    <3> QED BY <3>3, <3>4
  <2> QED BY <1>1, <1>6, <2>1, <2>2, <2>3, <2>4, <2>6, ReturnsWay
<1>14. CASE Broken(p)
  <2>1. Raises(p) /\ UNCHANGED <<setup, counts, lost>> /\ conn[p] = "broken"
    BY <1>14 DEF Broken
  <2> QED BY <1>1, <1>2, <1>6, <2>1, FailsWay
<1>15. CASE Lose(p)
  <2>1. /\ conn'[p] = "broken" /\ lost' = lost + 1 /\ pc[p] # "finished"
        /\ UNCHANGED <<pc, next, counts>>
    BY <1>6, <1>15 DEF Lose
  <2>2. lost' > 0 /\ ~Healthy(p)'
    BY <1>2, <2>1 DEF Healthy
  <2> QED BY <1>1, <2>1, <2>2 DEF MainWay, At
<1>16. CASE CommitInDoubt(p)
  <2>1. Raises(p) /\ setup' = setup /\ counts' = counts /\ lost' = lost + 1
    BY <1>16 DEF CommitInDoubt
  <2> QED BY <1>1, <1>2, <1>6, <2>1, FailsWay
<1>17. CASE ConnectFails(p)
  <2>1. Raises(p) /\ setup' = setup /\ counts' = counts /\ lost' = lost + 1
    BY <1>17 DEF ConnectFails
  <2> QED BY <1>1, <1>2, <1>6, <2>1, FailsWay
<1>18. CASE Restart(p)
  <2>1. /\ pc'[p] = "ready" /\ next'[p] = 1 /\ counts'[p] = <<>> /\ setup' = setup
        /\ conn' = conn /\ lost' = lost
    BY <1>1, <1>6, <1>18 DEF Restart, GoTo, MainTypes
  <2>2. ~Past(p, 1)' /\ ~Past(p, 2)'
    BY <2>1 DEF Past, At
  <2>3. NoPast(p)' /\ FindsOwn(p)'
    BY <2>1, <2>2 DEF NoPast, FindsOwn, At
  <2> QED BY <1>1, <2>1, <2>3 DEF MainWay, At
<1>19. CASE SchemaFails(p)
  <2>1. Raises(p) /\ UNCHANGED <<setup, counts>> /\ Unread(p)
    BY <1>19 DEF SchemaFails, Unread
  <2> QED BY <1>1, <1>6, <2>1, FailsWay
<1> QED BY <1>7, <1>8, <1>9, <1>10, <1>11, <1>12, <1>13, <1>14, <1>15, <1>16, <1>17, <1>18, <1>19
        DEF Process, Disturbance

\* The types of what getUserCount returned, and of the disturbed.
LEMMA MainTypesKept ==
  ASSUME UserTypes, MainTypes, Next
  PROVE  MainTypes'
<1> USE DEF MainTypes
<1>1. Cardinality(users) \in Nat
  BY FS_CardinalityType DEF UserTypes, Rows
<1>2. ASSUME NEW p \in Processes, Process(p) PROVE MainTypes'
  <2>1. CASE Query(p)
    BY <1>1, <2>1 DEF Query
  <2>2. CASE Statement(p)
    BY <2>2 DEF Statement
  <2>3. CASE Commit(p)
    BY <2>3 DEF Commit, Commits
  <2>4. CASE Begin(p) \/ UserExists(p) \/ Execute(p) \/ Refused(p) \/ Broken(p)
             \/ SchemaFails(p)
    BY <2>4 DEF Begin, UserExists, Execute, Refused, Broken, SchemaFails, history
  <2> QED BY <1>2, <2>1, <2>2, <2>3, <2>4 DEF Process
<1>3. ASSUME NEW p \in Processes, Disturbance(p) PROVE MainTypes'
  <2>1. CASE Restart(p)
    BY <2>1 DEF Restart, history
  <2>2. CASE Lose(p) \/ CommitInDoubt(p) \/ ConnectFails(p)
    BY <2>2 DEF Lose, CommitInDoubt, ConnectFails, history
  <2> QED BY <1>3, <2>1, <2>2 DEF Disturbance
<1>4. ASSUME NEW o \in orphans, Settle(o) PROVE MainTypes'
  BY <1>4 DEF Settle, Commits
<1> QED BY <1>2, <1>3, <1>4 DEF Next

\* Every step keeps main on its way.
LEMMA MainStep ==
  ASSUME DirectoryOpen, MainInv, Next
  PROVE  MainInv'
<1>1. UserTypes /\ Underway /\ MainTypes /\ TableLocks
  BY DEF DirectoryOpen, DirectoryInv, MainInv
<1>2. MainTypes' /\ TableLocks'
  BY <1>1, MainTypesKept, TableLocksKept
<1>3. ASSUME NEW p \in Processes, IsMain(p)' PROVE MainWay(p)'
  <2>1. ASSUME NEW q \in Processes, Process(q) \/ Disturbance(q) PROVE MainWay(p)'
    <3>1. OnlyMoves(q)
      BY <1>1, <2>1, OthersStay
    <3>2. IsMain(p) /\ MainWay(p)
      BY <1>3, <3>1 DEF OnlyMoves, IsMain, Program, MainInv
    <3>3. CASE p = q
      BY <2>1, <3>2, <3>3, OwnWay
    <3>4. CASE p # q
      <4>1. Rests(p) /\ (~disturbed'[p] => users' = users /\ table' = table)
        BY <1>1, <2>1, <3>4, OthersLeave
      <4>2. \A o \in orphans' : o.by = p => o \in orphans
        BY <1>1, <2>1, <3>4, LeftBehind DEF Orphan
      <4> QED BY <1>1, <3>2, <4>1, <4>2, WayStays
    <3> QED BY <3>3, <3>4
  <2>2. ASSUME NEW o \in orphans, Settle(o) PROVE MainWay(p)'
    <3>1. IsMain(p) /\ MainWay(p)
      BY <1>3, <2>2 DEF Settle, IsMain, Program, MainInv
    <3>2. /\ Rests(p) /\ lost' > 0 /\ orphans' \subseteq orphans
          /\ ~disturbed'[p] /\ (o.by = p => o.call.op = "createTable") => users' = users
      BY <1>1, <2>2, SettleLeaves
    <3>3. Healthy(p) /\ Past(p, 1) => (o.by = p => o.call.op = "createTable")
      BY <3>1 DEF MainWay, NoPast
    <3>4. Healthy(p) /\ ~disturbed'[p] => users' = users \/ ~Past(p, 1)
      BY <3>2, <3>3
    <3> QED BY <1>1, <3>1, <3>2, <3>4, WayStays
  <2> QED BY <2>1, <2>2 DEF Next
<1> QED BY <1>2, <1>3 DEF MainInv

\* The invariant holds at the start.
LEMMA MainStarts ==
  ASSUME Init
  PROVE  MainInv
<1> USE DEF Init
<1>1. MainTypes /\ TableLocks
  BY DEF MainTypes, TableLocks, Working, At
<1>2. ASSUME NEW p \in Processes PROVE MainWay(p)
  BY DEF MainWay, NoPast, FindsOwn, At
<1> QED BY <1>1, <1>2 DEF MainInv

\* At the end of its way main has left what it is to leave.
LEMMA MainEnds ==
  ASSUME DirectoryOpen, MainInv
  PROVE  MainAlone
<1> SUFFICES ASSUME NEW p \in Processes, IsMain(p), ~disturbed[p]
             PROVE  /\ At(p, "failed") => lost > 0 \/ Unread(p)
                    /\ At(p, "finished") => /\ Keys(users) = Remaining /\ Cardinality(users) = 4
                                            /\ counts[p] = <<5, 4, 4, 4>>
  BY DEF MainAlone, IsMain, Unread
<1>1. MainWay(p)
  BY DEF MainInv
<1>2. At(p, "failed") => lost > 0 \/ Unread(p)
  BY <1>1 DEF MainWay
<1>3. ASSUME At(p, "finished")
      PROVE  Keys(users) = Remaining /\ Cardinality(users) = 4 /\ counts[p] = <<5, 4, 4, 4>>
  <2>1. next[p] = 31 /\ FindsOwn(p)
    BY <1>1, <1>3 DEF MainWay, Healthy, At
  <2>2. Keys(users) = MainKeys(31) /\ counts[p] = MainCounts(31)
    BY <2>1 DEF FindsOwn
  <2>3. MainKeys(31) = Remaining /\ Cardinality(Remaining) = 4
    BY MainSizes
  <2>4. Cardinality(users) = 4
    <3>1. IsFiniteSet(users) /\ Distinct(users)
      BY DEF DirectoryOpen, DirectoryInv, UserTypes, Rows
    <3> QED BY <2>2, <2>3, <3>1, KeyCount
  <2>5. MainCounts(31) = <<5, 4, 4, 4>>
    BY DEF MainCounts
  <2> QED BY <2>2, <2>3, <2>4, <2>5
<1> QED BY <1>2, <1>3

\* main, however many other processes there are and whatever they run: as long as no
\* other changes the table it fails only if a connection was lost or refused, or in
\* createTable if schema.sql cannot be opened (Database.cpp:18-21); and at its end four
\* users are left and no duplicate was counted, whatever an earlier run left in the
\* table or has the server still do.
THEOREM MainUndisturbed == MCSpec => []MainAlone
<1>1. MCInit => DirectoryOpen /\ MainInv
  BY DirectoryStarts, MainStarts DEF MCInit
<1>2. DirectoryOpen /\ MainInv /\ [MCNext]_allVars => DirectoryOpen' /\ MainInv'
  <2> SUFFICES ASSUME DirectoryOpen, MainInv, [MCNext]_allVars PROVE DirectoryOpen' /\ MainInv'
    OBVIOUS
  <2>1. DirectoryOpen'
    BY DirectoryNext
  <2>2. Next \/ UNCHANGED vars
    BY DEF MCNext, ButHttp, ButEcho, ButRedis, ButStriped, allVars
  <2>3. ASSUME UNCHANGED vars PROVE MainInv'
    <3>1. UNCHANGED <<setup, table, users, work, orphans, conn, pc, next, view, counts, lost,
                      disturbed>>
      BY <2>3 DEF vars
    <3>2. MainTypes' /\ TableLocks'
      BY <3>1 DEF MainInv, MainTypes, TableLocks, Working, At, Call, Program
    <3>3. ASSUME NEW p \in Processes, IsMain(p)' PROVE MainWay(p)'
      <4>1. IsMain(p) /\ MainWay(p) /\ Rests(p)
        BY <3>1, <3>3 DEF IsMain, Program, MainInv, Rests
      <4>2. UserTypes
        BY DEF DirectoryOpen, DirectoryInv
      <4> QED BY <3>1, <4>1, <4>2, WayStays
    <3> QED BY <3>2, <3>3 DEF MainInv
  <2> QED BY <2>1, <2>2, <2>3, MainStep
<1>3. DirectoryOpen /\ MainInv => MainAlone
  BY MainEnds
<1> QED BY <1>1, <1>2, <1>3, PTL DEF MCSpec
-----------------------------------------------------------------------------
(* echo_server                                                             *)

\* The clients that have a thread.
Served == {p \in EchoPeers : handler[p] \in {"read", "write"}}

EchoTypes ==
  /\ echoAt \in {"accept", "counted", "down"}
  /\ handler \in [EchoPeers -> {"none", "read", "write", "over"}]
  /\ echoBacklog \in Seq(EchoPeers)
  /\ echoOpen \in [EchoPeers -> {"new", "yes", "no"}]
  /\ echoData \in [EchoPeers -> Nat] /\ echoSent \in [EchoPeers -> Nat]
  /\ echoWire \in [EchoPeers -> Nat] /\ back \in [EchoPeers -> Nat]
  /\ received \in [EchoPeers -> Nat]

\* A connection comes to one thread only.
Unserved == {p \in EchoPeers : handler[p] = "none" /\ echoOpen[p] # "new"}
OneThread ==
  /\ \A j \in 1..Len(echoBacklog) : echoBacklog[j] \in Unserved
  /\ \A j, k \in 1..Len(echoBacklog) : echoBacklog[j] = echoBacklog[k] => j = k
  /\ echoAt = "counted" => /\ echoPeer \in Unserved
                           /\ \A j \in 1..Len(echoBacklog) : echoBacklog[j] # echoPeer
  /\ \A p \in EchoPeers : echoOpen[p] = "new" => handler[p] = "none"

\* Every byte is somewhere, until the thread of its connection ends.
BytesKept(p) ==
  /\ handler[p] \in {"none", "read"} => echoData[p] = 0
  /\ handler[p] = "write" => echoData[p] > 0
  /\ handler[p] # "over" => received[p] + back[p] + echoData[p] + echoWire[p] = echoSent[p]
  /\ received[p] + back[p] + echoData[p] + echoWire[p] <= echoSent[p]

\* client_count is the number of clients that have a thread, and the one that is to
\* get one: no thread ends twice, or without having been counted.
ClientsCounted ==
  echoAt # "down" => /\ IsFiniteSet(Served)
                     /\ echo_client_count = Cardinality(Served)
                                              + IF echoAt = "counted" THEN 1 ELSE 0

\* What a thread reads it has written back in full before it reads again, and nothing
\* comes back that was not sent.
EchoesOnly ==
  \A p \in EchoPeers :
    /\ received[p] + back[p] <= echoSent[p]
    /\ handler[p] = "read" => received[p] + back[p] + echoWire[p] = echoSent[p]

EchoInv == EchoTypes /\ OneThread /\ ClientsCounted /\ \A p \in EchoPeers : BytesKept(p)

\* One client more with a thread, or one less.
LEMMA ServedOneMore ==
  ASSUME EchoTypes, ClientsCounted, echoAt # "down", NEW p \in EchoPeers \ Served,
         Served' = Served \cup {p}
  PROVE  IsFiniteSet(Served') /\ Cardinality(Served') = Cardinality(Served) + 1
BY FS_AddElement DEF ClientsCounted

\* main.
LEMMA EchoMain ==
  ASSUME EchoInv, Echo!Main \/ Echo!Starves
  PROVE  EchoInv'
<1> USE DEF EchoInv
<1>1. CASE Echo!Accept
  <2> USE <1>1 DEF EchoTypes
  <2>1. /\ echoAt = "accept" /\ echoAt' = "counted" /\ echoBacklog # <<>>
        /\ echoPeer' = Head(echoBacklog) /\ echoBacklog' = Tail(echoBacklog)
        /\ echo_client_count' = echo_client_count + 1
        /\ UNCHANGED <<handler, echoData, echoOpen, echoSent, echoWire, back, received>>
    BY DEF Echo!Accept, Echo!traffic
  <2>2. /\ Len(echoBacklog) \in Nat \ {0} /\ echoBacklog' \in Seq(EchoPeers)
        /\ Len(echoBacklog') = Len(echoBacklog) - 1 /\ echoPeer' = echoBacklog[1]
        /\ \A j \in 1..Len(echoBacklog') : j + 1 \in 1..Len(echoBacklog)
                                           /\ echoBacklog'[j] = echoBacklog[j + 1]
    BY <2>1
  <2>3. EchoTypes'
    BY <2>1, <2>2
  <2>4. OneThread'
    <3> HIDE DEF EchoTypes
    <3>1. \A j \in 1..Len(echoBacklog') : echoBacklog'[j] \in Unserved'
      BY <2>1, <2>2 DEF OneThread, Unserved
    <3>2. ASSUME NEW j \in 1..Len(echoBacklog'), NEW k \in 1..Len(echoBacklog'),
                 echoBacklog'[j] = echoBacklog'[k]
          PROVE  j = k
      <4>1. j + 1 = k + 1
        BY <2>2, <3>2 DEF OneThread
      <4> QED BY <2>2, <4>1
    <3>3. 1 \in 1..Len(echoBacklog)
      BY <2>2
    <3>4. echoPeer' \in Unserved'
      BY <2>1, <2>2, <3>3 DEF OneThread, Unserved
    <3>5. ASSUME NEW j \in 1..Len(echoBacklog') PROVE echoBacklog'[j] # echoPeer'
      <4>1. j + 1 # 1
        BY <2>2
      <4> QED BY <2>2, <3>3, <4>1 DEF OneThread
    <3> QED BY <2>1, <3>1, <3>2, <3>4, <3>5 DEF OneThread
  <2>5. ClientsCounted'
    <3>1. Served' = Served
      BY <2>1 DEF Served
    <3>2. Cardinality(Served) \in Nat
      BY <2>1, FS_CardinalityType DEF ClientsCounted
    <3> QED BY <2>1, <3>1, <3>2 DEF ClientsCounted
  <2>6. \A p \in EchoPeers : BytesKept(p)'
    BY <2>1 DEF BytesKept
  <2> QED BY <2>3, <2>4, <2>5, <2>6
<1>2. CASE Echo!Detach
  <2>1. /\ echoAt = "counted" /\ echoAt' = "accept"
        /\ handler' = [handler EXCEPT ![echoPeer] = "read"]
        /\ UNCHANGED <<echo_client_count, echoBacklog, echoData, echoOpen, echoSent, echoWire,
                       back, received>>
    BY <1>2 DEF Echo!Detach, Echo!GoTo, Echo!traffic
  <2>2. /\ echoPeer \in EchoPeers /\ echoPeer \in Unserved
        /\ \A j \in 1..Len(echoBacklog) : echoBacklog[j] # echoPeer
    BY <2>1 DEF OneThread, Unserved
  <2>3. EchoTypes'
    BY <2>1, <2>2 DEF EchoTypes
  <2>4. OneThread'
    <3>1. \A q \in Unserved : q # echoPeer => q \in Unserved'
      BY <2>1 DEF Unserved, EchoTypes
    <3>2. \A p \in EchoPeers : echoOpen[p] = "new" => handler'[p] = "none"
      BY <2>1, <2>2 DEF OneThread, Unserved, EchoTypes
    <3> QED BY <2>1, <2>2, <3>1, <3>2 DEF OneThread
  <2>5. ClientsCounted'
    <3>1. Served' = Served \cup {echoPeer} /\ echoPeer \notin Served
      BY <2>1, <2>2 DEF Served, Unserved, EchoTypes
    <3>2. IsFiniteSet(Served') /\ Cardinality(Served') = Cardinality(Served) + 1
      BY <2>1, <2>2, <3>1, ServedOneMore
    <3>3. Cardinality(Served) \in Nat
      BY <2>1, FS_CardinalityType DEF ClientsCounted
    <3> QED BY <2>1, <3>2, <3>3 DEF ClientsCounted
  <2>6. \A p \in EchoPeers : BytesKept(p)'
    BY <2>1, <2>2 DEF BytesKept, Unserved, EchoTypes
  <2> QED BY <2>3, <2>4, <2>5, <2>6
<1>3. CASE Echo!NoEndpoint \/ Echo!Starves
  <2>1. /\ echoAt' = "down"
        /\ handler' = [p \in EchoPeers |-> IF handler[p] = "none" THEN "none" ELSE "over"]
        /\ UNCHANGED <<echoBacklog, echoData, echoOpen, echoSent, echoWire, back, received>>
    BY <1>3 DEF Echo!NoEndpoint, Echo!Starves, Echo!Ends, Echo!traffic
  <2>2. EchoTypes'
    BY <2>1 DEF EchoTypes
  <2>3. OneThread'
    <3>1. Unserved \subseteq Unserved'
      BY <2>1 DEF Unserved
    <3> QED BY <2>1, <3>1 DEF OneThread
  <2>4. \A p \in EchoPeers : BytesKept(p)'
    BY <2>1 DEF BytesKept, EchoTypes
  <2> QED BY <2>1, <2>2, <2>3, <2>4 DEF ClientsCounted
<1> QED BY <1>1, <1>2, <1>3 DEF Echo!Main

\* A thread reads, writes or ends.
LEMMA EchoHandler ==
  ASSUME EchoInv, NEW p \in EchoPeers, Echo!Handler(p)
  PROVE  EchoInv'
<1> USE DEF EchoInv
<1>1. /\ UNCHANGED <<echoAt, echoPeer, echoBacklog, echoOpen, echoSent, received>>
      /\ p \in Served
      /\ \A q \in EchoPeers \ {p} : /\ handler'[q] = handler[q] /\ echoData'[q] = echoData[q]
                                    /\ echoWire'[q] = echoWire[q] /\ back'[q] = back[q]
  BY DEF EchoTypes, Echo!Handler, Echo!Read, Echo!Write, Echo!Leave, Echo!GoTo, Echo!main,
         Echo!traffic, Served
<1>2. EchoTypes' /\ BytesKept(p)' /\ handler'[p] # "none"
  <2>1. /\ echoData[p] \in Nat /\ echoSent[p] \in Nat /\ echoWire[p] \in Nat
        /\ back[p] \in Nat /\ received[p] \in Nat /\ BytesKept(p)
    BY DEF EchoTypes
  <2>2. CASE Echo!Read(p)
    <3>1. PICK n \in 1..DataSize : /\ n <= echoWire[p]
                                   /\ echoData' = [echoData EXCEPT ![p] = n]
                                   /\ echoWire' = [echoWire EXCEPT ![p] = @ - n]
      BY <2>2 DEF Echo!Read
    <3>2. handler[p] = "read" /\ handler' = [handler EXCEPT ![p] = "write"] /\ back' = back
      BY <2>2 DEF Echo!Read, Echo!GoTo
    <3>3. n \in Nat /\ n > 0 /\ echoWire[p] - n \in Nat
      BY <2>1, <3>1
    <3>4. EchoTypes'
      BY <1>1, <3>1, <3>2, <3>3 DEF EchoTypes
    <3>5. echoData'[p] = n /\ echoWire'[p] = echoWire[p] - n /\ handler'[p] = "write"
      BY <3>1, <3>2 DEF EchoTypes
    <3> QED BY <1>1, <2>1, <3>2, <3>3, <3>4, <3>5 DEF BytesKept
  <2>3. CASE Echo!Write(p)
    <3>1. /\ handler[p] = "write" /\ echoWire' = echoWire
          /\ handler' = [handler EXCEPT ![p] = IF echoData[p] = 1 THEN "read" ELSE "write"]
          /\ back' = [back EXCEPT ![p] = @ + 1] /\ echoData' = [echoData EXCEPT ![p] = @ - 1]
      BY <2>3 DEF Echo!Write, Echo!GoTo
    <3>2. echoData[p] > 0
      BY <2>1, <3>1 DEF BytesKept
    <3>3. EchoTypes'
      BY <1>1, <2>1, <3>1, <3>2 DEF EchoTypes
    <3>4. /\ echoData'[p] = echoData[p] - 1 /\ back'[p] = back[p] + 1
          /\ handler'[p] = IF echoData[p] = 1 THEN "read" ELSE "write"
      BY <3>1 DEF EchoTypes
    <3> QED BY <1>1, <2>1, <3>1, <3>2, <3>3, <3>4 DEF BytesKept
  <2>4. CASE Echo!Leave(p)
    <3>1. /\ handler' = [handler EXCEPT ![p] = "over"] /\ handler[p] # "over"
          /\ echoData' = [echoData EXCEPT ![p] = 0] /\ echoWire' = echoWire /\ back' = back
      BY <2>4 DEF Echo!Leave, Echo!GoTo, Echo!traffic
    <3>2. EchoTypes'
      BY <1>1, <3>1 DEF EchoTypes
    <3>3. echoData'[p] = 0 /\ handler'[p] = "over"
      BY <3>1 DEF EchoTypes
    <3> QED BY <1>1, <2>1, <3>1, <3>2, <3>3 DEF BytesKept
  <2> QED BY <2>2, <2>3, <2>4 DEF Echo!Handler
<1>3. OneThread'
  <2>1. handler[p] # "none"
    BY <1>1 DEF Served
  <2>2. \A q \in EchoPeers : handler[q] = "none" => handler'[q] = "none"
    BY <1>1, <2>1
  <2>3. Unserved \subseteq Unserved'
    BY <1>1, <2>2 DEF Unserved
  <2> QED BY <1>1, <2>2, <2>3 DEF OneThread
<1>4. ClientsCounted'
  <2>1. CASE Echo!Leave(p)
    <3>1. /\ handler' = [handler EXCEPT ![p] = "over"]
          /\ echo_client_count' = echo_client_count - 1
      BY <2>1 DEF Echo!Leave, Echo!GoTo
    <3>2. Served' = Served \ {p}
      BY <3>1 DEF Served, EchoTypes
    <3>3. ASSUME echoAt # "down"
          PROVE  /\ IsFiniteSet(Served') /\ Cardinality(Served') = Cardinality(Served) - 1
                 /\ Cardinality(Served) \in Nat
      <4>1. IsFiniteSet(Served)
        BY <3>3 DEF ClientsCounted
      <4> QED BY <1>1, <3>2, <4>1, FS_RemoveElement, FS_CardinalityType
    <3> QED BY <1>1, <3>1, <3>3 DEF ClientsCounted
  <2>2. CASE Echo!Read(p) \/ Echo!Write(p)
    <3>1. handler'[p] \in {"read", "write"} /\ echo_client_count' = echo_client_count
      BY <2>2 DEF Echo!Read, Echo!Write, Echo!GoTo, EchoTypes
    <3>2. Served' = Served
      BY <1>1, <3>1 DEF Served
    <3> QED BY <1>1, <3>1, <3>2 DEF ClientsCounted
  <2> QED BY <2>1, <2>2 DEF Echo!Handler
<1>5. \A q \in EchoPeers \ {p} : BytesKept(q)'
  BY <1>1 DEF BytesKept
<1> QED BY <1>2, <1>3, <1>4, <1>5

\* A peer connects, sends, receives or closes.
LEMMA EchoPeerActs ==
  ASSUME EchoInv, NEW p \in EchoPeers,
         Echo!Connect(p) \/ Echo!Send(p) \/ Echo!Receive(p) \/ Echo!Close(p)
  PROVE  EchoInv'
<1> USE DEF EchoInv
<1>1. /\ UNCHANGED <<echoAt, echoPeer, handler, echo_client_count, echoData>>
      /\ \A q \in EchoPeers \ {p} : /\ echoOpen'[q] = echoOpen[q] /\ echoSent'[q] = echoSent[q]
                                    /\ echoWire'[q] = echoWire[q] /\ back'[q] = back[q]
                                    /\ received'[q] = received[q]
  BY DEF EchoTypes, Echo!Connect, Echo!Send, Echo!Receive, Echo!Close, Echo!main, Echo!traffic
<1>2. Served' = Served
  BY <1>1 DEF Served
<1>3. ClientsCounted'
  BY <1>1, <1>2 DEF ClientsCounted
<1>4. \A q \in EchoPeers \ {p} : BytesKept(q)'
  BY <1>1 DEF BytesKept
<1>5. /\ echoData[p] \in Nat /\ echoSent[p] \in Nat /\ echoWire[p] \in Nat
      /\ back[p] \in Nat /\ received[p] \in Nat /\ BytesKept(p)
  BY DEF EchoTypes
<1>6. CASE Echo!Connect(p)
  <2>1. /\ echoOpen[p] = "new" /\ echoOpen' = [echoOpen EXCEPT ![p] = "yes"]
        /\ echoBacklog' = Append(echoBacklog, p)
        /\ UNCHANGED <<echoSent, echoWire, back, received>>
    BY <1>6 DEF Echo!Connect, Echo!traffic
  <2>2. EchoTypes'
    BY <1>1, <2>1 DEF EchoTypes
  <2>3. /\ p \notin Unserved /\ handler[p] = "none"
        /\ Unserved' = Unserved \cup {p}
    BY <1>1, <2>1 DEF OneThread, Unserved, EchoTypes
  <2>4. /\ Len(echoBacklog) \in Nat /\ Len(echoBacklog') = Len(echoBacklog) + 1
        /\ \A j \in 1..Len(echoBacklog) : echoBacklog'[j] = echoBacklog[j]
        /\ echoBacklog'[Len(echoBacklog) + 1] = p
    BY <2>1 DEF EchoTypes
  <2>5. \A j \in 1..Len(echoBacklog') : j \in 1..Len(echoBacklog) \/ j = Len(echoBacklog) + 1
    BY <2>4
  <2>6. \A j \in 1..Len(echoBacklog) : echoBacklog[j] \in Unserved /\ echoBacklog[j] # p
    BY <2>3 DEF OneThread
  <2>7. \A j \in 1..Len(echoBacklog') : echoBacklog'[j] \in Unserved'
    BY <2>3, <2>4, <2>5, <2>6
  <2>8. \A j, k \in 1..Len(echoBacklog') : echoBacklog'[j] = echoBacklog'[k] => j = k
    BY <2>4, <2>5, <2>6 DEF OneThread
  <2>9. echoAt = "counted" =>
          echoPeer \in Unserved' /\ \A j \in 1..Len(echoBacklog') : echoBacklog'[j] # echoPeer
    BY <2>3, <2>4, <2>5 DEF OneThread
  <2>10. \A q \in EchoPeers : echoOpen'[q] = "new" => handler[q] = "none"
    BY <1>1, <2>3 DEF OneThread
  <2>11. BytesKept(p)'
    BY <1>1, <1>5, <2>1 DEF BytesKept
  <2> QED BY <1>1, <1>3, <1>4, <2>2, <2>7, <2>8, <2>9, <2>10, <2>11 DEF OneThread
<1>7. CASE ~Echo!Connect(p)
  <2>1. echoBacklog' = echoBacklog
    BY <1>7 DEF Echo!Send, Echo!Receive, Echo!Close, Echo!main
  <2>2. EchoTypes' /\ BytesKept(p)' /\ echoOpen[p] # "new" /\ echoOpen'[p] # "new"
    <3>1. CASE Echo!Send(p)
      <4>1. /\ echoSent' = [echoSent EXCEPT ![p] = @ + 1]
            /\ echoWire' = [echoWire EXCEPT ![p] = @ + 1]
            /\ echoOpen[p] = "yes" /\ UNCHANGED <<echoOpen, back, received>>
        BY <3>1 DEF Echo!Send
      <4>2. EchoTypes'
        BY <1>1, <1>5, <2>1, <4>1 DEF EchoTypes
      <4>3. echoSent'[p] = echoSent[p] + 1 /\ echoWire'[p] = echoWire[p] + 1
        BY <4>1 DEF EchoTypes
      <4> QED BY <1>1, <1>5, <4>1, <4>2, <4>3 DEF BytesKept
    <3>2. CASE Echo!Receive(p)
      <4>1. /\ received' = [received EXCEPT ![p] = @ + back[p]]
            /\ back' = [back EXCEPT ![p] = 0]
            /\ echoOpen[p] = "yes" /\ UNCHANGED <<echoOpen, echoSent, echoWire>>
        BY <3>2 DEF Echo!Receive
      <4>2. EchoTypes'
        BY <1>1, <1>5, <2>1, <4>1 DEF EchoTypes
      <4>3. received'[p] = received[p] + back[p] /\ back'[p] = 0
        BY <4>1 DEF EchoTypes
      <4> QED BY <1>1, <1>5, <4>1, <4>2, <4>3 DEF BytesKept
    <3>3. CASE Echo!Close(p)
      <4>1. /\ echoOpen[p] = "yes" /\ echoOpen' = [echoOpen EXCEPT ![p] = "no"]
            /\ UNCHANGED <<echoSent, echoWire, back, received>>
        BY <3>3 DEF Echo!Close, Echo!traffic
      <4> QED BY <1>1, <1>5, <2>1, <4>1 DEF EchoTypes, BytesKept
    <3> QED BY <1>7, <3>1, <3>2, <3>3
  <2>3. Unserved' = Unserved /\ \A q \in EchoPeers : echoOpen'[q] = "new" => echoOpen[q] = "new"
    BY <1>1, <2>2 DEF Unserved
  <2>4. OneThread'
    BY <1>1, <2>1, <2>3 DEF OneThread
  <2> QED BY <1>3, <1>4, <2>2, <2>4
<1> QED BY <1>6, <1>7

\* The invariant holds at the start.
LEMMA EchoInit == Echo!Init => EchoInv
<1> SUFFICES ASSUME Echo!Init PROVE EchoInv
  OBVIOUS
<1> USE DEF Echo!Init
<1>1. EchoTypes /\ OneThread
  BY DEF EchoTypes, OneThread, Unserved
<1>2. ClientsCounted
  <2>1. Served = {}
    BY DEF Served
  <2> QED BY <2>1, FS_EmptySet DEF ClientsCounted
<1>3. \A p \in EchoPeers : BytesKept(p)
  BY DEF BytesKept
<1> QED BY <1>1, <1>2, <1>3 DEF EchoInv

\* Every step keeps the invariant.
LEMMA EchoNext == EchoInv /\ [MCNext]_allVars => EchoInv'
<1> SUFFICES ASSUME EchoInv, [MCNext]_allVars PROVE EchoInv'
  OBVIOUS
<1>1. Echo!Next \/ UNCHANGED echoVars
  BY DEF MCNext, ButUsers, ButHttp, ButRedis, ButStriped, allVars, servers
<1>2. CASE Echo!Next
  <2>1. CASE Echo!Main \/ Echo!Starves
    BY <2>1, EchoMain
  <2> QED BY <1>2, <2>1, EchoHandler, EchoPeerActs DEF Echo!Next
<1>3. CASE UNCHANGED echoVars
  <2>1. UNCHANGED <<echoAt, echoPeer, echo_client_count, handler, echoData, echoBacklog,
                    echoOpen, echoSent, echoWire, back, received>>
    BY <1>3 DEF echoVars
  <2> QED BY <2>1 DEF EchoInv, EchoTypes, OneThread, Unserved, ClientsCounted, Served, BytesKept
<1> QED BY <1>1, <1>2, <1>3

\* For any number of peers, sizes and readings: no connection is given to two threads;
\* client_count is, until main is down, the number of those that have a thread or are
\* about to; a thread has written back in full what it read before it reads again.
THEOREM EchoesAndCounts == MCSpec => [](OneThread /\ ClientsCounted /\ EchoesOnly)
<1>1. MCInit => EchoInv
  BY EchoInit DEF MCInit
<1>2. EchoInv => OneThread /\ ClientsCounted /\ EchoesOnly
  <2> SUFFICES ASSUME EchoInv PROVE EchoesOnly
    BY DEF EchoInv
  <2> SUFFICES ASSUME NEW p \in EchoPeers
               PROVE  /\ received[p] + back[p] <= echoSent[p]
                      /\ handler[p] = "read" => received[p] + back[p] + echoWire[p] = echoSent[p]
    BY DEF EchoesOnly
  <2>1. /\ echoData[p] \in Nat /\ echoSent[p] \in Nat /\ echoWire[p] \in Nat
        /\ back[p] \in Nat /\ received[p] \in Nat /\ BytesKept(p)
    BY DEF EchoInv, EchoTypes
  <2> QED BY <2>1 DEF BytesKept
<1> QED BY <1>1, <1>2, EchoNext, PTL DEF MCSpec
=============================================================================
