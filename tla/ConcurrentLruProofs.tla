------------------------- MODULE ConcurrentLruProofs ------------------------
(***************************************************************************)
(* Theorems about ConcurrentLru for any threads, keys, stripes, capacity   *)
(* and nodes.  IInv, which says that every list mirrors the beginning of   *)
(* the keys of its stripe in order of use, is inductive.                   *)
(***************************************************************************)
EXTENDS ConcurrentLru, SequenceLemmas

Typed ==
  /\ data \in [Keys -> Nodes \cup {NoNode}]
  /\ list \in [Stripes -> Seq(Nodes)]
  /\ used \in [Stripes -> Seq(Keys)]
  /\ latest \in [Keys -> SUBSET Values]

\* The keys used in a stripe are keys of the stripe, and each is there once.
UsedOnce == \A s \in Stripes : IsInjective(used[s])
UsedHere == \A s \in Stripes : \A i \in 1..Len(used[s]) : StripeOf[used[s][i]] = s

Fits ==
  \A s \in Stripes :
    Len(list[s]) = IF Len(used[s]) < capacity THEN Len(used[s]) ELSE capacity

\* The i-th node of a list holds the i-th key used, with the value inserted last,
\* and the key's iterator is the node.
Mirror ==
  \A s \in Stripes : \A i \in 1..Len(list[s]) :
    /\ data[used[s][i]] = list[s][i]
    /\ pair[list[s][i]][1] = used[s][i]
    /\ latest[used[s][i]] = {pair[list[s][i]][2]}

\* Only keys of the list have an iterator.
Indexed ==
  \A k \in Keys : data[k] # NoNode =>
    \E i \in 1..Len(list[StripeOf[k]]) : used[StripeOf[k]][i] = k

IInv == Typed /\ UsedOnce /\ UsedHere /\ Fits /\ Mirror /\ Indexed

-----------------------------------------------------------------------------
\* What moving x to the front of a sequence, as y, does to the others: the i-th is
\* the one that was From(p, i)-th, where p was the place of x.
From(p, i) == IF i <= p THEN i - 1 ELSE i

LEMMA Moved ==
  ASSUME NEW S, NEW s \in Seq(S), NEW x, NEW y \in S, NEW r, r = Fronted(s, x, y),
         IsInjective(s), NEW p, p = Place(s, x)
  PROVE  /\ r \in Seq(S) /\ r[1] = y
         /\ Len(r) = IF p <= Len(s) THEN Len(s) ELSE Len(s) + 1
         /\ \A i \in 2..Len(r) :
              From(p, i) \in 1..Len(s) /\ From(p, i) # p /\ r[i] = s[From(p, i)]
         /\ p \in 1..Len(s) + 1
         /\ \A i \in 1..Len(s) : s[i] = x <=> i = p
<1>1. r \in Seq(S)
  BY MoveToFront
<1>2. Len(r) = IF p <= Len(s) THEN Len(s) ELSE Len(s) + 1
  BY MoveToFront
<1>3. r[1] = y
  BY MoveToFront
<1>4. \A i \in 2..Len(r) : r[i] = IF i <= p THEN s[i - 1] ELSE s[i]
  BY MoveToFront
<1>5. /\ p \in 1..Len(s) + 1
      /\ p <= Len(s) => s[p] = x
      /\ p = Len(s) + 1 => \A i \in 1..Len(s) : s[i] # x
  BY PlaceIs
<1>6. DOMAIN s = 1..Len(s) /\ Len(s) \in Nat
  OBVIOUS
<1>7. \A i \in 1..Len(s) : s[i] = x <=> i = p
  BY <1>5, <1>6 DEF IsInjective
<1>8. ASSUME NEW i \in 2..Len(r)
      PROVE  From(p, i) \in 1..Len(s) /\ From(p, i) # p /\ r[i] = s[From(p, i)]
  <2>1. From(p, i) \in 1..Len(s) /\ From(p, i) # p
    BY <1>2, <1>5, <1>6 DEF From
  <2> QED BY <1>4, <2>1 DEF From
<1> QED BY <1>1, <1>2, <1>3, <1>5, <1>7, <1>8

\* A key that is there once stays there once.
LEMMA MovedOnce ==
  ASSUME NEW S, NEW s \in Seq(S), NEW x \in S, NEW r, r = ToFront(s, x), IsInjective(s)
  PROVE  IsInjective(r)
<1>0. PICK p : p = Place(s, x)
  OBVIOUS
<1>1. r = Fronted(s, x, x)
  BY DEF ToFront, Fronted
<1>2. r \in Seq(S) /\ r[1] = x
  BY <1>0, <1>1, Moved
<1>3. \A i \in 2..Len(r) :
        From(p, i) \in 1..Len(s) /\ From(p, i) # p /\ r[i] = s[From(p, i)]
  BY <1>0, <1>1, Moved
<1>4. p \in 1..Len(s) + 1 /\ \A i \in 1..Len(s) : s[i] = x <=> i = p
  BY <1>0, <1>1, Moved
<1>5. /\ DOMAIN r = 1..Len(r) /\ Len(r) \in Nat
      /\ DOMAIN s = 1..Len(s) /\ Len(s) \in Nat /\ p \in Nat
  BY <1>2, <1>4
<1>6. \A i \in 2..Len(r) : r[i] # x
  BY <1>3, <1>4
<1>7. \A i, j \in 2..Len(r) : r[i] = r[j] => From(p, i) = From(p, j)
  BY <1>3, <1>5 DEF IsInjective
<1>8. \A i, j \in 2..Len(r) : From(p, i) = From(p, j) => i = j
  BY <1>3, <1>5 DEF From
<1>9. \A i \in 1..Len(r) : i = 1 \/ i \in 2..Len(r)
  BY <1>5
<1> QED BY <1>2, <1>5, <1>6, <1>7, <1>8, <1>9 DEF IsInjective

\* A stripe's keys in order of use, u, and its list, l: the list is as long as it
\* may be, and the node d is where the key k is.
Aligned(u, l, k, d) ==
  /\ IsInjective(u) /\ IsInjective(l)
  /\ Len(l) = IF Len(u) < capacity THEN Len(u) ELSE capacity
  /\ \A i \in 1..Len(l) : l[i] = d <=> u[i] = k

\* Both with k and its node, which was d, at the front, u2 and l2.  The list is as
\* long as it may be, or one too long with the last key at its end and k new; ...
FitsAgain(u2, l2) == Len(l2) = IF Len(u2) < capacity THEN Len(u2) ELSE capacity
OneTooLong(u, l, u2, l2, k) ==
  /\ Len(l2) = capacity + 1 /\ Len(u2) >= capacity /\ Len(l) = capacity
  /\ capacity > 0 => l2[Len(l2)] = l[capacity]
  /\ \A j \in 1..Len(l) : u[j] # k

\* ... what comes behind the front was in the list, with the same key, ...
FromList(u, l, u2, l2, k, d, i) ==
  \E j \in 1..Len(l) : /\ l2[i] = l[j] /\ u2[i] = u[j] /\ l[j] # d /\ u[j] # k
                       /\ Len(l2) > capacity /\ i <= capacity => j < capacity

\* ... and every other key of the list is still there.
InNewList(u, u2, l2, j) ==
  \E i \in 2..Len(l2) : /\ u2[i] = u[j]
                        /\ Len(l2) > capacity /\ j < capacity => i <= capacity

\* The lengths before, ul and ll, and after, ur and lr.
LEMMA Lengths ==
  ASSUME NEW ul \in Nat, NEW ll \in Nat, NEW ur \in Nat, NEW lr \in Nat, NEW p \in Nat,
         NEW q \in Nat, NEW most \in Nat,
         ll = IF ul < most THEN ul ELSE most,
         1 <= p, p <= ul + 1,
         ur = IF p <= ul THEN ul ELSE ul + 1,
         lr = IF q <= ll THEN ll ELSE ll + 1,
         \/ q = p /\ p <= ll
         \/ q = ll + 1 /\ p > ll
  PROVE  /\ lr <= ur /\ lr >= 1 /\ ur >= 1
         /\ \/ lr = IF ur < most THEN ur ELSE most
            \/ lr = most + 1 /\ ur >= most /\ ll = most /\ q = ll + 1
<1>1. CASE q = p /\ p <= ll
  BY <1>1
<1>2. CASE q = ll + 1 /\ p > ll
  BY <1>2
<1> QED BY <1>1, <1>2

LEMMA Renewed ==
  ASSUME NEW u \in Seq(Keys), NEW l \in Seq(Nodes), NEW k \in Keys, NEW n \in Nodes, NEW d,
         Aligned(u, l, k, d), NEW u2, u2 = ToFront(u, k), NEW l2, l2 = Fronted(l, d, n)
  PROVE  /\ u2 \in Seq(Keys) /\ Len(u2) >= 1 /\ u2[1] = k
         /\ l2 \in Seq(Nodes) /\ Len(l2) >= 1 /\ l2[1] = n
         /\ \A i \in 2..Len(u2) : \E j \in 1..Len(u) : u2[i] = u[j]
         /\ FitsAgain(u2, l2) \/ OneTooLong(u, l, u2, l2, k)
         /\ \A i \in 2..Len(l2) : FromList(u, l, u2, l2, k, d, i)
         /\ \A j \in 1..Len(l) : u[j] # k => InNewList(u, u2, l2, j)
<1> USE LruAssumption
<1>a. IsInjective(u) /\ IsInjective(l)
  BY DEF Aligned
<1>b. Len(l) = IF Len(u) < capacity THEN Len(u) ELSE capacity
  BY DEF Aligned
<1>c. \A i \in 1..Len(l) : l[i] = d <=> u[i] = k
  BY DEF Aligned
<1>1. PICK p : p = Place(u, k)
  OBVIOUS
<1>2. PICK q : q = Place(l, d)
  OBVIOUS
<1>3. u2 = Fronted(u, k, k)
  BY DEF ToFront, Fronted
<1>4. /\ u2 \in Seq(Keys) /\ u2[1] = k
      /\ Len(u2) = IF p <= Len(u) THEN Len(u) ELSE Len(u) + 1
      /\ p \in 1..Len(u) + 1
  <2>1. u2 \in Seq(Keys)
    BY <1>a, <1>1, <1>3, Moved
  <2>2. u2[1] = k
    BY <1>a, <1>1, <1>3, Moved
  <2>3. Len(u2) = IF p <= Len(u) THEN Len(u) ELSE Len(u) + 1
    BY <1>a, <1>1, <1>3, Moved
  <2>4. p \in 1..Len(u) + 1
    BY <1>a, <1>1, <1>3, Moved
  <2> QED BY <2>1, <2>2, <2>3, <2>4
<1>5. /\ \A i \in 2..Len(u2) :
           From(p, i) \in 1..Len(u) /\ From(p, i) # p /\ u2[i] = u[From(p, i)]
      /\ \A i \in 1..Len(u) : u[i] = k <=> i = p
  <2>1. \A i \in 2..Len(u2) :
          From(p, i) \in 1..Len(u) /\ From(p, i) # p /\ u2[i] = u[From(p, i)]
    BY <1>a, <1>1, <1>3, Moved
  <2>2. \A i \in 1..Len(u) : u[i] = k <=> i = p
    BY <1>a, <1>1, <1>3, Moved
  <2> QED BY <2>1, <2>2
<1>6. /\ l2 \in Seq(Nodes) /\ l2[1] = n
      /\ Len(l2) = IF q <= Len(l) THEN Len(l) ELSE Len(l) + 1
      /\ q \in 1..Len(l) + 1
  <2>1. l2 \in Seq(Nodes)
    BY <1>a, <1>2, Moved
  <2>2. l2[1] = n
    BY <1>a, <1>2, Moved
  <2>3. Len(l2) = IF q <= Len(l) THEN Len(l) ELSE Len(l) + 1
    BY <1>a, <1>2, Moved
  <2>4. q \in 1..Len(l) + 1
    BY <1>a, <1>2, Moved
  <2> QED BY <2>1, <2>2, <2>3, <2>4
<1>7. /\ \A i \in 2..Len(l2) :
           From(q, i) \in 1..Len(l) /\ From(q, i) # q /\ l2[i] = l[From(q, i)]
      /\ \A i \in 1..Len(l) : l[i] = d <=> i = q
  <2>1. \A i \in 2..Len(l2) :
          From(q, i) \in 1..Len(l) /\ From(q, i) # q /\ l2[i] = l[From(q, i)]
    BY <1>a, <1>2, Moved
  <2>2. \A i \in 1..Len(l) : l[i] = d <=> i = q
    BY <1>a, <1>2, Moved
  <2> QED BY <2>1, <2>2
<1>8. /\ capacity \in Nat /\ Len(u) \in Nat /\ Len(l) \in Nat /\ Len(l) <= Len(u)
      /\ Len(u2) \in Nat /\ Len(l2) \in Nat /\ p \in Nat /\ q \in Nat
  BY <1>b, <1>4, <1>6
\* d is where k is, or both are behind the list.
<1>9. \/ q = p /\ p <= Len(l)
      \/ q = Len(l) + 1 /\ p > Len(l)
  <2>1. \A i \in 1..Len(l) : i = q <=> i = p
    BY <1>5, <1>7, <1>8, <1>c
  <2>2. CASE q <= Len(l)
    <3>1. q \in 1..Len(l)
      BY <1>6, <1>8, <2>2
    <3> QED BY <2>1, <2>2, <3>1
  <2>3. CASE ~(q <= Len(l))
    <3>1. q = Len(l) + 1 /\ q \notin 1..Len(l)
      BY <1>6, <1>8, <2>3
    <3>2. p \notin 1..Len(l)
      BY <2>1, <3>1
    <3> QED BY <1>4, <1>8, <3>1, <3>2
  <2> QED BY <2>2, <2>3
<1>10. /\ Len(l2) <= Len(u2) /\ Len(l2) >= 1 /\ Len(u2) >= 1
       /\ \/ Len(l2) = IF Len(u2) < capacity THEN Len(u2) ELSE capacity
          \/ /\ Len(l2) = capacity + 1 /\ Len(u2) >= capacity /\ Len(l) = capacity
             /\ q = Len(l) + 1
  <2>1. /\ 1 <= p /\ p <= Len(u) + 1
        /\ Len(u2) = IF p <= Len(u) THEN Len(u) ELSE Len(u) + 1
        /\ Len(l2) = IF q <= Len(l) THEN Len(l) ELSE Len(l) + 1
    BY <1>4, <1>6, <1>8
  <2> QED BY <1>b, <1>8, <1>9, <2>1, Lengths
<1>11. \A i \in 2..Len(l2) : i \in 2..Len(u2) /\ From(q, i) = From(p, i)
  BY <1>6, <1>8, <1>9, <1>10 DEF From
<1>12. ASSUME NEW i \in 2..Len(l2)
       PROVE  FromList(u, l, u2, l2, k, d, i)
  <2>1. /\ From(q, i) \in 1..Len(l) /\ From(q, i) # q
        /\ l2[i] = l[From(q, i)] /\ u2[i] = u[From(q, i)]
    BY <1>5, <1>7, <1>11
  <2>2. l[From(q, i)] # d /\ u[From(q, i)] # k
    BY <1>7, <1>c, <2>1
  <2>3. Len(l2) > capacity /\ i <= capacity => From(q, i) < capacity
    BY <1>8, <1>10 DEF From
  <2> QED BY <2>1, <2>2, <2>3 DEF FromList
<1>13. ASSUME NEW j \in 1..Len(l), u[j] # k
       PROVE  InNewList(u, u2, l2, j)
  <2>1. j # p /\ j \in Nat /\ j \in 1..Len(u)
    BY <1>5, <1>8, <1>13
  <2>2. PICK i : i = IF j < p THEN j + 1 ELSE j
    OBVIOUS
  <2>3. i \in 2..Len(l2) /\ From(p, i) = j
    <3>1. CASE j < p
      BY <1>6, <1>8, <1>9, <2>1, <2>2, <3>1 DEF From
    <3>2. CASE ~(j < p)
      <4>1. p < j /\ q = p /\ q <= Len(l)
        BY <1>8, <1>9, <2>1, <3>2
      <4>2. i = j /\ Len(l2) = Len(l) /\ j >= 2 /\ ~(j <= p)
        BY <1>4, <1>6, <1>8, <2>1, <2>2, <3>2, <4>1
      <4> QED BY <1>8, <2>1, <4>2 DEF From
    <3> QED BY <3>1, <3>2
  <2>4. u2[i] = u[j]
    BY <1>5, <1>11, <2>3
  <2>5. Len(l2) > capacity /\ j < capacity => i <= capacity
    BY <1>8, <2>1, <2>2
  <2> QED BY <2>3, <2>4, <2>5 DEF InNewList
<1>14. ASSUME Len(l2) = capacity + 1, Len(l) = capacity, q = Len(l) + 1
       PROVE  /\ capacity > 0 => l2[Len(l2)] = l[capacity]
              /\ \A j \in 1..Len(l) : u[j] # k
  <2>1. capacity > 0 => Len(l2) \in 2..Len(l2) /\ From(q, Len(l2)) = capacity
    BY <1>8, <1>14 DEF From
  <2>2. \A j \in 1..Len(l) : u[j] # k
    BY <1>5, <1>8, <1>9, <1>14
  <2> QED BY <1>7, <2>1, <2>2
<1>15. FitsAgain(u2, l2) \/ OneTooLong(u, l, u2, l2, k)
  BY <1>10, <1>14 DEF FitsAgain, OneTooLong
<1> QED BY <1>4, <1>5, <1>6, <1>10, <1>12, <1>13, <1>15

-----------------------------------------------------------------------------
LEMMA StripeFacts ==
  ASSUME IInv, NEW s \in Stripes
  PROVE  /\ used[s] \in Seq(Keys) /\ list[s] \in Seq(Nodes)
         /\ DOMAIN used[s] = 1..Len(used[s]) /\ DOMAIN list[s] = 1..Len(list[s])
         /\ Len(list[s]) \in Nat /\ Len(used[s]) \in Nat /\ Len(list[s]) <= Len(used[s])
         /\ IsInjective(used[s]) /\ IsInjective(list[s])
         /\ \A k \in Keys : StripeOf[k] = s =>
              \A i \in 1..Len(list[s]) : list[s][i] = data[k] <=> used[s][i] = k
<1> USE LruAssumption DEF IInv
<1>1. used[s] \in Seq(Keys) /\ list[s] \in Seq(Nodes)
  BY DEF Typed
<1>2. /\ DOMAIN used[s] = 1..Len(used[s]) /\ DOMAIN list[s] = 1..Len(list[s])
      /\ Len(list[s]) \in Nat /\ Len(used[s]) \in Nat
  BY <1>1
<1>3. Len(list[s]) <= Len(used[s])
  BY <1>2 DEF Fits
<1>4. IsInjective(used[s])
  BY DEF UsedOnce
<1>5. \A i \in 1..Len(list[s]) : i \in 1..Len(used[s])
  BY <1>2, <1>3
<1>6. IsInjective(list[s])
  <2>1. ASSUME NEW i \in 1..Len(list[s]), NEW j \in 1..Len(list[s]), list[s][i] = list[s][j]
        PROVE  i = j
    <3>1. used[s][i] = used[s][j]
      BY <2>1 DEF Mirror
    <3> QED BY <1>2, <1>4, <1>5, <3>1 DEF IsInjective
  <2> QED BY <1>2, <2>1 DEF IsInjective
<1>7. ASSUME NEW k \in Keys, StripeOf[k] = s, NEW i \in 1..Len(list[s])
      PROVE  list[s][i] = data[k] <=> used[s][i] = k
  <2>1. ASSUME used[s][i] = k PROVE list[s][i] = data[k]
    BY <2>1 DEF Mirror
  <2>2. ASSUME list[s][i] = data[k] PROVE used[s][i] = k
    <3>1. data[k] # NoNode
      BY <1>1, <2>2
    <3>2. PICK j \in 1..Len(list[s]) : used[s][j] = k
      BY <1>7, <3>1 DEF Indexed
    <3>3. data[k] = list[s][j]
      BY <3>2 DEF Mirror
    <3> QED BY <1>2, <1>6, <2>2, <3>2, <3>3 DEF IsInjective
  <2> QED BY <2>1, <2>2
<1> QED BY <1>1, <1>2, <1>3, <1>4, <1>6, <1>7

\* No node is in the lists of two stripes.
LEMMA Disjoint ==
  ASSUME IInv, NEW s \in Stripes, NEW t \in Stripes, s # t,
         NEW i \in 1..Len(list[s]), NEW j \in 1..Len(list[t])
  PROVE  list[s][i] # list[t][j]
<1>1. i \in 1..Len(used[s]) /\ j \in 1..Len(used[t])
  BY StripeFacts
<1>2. StripeOf[used[s][i]] = s /\ StripeOf[used[t][j]] = t
  BY <1>1 DEF IInv, UsedHere
<1>3. pair[list[s][i]][1] = used[s][i] /\ pair[list[t][j]][1] = used[t][j]
  BY DEF IInv, Mirror
<1> QED BY <1>2, <1>3

LEMMA FrontEffect ==
  ASSUME NEW S, NEW s \in Seq(S), Len(s) >= 1
  PROVE  /\ Front(s) \in Seq(S) /\ Len(Front(s)) = Len(s) - 1
         /\ \A i \in 1..Len(s) - 1 : Front(s)[i] = s[i]
<1>1. PICK m : m = Len(s) - 1
  OBVIOUS
<1>2. m \in Nat /\ \A i \in 1..m : s[i] \in S
  BY <1>1
<1>3. Front(s) = SubSeq(s, 1, m)
  BY <1>1 DEF Front
<1>4. SubSeq(s, 1, m) \in Seq(S)
  BY <1>2, SubSeqProperties
<1>5. Len(SubSeq(s, 1, m)) = IF 1 <= m THEN m - 1 + 1 ELSE 0
  BY <1>2, SubSeqProperties
<1>6. \A i \in 1..m - 1 + 1 : SubSeq(s, 1, m)[i] = s[1 + i - 1]
  BY <1>2, SubSeqProperties
<1>7. Len(SubSeq(s, 1, m)) = m
  BY <1>2, <1>5
<1>8. \A i \in 1..m : SubSeq(s, 1, m)[i] = s[i]
  BY <1>2, <1>6
<1> QED BY <1>1, <1>3, <1>4, <1>7, <1>8

-----------------------------------------------------------------------------
LEMMA InitIInv == Init => IInv
<1> SUFFICES ASSUME Init PROVE IInv
  OBVIOUS
<1> USE LruAssumption DEF Init
<1>1. \A s \in Stripes : list[s] = <<>> /\ used[s] = <<>> /\ Len(list[s]) = 0 /\ Len(used[s]) = 0
  OBVIOUS
<1>2. Typed
  BY DEF Typed
<1>3. UsedOnce /\ UsedHere
  BY <1>1 DEF UsedOnce, UsedHere, IsInjective
<1>4. Fits /\ Mirror /\ Indexed
  BY <1>1 DEF Fits, Mirror, Indexed
<1> QED BY <1>2, <1>3, <1>4 DEF IInv

\* What Use(k) does to the keys of the stripes.
LEMMA UseStep ==
  ASSUME IInv, NEW k \in Keys, Use(k)
  PROVE  /\ used' \in [Stripes -> Seq(Keys)] /\ UsedOnce' /\ UsedHere'
         /\ used'[StripeOf[k]] = ToFront(used[StripeOf[k]], k)
         /\ \A t \in Stripes \ {StripeOf[k]} : used'[t] = used[t]
<1> USE LruAssumption
<1>1. PICK s \in Stripes : s = StripeOf[k]
  BY DEF Stripes
<1>2. PICK u2 : u2 = ToFront(used[s], k)
  OBVIOUS
<1>3. used \in [Stripes -> Seq(Keys)]
  BY DEF IInv, Typed
<1>4. /\ used'[s] = u2 /\ DOMAIN used' = Stripes
      /\ \A t \in Stripes \ {s} : used'[t] = used[t]
      /\ used' = [used EXCEPT ![s] = u2]
  BY <1>1, <1>2, <1>3 DEF Use
<1>5. /\ used[s] \in Seq(Keys) /\ IsInjective(used[s])
      /\ u2 = Fronted(used[s], k, k)
  BY <1>2, StripeFacts DEF ToFront, Fronted
<1>6. PICK p : p = Place(used[s], k)
  OBVIOUS
<1>7. u2 \in Seq(Keys) /\ u2[1] = k
  BY <1>5, <1>6, Moved
<1>8. \A i \in 2..Len(u2) : From(p, i) \in 1..Len(used[s]) /\ u2[i] = used[s][From(p, i)]
  BY <1>5, <1>6, Moved
<1>9. IsInjective(u2)
  BY <1>2, <1>5, MovedOnce
<1>10. used' \in [Stripes -> Seq(Keys)]
  BY <1>3, <1>4, <1>7
<1>11. UsedOnce'
  BY <1>4, <1>9 DEF IInv, UsedOnce
<1>12. UsedHere'
  <2>1. ASSUME NEW i \in 1..Len(u2) PROVE StripeOf[u2[i]] = s
    <3>1. CASE i = 1
      BY <1>1, <1>7, <3>1
    <3>2. CASE i # 1
      <4>1. i \in 2..Len(u2)
        BY <1>7, <3>2
      <4> QED BY <1>8, <4>1 DEF IInv, UsedHere
    <3> QED BY <3>1, <3>2
  <2> QED BY <1>4, <2>1 DEF IInv, UsedHere
<1> QED BY <1>1, <1>2, <1>4, <1>10, <1>11, <1>12

\* A hit moves the pair with its key.
LEMMA GetStep ==
  ASSUME IInv, NEW t \in Threads, Get(t)
  PROVE  IInv'
<1> USE LruAssumption
<1>1. PICK k \in Keys : /\ data[k] # NoNode
                        /\ list' = [list EXCEPT ![StripeOf[k]] = ToFront(@, data[k])]
                        /\ Use(k)
  BY DEF Get
<1>2. UNCHANGED <<data, pair, latest>>
  BY DEF Get
<1>3. PICK s \in Stripes : s = StripeOf[k]
  BY DEF Stripes
<1> DEFINE u == used[s]  l == list[s]  d == data[k]
<1>4. PICK u2 : u2 = ToFront(u, k)
  OBVIOUS
<1>5. PICK l2 : l2 = Fronted(l, d, d)
  OBVIOUS
<1>6. list \in [Stripes -> Seq(Nodes)] /\ data \in [Keys -> Nodes \cup {NoNode}]
      /\ d \in Nodes
  BY <1>1 DEF IInv, Typed
<1>7. /\ list'[s] = l2 /\ list' = [list EXCEPT ![s] = l2]
      /\ \A r \in Stripes \ {s} : list'[r] = list[r]
  BY <1>1, <1>3, <1>5, <1>6 DEF ToFront, Fronted
<1>8. /\ used'[s] = u2 /\ \A r \in Stripes \ {s} : used'[r] = used[r]
      /\ used' \in [Stripes -> Seq(Keys)] /\ UsedOnce' /\ UsedHere'
  BY <1>1, <1>3, <1>4, UseStep
<1>9. /\ u \in Seq(Keys) /\ l \in Seq(Nodes) /\ IsInjective(u) /\ IsInjective(l)
      /\ Len(l) \in Nat /\ Len(u) \in Nat
      /\ \A i \in 1..Len(l) : l[i] = d <=> u[i] = k
  BY <1>3, StripeFacts
<1>10. Aligned(u, l, k, d)
  BY <1>9 DEF IInv, Fits, Aligned
<1>11. PICK j0 \in 1..Len(l) : u[j0] = k
  BY <1>1, <1>3 DEF IInv, Indexed
<1> HIDE DEF u, l, d
<1>12. /\ Len(u2) >= 1 /\ u2[1] = k /\ u2 \in Seq(Keys)
       /\ l2 \in Seq(Nodes) /\ Len(l2) >= 1 /\ l2[1] = d
  BY <1>4, <1>5, <1>6, <1>9, <1>10, Renewed, SMTT(30)
<1>13. FitsAgain(u2, l2)
  <2>1. FitsAgain(u2, l2) \/ OneTooLong(u, l, u2, l2, k)
    BY <1>4, <1>5, <1>6, <1>9, <1>10, Renewed
  <2> QED BY <1>11, <2>1 DEF OneTooLong
<1>14. ASSUME NEW i \in 2..Len(l2) PROVE FromList(u, l, u2, l2, k, d, i)
  BY <1>4, <1>5, <1>6, <1>9, <1>10, Renewed
<1>15. \A j \in 1..Len(l) : u[j] # k => InNewList(u, u2, l2, j)
  BY <1>4, <1>5, <1>6, <1>9, <1>10, Renewed
<1>16. Typed'
  <2>1. list' \in [Stripes -> Seq(Nodes)]
    BY <1>6, <1>7, <1>12
  <2> QED BY <1>2, <1>8, <2>1 DEF IInv, Typed
<1>17. Fits'
  BY <1>7, <1>8, <1>13 DEF IInv, Fits, FitsAgain
<1>18. Mirror'
  <2>1. \A i \in 1..Len(l) : /\ data[u[i]] = l[i] /\ pair[l[i]][1] = u[i]
                              /\ latest[u[i]] = {pair[l[i]][2]}
    BY DEF IInv, Mirror, u, l
  <2>2. ASSUME NEW i \in 1..Len(l2)
        PROVE  /\ data[u2[i]] = l2[i] /\ pair[l2[i]][1] = u2[i]
               /\ latest[u2[i]] = {pair[l2[i]][2]}
    <3>1. CASE i = 1
      <4>1. l[j0] = d
        BY <1>9, <1>11
      <4>2. u2[i] = u[j0] /\ l2[i] = l[j0]
        BY <1>11, <1>12, <3>1, <4>1
      <4> QED BY <2>1, <4>2
    <3>2. CASE i # 1
      <4>1. i \in 2..Len(l2)
        BY <1>12, <3>2
      <4>2. PICK j \in 1..Len(l) : l2[i] = l[j] /\ u2[i] = u[j]
        BY <1>14, <4>1 DEF FromList
      <4> QED BY <2>1, <4>2
    <3> QED BY <3>1, <3>2
  <2>3. ASSUME NEW r \in Stripes, NEW i \in 1..Len(list'[r])
        PROVE  /\ data'[used'[r][i]] = list'[r][i] /\ pair'[list'[r][i]][1] = used'[r][i]
               /\ latest'[used'[r][i]] = {pair'[list'[r][i]][2]}
    <3>1. CASE r = s
      BY <1>2, <1>7, <1>8, <2>2, <3>1
    <3>2. CASE r # s
      <4>1. list'[r] = list[r] /\ used'[r] = used[r] /\ i \in 1..Len(list[r])
        BY <1>7, <1>8, <3>2
      <4> QED BY <1>2, <4>1 DEF IInv, Mirror
    <3> QED BY <3>1, <3>2
  <2> QED BY <2>3 DEF Mirror
<1>19. Indexed'
  <2>1. ASSUME NEW j \in Keys, data[j] # NoNode, StripeOf[j] = s
        PROVE  \E i \in 1..Len(l2) : u2[i] = j
    <3>1. CASE j = k
      <4>1. 1 \in 1..Len(l2)
        BY <1>12
      <4> QED BY <1>12, <3>1, <4>1
    <3>2. CASE j # k
      <4>1. PICK m \in 1..Len(l) : u[m] = j
        BY <2>1 DEF IInv, Indexed, u, l
      <4>2. PICK i \in 2..Len(l2) : u2[i] = u[m]
        BY <1>15, <3>2, <4>1 DEF InNewList
      <4>3. i \in 1..Len(l2)
        BY <1>12
      <4> QED BY <4>1, <4>2, <4>3
    <3> QED BY <3>1, <3>2
  <2>2. \A j \in Keys : StripeOf[j] \in Stripes
    BY DEF Stripes
  <2>3. ASSUME NEW j \in Keys, data[j] # NoNode
        PROVE  \E i \in 1..Len(list'[StripeOf[j]]) : used'[StripeOf[j]][i] = j
    <3>1. CASE StripeOf[j] = s
      BY <1>7, <1>8, <2>1, <2>3, <3>1
    <3>2. CASE StripeOf[j] # s
      BY <1>7, <1>8, <2>2, <2>3, <3>2 DEF IInv, Indexed
    <3> QED BY <3>1, <3>2
  <2> QED BY <1>2, <2>3 DEF Indexed
<1> QED BY <1>8, <1>16, <1>17, <1>18, <1>19 DEF IInv

\* The new pair goes to the front, and the last one off the end if it has to.
LEMMA InsertStep ==
  ASSUME IInv, NEW t \in Threads, Insert(t)
  PROVE  IInv'
<1> USE LruAssumption
<1>1. PICK k \in Keys, v \in Values, n \in Nodes :
        /\ ~InList(n) \/ n = data[k]
        /\ InsertPair(k, v, n) /\ Use(k)
        /\ latest' = [latest EXCEPT ![k] = {v}]
  BY DEF Insert
<1>2. PICK s \in Stripes : s = StripeOf[k]
  BY DEF Stripes
<1> DEFINE u == used[s]  l == list[s]  d == data[k]
<1>3. PICK u2 : u2 = ToFront(u, k)
  OBVIOUS
<1>4. PICK l2 : l2 = Fronted(l, d, n)
  OBVIOUS
<1> DEFINE evict == Len(l2) > capacity
           evicted == IF Len(l2) = 1 THEN k ELSE pair[Last(l2)][1]
<1>5. PICK kept : kept = IF evict THEN Front(l2) ELSE l2
  OBVIOUS
<1>6. PICK gone : gone = (Range(l) \cup {n}) \ Range(kept)
  OBVIOUS
<1>7. list \in [Stripes -> Seq(Nodes)] /\ data \in [Keys -> Nodes \cup {NoNode}]
      /\ latest \in [Keys -> SUBSET Values]
  BY DEF IInv, Typed
<1>8. /\ list' = [list EXCEPT ![s] = kept]
      /\ pair' = [m \in Nodes |-> IF m \in gone THEN Destroyed
                                  ELSE IF m = n THEN <<k, v>> ELSE pair[m]]
      /\ data' = [j \in Keys |-> IF evict /\ j = evicted THEN NoNode
                                 ELSE IF j = k THEN n ELSE data[j]]
  BY <1>1, <1>2, <1>4, <1>5, <1>6 DEF InsertPair, LeftOf, PutFirst, Fronted
<1>9. list'[s] = kept /\ \A r \in Stripes \ {s} : list'[r] = list[r]
  BY <1>7, <1>8
<1>10. /\ used'[s] = u2 /\ \A r \in Stripes \ {s} : used'[r] = used[r]
       /\ used' \in [Stripes -> Seq(Keys)] /\ UsedOnce' /\ UsedHere'
  BY <1>1, <1>2, <1>3, UseStep
<1>11. /\ u \in Seq(Keys) /\ l \in Seq(Nodes) /\ IsInjective(u) /\ IsInjective(l)
       /\ Len(l) \in Nat /\ Len(u) \in Nat /\ Len(l) <= Len(u)
       /\ DOMAIN l = 1..Len(l) /\ DOMAIN u = 1..Len(u)
       /\ \A i \in 1..Len(l) : l[i] = d <=> u[i] = k
  BY <1>2, StripeFacts
<1>12. Aligned(u, l, k, d)
  BY <1>11 DEF IInv, Fits, Aligned
<1>13. \A i \in 1..Len(l) : /\ data[u[i]] = l[i] /\ pair[l[i]][1] = u[i]
                             /\ latest[u[i]] = {pair[l[i]][2]}
                             /\ StripeOf[u[i]] = s /\ u[i] \in Keys /\ l[i] \in Nodes
  <2>1. ASSUME NEW i \in 1..Len(l)
        PROVE  /\ data[u[i]] = l[i] /\ pair[l[i]][1] = u[i]
               /\ latest[u[i]] = {pair[l[i]][2]}
    BY DEF IInv, Mirror
  <2>2. ASSUME NEW i \in 1..Len(l) PROVE u[i] \in Keys /\ l[i] \in Nodes /\ i \in 1..Len(u)
    BY <1>11
  <2>3. \A i \in 1..Len(u) : StripeOf[u[i]] = s
    BY DEF IInv, UsedHere
  <2> QED BY <2>1, <2>2, <2>3
<1>14. \A i \in 1..Len(l) : l[i] # d => l[i] # n
  BY <1>1, <1>11 DEF InList, Range
<1> HIDE DEF u, l, d
<1>15. /\ Len(u2) >= 1 /\ u2[1] = k /\ u2 \in Seq(Keys)
       /\ l2 \in Seq(Nodes) /\ Len(l2) >= 1 /\ l2[1] = n
  BY <1>3, <1>4, <1>11, <1>12, Renewed
<1>16. FitsAgain(u2, l2) \/ OneTooLong(u, l, u2, l2, k)
  BY <1>3, <1>4, <1>11, <1>12, Renewed
<1>17. ASSUME NEW i \in 2..Len(l2) PROVE FromList(u, l, u2, l2, k, d, i)
  BY <1>3, <1>4, <1>11, <1>12, Renewed
<1>18. ASSUME NEW j \in 1..Len(l), u[j] # k PROVE InNewList(u, u2, l2, j)
  BY <1>3, <1>4, <1>11, <1>12, <1>18, Renewed
<1>19. /\ Len(l2) \in Nat /\ Len(u2) \in Nat /\ capacity \in Nat
       /\ evict <=> OneTooLong(u, l, u2, l2, k)
       /\ ~evict => FitsAgain(u2, l2)
  BY <1>15, <1>16 DEF FitsAgain, OneTooLong
\* Who is evicted: the key itself if there is room for none, or the last one.
<1>20. evict => evicted = IF capacity = 0 THEN k ELSE u[capacity]
  <2>1. ASSUME evict, capacity # 0 PROVE evicted = u[capacity]
    <3>1. capacity \in 1..Len(l) /\ Len(l2) # 1 /\ l2[Len(l2)] = l[capacity]
      BY <1>19, <2>1 DEF OneTooLong
    <3> QED BY <1>13, <3>1 DEF Last
  <2>2. ASSUME evict, capacity = 0 PROVE evicted = k
    BY <1>19, <2>2 DEF OneTooLong
  <2> QED BY <2>1, <2>2
<1>21. evict => evicted \in Keys /\ StripeOf[evicted] = s /\ (capacity # 0 => evicted # k)
  <2>1. CASE capacity = 0
    BY <1>2, <1>20, <2>1
  <2>2. CASE capacity # 0
    <3>1. ASSUME evict
          PROVE  evicted \in Keys /\ StripeOf[evicted] = s /\ evicted # k
      <4>1. capacity \in 1..Len(l)
        BY <1>19, <2>2, <3>1 DEF OneTooLong
      <4>2. u[capacity] # k
        BY <1>19, <3>1, <4>1 DEF OneTooLong
      <4> QED BY <1>13, <1>20, <2>2, <3>1, <4>1, <4>2
    <3> QED BY <3>1
  <2> QED BY <2>1, <2>2
<1> HIDE DEF evicted
<1>22. /\ kept \in Seq(Nodes) /\ Len(kept) = IF evict THEN capacity ELSE Len(l2)
       /\ \A i \in 1..Len(kept) : kept[i] = l2[i]
       /\ Len(kept) = IF Len(u2) < capacity THEN Len(u2) ELSE capacity
       /\ DOMAIN kept = 1..Len(kept) /\ Len(kept) \in Nat /\ Len(kept) <= Len(l2)
  <2>1. CASE evict
    <3>1. kept \in Seq(Nodes)
      BY <1>5, <1>15, <2>1, FrontEffect
    <3>2. Len(kept) = Len(l2) - 1
      BY <1>5, <1>15, <2>1, FrontEffect
    <3>3. \A i \in 1..Len(l2) - 1 : kept[i] = l2[i]
      BY <1>5, <1>15, <2>1, FrontEffect
    <3> QED BY <1>19, <2>1, <3>1, <3>2, <3>3 DEF OneTooLong
  <2>2. CASE ~evict
    BY <1>5, <1>15, <1>19, <2>2 DEF FitsAgain
  <2> QED BY <2>1, <2>2
<1>23. Typed'
  <2>1. list' \in [Stripes -> Seq(Nodes)]
    BY <1>7, <1>8, <1>22
  <2>2. data' \in [Keys -> Nodes \cup {NoNode}]
    BY <1>7, <1>8
  <2>3. latest' \in [Keys -> SUBSET Values]
    BY <1>1, <1>7
  <2> QED BY <1>10, <2>1, <2>2, <2>3 DEF Typed
<1>24. Fits'
  BY <1>9, <1>10, <1>22 DEF IInv, Fits
\* The list of the stripe mirrors its keys: its front, ...
<1>25. ASSUME NEW i \in 1..Len(kept)
       PROVE  /\ data'[u2[i]] = kept[i] /\ pair'[kept[i]][1] = u2[i]
              /\ latest'[u2[i]] = {pair'[kept[i]][2]}
  <2>1. kept[i] \in Range(kept) /\ kept[i] \notin gone /\ kept[i] = l2[i] /\ kept[i] \in Nodes
    BY <1>6, <1>22 DEF Range
  <2>2. CASE i = 1
    <3>1. u2[i] = k /\ kept[i] = n
      BY <1>15, <2>1, <2>2
    <3>2. ~(evict /\ k = evicted)
      BY <1>19, <1>21, <1>22, <2>2
    <3>3. data'[k] = n /\ latest'[k] = {v}
      BY <1>1, <1>7, <1>8, <3>2
    <3>4. pair'[n] = <<k, v>>
      BY <1>8, <2>1, <3>1
    <3> QED BY <3>1, <3>3, <3>4
\* ... and what was in the list before.
  <2>3. CASE i # 1
    <3>1. i \in 2..Len(l2) /\ i \in Nat
      BY <1>19, <1>22, <2>3
    <3>2. PICK j \in 1..Len(l) : /\ l2[i] = l[j] /\ u2[i] = u[j] /\ l[j] # d /\ u[j] # k
                                 /\ evict /\ i <= capacity => j < capacity
      BY <1>17, <3>1 DEF FromList
    <3>3. ~(evict /\ u[j] = evicted)
      <4>1. ASSUME evict, u[j] = evicted PROVE FALSE
        <5>1. capacity > 0 /\ i <= capacity /\ capacity = Len(l)
          BY <1>19, <1>22, <3>1, <4>1 DEF OneTooLong
        <5>2. j < capacity /\ u[j] = u[capacity]
          BY <1>20, <3>2, <4>1, <5>1
        <5>3. j \in DOMAIN u /\ capacity \in DOMAIN u
          BY <1>11, <5>1
        <5>4. j = capacity
          BY <1>11, <5>2, <5>3 DEF IsInjective
        <5> QED BY <1>19, <5>2, <5>4
      <4> QED BY <4>1
    <3>4. data'[u[j]] = data[u[j]] /\ latest'[u[j]] = latest[u[j]]
      BY <1>1, <1>7, <1>8, <1>13, <3>2, <3>3
    <3>5. pair'[l[j]] = pair[l[j]]
      <4>1. l[j] # n /\ l[j] \notin gone /\ l[j] \in Nodes
        BY <1>14, <2>1, <3>2
      <4> QED BY <1>8, <4>1
    <3>6. data[u[j]] = l[j] /\ pair[l[j]][1] = u[j] /\ latest[u[j]] = {pair[l[j]][2]}
      BY <1>13
    <3>7. u2[i] = u[j] /\ kept[i] = l[j]
      BY <2>1, <3>2
    <3> QED BY <3>4, <3>5, <3>6, <3>7
  <2> QED BY <2>2, <2>3
\* The other stripes are as they were.
<1>26. ASSUME NEW r \in Stripes, r # s, NEW i \in 1..Len(list[r])
       PROVE  /\ data'[used[r][i]] = list[r][i] /\ pair'[list[r][i]][1] = used[r][i]
              /\ latest'[used[r][i]] = {pair'[list[r][i]][2]}
  <2>1. i \in DOMAIN list[r] /\ i \in 1..Len(used[r])
    BY StripeFacts
  <2>2. used[r][i] \in Keys /\ StripeOf[used[r][i]] = r /\ list[r][i] \in Nodes
    BY <1>10, <2>1, StripeFacts DEF IInv, UsedHere
  <2>3. used[r][i] # k /\ ~(evict /\ used[r][i] = evicted)
    BY <1>2, <1>21, <1>26, <2>2
  <2>4. data'[used[r][i]] = data[used[r][i]] /\ latest'[used[r][i]] = latest[used[r][i]]
    BY <1>1, <1>7, <1>8, <2>2, <2>3
  <2>5. \A j \in 1..Len(l) : list[r][i] # l[j]
    BY <1>26, Disjoint DEF l
  <2>6. list[r][i] # n
    <3>1. CASE ~InList(n)
      BY <2>1, <3>1 DEF InList, Range
    <3>2. CASE n = data[k]
      <4>1. PICK j \in 1..Len(l) : u[j] = k
        BY <1>2, <3>2 DEF IInv, Indexed, u, l
      <4> QED BY <1>13, <2>5, <3>2, <4>1
    <3> QED BY <1>1, <3>1, <3>2
  <2>7. list[r][i] \notin gone
    BY <1>6, <1>11, <2>5, <2>6 DEF Range
  <2>8. pair'[list[r][i]] = pair[list[r][i]]
    BY <1>8, <2>2, <2>6, <2>7
  <2>9. /\ data[used[r][i]] = list[r][i] /\ pair[list[r][i]][1] = used[r][i]
        /\ latest[used[r][i]] = {pair[list[r][i]][2]}
    BY DEF IInv, Mirror
  <2> QED BY <2>4, <2>8, <2>9
<1>27. Mirror'
  <2>1. ASSUME NEW r \in Stripes, NEW i \in 1..Len(list'[r])
        PROVE  /\ data'[used'[r][i]] = list'[r][i] /\ pair'[list'[r][i]][1] = used'[r][i]
               /\ latest'[used'[r][i]] = {pair'[list'[r][i]][2]}
    <3>1. CASE r = s
      BY <1>9, <1>10, <1>25, <3>1
    <3>2. CASE r # s
      <4>1. list'[r] = list[r] /\ used'[r] = used[r] /\ i \in 1..Len(list[r])
        BY <1>9, <1>10, <3>2
      <4> QED BY <1>26, <3>2, <4>1
    <3> QED BY <3>1, <3>2
  <2> QED BY <2>1 DEF Mirror
\* Who has an iterator is in the list.
<1>28. ASSUME NEW j \in Keys, data'[j] # NoNode, StripeOf[j] = s
       PROVE  \E i \in 1..Len(kept) : u2[i] = j
  <2>1. ~(evict /\ j = evicted)
    BY <1>8, <1>28
  <2>2. CASE j = k
    <3>1. Len(kept) >= 1
      BY <1>15, <1>19, <1>20, <1>22, <2>1, <2>2
    <3>2. 1 \in 1..Len(kept)
      BY <1>22, <3>1
    <3> QED BY <1>15, <2>2, <3>2
  <2>3. CASE j # k
    <3>1. data[j] # NoNode
      BY <1>8, <1>28, <2>1, <2>3
    <3>2. PICK m \in 1..Len(l) : u[m] = j
      BY <1>28, <3>1 DEF IInv, Indexed, u, l
    <3>3. PICK i \in 2..Len(l2) : u2[i] = u[m] /\ (evict /\ m < capacity => i <= capacity)
      BY <1>18, <2>3, <3>2 DEF InNewList
    <3>4. evict => m < capacity
      <4>1. ASSUME evict PROVE m < capacity
        <5>a. capacity = Len(l)
          BY <1>19, <4>1 DEF OneTooLong
        <5>1. capacity = Len(l) /\ capacity # 0
          BY <1>19, <5>a
        <5>2. m # capacity
          BY <1>20, <2>1, <3>2, <4>1, <5>1
        <5> QED BY <1>19, <5>1, <5>2
      <4> QED BY <4>1
    <3>5. i \in 1..Len(kept)
      BY <1>19, <1>22, <3>3, <3>4
    <3> QED BY <3>2, <3>3, <3>5
  <2> QED BY <2>2, <2>3
<1>29. Indexed'
  <2>1. ASSUME NEW j \in Keys, data'[j] # NoNode
        PROVE  \E i \in 1..Len(list'[StripeOf[j]]) : used'[StripeOf[j]][i] = j
    <3>1. CASE StripeOf[j] = s
      BY <1>9, <1>10, <1>28, <2>1, <3>1
    <3>2. CASE StripeOf[j] # s
      <4>1. data[j] # NoNode /\ StripeOf[j] \in Stripes
        BY <1>2, <1>8, <2>1, <3>2 DEF Stripes
      <4> QED BY <1>9, <1>10, <3>2, <4>1 DEF IInv, Indexed
    <3> QED BY <3>1, <3>2
  <2> QED BY <2>1 DEF Indexed
<1> QED BY <1>10, <1>23, <1>24, <1>27, <1>29 DEF IInv

LEMMA NextIInv == IInv /\ [Next]_vars => IInv'
<1> SUFFICES ASSUME IInv, [Next]_vars PROVE IInv'
  OBVIOUS
<1>1. ASSUME UNCHANGED <<data, list, pair, used, latest>> PROVE IInv'
  BY <1>1 DEF IInv, Typed, UsedOnce, UsedHere, Fits, Mirror, Indexed
<1>2. ASSUME NEW t \in Threads,
             \/ SizeStart(t) \/ SizeStripe(t) \/ EmptyStart(t) \/ EmptyStripe(t) \/ Return(t)
      PROVE  IInv'
  BY <1>1, <1>2 DEF SizeStart, EmptyStart, Scan, SizeStripe, EmptyStripe, Return, histories
<1>3. CASE UNCHANGED vars
  BY <1>1, <1>3 DEF vars, histories
<1> QED BY <1>2, <1>3, GetStep, InsertStep DEF Next

-----------------------------------------------------------------------------
\* However the nodes are freed and allocated again, each iterator of the index
\* points to a pair of its key, in the list of its stripe.
THEOREM IteratorsValid == Spec => []IndexMatchesLists
<1>1. IInv => IndexMatchesLists
  <2> SUFFICES ASSUME IInv PROVE IndexMatchesLists
    OBVIOUS
  <2> USE LruAssumption
  <2>1. ASSUME NEW k \in Keys, data[k] # NoNode
        PROVE  data[k] \in Range(list[StripeOf[k]]) /\ pair[data[k]][1] = k
    <3>1. StripeOf[k] \in Stripes
      BY DEF Stripes
    <3>2. PICK i \in 1..Len(list[StripeOf[k]]) : used[StripeOf[k]][i] = k
      BY <2>1 DEF IInv, Indexed
    <3>3. data[k] = list[StripeOf[k]][i] /\ pair[data[k]][1] = k
      BY <3>1, <3>2 DEF IInv, Mirror
    <3>4. i \in DOMAIN list[StripeOf[k]]
      BY <3>1, StripeFacts
    <3> QED BY <3>3, <3>4 DEF Range
  <2>2. ASSUME NEW s \in Stripes, NEW i \in DOMAIN list[s]
        PROVE  data[pair[list[s][i]][1]] = list[s][i]
    BY StripeFacts DEF IInv, Mirror
  <2> QED BY <2>1, <2>2 DEF IndexMatchesLists
<1> QED BY <1>1, InitIInv, NextIInv, PTL DEF Spec

\* Each stripe holds the keys used last, in the order of their use.
THEOREM LeastRecentlyUsed == Spec => []EvictsLeastRecentlyUsed
<1>1. IInv => EvictsLeastRecentlyUsed
  <2> SUFFICES ASSUME IInv, NEW s \in Stripes
               PROVE  [i \in DOMAIN list[s] |-> pair[list[s][i]][1]] =
                        SubSeq(used[s], 1, IF Len(used[s]) < capacity THEN Len(used[s]) ELSE capacity)
    BY DEF EvictsLeastRecentlyUsed
  <2> DEFINE held == [i \in DOMAIN list[s] |-> pair[list[s][i]][1]]
  <2>1. PICK m : m = Len(list[s])
    OBVIOUS
  <2>2. m = IF Len(used[s]) < capacity THEN Len(used[s]) ELSE capacity
    BY <2>1 DEF IInv, Fits
  <2>3. /\ m \in Nat /\ m <= Len(used[s]) /\ DOMAIN list[s] = 1..m
        /\ used[s] \in Seq(Keys) /\ Len(used[s]) \in Nat
    BY <2>1, StripeFacts
  <2>4. PICK first : first = SubSeq(used[s], 0 + 1, 0 + m)
    OBVIOUS
  <2>5. first \in Seq(Keys) /\ Len(first) = m
    BY <2>3, <2>4, Stretches
  <2>6. \A i \in 1..m : first[i] = used[s][0 + i]
    BY <2>3, <2>4, Stretches
  <2>7. \A i \in 1..m : first[i] = used[s][i]
    BY <2>3, <2>6
  <2>8. \A i \in 1..m : held[i] = used[s][i]
    BY <2>1, <2>3 DEF IInv, Mirror
  <2>9. first = SubSeq(used[s], 1, m)
    BY <2>3, <2>4
  <2>10. held = first
    BY <2>3, <2>5, <2>7, <2>8
  <2> QED BY <2>2, <2>9, <2>10
<1> QED BY <1>1, InitIInv, NextIInv, PTL DEF Spec

\* A hit returns what was inserted last for the key.
THEOREM HitsAreLatest == Spec => []HitIsLatest
<1>1. IInv => HitIsLatest
  <2> SUFFICES ASSUME IInv, NEW k \in Keys, data[k] # NoNode
               PROVE  latest[k] = {pair[data[k]][2]}
    BY DEF HitIsLatest
  <2>1. StripeOf[k] \in Stripes
    BY LruAssumption DEF Stripes
  <2>2. PICK i \in 1..Len(list[StripeOf[k]]) : used[StripeOf[k]][i] = k
    BY DEF IInv, Indexed
  <2> QED BY <2>1, <2>2 DEF IInv, Mirror
<1> QED BY <1>1, InitIInv, NextIInv, PTL DEF Spec

-----------------------------------------------------------------------------
(* size and empty.  A call is between the stripes that it has passed and    *)
(* those ahead of it; ScanInv, which says what it knows of each, is          *)
(* inductive as long as IInv holds, of which it needs that no list shrinks. *)

Lens == [s \in Stripes |-> Len(list[s])]
Passed(j) == {s \in Stripes : s < j}
Ahead(j) == {s \in Stripes : j <= s}
PairsIn(S) == SumFunctionOnSet(Lens, S)

Scans == [op : {"none", "size", "empty"}, next : 1..N + 1, total : Nat, atStart : Nat]

\* What was there at the start was counted or is still ahead, and what was counted
\* is still there; empty has counted no pair, or seen one.
Between(c) ==
  /\ c.op = "size" => /\ c.atStart <= c.total + PairsIn(Ahead(c.next))
                      /\ c.total <= PairsIn(Passed(c.next))
  /\ c.op = "empty" => IF c.total = 0 THEN c.atStart <= PairsIn(Ahead(c.next))
                                      ELSE PairsIn(Stripes) > 0
ScanInv == call \in [Threads -> Scans] /\ \A t \in Threads : Between(call[t])

LEMMA LensAre ==
  ASSUME IInv
  PROVE  /\ \A s \in Stripes : Lens[s] = Len(list[s]) /\ Lens[s] \in Nat
         /\ IsFiniteSet(Stripes) /\ \A S \in SUBSET Stripes : IsFiniteSet(S)
         /\ Total = PairsIn(Stripes)
<1>1. \A s \in Stripes : Lens[s] = Len(list[s]) /\ Lens[s] \in Nat
  BY StripeFacts DEF Lens
<1>2. IsFiniteSet(Stripes)
  BY LruAssumption, FS_Interval DEF Stripes
<1>3. \A S \in SUBSET Stripes : IsFiniteSet(S)
  BY <1>2, FS_Subset
<1>4. DOMAIN Lens = Stripes
  BY DEF Lens
<1>5. Total = PairsIn(Stripes)
  BY <1>4, SumOfAll DEF Total, PairsIn, Lens
<1> QED BY <1>1, <1>2, <1>3, <1>5

\* The pairs of some stripes, and of one more.
LEMMA PairsAre ==
  ASSUME IInv, NEW S \in SUBSET Stripes
  PROVE  /\ PairsIn(S) \in Nat /\ PairsIn({}) = 0
         /\ \A s \in S : PairsIn(S) = Len(list[s]) + PairsIn(S \ {s})
<1>1. IsFiniteSet(S) /\ \A s \in S : Lens[s] \in Nat
  BY LensAre
<1>2. /\ SumFunctionOnSet(Lens, S) \in Nat
      /\ SumFunctionOnSet(Lens, {}) = 0
      /\ \A s \in S : SumFunctionOnSet(Lens, S) = Lens[s] + SumFunctionOnSet(Lens, S \ {s})
  BY <1>1, SumOf
<1>3. \A s \in S : Lens[s] = Len(list[s])
  BY LensAre
<1> QED BY <1>2, <1>3 DEF PairsIn

\* From one stripe to the next.
LEMMA OneFurther ==
  ASSUME IInv, NEW j \in 1..N
  PROVE  /\ j \in Stripes /\ j + 1 \in 1..N + 1
         /\ Ahead(j) \in SUBSET Stripes /\ Passed(j) \in SUBSET Stripes
         /\ PairsIn(Ahead(j)) = Len(list[j]) + PairsIn(Ahead(j + 1))
         /\ PairsIn(Passed(j + 1)) = Len(list[j]) + PairsIn(Passed(j))
         /\ PairsIn(Stripes) >= Len(list[j])
<1> USE LruAssumption
<1>1. j \in Stripes /\ j + 1 \in 1..N + 1 /\ \A s \in Stripes : s \in Int
  BY DEF Stripes
<1>a. \A s \in Stripes : /\ (j <= s /\ s # j) <=> j + 1 <= s
                         /\ (s < j + 1 /\ s # j) <=> s < j
  BY <1>1
<1>2. j \in Ahead(j) /\ Ahead(j) \ {j} = Ahead(j + 1) /\ Ahead(j) \in SUBSET Stripes
  <2>1. j <= j
    OBVIOUS
  <2> QED BY <1>1, <1>a, <2>1, Zenon DEF Ahead
<1>3. /\ j \in Passed(j + 1) /\ Passed(j + 1) \ {j} = Passed(j)
      /\ Passed(j + 1) \in SUBSET Stripes /\ Passed(j) \in SUBSET Stripes
  <2>1. j < j + 1 /\ ~(j < j)
    OBVIOUS
  <2> QED BY <1>1, <1>a, <2>1, Zenon DEF Passed
<1>4. PairsIn(Ahead(j)) = Len(list[j]) + PairsIn(Ahead(j + 1))
  BY <1>2, PairsAre
<1>5. PairsIn(Passed(j + 1)) = Len(list[j]) + PairsIn(Passed(j))
  BY <1>3, PairsAre
<1>6. PairsIn(Stripes) = Len(list[j]) + PairsIn(Stripes \ {j})
  BY <1>1, PairsAre
<1>7. PairsIn(Stripes \ {j}) \in Nat /\ Len(list[j]) \in Nat
  BY <1>1, PairsAre, StripeFacts
<1>8. PairsIn(Stripes) >= Len(list[j])
  BY <1>6, <1>7
<1> QED BY <1>1, <1>2, <1>3, <1>4, <1>5, <1>8

\* At the ends of the scan.
LEMMA Ends ==
  ASSUME IInv
  PROVE  /\ Ahead(1) = Stripes /\ Passed(1) = {}
         /\ Ahead(N + 1) = {} /\ Passed(N + 1) = Stripes
<1> USE LruAssumption
<1>1. \A s \in Stripes : s \in Int /\ 1 <= s /\ s < N + 1
  BY DEF Stripes
<1> QED BY <1>1 DEF Ahead, Passed

\* No stripe's list shrinks: the keys used get no fewer, and the list holds as many
\* as it may.
LEMMA UsedGrows ==
  ASSUME IInv, NEW k \in Keys, Use(k), NEW s \in Stripes
  PROVE  Len(used[s]) <= Len(used'[s])
<1>1. CASE s # StripeOf[k]
  <2>1. used'[s] = used[s] /\ Len(used[s]) \in Nat
    BY <1>1, UseStep, StripeFacts
  <2> QED BY <2>1
<1>2. CASE s = StripeOf[k]
  <2>1. PICK u : u = used[s]
    OBVIOUS
  <2>2. u \in Seq(Keys) /\ IsInjective(u) /\ Len(u) \in Nat
    BY <2>1, StripeFacts
  <2>3. PICK u2 : u2 = used'[s]
    OBVIOUS
  <2>4. u2 = ToFront(u, k)
    BY <1>2, <2>1, <2>3, UseStep
  <2>5. u2 = Fronted(u, k, k)
    BY <2>4 DEF ToFront, Fronted
  <2>6. PICK p : p = Place(u, k)
    OBVIOUS
  <2>7. Len(u2) = IF p <= Len(u) THEN Len(u) ELSE Len(u) + 1
    BY <2>2, <2>5, <2>6, Moved
  <2> QED BY <2>1, <2>2, <2>3, <2>7
<1> QED BY <1>1, <1>2

LEMMA NeverShrinks ==
  ASSUME IInv, IInv', [Next]_vars, NEW s \in Stripes
  PROVE  Len(list[s]) <= Len(list'[s])
<1>1. Len(used[s]) <= Len(used'[s]) \/ UNCHANGED list
  <2>1. ASSUME NEW t \in Threads, Insert(t) \/ Get(t) PROVE \E k \in Keys : Use(k)
    BY <2>1 DEF Insert, Get
  <2>2. ASSUME NEW t \in Threads,
               \/ SizeStart(t) \/ SizeStripe(t) \/ EmptyStart(t) \/ EmptyStripe(t) \/ Return(t)
        PROVE  UNCHANGED list
    BY <2>2 DEF SizeStart, EmptyStart, Scan, SizeStripe, EmptyStripe, Return
  <2>3. CASE UNCHANGED vars
    BY <2>3 DEF vars
  <2> QED BY <2>1, <2>2, <2>3, UsedGrows DEF Next
<1>2. /\ Len(used[s]) \in Nat /\ Len(list[s]) \in Nat /\ capacity \in Nat
      /\ Len(list[s]) = IF Len(used[s]) < capacity THEN Len(used[s]) ELSE capacity
  BY LruAssumption, StripeFacts DEF IInv, Fits
<1>3. Len(list'[s]) = IF Len(used'[s]) < capacity THEN Len(used'[s]) ELSE capacity
  BY DEF IInv, Fits
<1>4. Len(used'[s]) \in Nat
  BY DEF IInv, Typed
<1>5. CASE UNCHANGED list
  BY <1>2, <1>5
<1>6. CASE Len(used[s]) <= Len(used'[s])
  BY <1>2, <1>3, <1>4, <1>6
<1> QED BY <1>1, <1>5, <1>6

LEMMA PairsGrow ==
  ASSUME IInv, IInv', [Next]_vars, NEW S \in SUBSET Stripes
  PROVE  PairsIn(S) <= PairsIn(S)'
<1>1. \A s \in S : Lens[s] \in Nat /\ Lens'[s] \in Nat /\ Lens[s] <= Lens'[s]
  <2> SUFFICES ASSUME NEW s \in S PROVE Lens[s] \in Nat /\ Lens'[s] \in Nat /\ Lens[s] <= Lens'[s]
    OBVIOUS
  <2>1. Lens[s] = Len(list[s]) /\ Lens[s] \in Nat
    BY LensAre
  <2>2. Lens'[s] = Len(list'[s]) /\ Lens'[s] \in Nat
    BY DEF Lens, IInv, Typed
  <2>3. Len(list[s]) <= Len(list'[s])
    BY NeverShrinks
  <2> QED BY <2>1, <2>2, <2>3
<1>2. IsFiniteSet(S)
  BY LensAre
<1> QED BY <1>1, <1>2, SumGrows DEF PairsIn

\* The calls of insert and get, and steps of other threads.
LEMMA OthersBetween ==
  ASSUME IInv, IInv', [Next]_vars, NEW c \in Scans, Between(c)
  PROVE  Between(c)'
<1> USE LruAssumption
<1>1. c.next \in 1..N + 1 /\ c.total \in Nat /\ c.atStart \in Nat
  BY DEF Scans
<1>2. \A j : Ahead(j) \in SUBSET Stripes /\ Passed(j) \in SUBSET Stripes
  BY DEF Ahead, Passed
<1>3. ASSUME NEW S \in SUBSET Stripes
      PROVE  PairsIn(S) \in Nat /\ PairsIn(S)' \in Nat /\ PairsIn(S) <= PairsIn(S)'
  <2>1. PairsIn(S) \in Nat /\ PairsIn(S) <= PairsIn(S)'
    BY PairsAre, PairsGrow
  <2>2. PairsIn(S)' \in Nat
    <3>1. IsFiniteSet(S)
      BY LensAre
    <3>2. \A s \in S : Lens'[s] \in Nat
      BY DEF Lens, IInv, Typed
    <3> QED BY <3>1, <3>2, SumOf DEF PairsIn
  <2> QED BY <2>1, <2>2
<1>4. Stripes' = Stripes /\ \A j : Ahead(j)' = Ahead(j) /\ Passed(j)' = Passed(j)
  BY DEF Stripes, Ahead, Passed
<1>5. PICK a, b, w, a2, b2, w2 :
        /\ a = PairsIn(Ahead(c.next)) /\ b = PairsIn(Passed(c.next)) /\ w = PairsIn(Stripes)
        /\ a2 = PairsIn(Ahead(c.next))' /\ b2 = PairsIn(Passed(c.next))' /\ w2 = PairsIn(Stripes)'
  OBVIOUS
<1>6. /\ a \in Nat /\ a2 \in Nat /\ a <= a2
      /\ b \in Nat /\ b2 \in Nat /\ b <= b2
      /\ w \in Nat /\ w2 \in Nat /\ w <= w2
  BY <1>2, <1>3, <1>5
<1>7. /\ c.op = "size" => c.atStart <= c.total + a /\ c.total <= b
      /\ c.op = "empty" => IF c.total = 0 THEN c.atStart <= a ELSE w > 0
  BY <1>5 DEF Between
<1>8. /\ c.op = "size" => c.atStart <= c.total + a2 /\ c.total <= b2
      /\ c.op = "empty" => IF c.total = 0 THEN c.atStart <= a2 ELSE w2 > 0
  BY <1>1, <1>6, <1>7
<1> QED BY <1>5, <1>8 DEF Between

LEMMA InitScan == Init => ScanInv
BY LruAssumption DEF Init, ScanInv, Scans, Between, Idle

\* The steps of a scan change nothing of the cache.
LEMMA ScanStep ==
  ASSUME IInv, ScanInv, UNCHANGED list, NEW t \in Threads, NEW c \in Scans,
         Between(c), call' = [call EXCEPT ![t] = c]
  PROVE  ScanInv'
<1>1. call' \in [Threads -> Scans] /\ \A u \in Threads : call'[u] = IF u = t THEN c ELSE call[u]
  BY DEF ScanInv
<1>2. \A u \in Threads : Between(call'[u])
  BY <1>1 DEF ScanInv
<1>3. UNCHANGED <<Lens, Stripes>>
  BY DEF Lens, Stripes
<1>4. \A u \in Threads : Between(call[u])'
  BY <1>2, <1>3 DEF Between, PairsIn, Ahead, Passed
<1> QED BY <1>1, <1>4 DEF ScanInv

LEMMA NextScan == IInv /\ IInv' /\ ScanInv /\ [Next]_vars => ScanInv'
<1> SUFFICES ASSUME IInv, IInv', ScanInv, [Next]_vars PROVE ScanInv'
  OBVIOUS
<1> USE LruAssumption
<1>0. \A t \in Threads : call[t] \in Scans /\ Between(call[t])
  BY DEF ScanInv
<1>1. ASSUME UNCHANGED call PROVE ScanInv'
  <2>1. ASSUME NEW t \in Threads PROVE Between(call[t])'
    BY <1>0, <1>1, OthersBetween
  <2> QED BY <1>1, <2>1 DEF ScanInv
<1>2. ASSUME NEW t \in Threads, Insert(t) \/ Get(t) PROVE UNCHANGED call
  BY <1>2 DEF Insert, Get
<1>3. ASSUME NEW t \in Threads, NEW op \in {"size", "empty"}, Scan(t, op) PROVE ScanInv'
  <2>1. PICK c : c = [Idle EXCEPT !.op = op, !.atStart = Total]
    OBVIOUS
  <2>2. call' = [call EXCEPT ![t] = c] /\ UNCHANGED list
    BY <1>3, <2>1 DEF Scan
  <2>3. Total \in Nat /\ Total = PairsIn(Ahead(1)) /\ PairsIn(Passed(1)) = 0
    BY LensAre, PairsAre, Ends
  <2>4. c \in Scans
    <3>1. Idle \in Scans
      BY DEF Scans, Idle
    <3>2. Total \in Nat
      BY <2>3
    <3> QED BY <2>1, <3>1, <3>2 DEF Scans
  <2>5. c.op = op /\ c.next = 1 /\ c.total = 0 /\ c.atStart = Total
    BY <2>1 DEF Idle
  <2>6. Between(c)
    BY <2>3, <2>5 DEF Between
  <2> QED BY <2>2, <2>4, <2>6, ScanStep
<1>4. ASSUME NEW t \in Threads, SizeStripe(t) PROVE ScanInv'
  <2>1. PICK j : j = call[t].next
    OBVIOUS
  <2>2. call[t].op = "size" /\ j \in 1..N /\ call[t].total \in Nat /\ call[t].atStart \in Nat
    <3>1. call[t].next <= N /\ call[t].op = "size"
      BY <1>4 DEF SizeStripe
    <3> QED BY <1>0, <2>1, <3>1 DEF Scans
  <2>3. PICK c : c = [call[t] EXCEPT !.next = j + 1, !.total = call[t].total + Len(list[j])]
    OBVIOUS
  <2>4. call' = [call EXCEPT ![t] = c] /\ UNCHANGED list
    <3>1. call[t] \in Scans /\ call \in [Threads -> Scans]
      BY <1>0 DEF ScanInv
    <3> QED BY <1>4, <2>1, <2>3, <3>1 DEF SizeStripe, Scans
  <2>5. /\ c.op = "size" /\ c.next = j + 1 /\ c.total = call[t].total + Len(list[j])
        /\ c.atStart = call[t].atStart
    BY <1>0, <2>2, <2>3 DEF Scans
  <2>6. /\ j \in Stripes /\ j + 1 \in 1..N + 1
        /\ PairsIn(Ahead(j)) = Len(list[j]) + PairsIn(Ahead(j + 1))
        /\ PairsIn(Passed(j + 1)) = Len(list[j]) + PairsIn(Passed(j))
    BY <2>2, OneFurther
  <2>7. Len(list[j]) \in Nat /\ PairsIn(Ahead(j + 1)) \in Nat /\ PairsIn(Passed(j)) \in Nat
    <3>1. Ahead(j + 1) \in SUBSET Stripes /\ Passed(j) \in SUBSET Stripes
      BY DEF Ahead, Passed
    <3> QED BY <2>6, <3>1, PairsAre, StripeFacts
  <2>8. c \in Scans
    <3>1. call[t].total + Len(list[j]) \in Nat
      BY <2>2, <2>7
    <3>2. call[t] \in Scans
      BY <1>0
    <3> QED BY <2>3, <2>6, <3>1, <3>2 DEF Scans
  <2>9. call[t].atStart <= call[t].total + PairsIn(Ahead(j)) /\ call[t].total <= PairsIn(Passed(j))
    BY <1>0, <2>1, <2>2 DEF Between
  <2>10. c.atStart <= c.total + PairsIn(Ahead(j + 1)) /\ c.total <= PairsIn(Passed(j + 1))
    BY <2>2, <2>5, <2>6, <2>7, <2>9
  <2>11. Between(c)
    BY <2>5, <2>10 DEF Between
  <2> QED BY <2>4, <2>8, <2>11, ScanStep
<1>5. ASSUME NEW t \in Threads, EmptyStripe(t) PROVE ScanInv'
  <2>1. PICK j : j = call[t].next
    OBVIOUS
  <2>2. call[t].op = "empty" /\ j \in 1..N /\ call[t].total \in Nat /\ call[t].atStart \in Nat
    <3>1. call[t].next <= N /\ call[t].op = "empty"
      BY <1>5 DEF EmptyStripe
    <3> QED BY <1>0, <2>1, <3>1 DEF Scans
  <2>3. /\ j \in Stripes /\ j + 1 \in 1..N + 1 /\ N + 1 \in 1..N + 1
        /\ PairsIn(Ahead(j)) = Len(list[j]) + PairsIn(Ahead(j + 1))
        /\ PairsIn(Stripes) >= Len(list[j])
    BY <2>2, OneFurther
  <2>4. Len(list[j]) \in Nat /\ PairsIn(Ahead(j + 1)) \in Nat /\ PairsIn(Stripes) \in Nat
    <3>1. Ahead(j + 1) \in SUBSET Stripes
      BY DEF Ahead
    <3> QED BY <2>3, <3>1, PairsAre, StripeFacts
  <2>5. IF call[t].total = 0 THEN call[t].atStart <= PairsIn(Ahead(j)) ELSE PairsIn(Stripes) > 0
    BY <1>0, <2>1, <2>2 DEF Between
  <2>6. call[t] \in Scans /\ call \in [Threads -> Scans] /\ UNCHANGED list
    BY <1>0, <1>5 DEF ScanInv, EmptyStripe
  <2>7. CASE list[j] = <<>>
    <3>1. PICK c : c = [call[t] EXCEPT !.next = j + 1]
      OBVIOUS
    <3>2. call' = [call EXCEPT ![t] = c]
      BY <1>5, <2>1, <2>6, <2>7, <3>1 DEF EmptyStripe, Scans
    <3>3. c.op = "empty" /\ c.next = j + 1 /\ c.total = call[t].total /\ c.atStart = call[t].atStart
      BY <2>2, <2>6, <3>1 DEF Scans
    <3>4. c \in Scans
      BY <2>3, <2>6, <3>1 DEF Scans
    <3>5. Len(list[j]) = 0
      BY <2>7
    <3>6. Between(c)
      BY <2>3, <2>4, <2>5, <3>3, <3>5 DEF Between
    <3> QED BY <2>6, <3>2, <3>4, <3>6, ScanStep
  <2>8. CASE list[j] # <<>>
    <3>1. PICK c : c = [call[t] EXCEPT !.next = N + 1, !.total = 1]
      OBVIOUS
    <3>2. call' = [call EXCEPT ![t] = c]
      BY <1>5, <2>1, <2>6, <2>8, <3>1 DEF EmptyStripe, Scans
    <3>3. c.op = "empty" /\ c.total = 1
      BY <2>2, <2>6, <3>1 DEF Scans
    <3>4. c \in Scans
      BY <2>3, <2>6, <3>1 DEF Scans
    <3>5. Len(list[j]) > 0
      BY <2>3, <2>8, StripeFacts, EmptySeq
    <3>6. PairsIn(Stripes) > 0
      BY <2>3, <2>4, <3>5
    <3>7. Between(c)
      BY <3>3, <3>6 DEF Between
    <3> QED BY <2>6, <3>2, <3>4, <3>7, ScanStep
  <2> QED BY <2>7, <2>8
<1>6. ASSUME NEW t \in Threads, Return(t) PROVE ScanInv'
  <2>1. call' = [call EXCEPT ![t] = Idle] /\ UNCHANGED list
    BY <1>6 DEF Return
  <2>2. Idle \in Scans /\ Between(Idle)
    BY DEF Idle, Scans, Between
  <2> QED BY <2>1, <2>2, ScanStep
<1>7. CASE UNCHANGED vars
  BY <1>1, <1>7 DEF vars
<1> QED BY <1>1, <1>2, <1>3, <1>4, <1>5, <1>6, <1>7 DEF Next, SizeStart, EmptyStart

\* What size and empty answer was true of the whole cache at some time during the
\* call, although they never see it whole.
THEOREM AnswersWereTrue == Spec => []ScansWereTrue
<1>1. IInv /\ ScanInv => ScansWereTrue
  <2> SUFFICES ASSUME IInv, ScanInv, NEW t \in Threads
               PROVE  /\ Returning(t, "size") => SizeWasTrue(t)
                      /\ Returning(t, "empty") => EmptyWasTrue(t)
    BY DEF ScansWereTrue
  <2>1. PairsIn(Ahead(N + 1)) = 0 /\ PairsIn(Passed(N + 1)) = Total /\ PairsIn(Stripes) = Total
    BY LensAre, PairsAre, Ends
  <2>2. call[t] \in Scans /\ Between(call[t])
    BY DEF ScanInv
  <2>3. call[t].total \in Nat /\ call[t].atStart \in Nat
    BY <2>2 DEF Scans
  <2>4. Returning(t, "size") => SizeWasTrue(t)
    BY <2>1, <2>2, <2>3 DEF Returning, SizeWasTrue, Between
  <2>5. Returning(t, "empty") => EmptyWasTrue(t)
    BY <2>1, <2>2, <2>3 DEF Returning, EmptyWasTrue, Between
  <2> QED BY <2>4, <2>5
<1>2. Init => IInv /\ ScanInv
  BY InitIInv, InitScan
<1>3. IInv /\ ScanInv /\ [Next]_vars => IInv' /\ ScanInv'
  BY NextIInv, NextScan
<1> QED BY <1>1, <1>2, <1>3, PTL DEF Spec
=============================================================================
