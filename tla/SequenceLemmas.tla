--------------------------- MODULE SequenceLemmas ---------------------------
(***************************************************************************)
(* What the operators on sequences that the modules use for std::list and  *)
(* std::vector return, element by element: erase(it), splice, and a        *)
(* stretch of a history; induction, in the form of a least element; sums.  *)
(***************************************************************************)
EXTENDS Integers, SequencesExt, SequenceTheorems, FiniteSetTheorems,
        WellFoundedInduction, TLAPS

\* The n elements that follow the first k of a sequence.
LEMMA Stretches ==
  ASSUME NEW S, NEW s \in Seq(S), NEW k \in Nat, NEW n \in Nat, k + n <= Len(s)
  PROVE  LET stretch == SubSeq(s, k + 1, k + n) IN
           /\ stretch \in Seq(S) /\ Len(stretch) = n
           /\ \A i \in 1..n : stretch[i] = s[k + i]
<1> DEFINE a == k + 1
           b == k + n
<1>1. a \in Int /\ b \in Int /\ a >= 1 /\ b <= Len(s) /\ Len(s) \in Nat
  OBVIOUS
<1>2. b - a + 1 = n /\ (a <= b \/ n = 0) /\ \A i \in 1..n : a + i - 1 = k + i
  OBVIOUS
<1> HIDE DEF a, b
<1>3. \A i \in a..b : s[i] \in S
  BY <1>1
<1>4. SubSeq(s, a, b) \in Seq(S)
  BY <1>1, <1>3, SubSeqProperties
<1>5. Len(SubSeq(s, a, b)) = IF a <= b THEN b - a + 1 ELSE 0
  BY <1>1, <1>3, SubSeqProperties
<1>6. \A i \in 1..b - a + 1 : SubSeq(s, a, b)[i] = s[a + i - 1]
  BY <1>1, <1>3, SubSeqProperties
<1>7. Len(SubSeq(s, a, b)) = n
  BY <1>1, <1>2, <1>5
<1>8. \A i \in 1..n : SubSeq(s, a, b)[i] = s[k + i]
  BY <1>2, <1>6
<1> QED BY <1>4, <1>7, <1>8 DEF a, b

\* What erase(it) leaves of a list.
LEMMA RemoveAtEffect ==
  ASSUME NEW S, NEW s \in Seq(S), NEW k \in 1..Len(s), NEW r, r = RemoveAt(s, k)
  PROVE  /\ r \in Seq(S)
         /\ Len(r) = Len(s) - 1
         /\ \A i \in 1..Len(r) : r[i] = IF i < k THEN s[i] ELSE s[i + 1]
<1> DEFINE before == SubSeq(s, 1, k - 1)
           after  == SubSeq(s, k + 1, Len(s))
<1>1. /\ before \in Seq(S) /\ Len(before) = k - 1
      /\ \A i \in 1..k - 1 : before[i] = s[i]
  BY SubSeqProperties
<1>2. /\ after \in Seq(S) /\ Len(after) = Len(s) - k
      /\ \A i \in 1..Len(s) - k : after[i] = s[i + k]
  BY SubSeqProperties
<1>3. r = before \o after
  BY DEF RemoveAt
<1> HIDE DEF before, after
<1>4. /\ r \in Seq(S) /\ Len(r) = Len(before) + Len(after)
      /\ \A i \in 1..Len(before) + Len(after) :
           r[i] = IF i <= Len(before) THEN before[i] ELSE after[i - Len(before)]
  <2>1. before \in Seq(S) /\ after \in Seq(S)
    BY <1>1, <1>2
  <2>2. r \in Seq(S)
    BY <1>3, <2>1, ConcatProperties
  <2>3. Len(r) = Len(before) + Len(after)
    BY <1>3, <2>1, ConcatProperties
  <2>4. \A i \in 1..Len(before) + Len(after) :
          r[i] = IF i <= Len(before) THEN before[i] ELSE after[i - Len(before)]
    BY <1>3, <2>1, ConcatProperties
  <2> QED BY <2>2, <2>3, <2>4
<1> HIDE <1>3
<1>5. Len(s) \in Nat /\ k \in Nat /\ 1 <= k /\ k <= Len(s)
  OBVIOUS
<1>6. ASSUME NEW i \in 1..Len(r) PROVE r[i] = IF i < k THEN s[i] ELSE s[i + 1]
  <2>1. i \in 1..Len(s) - 1 /\ i \in Nat
    BY <1>1, <1>2, <1>4, <1>5
  <2>2. CASE i < k
    BY <1>1, <1>2, <1>4, <1>5, <2>1, <2>2
  <2>3. CASE ~(i < k)
    <3>1. r[i] = after[i - (k - 1)] /\ i - (k - 1) \in 1..Len(s) - k
      BY <1>1, <1>2, <1>4, <1>5, <2>1, <2>3
    <3>2. after[i - (k - 1)] = s[(i - (k - 1)) + k]
      BY <1>2, <3>1
    <3>3. (i - (k - 1)) + k = i + 1
      BY <1>5, <2>1
    <3> QED BY <2>3, <3>1, <3>2, <3>3
  <2> QED BY <2>2, <2>3
<1> QED BY <1>1, <1>2, <1>4, <1>5, <1>6

\* What remove and erase leave of a list in which x is at most once.
LEMMA RemoveFirstEffect ==
  ASSUME NEW S, NEW s \in Seq(S), NEW x, NEW r, r = RemoveFirst(s, x),
         IsInjective(s)
  PROVE  \/ (\A i \in DOMAIN s : s[i] # x) /\ r = s
         \/ \E k \in 1..Len(s) : s[k] = x /\ r = RemoveAt(s, k)
<1>1. CASE \A i \in 1..Len(s) : s[i] # x
  BY <1>1 DEF RemoveFirst, SelectInSeq
<1>2. CASE \E i \in 1..Len(s) : s[i] = x
  <2>1. PICK k \in 1..Len(s) : s[k] = x
    BY <1>2
  <2>2. {i \in 1..Len(s) : s[i] = x} = {k}
    BY <2>1 DEF IsInjective
  <2>3. Min({k}) = k
    BY DEF Min
  <2> QED BY <1>2, <2>1, <2>2, <2>3 DEF RemoveFirst, SelectInSeq
<1> QED BY <1>1, <1>2

\* splice and emplace_front: x goes to the front of a list in which it is at most
\* once; at is its place, or just behind the end.
Place(s, x) == IF \E i \in DOMAIN s : s[i] = x
                 THEN CHOOSE i \in DOMAIN s : s[i] = x
                 ELSE Len(s) + 1

LEMMA PlaceIs ==
  ASSUME NEW S, NEW s \in Seq(S), NEW x
  PROVE  /\ Place(s, x) \in 1..Len(s) + 1
         /\ Place(s, x) <= Len(s) => s[Place(s, x)] = x
         /\ Place(s, x) = Len(s) + 1 => \A i \in 1..Len(s) : s[i] # x
<1>1. DOMAIN s = 1..Len(s) /\ Len(s) \in Nat
  OBVIOUS
<1>2. CASE \E i \in DOMAIN s : s[i] = x
  BY <1>1, <1>2 DEF Place
<1>3. CASE ~\E i \in DOMAIN s : s[i] = x
  BY <1>1, <1>3 DEF Place
<1> QED BY <1>2, <1>3

LEMMA WithoutFirst ==
  ASSUME NEW S, NEW s \in Seq(S), NEW x, NEW left, left = RemoveFirst(s, x),
         IsInjective(s)
  PROVE  /\ left \in Seq(S)
         /\ Len(left) = IF Place(s, x) <= Len(s) THEN Len(s) - 1 ELSE Len(s)
         /\ \A i \in 1..Len(left) : left[i] = IF i < Place(s, x) THEN s[i] ELSE s[i + 1]
<1>1. DOMAIN s = 1..Len(s) /\ Len(s) \in Nat
  OBVIOUS
<1>2. /\ Place(s, x) \in 1..Len(s) + 1
      /\ Place(s, x) <= Len(s) => s[Place(s, x)] = x
      /\ Place(s, x) = Len(s) + 1 => \A i \in 1..Len(s) : s[i] # x
  BY PlaceIs
<1>3. \/ (\A i \in DOMAIN s : s[i] # x) /\ left = s
      \/ \E j \in 1..Len(s) : s[j] = x /\ left = RemoveAt(s, j)
  BY RemoveFirstEffect
<1>4. CASE (\A i \in DOMAIN s : s[i] # x) /\ left = s
  <2>1. Place(s, x) = Len(s) + 1
    BY <1>1, <1>2, <1>4
  <2>2. left = s /\ ~(Place(s, x) <= Len(s))
    BY <1>1, <1>4, <2>1
  <2>3. \A i \in 1..Len(s) : i < Place(s, x)
    BY <1>1, <2>1
  <2> QED BY <2>2, <2>3
<1>5. CASE \E j \in 1..Len(s) : s[j] = x /\ left = RemoveAt(s, j)
  <2>1. PICK j \in 1..Len(s) : s[j] = x /\ left = RemoveAt(s, j)
    BY <1>5
  <2>2. Place(s, x) <= Len(s)
    BY <1>1, <1>2, <2>1
  <2>3. Place(s, x) = j
    BY <1>1, <1>2, <2>1, <2>2 DEF IsInjective
  <2>4. left \in Seq(S)
    BY <2>1, RemoveAtEffect
  <2>5. Len(left) = Len(s) - 1
    BY <2>1, RemoveAtEffect
  <2>6. \A i \in 1..Len(left) : left[i] = IF i < j THEN s[i] ELSE s[i + 1]
    BY <2>1, RemoveAtEffect, SMTT(30)
  <2> QED BY <2>2, <2>3, <2>4, <2>5, <2>6
<1> QED BY <1>3, <1>4, <1>5

LEMMA InFront ==
  ASSUME NEW S, NEW left \in Seq(S), NEW y \in S, NEW r, r = <<y>> \o left
  PROVE  /\ r \in Seq(S) /\ Len(r) = Len(left) + 1
         /\ r[1] = y
         /\ \A i \in 2..Len(r) : r[i] = left[i - 1]
<1>1. PICK one : one = <<y>>
  OBVIOUS
<1>2. one \in Seq(S) /\ Len(one) = 1 /\ one[1] = y /\ r = one \o left /\ Len(left) \in Nat
  BY <1>1
<1>3. r \in Seq(S)
  BY <1>2, ConcatProperties
<1>4. Len(r) = 1 + Len(left)
  BY <1>2, ConcatProperties
<1>5. \A i \in 1..1 + Len(left) : r[i] = IF i <= 1 THEN one[i] ELSE left[i - 1]
  BY <1>2, ConcatProperties
<1>6. r[1] = y
  BY <1>2, <1>5
<1>7. \A i \in 2..Len(r) : r[i] = left[i - 1]
  BY <1>2, <1>4, <1>5
<1> QED BY <1>2, <1>3, <1>4, <1>6, <1>7

\* The list with y at the front in the place of x.
Fronted(s, x, y) == <<y>> \o RemoveFirst(s, x)

LEMMA MoveToFront ==
  ASSUME NEW S, NEW s \in Seq(S), NEW x, NEW y \in S, NEW r, r = Fronted(s, x, y),
         IsInjective(s)
  PROVE  /\ r \in Seq(S)
         /\ Len(r) = IF Place(s, x) <= Len(s) THEN Len(s) ELSE Len(s) + 1
         /\ r[1] = y
         /\ \A i \in 2..Len(r) : r[i] = IF i <= Place(s, x) THEN s[i - 1] ELSE s[i]
<1> DEFINE k == Place(s, x)
<1>0. PICK left : left = RemoveFirst(s, x)
  OBVIOUS
<1>a. r = <<y>> \o left
  BY <1>0 DEF Fronted
<1>1. left \in Seq(S)
  BY <1>0, WithoutFirst
<1>2. Len(left) = IF Place(s, x) <= Len(s) THEN Len(s) - 1 ELSE Len(s)
  BY <1>0, WithoutFirst
<1>3. \A i \in 1..Len(left) : left[i] = IF i < k THEN s[i] ELSE s[i + 1]
  BY <1>0, WithoutFirst
<1>4. k \in 1..Len(s) + 1 /\ Len(s) \in Nat
  BY PlaceIs
<1>5. r \in Seq(S)
  BY <1>a, <1>1, InFront
<1>6. Len(r) = Len(left) + 1
  BY <1>a, <1>1, InFront
<1>7. r[1] = y
  BY <1>a, <1>1, InFront
<1>8. \A i \in 2..Len(r) : r[i] = left[i - 1]
  BY <1>a, <1>1, InFront
<1>9. Len(r) = IF Place(s, x) <= Len(s) THEN Len(s) ELSE Len(s) + 1
  BY <1>2, <1>4, <1>6
<1>10. ASSUME NEW i \in 2..Len(r) PROVE r[i] = IF i <= Place(s, x) THEN s[i - 1] ELSE s[i]
  <2>1. i \in Nat /\ i - 1 \in 1..Len(left) /\ (i - 1) + 1 = i /\ (i - 1 < k <=> i <= k)
    BY <1>2, <1>4, <1>6
  <2>2. r[i] = left[i - 1]
    BY <1>8
  <2> QED BY <1>3, <2>1, <2>2
<1> QED BY <1>5, <1>7, <1>9, <1>10

-----------------------------------------------------------------------------
\* Induction: a set of natural numbers that is not empty has a least one.
LEMMA LeastOfNat ==
  ASSUME NEW T, T \subseteq Nat, T # {}
  PROVE  \E m \in T : \A n \in T : m <= n
<1>1. PICK m \in T : \A n \in T : ~(<<n, m>> \in OpToRel(<, Nat))
  BY NatLessThanWellFounded, WFMin, Zenon
<1>2. \A n \in T : ~(n < m)
  BY <1>1, Zenon DEF OpToRel
<1> QED
  BY <1>2

\* Induction on finite sets: among the finite sets of W one has the least size.
LEMMA SmallestSet ==
  ASSUME NEW W, W # {}, \A s \in W : IsFiniteSet(s)
  PROVE  \E m \in W : \A s \in W : Cardinality(m) <= Cardinality(s)
<1> DEFINE sizes == {Cardinality(s) : s \in W}
<1>1. sizes \subseteq Nat /\ sizes # {}
  BY FS_CardinalityType
<1> HIDE DEF sizes
<1>2. PICK n \in sizes : \A k \in sizes : n <= k
  BY <1>1, LeastOfNat
<1> QED
  BY <1>2 DEF sizes

\* A set without one of its elements is smaller.
LEMMA Smaller ==
  ASSUME NEW s, IsFiniteSet(s), NEW x \in s
  PROVE  /\ IsFiniteSet(s \ {x})
         /\ ~(Cardinality(s) <= Cardinality(s \ {x}))
<1>1. IsFiniteSet(s \ {x}) /\ Cardinality(s \ {x}) = Cardinality(s) - 1
  BY FS_RemoveElement
<1>2. Cardinality(s) \in Nat
  BY FS_CardinalityType
<1> QED
  BY <1>1, <1>2

-----------------------------------------------------------------------------
(* Sums.  SumFunctionOnSet adds up the values in an order that CHOOSE       *)
(* picks: Iterates(h, f, S) says that h[s] is what comes out for s.         *)

Some(s) == CHOOSE x \in s : TRUE
Iterates(h, f, S) ==
  h = [s \in SUBSET S |-> IF s = {} THEN 0 ELSE f[Some(s)] + h[s \ {Some(s)}]]

\* What is picked from a set is in it.
LEMMA SomeIn == ASSUME NEW s, s # {} PROVE Some(s) \in s
  BY DEF Some

\* One step of the iteration.
LEMMA IteratesAt ==
  ASSUME NEW f, NEW S, NEW h, Iterates(h, f, S), NEW s \in SUBSET S
  PROVE  /\ h[{}] = 0
         /\ s # {} => h[s] = f[Some(s)] + h[s \ {Some(s)}]
<1>1. \A r \in SUBSET S : h[r] = IF r = {} THEN 0 ELSE f[Some(r)] + h[r \ {Some(r)}]
  BY DEF Iterates
<1>2. {} \in SUBSET S
  OBVIOUS
<1>3. h[{}] = 0
  BY <1>1, <1>2
<1>4. s # {} => h[s] = f[Some(s)] + h[s \ {Some(s)}]
  BY <1>1
<1> QED
  BY <1>3, <1>4

\* Two iterations agree on the sets that both are about ...
LEMMA IteratesUnique ==
  ASSUME NEW f, NEW S, NEW h, Iterates(h, f, S), NEW T, NEW g, Iterates(g, f, T),
         NEW s \in (SUBSET S) \cap (SUBSET T), IsFiniteSet(s)
  PROVE  h[s] = g[s]
<1> DEFINE bad == {r \in SUBSET s : h[r] # g[r]}
<1> SUFFICES ASSUME bad # {} PROVE FALSE
  OBVIOUS
<1>1. \A r \in bad : IsFiniteSet(r)
  BY FS_Subset
<1>2. PICK r \in bad : \A q \in bad : Cardinality(r) <= Cardinality(q)
  BY <1>1, SmallestSet
<1>3. r \in SUBSET S /\ r \in SUBSET T /\ r \in SUBSET s
  OBVIOUS
<1>4. r # {}
  <2>1. h[{}] = 0 /\ g[{}] = 0
    BY <1>3, IteratesAt
  <2> QED
    BY <2>1
<1>5. r \ {Some(r)} \in bad
  <2>1. h[r] = f[Some(r)] + h[r \ {Some(r)}]
    BY <1>3, <1>4, IteratesAt
  <2>2. g[r] = f[Some(r)] + g[r \ {Some(r)}]
    BY <1>3, <1>4, IteratesAt
  <2> QED
    BY <1>3, <2>1, <2>2
<1>6. Some(r) \in r
  BY <1>4, SomeIn
<1> QED
  BY <1>1, <1>2, <1>5, <1>6, Smaller

\* ... and every finite set has one.
LEMMA IteratesExists ==
  ASSUME NEW f, NEW S, IsFiniteSet(S)
  PROVE  \E h : Iterates(h, f, S)
<1> DEFINE bad == {r \in SUBSET S : ~\E h : Iterates(h, f, r)}
<1> SUFFICES ASSUME bad # {} PROVE FALSE
  OBVIOUS
<1>1. \A r \in bad : IsFiniteSet(r)
  BY FS_Subset
<1>2. PICK r \in bad : \A q \in bad : Cardinality(r) <= Cardinality(q)
  BY <1>1, SmallestSet
<1> DEFINE V(q) == (CHOOSE h : Iterates(h, f, q))[q]
           h == [q \in SUBSET r |-> IF q = {} THEN 0 ELSE f[Some(q)] + V(q \ {Some(q)})]
<1>3. \A q \in SUBSET r : q # r => Iterates(CHOOSE g : Iterates(g, f, q), f, q)
  <2> SUFFICES ASSUME NEW q \in SUBSET r, q # r PROVE \E g : Iterates(g, f, q)
    OBVIOUS
  <2>1. PICK x \in r : x \notin q
    OBVIOUS
  <2>2. IsFiniteSet(r) /\ IsFiniteSet(r \ {x}) /\ ~(Cardinality(r) <= Cardinality(r \ {x}))
    BY <1>1, <2>1, Smaller
  <2>3. q \subseteq r \ {x}
    BY <2>1
  <2>4. Cardinality(q) <= Cardinality(r \ {x}) /\ IsFiniteSet(q)
    BY <2>2, <2>3, FS_Subset
  <2>5. Cardinality(q) \in Nat /\ Cardinality(r) \in Nat /\ Cardinality(r \ {x}) \in Nat
    BY <2>2, <2>4, FS_CardinalityType
  <2>6. ~(Cardinality(r) <= Cardinality(q))
    BY <2>2, <2>4, <2>5
  <2> QED
    BY <1>2, <2>6
<1>4. \A q \in SUBSET r : q # r => V(q) = h[q]
  <2> SUFFICES ASSUME NEW q \in SUBSET r, q # r PROVE V(q) = h[q]
    OBVIOUS
  <2> DEFINE g == CHOOSE g : Iterates(g, f, q)
  <2>1. Iterates(g, f, q)
    BY <1>3
  <2>2. q \in SUBSET q
    OBVIOUS
  <2> HIDE DEF g
  <2>3. CASE q = {}
    <3>1. g[{}] = 0
      BY <2>1, <2>2, IteratesAt
    <3>2. h[{}] = 0
      OBVIOUS
    <3> QED
      BY <2>3, <3>1, <3>2 DEF g
  <2>4. CASE q # {}
    <3> DEFINE p == q \ {Some(q)}
               k == CHOOSE k : Iterates(k, f, p)
    <3>1. Some(q) \in q
      BY <2>4, SomeIn
    <3>2. p \in SUBSET r /\ p # r /\ p \in SUBSET q /\ p \in SUBSET p
      BY <3>1
    <3>3. Iterates(k, f, p)
      BY <1>3, <3>2
    <3>4. IsFiniteSet(p)
      BY <1>1, <3>2, FS_Subset
    <3> HIDE DEF p, k
    <3>5. g[p] = k[p]
      BY <2>1, <3>2, <3>3, <3>4, IteratesUnique
    <3>6. g[q] = f[Some(q)] + g[p]
      BY <2>1, <2>2, <2>4, IteratesAt DEF p
    <3>7. h[q] = f[Some(q)] + k[p]
      BY <2>4 DEF p, k
    <3> QED
      BY <3>5, <3>6, <3>7 DEF g
  <2> QED
    BY <2>3, <2>4
<1>5. \A q \in SUBSET r : q # {} => V(q \ {Some(q)}) = h[q \ {Some(q)}]
  <2> SUFFICES ASSUME NEW q \in SUBSET r, q # {} PROVE V(q \ {Some(q)}) = h[q \ {Some(q)}]
    OBVIOUS
  <2>1. Some(q) \in q
    BY SomeIn
  <2>2. q \ {Some(q)} \in SUBSET r /\ q \ {Some(q)} # r
    BY <2>1
  <2> HIDE DEF V, h
  <2> QED
    BY <1>4, <2>2
<1>6. h = [q \in SUBSET r |-> IF q = {} THEN 0 ELSE f[Some(q)] + h[q \ {Some(q)}]]
  <2>1. \A q \in SUBSET r :
          h[q] = IF q = {} THEN 0 ELSE f[Some(q)] + h[q \ {Some(q)}]
    <3> SUFFICES ASSUME NEW q \in SUBSET r
                 PROVE h[q] = IF q = {} THEN 0 ELSE f[Some(q)] + h[q \ {Some(q)}]
      OBVIOUS
    <3>1. h[q] = IF q = {} THEN 0 ELSE f[Some(q)] + V(q \ {Some(q)})
      OBVIOUS
    <3> HIDE DEF V, h
    <3> QED
      BY <1>5, <3>1
  <2>2. h = [q \in SUBSET r |-> h[q]]
    OBVIOUS
  <2> HIDE DEF h
  <2> QED
    BY <2>1, <2>2
<1>7. Iterates(h, f, r)
  BY <1>6 DEF Iterates
<1> QED
  BY <1>7

\* A sum is the element picked first and the sum of the others.
LEMMA SumUnfold ==
  ASSUME NEW f, NEW S, IsFiniteSet(S)
  PROVE  /\ SumFunctionOnSet(f, {}) = 0
         /\ \A s \in SUBSET S : s # {} =>
              /\ Some(s) \in s
              /\ SumFunctionOnSet(f, s) = f[Some(s)] + SumFunctionOnSet(f, s \ {Some(s)})
<1> DEFINE it(s) == CHOOSE h : Iterates(h, f, s)
<1>1. \A s \in SUBSET S : IsFiniteSet(s)
  BY FS_Subset
<1>2. \A s \in SUBSET S : Iterates(it(s), f, s)
  BY <1>1, IteratesExists
<1>3. \A s : SumFunctionOnSet(f, s) = it(s)[s]
  BY DEF SumFunctionOnSet, FoldFunctionOnSet, MapThenFoldSet, Iterates, Some
<1> HIDE DEF it
<1>4. \A s \in SUBSET S : it(s)[s] = it(S)[s]
  <2> SUFFICES ASSUME NEW s \in SUBSET S PROVE it(s)[s] = it(S)[s]
    OBVIOUS
  <2>1. s \in (SUBSET s) \cap (SUBSET S) /\ S \in SUBSET S
    OBVIOUS
  <2> QED
    BY <1>1, <1>2, <2>1, IteratesUnique
<1>5. Iterates(it(S), f, S)
  BY <1>2
<1>6. SumFunctionOnSet(f, {}) = 0
  BY <1>3, <1>4, <1>5, IteratesAt
<1>7. ASSUME NEW s \in SUBSET S, s # {}
      PROVE  /\ Some(s) \in s
             /\ SumFunctionOnSet(f, s) = f[Some(s)] + SumFunctionOnSet(f, s \ {Some(s)})
  <2>1. Some(s) \in s
    BY <1>7, SomeIn
  <2>2. it(S)[s] = f[Some(s)] + it(S)[s \ {Some(s)}]
    BY <1>5, <1>7, IteratesAt
  <2>3. s \ {Some(s)} \in SUBSET S
    OBVIOUS
  <2> QED
    BY <1>3, <1>4, <2>1, <2>2, <2>3
<1> QED
  BY <1>6, <1>7

\* A sum of natural numbers: nothing adds up to 0, and any element may be added last.
LEMMA SumOf ==
  ASSUME NEW f, NEW S, IsFiniteSet(S), \A x \in S : f[x] \in Nat
  PROVE  /\ SumFunctionOnSet(f, S) \in Nat
         /\ SumFunctionOnSet(f, {}) = 0
         /\ \A x \in S : SumFunctionOnSet(f, S) = f[x] + SumFunctionOnSet(f, S \ {x})
<1> DEFINE total(s) == SumFunctionOnSet(f, s)
<1>1. total({}) = 0 /\ \A s \in SUBSET S : s # {} =>
         Some(s) \in s /\ total(s) = f[Some(s)] + total(s \ {Some(s)})
  BY SumUnfold
<1>2. \A s \in SUBSET S : IsFiniteSet(s)
  BY FS_Subset
<1> HIDE DEF total
<1>4. ASSUME NEW s \in SUBSET S
      PROVE  total(s) \in Nat
  <2> DEFINE bad == {r \in SUBSET S : total(r) \notin Nat}
  <2> SUFFICES ASSUME bad # {} PROVE FALSE
    OBVIOUS
  <2>1. PICK r \in bad : \A q \in bad : Cardinality(r) <= Cardinality(q)
    BY <1>2, SmallestSet
  <2>2. r # {}
    <3>1. total({}) = 0
      BY <1>1
    <3> QED
      BY <3>1
  <2>3. r \in SUBSET S /\ Some(r) \in r /\ total(r) = f[Some(r)] + total(r \ {Some(r)})
    BY <1>1, <2>2
  <2>4. f[Some(r)] \in Nat
    BY <2>3
  <2>5. r \ {Some(r)} \in bad
    BY <2>3, <2>4
  <2> QED
    BY <1>2, <2>1, <2>3, <2>5, Smaller
<1>5. ASSUME NEW s \in SUBSET S, NEW x \in s
      PROVE  total(s) = f[x] + total(s \ {x})
  <2> DEFINE bad == {r \in SUBSET S : \E y \in r : total(r) # f[y] + total(r \ {y})}
  <2> SUFFICES ASSUME bad # {} PROVE FALSE
    OBVIOUS
  <2>1. PICK r \in bad : \A q \in bad : Cardinality(r) <= Cardinality(q)
    BY <1>2, SmallestSet
  <2>2. PICK y \in r : total(r) # f[y] + total(r \ {y})
    OBVIOUS
  <2> DEFINE p == Some(r)
  <2>3. p \in r /\ total(r) = f[p] + total(r \ {p})
    BY <1>1
  <2> HIDE DEF p
  <2>4. y # p
    BY <2>2, <2>3
  <2>5. r \ {p} \notin bad /\ r \ {y} \notin bad
    BY <1>2, <2>1, <2>2, <2>3, Smaller
  <2>6. r \in SUBSET S /\ r \ {p} \in SUBSET S /\ r \ {y} \in SUBSET S
        /\ y \in r \ {p} /\ p \in r \ {y}
    BY <2>3, <2>4
  <2>7. total(r \ {p}) = f[y] + total(r \ {p, y})
    <3>1. (r \ {p}) \ {y} = r \ {p, y}
      OBVIOUS
    <3> QED
      BY <2>5, <2>6, <3>1
  <2>8. total(r \ {y}) = f[p] + total(r \ {p, y})
    <3>1. (r \ {y}) \ {p} = r \ {p, y}
      OBVIOUS
    <3> QED
      BY <2>5, <2>6, <3>1
  <2>9. f[p] \in Nat /\ f[y] \in Nat /\ total(r \ {p, y}) \in Nat
    <3>1. r \ {p, y} \in SUBSET S
      BY <2>6
    <3> QED
      BY <1>4, <2>6, <3>1
  <2> QED
    BY <2>2, <2>3, <2>7, <2>8, <2>9
<1>6. S \in SUBSET S /\ {} \in SUBSET S /\ \A x \in S : S \ {x} \in SUBSET S
  OBVIOUS
<1>7. SumFunctionOnSet(f, S) \in Nat
  BY <1>4, <1>6 DEF total
<1>8. SumFunctionOnSet(f, {}) = 0
  BY <1>1 DEF total
<1>9. \A x \in S : SumFunctionOnSet(f, S) = f[x] + SumFunctionOnSet(f, S \ {x})
  BY <1>5, <1>6 DEF total
<1> QED
  BY <1>7, <1>8, <1>9
\* No summand is less, no sum is.
LEMMA SumGrows ==
  ASSUME NEW f, NEW g, NEW S, IsFiniteSet(S),
         \A x \in S : f[x] \in Nat /\ g[x] \in Nat /\ f[x] <= g[x]
  PROVE  SumFunctionOnSet(f, S) <= SumFunctionOnSet(g, S)
<1> DEFINE F(s) == SumFunctionOnSet(f, s)
           G(s) == SumFunctionOnSet(g, s)
           bad == {s \in SUBSET S : ~(F(s) <= G(s))}
<1> SUFFICES ASSUME bad # {} PROVE FALSE
  OBVIOUS
<1>1. \A s \in SUBSET S : IsFiniteSet(s)
  BY FS_Subset
<1>2. ASSUME NEW s \in SUBSET S
      PROVE  /\ F(s) \in Nat /\ F({}) = 0 /\ \A x \in s : F(s) = f[x] + F(s \ {x})
             /\ G(s) \in Nat /\ G({}) = 0 /\ \A x \in s : G(s) = g[x] + G(s \ {x})
  <2>1. IsFiniteSet(s) /\ \A x \in s : f[x] \in Nat /\ g[x] \in Nat
    BY <1>1
  <2>2. F(s) \in Nat /\ F({}) = 0 /\ \A x \in s : F(s) = f[x] + F(s \ {x})
    BY <2>1, SumOf
  <2>3. G(s) \in Nat /\ G({}) = 0 /\ \A x \in s : G(s) = g[x] + G(s \ {x})
    BY <2>1, SumOf
  <2> QED
    BY <2>2, <2>3
<1> HIDE DEF F, G
<1>3. PICK s \in bad : \A r \in bad : Cardinality(s) <= Cardinality(r)
  BY <1>1, SmallestSet
<1>4. s # {}
  <2>1. F({}) = 0 /\ G({}) = 0
    BY <1>2
  <2> QED
    BY <2>1
<1>5. PICK x \in s : TRUE
  BY <1>4
<1>6. s \ {x} \notin bad
  BY <1>1, <1>3, Smaller
<1>7. F(s \ {x}) <= G(s \ {x}) /\ F(s \ {x}) \in Nat /\ G(s \ {x}) \in Nat
  BY <1>2, <1>6
<1>8. F(s) = f[x] + F(s \ {x}) /\ G(s) = g[x] + G(s \ {x})
  BY <1>2
<1>9. f[x] \in Nat /\ g[x] \in Nat /\ f[x] <= g[x]
  OBVIOUS
<1> QED
  BY <1>7, <1>8, <1>9

\* The sum of all values of a function.
LEMMA SumOfAll ==
  ASSUME NEW f
  PROVE  FoldFunction(+, 0, f) = SumFunctionOnSet(f, DOMAIN f)
BY DEF SumFunctionOnSet, FoldFunction, FoldFunctionOnSet, MapThenFoldSet
=============================================================================
