----------------------------- MODULE StripedMap ----------------------------
(***************************************************************************)
(* multithreading/Striped_Unordered_Map: a map in N stripes, each a        *)
(* std::unordered_map with a shared_mutex, and the stress test of main:    *)
(* threads that insert beside threads that get, threads that erase beside  *)
(* threads that get, and a last count by main itself.                      *)
(*                                                                         *)
(* Points of a thread (pc): out of the lock, change (insert or erase, with *)
(* the lock), contains and index (the two accesses of get, with the lock   *)
(* shared).                                                                *)
(***************************************************************************)
EXTENDS Integers

CONSTANTS N,            \* stripes
          NUM_THREADS,  \* threads of each kind
          NUM_KEYS      \* keys of each thread that inserts or erases

VARIABLES phase,  \* of main: insert, erase, count, end
          data,   \* the pairs of all stripes
          pc, i,  \* i[t]: the loop variable of thread t
          got,    \* got[t]: what its last get has returned, if anything
          count   \* main's count

vars == <<phase, data, pc, i, got, count>>

Nothing == -1
Indices == 0..NUM_THREADS - 1
Changers == {"changer"} \X Indices
Readers == {"reader"} \X Indices
Main == <<"main", 0>>
Everyone == Changers \cup Readers \cup {Main}
AllKeys == 0..NUM_THREADS * NUM_KEYS - 1

Init == /\ phase = "insert"
        /\ data = {}
        /\ pc = [t \in Everyone |-> "out"]
        /\ i = [t \in Everyone |-> 0]
        /\ got = [t \in Everyone |-> Nothing]
        /\ count = 0

get_striped(key) == key % N

\* The key that thread t is about, and how many there are in its loop.
key(t) == IF t \in Changers THEN i[t] + t[2] * NUM_KEYS ELSE i[t]
Keys(t) == IF t \in Changers THEN NUM_KEYS ELSE NUM_THREADS * NUM_KEYS

Active(t) == /\ i[t] < Keys(t)
             /\ IF t = Main THEN phase = "count" ELSE phase \in {"insert", "erase"}
Inside(t, s) == pc[t] # "out" /\ get_striped(key(t)) = s
Has(k) == \E pair \in data : pair[1] = k
Without(k) == {pair \in data : pair[1] # k}

GoTo(t, point) == pc' = [pc EXCEPT ![t] = point]
NextKey(t) == i' = [i EXCEPT ![t] = @ + 1]

-----------------------------------------------------------------------------
\* insert and erase take the stripe's lock alone.
LockAlone(t) ==
  /\ t \in Changers /\ Active(t) /\ pc[t] = "out"
  /\ \A u \in Everyone : ~Inside(u, get_striped(key(t)))
  /\ GoTo(t, "change")
  /\ UNCHANGED <<phase, data, i, got, count>>

\* The threads of the first phase insert key * 10, those of the second erase.
Change(t) ==
  /\ pc[t] = "change"
  /\ data' = Without(key(t)) \cup IF phase = "insert" THEN {<<key(t), key(t) * 10>>} ELSE {}
  /\ GoTo(t, "out") /\ NextKey(t)
  /\ UNCHANGED <<phase, got, count>>

\* get shares it with other gets.
LockShared(t) ==
  /\ t \notin Changers /\ Active(t) /\ pc[t] = "out"
  /\ \A u \in Changers : ~Inside(u, get_striped(key(t)))
  /\ GoTo(t, "contains")
  /\ UNCHANGED <<phase, data, i, got, count>>

\* Wrong variant: get indexes without asking.
IndexUnasked(t) ==
  /\ pc[t] = "contains"
  /\ GoTo(t, "index")
  /\ UNCHANGED <<phase, data, i, got, count>>

LooksUp(t) ==
  /\ pc[t] = "contains"
  /\ IF Has(key(t))
       THEN GoTo(t, "index") /\ UNCHANGED <<i, got>>
       ELSE GoTo(t, "out") /\ NextKey(t) /\ got' = [got EXCEPT ![t] = Nothing]
  /\ UNCHANGED <<phase, data, count>>

\* data_[key] inserts 0 if the key is not there.
Index(t) ==
  /\ pc[t] = "index"
  /\ data' = IF Has(key(t)) THEN data ELSE data \cup {<<key(t), 0>>}
  /\ got' = [got EXCEPT ![t] = (CHOOSE pair \in data' : pair[1] = key(t))[2]]
  /\ count' = IF t = Main THEN count + 1 ELSE count
  /\ GoTo(t, "out") /\ NextKey(t)
  /\ UNCHANGED phase

\* All threads are joined; those of the next phase start.
Join ==
  /\ \A t \in Everyone : ~Active(t)
  /\ phase # "end"
  /\ phase' = CASE phase = "insert" -> "erase"
                [] phase = "erase"  -> "count"
                [] phase = "count"  -> "end"
  /\ i' = IF phase = "count" THEN i ELSE [t \in Everyone |-> 0]
  /\ got' = [t \in Everyone |-> Nothing]
  /\ UNCHANGED <<data, pc, count>>

Next == \/ \E t \in Everyone : \/ LockAlone(t) \/ Change(t)
                              \/ LockShared(t) \/ LooksUp(t) \/ Index(t)
        \/ Join

Spec == Init /\ [][Next]_vars

-----------------------------------------------------------------------------
(* Properties                                                              *)

Writes(t) == pc[t] = "change" \/ (pc[t] = "index" /\ ~Has(key(t)))

\* The keys that the changers' progress leaves in the map.
Due == {k \in AllKeys :
  LET done == k % NUM_KEYS < i[<<"changer", k \div NUM_KEYS>>] IN
  (phase = "insert" /\ done) \/ (phase = "erase" /\ ~done)}

\* The stress test shows what it is there to show: no thread writes to a stripe in
\* which another one is, although get uses the inserting operator[] under a shared
\* lock; a get returns the key's value or nothing; the map holds what the inserts
\* and erases so far leave in it, and main counts none at the end.
StressOutcome ==
  /\ \A t, u \in Everyone : t # u /\ Writes(t) => ~Inside(u, get_striped(key(t)))
  /\ \A t \in Readers : got[t] \in {Nothing, (i[t] - 1) * 10}
  /\ data = {<<k, k * 10>> : k \in Due}
  /\ phase = "end" => count = 0
=============================================================================
