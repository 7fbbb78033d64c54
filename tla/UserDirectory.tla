--------------------------- MODULE UserDirectory ---------------------------
(***************************************************************************)
(* What callers of UserService are promised: the table is a set of users   *)
(* without duplicates, and a call that returns has taken effect once.  A   *)
(* call that raises has not, except when nobody knows: then its effect may *)
(* come later, once or never.  increaseUserAge, deleteUserByName and       *)
(* clearUsers take in every user that was there from the beginning of the  *)
(* call to its effect; users that came in between may be missed.           *)
(***************************************************************************)
EXTENDS Integers

CONSTANTS Callers,  \* who calls
          Calls,    \* the calls, records with the name of the operation
          None      \* no call

VARIABLES users,   \* records of id, name and age
          call,    \* call[c]: the call in progress
          met,     \* met[c]: the ids there when it began, if it has to meet them
          raised,  \* callers whose last call has raised
          inDoubt  \* calls that raised and may still take effect, each with a number

vars == <<users, call, met, raised, inDoubt>>

Key(u) == <<u.name, u.age>>
NoDuplicates(S) == \A u, v \in S : Key(u) = Key(v) => u = v
Sweeps(k) == k.op \in {"increaseUserAge", "deleteUserByName", "clearUsers"}

Init == /\ NoDuplicates(users)
        /\ call = [c \in Callers |-> None]
        /\ met = [c \in Callers |-> {}]
        /\ raised = {} /\ inDoubt = {}

\* The users that call k is about, and those of them that it has to meet.
Meant(k) == {u \in users : k.op = "clearUsers" \/ u.name = k.name}
MustMeet(k, ids) == {u \in Meant(k) : u.id \in ids}

Register(k) ==
  \/ /\ \E u \in users : Key(u) = <<k.name, k.age>>
     /\ users' = users
  \/ /\ \E u \in users' : Key(u) = <<k.name, k.age>> /\ users' \ {u} = users
     /\ NoDuplicates(users')

Sweep(k, ids) ==
  \E S \in SUBSET Meant(k) :
    /\ MustMeet(k, ids) \subseteq S
    /\ users' = (users \ S) \cup
                IF k.op = "increaseUserAge"
                  THEN {[u EXCEPT !.age = @ + k.years] : u \in S}
                  ELSE {}
    /\ NoDuplicates(users')

Effect(k, ids) == \/ k.op = "registerUser" /\ Register(k)
                  \/ Sweeps(k) /\ Sweep(k, ids)
                  \/ k.op \in {"createTable", "query"} /\ users' = users

Begin(c) == /\ call[c] = None /\ c \notin raised
            /\ \E k \in Calls :
                 /\ call' = [call EXCEPT ![c] = k]
                 /\ met' = [met EXCEPT ![c] = IF Sweeps(k) THEN {u.id : u \in users} ELSE {}]
            /\ UNCHANGED <<users, raised, inDoubt>>

\* The caller goes on after an exception.
Recovers(c) == /\ c \in raised
               /\ raised' = raised \ {c}
               /\ UNCHANGED <<users, call, met, inDoubt>>

Ends(c) == /\ call[c] # None
           /\ call' = [call EXCEPT ![c] = None]
           /\ met' = [met EXCEPT ![c] = {}]

Returns(c) == Ends(c) /\ Effect(call[c], met[c]) /\ UNCHANGED <<raised, inDoubt>>

Raises(c) == /\ Ends(c)
             /\ raised' = raised \cup {c}
             /\ \/ UNCHANGED inDoubt
                \/ \E d \in inDoubt' :
                     /\ d = [call |-> call[c], met |-> met[c], number |-> d.number]
                     /\ \A e \in inDoubt : e.number # d.number
                     /\ inDoubt' = inDoubt \cup {d}
             /\ UNCHANGED users

Settles(d) == /\ inDoubt' = inDoubt \ {d}
              /\ \/ Effect(d.call, d.met)
                 \/ UNCHANGED users
              /\ UNCHANGED <<call, met, raised>>

Next == \/ \E c \in Callers : Begin(c) \/ Returns(c) \/ Raises(c) \/ Recovers(c)
        \/ \E d \in inDoubt : Settles(d)

Spec == Init /\ [][Next]_vars
=============================================================================
