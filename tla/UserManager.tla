---------------------------- MODULE UserManager ----------------------------
(***************************************************************************)
(* databases/User_Manager: UserService on Database on a PostgreSQL table.  *)
(* Each process runs one program, a sequence of calls, on one connection;  *)
(* each function of Database connects if there is no connection, runs one  *)
(* statement in one transaction, and commits if it has written.            *)
(* registerUser is two of them.  An exception ends the program, which may  *)
(* be run again.                                                           *)
(*                                                                         *)
(* Points of a process (pc):                                               *)
(*   ready    between calls           call    in a call, before its first  *)
(*   insert   registerUser has found nobody   statement                    *)
(*   wait     a statement runs: it has its snapshot, and waits for locks   *)
(*   commit   the statement is done, COMMIT is not                         *)
(*   failed   an exception has ended the program      finished  its end    *)
(*                                                                         *)
(* PostgreSQL is external: READ COMMITTED statements on a table with a     *)
(* unique index on (name, age).  It takes the locks of a statement at once.*)
(***************************************************************************)
EXTENDS Integers, Sequences, FiniteSets

CONSTANTS Processes,  \* running instances of the program
          Setups,     \* what to run, and where the disturbances end:
                      \* program, table, users, lost, restarts, schema (the
                      \* file schema.sql can always be opened)
          MaxAge,     \* the largest INT
          None        \* no call

Users == [id : Nat, name : STRING, age : Int]
Key(u) == <<u.name, u.age>>
Keys(S) == {Key(u) : u \in S}

KnownCalls == [op : {"createTable", "clearUsers"}]
              \cup [op : {"registerUser"}, name : STRING, age : Int]
              \cup [op : {"increaseUserAge"}, name : STRING, years : Int]
              \cup [op : {"deleteUserByName"}, name : STRING]
              \cup [op : {"query"}, counts : BOOLEAN]

\* INT has room for main's ages.
ASSUME MaxAgeAssumption == MaxAge \in Nat /\ MaxAge >= 35

ASSUME SetupsAssumption ==
  /\ IsFiniteSet(Processes) /\ None \notin KnownCalls
  /\ \A s \in Setups :
       /\ s.program \in [Processes -> Seq(KnownCalls)]
       /\ s.table \in BOOLEAN
       /\ s.users \in SUBSET Users /\ IsFiniteSet(s.users)
       /\ s.users = {} \/ s.table
       /\ \A u, v \in s.users : Key(u) = Key(v) => u = v
       /\ s.lost \in Nat /\ s.restarts \in Nat /\ s.schema \in BOOLEAN

VARIABLES setup,      \* the setup of this run
          table,      \* external: the table exists
          users,      \* external: its committed rows
          work,       \* external: work[p], changes of p's transaction
          orphans,    \* external: transactions whose client is gone
          conn,       \* conn[p]: m_conn is none, open, or broken unnoticed
          pc,
          next,       \* next[p]: the index of the next call, or the current one
          view,       \* view[p]: what the running statement sees
          counts,     \* counts[p]: what getUserCount has returned
          lost,       \* connections lost or refused so far
          restarts,   \* programs run again so far
          met,        \* history: met[p], ids there when the call began
          disturbed   \* history: disturbed[p], since p's clearUsers began
                      \* another process has changed the table

vars == <<setup, table, users, work, orphans, conn, pc, next, view, counts, lost,
          restarts, met, disturbed>>
store == <<table, users, orphans>>
history == <<met, disturbed>>

Calls == UNION {{s.program[p][i] : i \in DOMAIN s.program[p]} : s \in Setups, p \in Processes}

NoWork == [removed |-> {}, added |-> {}, ddl |-> FALSE, creates |-> FALSE]
NoView == [ids |-> {}, table |-> FALSE]

Init == /\ setup \in Setups
        /\ table = setup.table
        /\ users = setup.users
        /\ work = [p \in Processes |-> NoWork]
        /\ orphans = {}
        /\ conn = [p \in Processes |-> "none"]
        /\ pc = [p \in Processes |-> "ready"]
        /\ next = [p \in Processes |-> 1]
        /\ view = [p \in Processes |-> NoView]
        /\ counts = [p \in Processes |-> <<>>]
        /\ lost = 0 /\ restarts = 0
        /\ met = [p \in Processes |-> {}]
        /\ disturbed = [p \in Processes |-> FALSE]

-----------------------------------------------------------------------------
(* The calls                                                               *)

createTable == [op |-> "createTable"]
clearUsers == [op |-> "clearUsers"]
registerUser(name, age) == [op |-> "registerUser", name |-> name, age |-> age]
increaseUserAge(name, years) == [op |-> "increaseUserAge", name |-> name, years |-> years]
deleteUserByName(name) == [op |-> "deleteUserByName", name |-> name]
\* getAllUsers, getUsersByAgeRange, getUsersByName, getUsersSorted, getAverageAge:
\* what they select is printed and decides nothing.
select == [op |-> "query", counts |-> FALSE]
getUserCount == [op |-> "query", counts |-> TRUE]

Queries(n) == [i \in 1..n |-> select]

\* main: createTable, clearUsers and the ten tests.
MainProgram ==
  <<createTable, clearUsers,
    registerUser("Alice", 25), registerUser("Bob", 30), registerUser("Charlie", 35),
    registerUser("Alice", 25), registerUser("David", 28), registerUser("Eve", 22)>>
  \o Queries(9) \o <<getUserCount>> \o Queries(2)
  \o <<increaseUserAge("Alice", 5)>> \o Queries(2)
  \o <<deleteUserByName("Bob")>> \o Queries(1)
  \o <<getUserCount, registerUser("Alice", 30), getUserCount,
       registerUser("Alice", 30), getUserCount>>

Program(p) == setup.program[p]
Call(p) == Program(p)[next[p]]
InCall(p) == pc[p] \in {"call", "insert", "wait", "commit"}
Writes(k) == k.op # "query"
Sweeps(k) == k.op \in {"increaseUserAge", "deleteUserByName", "clearUsers"}

At(p, point) == pc[p] = point
GoTo(p, point) == pc' = [pc EXCEPT ![p] = point]

-----------------------------------------------------------------------------
(* PostgreSQL: what a statement does to the table, and when it has to wait *)

\* SERIAL: an id that no row has, had or will have in this run's eyes.
UsedIds == {u.id : u \in users \cup (UNION {work[p].added : p \in Processes})
                         \cup (UNION {o.work.added : o \in orphans})}
           \cup (UNION {view[p].ids : p \in Processes})
           \cup (UNION {met[p] : p \in Processes}) \cup (UNION {o.met : o \in orphans})
FreshId == CHOOSE i \in 1..Cardinality(UsedIds) + 1 : i \notin UsedIds

\* The rows of the snapshot that match, in their newest committed version.
Hit(p) == {u \in users : /\ u.id \in view[p].ids
                         /\ Call(p).op # "clearUsers" => u.name = Call(p).name}

\* What p's statement writes.
Changes(p) ==
  LET k == Call(p) IN
  CASE k.op = "registerUser" ->
         [NoWork EXCEPT !.added = {[id |-> FreshId, name |-> k.name, age |-> k.age]}]
    [] k.op = "increaseUserAge" ->
         [NoWork EXCEPT !.removed = Hit(p),
                        !.added = {[u EXCEPT !.age = @ + k.years] : u \in Hit(p)}]
    [] k.op \in {"deleteUserByName", "clearUsers"} -> [NoWork EXCEPT !.removed = Hit(p)]
    [] k.op = "createTable" -> [NoWork EXCEPT !.ddl = TRUE, !.creates = ~view[p].table]

\* The changes of the transactions that are open beside p's.
OpenWork(p) == {work[q] : q \in {r \in Processes \ {p} : pc[r] = "commit" /\ conn[r] = "open"}}
               \cup {o.work : o \in orphans}

\* x waits for y: for a row it changes too, for a key y inserts or gives up, or
\* for the table, which CREATE INDEX locks against writers.
WaitsFor(x, y) == \/ x.removed \cap y.removed # {}
                  \/ Keys(x.added) \cap Keys(y.added \cup y.removed) # {}
                  \/ x.ddl # y.ddl
                  \/ x.creates /\ y.creates
Waits(p) == \E y \in OpenWork(p) : WaitsFor(Changes(p), y)

\* The CHECK on age, and the range of INT.
OutOfRange(x) == \E u \in x.added : u.age \notin 1..MaxAge

\* The unique index is tested row by row: an update that moves one row to the
\* place of another that it moves too fails or not, as the order of rows has it.
Collides(x) == Keys(x.added) \cap Keys(users \ x.removed) # {}
MayCollide(x) == Keys(x.added) \cap Keys(users) # {}

\* CREATE TABLE IF NOT EXISTS that saw no table, and finds one when it creates it.
CreatedMeanwhile(x) == x.creates /\ table

-----------------------------------------------------------------------------
(* How calls begin and end                                                 *)

Begin(p) ==
  /\ At(p, "ready") /\ next[p] <= Len(Program(p))
  /\ GoTo(p, "call")
  /\ met' = [met EXCEPT ![p] = IF Sweeps(Call(p)) THEN {u.id : u \in users} ELSE {}]
  /\ UNCHANGED <<setup, store, work, conn, next, view, counts, lost, restarts, disturbed>>

Returns(p) ==
  /\ next' = [next EXCEPT ![p] = @ + 1]
  /\ GoTo(p, IF next[p] = Len(Program(p)) THEN "finished" ELSE "ready")
  /\ met' = [met EXCEPT ![p] = {}]

\* The exception leaves main, which returns 1 and so destroys its Database.
Raises(p) ==
  /\ GoTo(p, "failed")
  /\ conn' = [conn EXCEPT ![p] = "none"]
  /\ view' = [view EXCEPT ![p] = NoView]
  /\ met' = [met EXCEPT ![p] = {}]
  /\ UNCHANGED next

\* connect(): is_open() is true of a connection that is broken unnoticed.
Connected(p) == conn[p] # "broken" /\ conn' = [conn EXCEPT ![p] = "open"]

-----------------------------------------------------------------------------
(* The statements                                                          *)

\* Wrong variant: registerUser inserts without asking.
UserExistsNotAsked(p) ==
  /\ At(p, "call") /\ Call(p).op = "registerUser"
  /\ Connected(p)
  /\ GoTo(p, "insert")
  /\ UNCHANGED <<setup, store, work, next, view, counts, lost, restarts, history>>

\* userExists(name, age): a transaction that is never committed, and reads only.
UserExists(p) ==
  /\ At(p, "call") /\ Call(p).op = "registerUser"
  /\ Connected(p)
  /\ IF <<Call(p).name, Call(p).age>> \in Keys(users)
       THEN Returns(p)
       ELSE GoTo(p, "insert") /\ UNCHANGED <<next, met>>
  /\ UNCHANGED <<setup, store, work, view, counts, lost, restarts, disturbed>>

Query(p) ==
  /\ At(p, "call") /\ ~Writes(Call(p))
  /\ Connected(p)
  /\ counts' = IF Call(p).counts
                 THEN [counts EXCEPT ![p] = Append(@, Cardinality(users))]
                 ELSE counts
  /\ Returns(p)
  /\ UNCHANGED <<setup, store, work, view, lost, restarts, disturbed>>

\* The statement that writes, of addUser or of a call of its own, starts.
Statement(p) ==
  /\ \/ At(p, "insert")
     \/ At(p, "call") /\ Writes(Call(p)) /\ Call(p).op # "registerUser"
  /\ Connected(p)
  /\ view' = [view EXCEPT ![p] = [ids |-> IF Sweeps(Call(p)) THEN {u.id : u \in users} ELSE {},
                                  table |-> table]]
  /\ GoTo(p, "wait")
  /\ disturbed' = [disturbed EXCEPT ![p] = @ /\ Call(p).op # "clearUsers"]
  /\ UNCHANGED <<setup, store, work, next, counts, lost, restarts, met>>

\* createTable has begun its transaction and cannot open schema.sql.
SchemaFails(p) ==
  /\ At(p, "call") /\ Call(p) = createTable
  /\ conn[p] # "broken" /\ ~setup.schema
  /\ Raises(p)
  /\ UNCHANGED <<setup, store, work, counts, lost, restarts, disturbed>>

\* It has its locks and writes.
Execute(p) ==
  /\ At(p, "wait") /\ conn[p] = "open"
  /\ ~Waits(p)
  /\ LET x == Changes(p) IN
     /\ ~OutOfRange(x) /\ ~Collides(x) /\ ~CreatedMeanwhile(x)
     /\ work' = [work EXCEPT ![p] = x]
  /\ view' = [view EXCEPT ![p] = NoView]
  /\ GoTo(p, "commit")
  /\ UNCHANGED <<setup, store, conn, next, counts, lost, restarts, history>>

\* It violates a constraint: the transaction is rolled back, the call raises.
Refused(p) ==
  /\ At(p, "wait") /\ conn[p] = "open"
  /\ LET x == Changes(p) IN
     \/ OutOfRange(x)
     \/ ~Waits(p) /\ (MayCollide(x) \/ CreatedMeanwhile(x))
  /\ Raises(p)
  /\ UNCHANGED <<setup, store, work, counts, lost, restarts, disturbed>>

\* The committed changes x of process p.
Commits(p, x) ==
  /\ users' = (users \ x.removed) \cup x.added
  /\ table' = (table \/ x.creates)
  /\ disturbed' = [q \in Processes |->
       disturbed[q] \/ (q # p /\ (x.removed \cup x.added # {} \/ x.creates))]

\* Wrong variant: the function ends without txn.commit().
CommitForgotten(p) ==
  /\ At(p, "commit") /\ conn[p] = "open"
  /\ work' = [work EXCEPT ![p] = NoWork]
  /\ Returns(p)
  /\ UNCHANGED <<setup, store, conn, view, counts, lost, restarts, disturbed>>

\* txn.commit(), and its reply.
Commit(p) ==
  /\ At(p, "commit") /\ conn[p] = "open"
  /\ Commits(p, work[p])
  /\ work' = [work EXCEPT ![p] = NoWork]
  /\ Returns(p)
  /\ UNCHANGED <<setup, orphans, conn, view, counts, lost, restarts>>

-----------------------------------------------------------------------------
(* Disturbances                                                            *)

\* What p leaves behind, under a number of its own.
Orphan(p, sent) == [by |-> p, call |-> Call(p), met |-> met[p], work |-> work[p], sent |-> sent,
                    number |-> lost]

\* The connection breaks, which nobody notices before the next statement; the
\* server still has to roll back.
Lose(p) ==
  /\ conn[p] = "open" /\ lost < setup.lost /\ pc[p] \notin {"failed", "finished"}
  /\ lost' = lost + 1
  /\ conn' = [conn EXCEPT ![p] = "broken"]
  /\ orphans' = IF At(p, "commit") THEN orphans \cup {Orphan(p, FALSE)} ELSE orphans
  /\ work' = [work EXCEPT ![p] = NoWork]
  /\ UNCHANGED <<setup, table, users, pc, next, view, counts, restarts, history>>

\* Wrong variant: the exception is caught and the statement tried again on the
\* same connection.
BrokenRetries(p) ==
  /\ InCall(p) /\ conn[p] = "broken"
  /\ UNCHANGED vars

\* The next statement, or the commit, finds it broken: the call raises.
Broken(p) ==
  /\ InCall(p) /\ conn[p] = "broken"
  /\ Raises(p)
  /\ UNCHANGED <<setup, store, work, counts, lost, restarts, disturbed>>

\* COMMIT was sent, its reply never comes: pqxx::in_doubt_error.
CommitInDoubt(p) ==
  /\ At(p, "commit") /\ conn[p] = "open" /\ lost < setup.lost
  /\ lost' = lost + 1
  /\ orphans' = orphans \cup {Orphan(p, TRUE)}
  /\ work' = [work EXCEPT ![p] = NoWork]
  /\ Raises(p)
  /\ UNCHANGED <<setup, table, users, counts, restarts, disturbed>>

\* connect() throws: no connection could be made.
ConnectFails(p) ==
  /\ pc[p] \in {"call", "insert"} /\ conn[p] = "none" /\ lost < setup.lost
  /\ lost' = lost + 1
  /\ Raises(p)
  /\ UNCHANGED <<setup, store, work, counts, restarts, disturbed>>

\* The server deals with a transaction whose client is gone.
Settle(o) ==
  /\ orphans' = orphans \ {o}
  /\ \/ UNCHANGED <<table, users, disturbed>>
     \/ o.sent /\ Commits(o.by, o.work)
  /\ UNCHANGED <<setup, work, conn, pc, next, view, counts, lost, restarts, met>>

\* The program is run again.
Restart(p) ==
  /\ At(p, "failed") /\ restarts < setup.restarts
  /\ restarts' = restarts + 1
  /\ GoTo(p, "ready")
  /\ next' = [next EXCEPT ![p] = 1]
  /\ counts' = [counts EXCEPT ![p] = <<>>]
  /\ UNCHANGED <<setup, store, work, conn, view, lost, history>>

-----------------------------------------------------------------------------
Process(p) == \/ Begin(p) \/ UserExists(p) \/ Query(p) \/ Statement(p) \/ Execute(p)
              \/ Refused(p) \/ Commit(p) \/ Broken(p) \/ SchemaFails(p)
Disturbance(p) == Lose(p) \/ CommitInDoubt(p) \/ ConnectFails(p) \/ Restart(p)

Next == \/ \E p \in Processes : Process(p) \/ Disturbance(p)
        \/ \E o \in orphans : Settle(o)

Spec == Init /\ [][Next]_vars

\* Processes run, and the server notices in the end that a client is gone.
FairSpec == /\ Spec
            /\ \A p \in Processes : WF_vars(Process(p))
            /\ WF_vars(\E o \in orphans : Settle(o))

-----------------------------------------------------------------------------
(* Properties                                                              *)

Directory == INSTANCE UserDirectory WITH
  Callers <- Processes,
  call <- [p \in Processes |-> IF InCall(p) THEN Call(p) ELSE None],
  raised <- {p \in Processes : At(p, "failed")},
  inDoubt <- {[call |-> o.call, met |-> o.met, number |-> o.number] :
                o \in {d \in orphans : d.sent}}

\* A call that returns has done what it is for, once, whatever other processes do
\* in between; registerUser leaves no duplicates although it asks and inserts in
\* two transactions; one that raises has done nothing, unless the connection was
\* lost during the commit: then it may be done later.
ImplementsDirectory == Directory!Spec

Remaining == {<<"Alice", 30>>, <<"Charlie", 35>>, <<"David", 28>>, <<"Eve", 22>>}

\* main as its author tries it: with no other process on the table it fails only
\* if a connection was lost or refused, or in createTable if schema.sql cannot be
\* opened; and a run that gets to its end leaves four users and counts no duplicate
\* (TEST 10), whatever was in the table before and whatever becomes of the
\* transactions of earlier runs that failed.
MainAlone ==
  \A p \in Processes : Program(p) = MainProgram /\ ~disturbed[p] =>
    /\ At(p, "failed") => lost > 0 \/ (Call(p) = createTable /\ ~setup.schema)
    /\ At(p, "finished") => /\ Keys(users) = Remaining /\ Cardinality(users) = 4
                            /\ counts[p] = <<5, 4, 4, 4>>

\* Every call returns or raises: locks are given back, those of lost clients too,
\* and a broken connection is not waited for.
CallsSettle == \A p \in Processes : []<>~InCall(p)
=============================================================================
