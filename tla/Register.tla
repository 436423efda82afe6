------------------------------ MODULE Register ------------------------------
(***************************************************************************)
(* The one account: register_start, register_finish and unclaimed of       *)
(* routes/auth.rs, on the database that db.rs opens (SQLite in WAL mode),  *)
(* behind the flood gate of Flood.tla, which login_start passes too.       *)
(*                                                                         *)
(* register_finish counts the users and inserts one in a transaction that  *)
(* begins deferred, so nothing but SQLite's snapshots keeps two requests   *)
(* from both counting none: a transaction that has read turns into a       *)
(* writer only if no one has committed since its snapshot, and there is    *)
(* one writer at a time.  The commit is awaited too: it may be done when   *)
(* the handler that would have answered 204 is gone.                       *)
(***************************************************************************)
EXTENDS Flood

CONSTANT Requests   \* registrations on their way

ASSUME RequestsAssumption == None \notin Requests

VARIABLES
    users,     \* table users, committed: each row named by the request it is of
    commits,   \* SQLite: commits so far
    writer,    \* SQLite: the transaction that holds the write lock
    seen,      \* SQLite: the commits in a transaction's snapshot
    pc         \* how far each request is

database == <<users, commits, writer, seen>>
registerVars == <<vars, database, pc>>

RegisterInit ==
    /\ Init
    /\ users = {}
    /\ commits = 0
    /\ writer = None
    /\ seen = [r \in Requests |-> 0]
    /\ pc = [r \in Requests |-> "new"]

Goto(r, step) == pc' = [pc EXCEPT ![r] = step]

\* register_start, its gate: the key is of the peer and of the name it asks for.
Ask(r) ==
    /\ pc[r] = "new"
    /\ \E k \in Keys :
          /\ Call(k)
          /\ Goto(r, IF Strikes(k) <= Attempts THEN "asked" ELSE "flood")
    /\ UNCHANGED database

\* register_start, unclaimed: refused when there is an account.
Start(r) ==
    /\ pc[r] = "asked"
    /\ Goto(r, IF users = {} THEN "started" ELSE "conflict")
    /\ UNCHANGED <<vars, database>>

\* register_finish, begin and unclaimed: the first read takes the snapshot.
Count(r) ==
    /\ pc[r] = "started"
    /\ seen' = [seen EXCEPT ![r] = commits]
    /\ Goto(r, IF users = {} THEN "counted" ELSE "conflict")
    /\ UNCHANGED <<vars, users, commits, writer>>

\* The insert: the transaction wants the write lock, which no one holds, and
\* its snapshot is the newest.
CanWrite_Mutant(r) == writer = None
CanWrite_Reader(r) ==
    /\ writer = None /\ seen[r] = commits
    /\ \A q \in Requests \ {r} : pc[q] # "counted"
CanWrite(r) == writer = None /\ seen[r] = commits

Insert(r) ==
    /\ pc[r] = "counted"
    /\ CanWrite(r)
    /\ writer' = r
    /\ Goto(r, "inserted")
    /\ UNCHANGED <<vars, users, commits, seen>>

\* The snapshot is stale or another holds the lock: a transaction that has
\* read is refused.
InsertBusy(r) ==
    /\ pc[r] = "counted"
    /\ ~CanWrite(r)
    /\ Goto(r, "busy")
    /\ UNCHANGED <<vars, database>>

\* SQLite has committed; the handler has not yet heard of it.
Commit(r) ==
    /\ pc[r] = "inserted"
    /\ users' = users \cup {r}
    /\ commits' = commits + 1
    /\ writer' = None
    /\ Goto(r, "committed")
    /\ UNCHANGED <<vars, seen>>

\* It has, and answers 204; or its client hung up while it waited.
Answer_Mutant(r) ==
    /\ pc[r] \in {"inserted", "committed"}
    /\ writer' = IF writer = r THEN None ELSE writer
    /\ \E step \in {"created", "gone"} : Goto(r, step)
    /\ UNCHANGED <<vars, users, commits, seen>>

Answer(r) ==
    /\ pc[r] = "committed"
    /\ \E step \in {"created", "gone"} : Goto(r, step)
    /\ UNCHANGED <<vars, database>>

\* A statement or the commit fails, or the client hangs up before the commit:
\* the transaction rolls back.
Rollback_Mutant(r) ==
    /\ pc[r] \in {"asked", "started", "counted", "inserted"}
    /\ \E step \in {"failed", "gone"} : Goto(r, step)
    /\ UNCHANGED <<vars, database>>

Rollback(r) ==
    /\ pc[r] \in {"asked", "started", "counted", "inserted"}
    /\ writer' = IF writer = r THEN None ELSE writer
    /\ \E step \in {"failed", "gone"} : Goto(r, step)
    /\ UNCHANGED <<vars, users, commits, seen>>

\* The server stops and starts: its handlers, their transactions and the gate's
\* map are gone, a registration whose client has yet to finish is not.
RegisterRestart ==
    /\ Restart
    /\ writer' = None
    /\ pc' = [r \in Requests |->
                 IF pc[r] \in {"asked", "counted", "inserted", "committed"}
                 THEN "gone" ELSE pc[r]]
    /\ UNCHANGED <<users, commits, seen>>

\* login_start passes the gate as well, and touches nothing else here.
Elsewhere == ((\E k \in Keys : Call(k)) \/ Tick) /\ UNCHANGED <<database, pc>>

RegisterNext ==
    \/ \E r \in Requests :
          \/ Ask(r) \/ Start(r) \/ Count(r) \/ Insert(r) \/ InsertBusy(r)
          \/ Commit(r) \/ Answer(r) \/ Rollback(r)
    \/ RegisterRestart
    \/ Elsewhere

RegisterSpec == RegisterInit /\ [][RegisterNext]_registerVars

-----------------------------------------------------------------------------

\* The values of the table, of SQLite's locks and of the requests; the write
\* lock is held by a transaction that has inserted, and given back with it.
RegisterTypeOK ==
    /\ users \subseteq Requests
    /\ commits \in Nat
    /\ writer \in Requests \cup {None}
    /\ seen \in [Requests -> Nat]
    /\ pc \in [Requests -> {"new", "asked", "started", "counted", "inserted", "committed",
                           "created", "flood", "conflict", "busy", "failed", "gone"}]
    /\ \A r \in Requests : writer = r <=> pc[r] = "inserted"

\* There is one account, however many registrations count no users at the same
\* time (auth.rs register_finish, unclaimed).
OneAccount == \A u, v \in users : u = v

\* An answer tells the truth: 204 goes to the registration whose record and wrap
\* are the account, and whoever is refused, for whatever reason, has no row.
\* Only a registration that got no answer may not know (auth.rs register_finish,
\* reply.rs).
CreatedIsTheAccount ==
    \A r \in Requests :
        /\ pc[r] = "created" => users = {r}
        /\ pc[r] \in {"flood", "conflict", "busy", "failed"} => r \notin users

\* Registrations that race are never all turned away by one another: behind one
\* that is refused for another's sake there is another that got to write (SQLite's
\* locks, auth.rs register_finish).
SomeoneWins ==
    (\E r \in Requests : pc[r] \in {"conflict", "busy"}) =>
        \E q \in Requests : pc[q] \in {"inserted", "committed", "created", "failed", "gone"}
=============================================================================
