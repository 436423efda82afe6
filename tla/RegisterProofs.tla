--------------------------- MODULE RegisterProofs ---------------------------
(***************************************************************************)
(* Register.tla, for any number of registrations, behind any gate: there   *)
(* is never more than one account, no answer is a lie, and registrations   *)
(* never all lose to one another.  The argument is about snapshots: a      *)
(* transaction that holds the write lock was admitted with the newest      *)
(* snapshot, in which it counted no users, and nothing can commit while it *)
(* holds the lock.  That it is the gate of Flood.tla which they pass is a  *)
(* step simulation, and carries over what is proved of that.               *)
(***************************************************************************)
EXTENDS Register, TLAPS

\* A transaction's snapshot is of the past, and only an account makes one.
Snapshots ==
    /\ \A r \in Requests : seen[r] <= commits
    /\ commits # 0 => users # {}

\* What a transaction has counted is true as long as its snapshot is the
\* newest.
Counted == \A r \in Requests :
              pc[r] \in {"counted", "inserted"} /\ seen[r] = commits => users = {}

\* The holder of the write lock has the newest snapshot.
Holder == \A r \in Requests : pc[r] = "inserted" => seen[r] = commits

\* Where a registration is that has a row, or that has been told so.
Rows == \A r \in Requests :
           /\ r \in users => pc[r] \in {"committed", "created", "gone"}
           /\ pc[r] \in {"committed", "created"} => r \in users

\* Who is refused as taken is refused for an account that is there.
Taken == \A r \in Requests : pc[r] = "conflict" => users # {}

\* Who is refused as busy is refused for one that got to write.
Wrote(r) == pc[r] \in {"inserted", "committed", "created", "failed", "gone"}
Busy == (\E r \in Requests : pc[r] = "busy") => \E q \in Requests : Wrote(q)

IInv ==
    /\ RegisterTypeOK
    /\ Snapshots
    /\ Counted
    /\ Holder
    /\ Rows
    /\ Taken
    /\ Busy
    /\ OneAccount

\* The invariant holds of an empty database.
LEMMA InitIInv == RegisterInit => IInv
  BY RequestsAssumption
  DEF RegisterInit, IInv, RegisterTypeOK, Snapshots, Counted, Holder, Rows, Taken, Busy,
      OneAccount

\* Once it has written, or is past it, a registration stays so.
LEMMA BusyStays ==
    ASSUME Busy, \A q \in Requests : Wrote(q) => Wrote(q)',
           (\E r \in Requests : pc'[r] = "busy") =>
              (\E r \in Requests : pc[r] = "busy") \/ \E q \in Requests : Wrote(q)
    PROVE  Busy'
  BY DEF Busy

\* A handler that neither counts nor commits changes no table and no snapshot.
LEMMA Bystander ==
    ASSUME IInv, NEW r \in Requests,
           NEW step \in {"asked", "flood", "started", "conflict", "busy", "failed", "gone"},
           pc[r] \in {"new", "asked", "started", "counted", "inserted"},
           pc[r] = "inserted" => step \in {"failed", "gone"},
           step = "conflict" => users # {},
           step = "busy" => \E q \in Requests : Wrote(q),
           Goto(r, step), UNCHANGED <<users, commits, seen>>,
           writer' = IF writer = r THEN None ELSE writer
    PROVE  IInv'
  <1>. USE DEF IInv, Goto
  <1>1. RegisterTypeOK'
    BY RequestsAssumption DEF RegisterTypeOK
  <1>2. Snapshots' /\ Counted' /\ Holder'
    BY DEF RegisterTypeOK, Snapshots, Counted, Holder
  <1>3. Rows' /\ Taken' /\ OneAccount'
    BY DEF RegisterTypeOK, Rows, Taken, OneAccount
  <1>4. Busy'
    <2>1. \A q \in Requests : Wrote(q) => Wrote(q)'
      BY DEF RegisterTypeOK, Wrote
    <2>2. \A q \in Requests : pc'[q] = "busy" => pc[q] = "busy" \/ step = "busy"
      BY DEF RegisterTypeOK
    <2>. QED BY <2>1, <2>2, BusyStays
  <1>. QED BY <1>1, <1>2, <1>3, <1>4

\* The account is behind every refusal for its sake.
LEMMA Winner ==
    ASSUME IInv, users # {}
    PROVE  \E q \in Requests : Wrote(q)
  BY DEF IInv, RegisterTypeOK, Rows, Wrote

\* register_start preserves the invariant, and so does every way to end
\* without an account.
LEMMA AsideIInv ==
    ASSUME IInv, NEW r \in Requests,
           Ask(r) \/ Start(r) \/ InsertBusy(r) \/ Rollback(r)
    PROVE  IInv'
  <1>0. \A q \in Requests : writer = q <=> pc[q] = "inserted"
    BY DEF IInv, RegisterTypeOK
  <1>1. CASE Ask(r)
    BY <1>0, <1>1, Bystander DEF Ask, database
  <1>2. CASE Start(r)
    BY <1>0, <1>2, Bystander DEF Start, database
  <1>3. CASE InsertBusy(r)
    <2>1. \E q \in Requests : Wrote(q)
      <3>1. CASE writer # None
        BY <3>1 DEF IInv, RegisterTypeOK, Wrote
      <3>2. CASE seen[r] # commits
        <4>1. seen[r] \in Nat /\ commits \in Nat /\ seen[r] <= commits
          BY DEF IInv, RegisterTypeOK, Snapshots
        <4>2. commits # 0
          BY <3>2, <4>1
        <4>. QED BY <4>2, Winner DEF IInv, Snapshots
      <3>. QED BY <1>3, <3>1, <3>2 DEF InsertBusy, CanWrite
    <2>. QED BY <1>0, <1>3, <2>1, Bystander DEF InsertBusy, database
  <1>4. CASE Rollback(r)
    BY <1>4, Bystander DEF Rollback
  <1>. QED BY <1>1, <1>2, <1>3, <1>4

\* The count preserves it: what it sees is the newest snapshot.
LEMMA CountIInv ==
    ASSUME IInv, NEW r \in Requests, Count(r)
    PROVE  IInv'
  <1>. USE DEF IInv, Count, Goto
  <1>1. RegisterTypeOK'
    BY DEF RegisterTypeOK
  <1>2. Snapshots' /\ Counted' /\ Holder'
    BY DEF RegisterTypeOK, Snapshots, Counted, Holder
  <1>3. Rows' /\ Taken' /\ OneAccount'
    BY DEF RegisterTypeOK, Rows, Taken, OneAccount
  <1>4. Busy'
    <2>1. \A q \in Requests : Wrote(q) => Wrote(q)'
      BY DEF RegisterTypeOK, Wrote
    <2>2. \A q \in Requests : pc'[q] = "busy" => pc[q] = "busy"
      BY DEF RegisterTypeOK
    <2>. QED BY <2>1, <2>2, BusyStays
  <1>. QED BY <1>1, <1>2, <1>3, <1>4

\* The insert preserves it: it is let in with the newest snapshot only.
LEMMA InsertIInv ==
    ASSUME IInv, NEW r \in Requests, Insert(r)
    PROVE  IInv'
  <1>. USE DEF IInv, Insert, Goto, CanWrite
  <1>1. RegisterTypeOK'
    BY RequestsAssumption DEF RegisterTypeOK
  <1>2. Snapshots' /\ Counted' /\ Holder'
    BY DEF RegisterTypeOK, Snapshots, Counted, Holder
  <1>3. Rows' /\ Taken' /\ OneAccount'
    BY DEF RegisterTypeOK, Rows, Taken, OneAccount
  <1>4. Busy'
    <2>1. \A q \in Requests : Wrote(q) => Wrote(q)'
      BY DEF RegisterTypeOK, Wrote
    <2>2. \A q \in Requests : pc'[q] = "busy" => pc[q] = "busy"
      BY DEF RegisterTypeOK
    <2>. QED BY <2>1, <2>2, BusyStays
  <1>. QED BY <1>1, <1>2, <1>3, <1>4

\* The commit preserves it: there was no account.
LEMMA CommitIInv ==
    ASSUME IInv, NEW r \in Requests, Commit(r)
    PROVE  IInv'
  <1>. USE DEF IInv, Commit, Goto
  <1>1. users = {} /\ users' = {r}
    BY DEF Counted, Holder
  <1>2. RegisterTypeOK'
    BY RequestsAssumption, <1>1 DEF RegisterTypeOK
  <1>3. Snapshots' /\ Counted'
    BY <1>1 DEF RegisterTypeOK, Snapshots, Counted
  <1>4. Holder'
    BY <1>2 DEF RegisterTypeOK, Holder
  <1>5. Rows' /\ Taken' /\ OneAccount'
    BY <1>1 DEF RegisterTypeOK, Rows, Taken, OneAccount
  <1>6. Busy'
    <2>1. \A q \in Requests : Wrote(q) => Wrote(q)'
      BY DEF RegisterTypeOK, Wrote
    <2>2. \A q \in Requests : pc'[q] = "busy" => pc[q] = "busy"
      BY DEF RegisterTypeOK
    <2>. QED BY <2>1, <2>2, BusyStays
  <1>. QED BY <1>2, <1>3, <1>4, <1>5, <1>6

\* The answer preserves it, and so does a restart: a registration with a row
\* has been told, or is gone.
LEMMA EndIInv ==
    ASSUME IInv, (\E r \in Requests : Answer(r)) \/ RegisterRestart
    PROVE  IInv'
  <1>. USE DEF IInv
  <1>1. /\ users' = users /\ commits' = commits /\ seen' = seen
        /\ writer' \in {writer, None}
        /\ pc' \in [Requests -> {"new", "asked", "started", "counted", "inserted",
               "committed", "created", "flood", "conflict", "busy", "failed", "gone"}]
    BY DEF RegisterTypeOK, Answer, Goto, RegisterRestart, database
  <1>2. \A r \in Requests :
           \/ pc'[r] = pc[r]
           \/ pc[r] = "committed" /\ pc'[r] \in {"created", "gone"}
           \/ pc[r] \in {"asked", "counted", "inserted"} /\ pc'[r] = "gone"
    BY DEF RegisterTypeOK, Answer, Goto, RegisterRestart
  <1>3. \A r \in Requests : writer' = r <=> pc'[r] = "inserted"
    BY RequestsAssumption DEF RegisterTypeOK, Answer, Goto, RegisterRestart, database
  <1>4. RegisterTypeOK'
    BY <1>1, <1>3 DEF RegisterTypeOK
  <1>5. Snapshots' /\ Counted' /\ Holder'
    BY <1>1, <1>2 DEF RegisterTypeOK, Snapshots, Counted, Holder
  <1>6. Rows' /\ Taken' /\ OneAccount'
    BY <1>1, <1>2 DEF RegisterTypeOK, Rows, Taken, OneAccount
  <1>7. Busy'
    <2>1. \A q \in Requests : Wrote(q) => Wrote(q)'
      BY <1>2 DEF Wrote
    <2>2. \A q \in Requests : pc'[q] = "busy" => pc[q] = "busy"
      BY <1>2
    <2>. QED BY <2>1, <2>2, BusyStays
  <1>. QED BY <1>4, <1>5, <1>6, <1>7

\* Every step of every handler preserves the invariant.
LEMMA StepIInv == IInv /\ [RegisterNext]_registerVars => IInv'
  <1>. SUFFICES ASSUME IInv, [RegisterNext]_registerVars PROVE IInv'
    OBVIOUS
  <1>1. ASSUME NEW r \in Requests, Ask(r) \/ Start(r) \/ InsertBusy(r) \/ Rollback(r)
        PROVE  IInv'
    BY <1>1, AsideIInv
  <1>2. ASSUME NEW r \in Requests, Count(r) \/ Insert(r) \/ Commit(r) PROVE IInv'
    BY <1>2, CountIInv, InsertIInv, CommitIInv
  <1>3. CASE (\E r \in Requests : Answer(r)) \/ RegisterRestart
    BY <1>3, EndIInv
  <1>4. CASE Elsewhere \/ UNCHANGED registerVars
    <2>1. UNCHANGED <<users, commits, writer, seen, pc>>
      BY <1>4 DEF Elsewhere, registerVars, database
    <2>. QED BY <2>1 DEF IInv, RegisterTypeOK, Snapshots, Counted, Holder, Rows, Taken,
                         Busy, Wrote, OneAccount
  <1>. QED BY <1>1, <1>2, <1>3, <1>4 DEF RegisterNext

\* The invariant holds in every reachable state.
THEOREM Invariance == RegisterSpec => []IInv
  BY InitIInv, StepIInv, PTL DEF RegisterSpec

\* The values of the table, of SQLite's locks and of the requests.
THEOREM RegisterTypeCorrect == RegisterSpec => []RegisterTypeOK
  BY Invariance, PTL DEF IInv

\* However many registrations count no users at once, one account is made
\* (register_finish, unclaimed).
THEOREM OneAccountAlways == RegisterSpec => []OneAccount
  BY Invariance, PTL DEF IInv

\* A registration that is answered 204 has the account, and one that is refused
\* has no row: who holds the account was told so, or was not answered.
THEOREM CreatedIsTheAccountAlways == RegisterSpec => []CreatedIsTheAccount
  <1>1. IInv => CreatedIsTheAccount
    BY DEF IInv, RegisterTypeOK, Rows, OneAccount, CreatedIsTheAccount
  <1>. QED BY <1>1, Invariance, PTL

\* Behind a registration that lost to another is one that got to write.
THEOREM SomeoneWinsAlways == RegisterSpec => []SomeoneWins
  <1>1. IInv => SomeoneWins
    BY Winner DEF IInv, Taken, Busy, Wrote, SomeoneWins
  <1>. QED BY <1>1, Invariance, PTL

\* Registrations and logins use the gate as Flood.tla says: what holds of its
\* specification holds with them behind it (auth.rs gate).
THEOREM PassesTheGate == RegisterSpec => Spec
  <1>1. RegisterInit => Init
    BY DEF RegisterInit
  <1>2. [RegisterNext]_registerVars => [Next]_vars
    <2>. SUFFICES ASSUME RegisterNext \/ UNCHANGED registerVars
                  PROVE  Next \/ UNCHANGED vars
      OBVIOUS
    <2>1. ASSUME NEW r \in Requests, Ask(r) PROVE Next
      BY <2>1 DEF Ask, Next
    <2>2. ASSUME NEW r \in Requests,
                 \/ Start(r) \/ Count(r) \/ Insert(r) \/ InsertBusy(r)
                 \/ Commit(r) \/ Answer(r) \/ Rollback(r)
          PROVE  UNCHANGED vars
      BY <2>2 DEF Start, Count, Insert, InsertBusy, Commit, Answer, Rollback
    <2>3. CASE RegisterRestart \/ Elsewhere
      BY <2>3 DEF RegisterRestart, Elsewhere, Next
    <2>4. CASE UNCHANGED registerVars
      BY <2>4 DEF registerVars
    <2>. QED BY <2>1, <2>2, <2>3, <2>4 DEF RegisterNext
  <1>. QED BY <1>1, <1>2, PTL DEF RegisterSpec, Spec
=============================================================================
