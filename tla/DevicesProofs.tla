--------------------------- MODULE DevicesProofs ---------------------------
(***************************************************************************)
(* Proofs about Devices.tla, for any devices, any number of requests, any  *)
(* session lifetime and any bound of the clock.                            *)
(***************************************************************************)
EXTENDS Devices, TLAPS

\* Every place a handler goes to is a step of its program.
LEMMA StepNames ==
    /\ "idle" \in Steps /\ "failed" \in Steps /\ "enrolled" \in Steps
    /\ "unlocked" \in Steps /\ "killed" \in Steps /\ "acted" \in Steps
    /\ "redirected" \in Steps /\ "authed" \in Steps /\ "looked" \in Steps
    /\ "marked" \in Steps /\ "refresh" \in Steps /\ "read" \in Steps
    /\ "watching" \in Steps /\ "inserted" \in Steps
BY DEF Steps, Rest, Leased

\* Going to a step keeps the type of the program counters.
LEMMA GotoType ==
    ASSUME TypeOK, NEW r \in Requests, NEW s \in Steps, Goto(r, s)
    PROVE  pc' \in [Requests -> Steps]
BY DEF TypeOK, Goto

\* So does answering, whichever way the request came in.
LEMMA AnswerType ==
    ASSUME TypeOK, NEW r \in Requests, NEW s \in Steps, Answer(r, s)
    PROVE  pc' \in [Requests -> Steps]
<1>1. (IF via[r] = "api" THEN s ELSE "refresh") \in Steps
  BY StepNames
<1> QED
  BY <1>1, GotoType DEF Answer

(***************************************************************************)
(* The inductive invariant.                                                *)
(***************************************************************************)

\* Steps that have settled on a device, whose row then exists.
Targeted == {"inserted", "looked", "marked", "killed"}

Bound ==
    \A r \in Requests :
        /\ pc[r] \in Leased => actor[r] \in Devices
        /\ pc[r] \in Targeted => target[r] \in Devices /\ device[target[r]] # "absent"

\* A row is issued once, by the request that made the device.
Rows ==
    /\ \A d \in Devices : device[d] = "absent" => session[d] = None
    /\ \A r \in Requests : pc[r] = "inserted" => session[target[r]] = None
    /\ \A r, q \in Requests :
          pc[r] = "inserted" /\ pc[q] = "inserted" /\ target[r] = target[q] => r = q

\* Past the UPDATE the device is revoked, unless a dashboard request ignored
\* its failure.
Marks ==
    \A r \in Requests :
        /\ pc[r] = "marked" /\ (via[r] = "api" \/ target[r] \notin cut) =>
              device[target[r]] = "revoked"
        /\ pc[r] = "killed" => device[target[r]] = "revoked"

\* Where the tables disagree, some request is midway.
OwedAt(d) ==
    /\ device[d] = "live" /\ session[d] = None =>
          \E r \in Requests : pc[r] = "inserted" /\ target[r] = d
    /\ device[d] = "revoked" /\ session[d] # None =>
          \E r \in Requests : pc[r] = "marked" /\ target[r] = d

Owed == \A d \in Devices : d \notin cut => OwedAt(d)

\* A list once read as revoked stays true.
Lists ==
    \A d \in Devices :
        /\ \A r \in Requests : snap[r][d] = "revoked" => device[d] = "revoked"
        /\ shown[d] = "revoked" => device[d] = "revoked"

IInv == TypeOK /\ Bound /\ Rows /\ Marks /\ Owed /\ Lists

\* A request that is not midway on a device leaves it owed to the others.
LEMMA OwedFrame ==
    ASSUME NEW e \in Devices, OwedAt(e), NEW r \in Requests,
           \A q \in Requests : q # r => pc'[q] = pc[q] /\ target'[q] = target[q],
           ~Midway(r, e), device'[e] = device[e], session'[e] = session[e]
    PROVE  OwedAt(e)'
<1>1. ASSUME device'[e] = "live", session'[e] = None
      PROVE  \E q \in Requests : pc'[q] = "inserted" /\ target'[q] = e
  <2>1. PICK q \in Requests : pc[q] = "inserted" /\ target[q] = e
    BY <1>1 DEF OwedAt
  <2> QED
    BY <2>1 DEF Midway
<1>2. ASSUME device'[e] = "revoked", session'[e] # None
      PROVE  \E q \in Requests : pc'[q] = "marked" /\ target'[q] = e
  <2>1. PICK q \in Requests : pc[q] = "marked" /\ target[q] = e
    BY <1>2 DEF OwedAt
  <2> QED
    BY <2>1 DEF Midway
<1> QED
  BY <1>1, <1>2 DEF OwedAt

\* The initial states satisfy it.
LEMMA InvInit == Init => IInv
BY MaxTimeAssumption, StepNames
DEF Init, IInv, TypeOK, Bound, Rows, Marks, Owed, OwedAt, Lists, Leased, Targeted,
    Unlisted,
    Status, Times

\* EnrollInsert preserves it.
LEMMA EnrollInsertInv ==
    ASSUME IInv, NEW r \in Requests, NEW d \in Devices, EnrollInsert(r, d)
    PROVE  IInv'
<1> USE DEF EnrollInsert, IInv
<1>1. pc' \in [Requests -> Steps]
  BY StepNames, GotoType, AnswerType DEF TypeOK
<1>2. TypeOK'
  BY <1>1 DEF TypeOK, Bound, Targeted, Status
<1>3. Bound'
  BY DEF TypeOK, Bound, Leased, Targeted, Goto
<1>4. Rows'
  BY DEF TypeOK, Rows, Bound, Targeted, Goto
<1>5. Marks'
  BY DEF TypeOK, Marks, Rows, Bound, Targeted, Goto
<1>6. Owed'
  <2> SUFFICES ASSUME NEW e \in Devices, e \notin cut' PROVE OwedAt(e)'
    BY DEF Owed
  <2>1. \A q \in Requests : q # r => pc'[q] = pc[q] /\ target'[q] = target[q]
    BY DEF TypeOK, Goto
  <2>2. ~Midway(r, e)
    BY DEF Rest, Midway
  <2>3. CASE e = d
    BY <2>3 DEF TypeOK, Goto, OwedAt
  <2>4. CASE e # d
    BY <2>1, <2>2, <2>4, OwedFrame DEF Owed, TypeOK
  <2> QED
    BY <2>3, <2>4
<1>7. Lists'
  BY DEF TypeOK, Lists, Goto
<1> QED
  BY <1>2, <1>3, <1>4, <1>5, <1>6, <1>7

\* EnrollIssue preserves it.
LEMMA EnrollIssueInv ==
    ASSUME IInv, NEW r \in Requests, EnrollIssue(r)
    PROVE  IInv'
<1> USE DEF EnrollIssue, IInv
<1>1. pc' \in [Requests -> Steps]
  BY StepNames, GotoType, AnswerType DEF TypeOK
<1>2. TypeOK'
  BY <1>1 DEF TypeOK, Bound, Targeted
<1>3. Bound'
  BY DEF TypeOK, Bound, Leased, Targeted, Goto
<1>4. Rows'
  BY DEF TypeOK, Rows, Bound, Targeted, Goto
<1>5. Marks'
  BY DEF TypeOK, Marks, Rows, Bound, Targeted, Goto
<1>6. Owed'
  <2> SUFFICES ASSUME NEW e \in Devices, e \notin cut' PROVE OwedAt(e)'
    BY DEF Owed
  <2>1. \A q \in Requests : q # r => pc'[q] = pc[q] /\ target'[q] = target[q]
    BY DEF TypeOK, Goto
  <2>2. CASE e = target[r]
    BY <2>2, NoneAssumption DEF TypeOK, Times, OwedAt, Bound, Targeted
  <2>3. CASE e # target[r]
    <3>1. ~Midway(r, e)
      BY <2>3 DEF Midway
    <3> QED
      BY <2>1, <2>3, <3>1, OwedFrame DEF Owed, TypeOK
  <2> QED
    BY <2>2, <2>3
<1>7. Lists'
  BY DEF TypeOK, Lists, Goto
<1> QED
  BY <1>2, <1>3, <1>4, <1>5, <1>6, <1>7

\* IssueFails preserves it.
LEMMA IssueFailsInv ==
    ASSUME IInv, NEW r \in Requests, IssueFails(r)
    PROVE  IInv'
<1> USE DEF IssueFails, IInv
<1>1. pc' \in [Requests -> Steps]
  BY StepNames, GotoType, AnswerType DEF TypeOK
<1>2. TypeOK'
  BY <1>1 DEF TypeOK, Bound, Targeted
<1>3. Bound'
  BY DEF TypeOK, Bound, Leased, Targeted, Goto
<1>4. Rows'
  BY DEF TypeOK, Rows, Bound, Targeted, Goto
<1>5. Marks'
  BY DEF TypeOK, Marks, Rows, Bound, Targeted, Goto
<1>6. Owed'
  BY DEF TypeOK, Owed, OwedAt, Rows, Marks, Bound, Targeted, Goto
<1>7. Lists'
  BY DEF TypeOK, Lists, Goto
<1> QED
  BY <1>2, <1>3, <1>4, <1>5, <1>6, <1>7

\* Unlock preserves it.
LEMMA UnlockInv ==
    ASSUME IInv, NEW r \in Requests, NEW d \in Devices, Unlock(r, d)
    PROVE  IInv'
<1> USE DEF Unlock, IInv
<1>1. pc' \in [Requests -> Steps]
  BY StepNames, GotoType, AnswerType DEF TypeOK
<1>2. TypeOK'
  BY <1>1 DEF TypeOK, Bound, Targeted
<1>3. Bound'
  BY DEF TypeOK, Bound, Leased, Targeted, Goto
<1>4. Rows'
  BY DEF TypeOK, Rows, Bound, Targeted, Goto
<1>5. Marks'
  BY DEF TypeOK, Marks, Rows, Bound, Targeted, Goto
<1>6. Owed'
  <2> SUFFICES ASSUME NEW e \in Devices, e \notin cut' PROVE OwedAt(e)'
    BY DEF Owed
  <2>1. \A q \in Requests : q # r => pc'[q] = pc[q] /\ target'[q] = target[q]
    BY DEF TypeOK, Goto
  <2>2. ~Midway(r, e)
    BY DEF Rest, Midway
  <2> QED
    BY <2>1, <2>2, OwedFrame DEF Owed
<1>7. Lists'
  BY DEF TypeOK, Lists, Goto
<1> QED
  BY <1>2, <1>3, <1>4, <1>5, <1>6, <1>7

\* Authenticate preserves it.
LEMMA AuthenticateInv ==
    ASSUME IInv, NEW r \in Requests, NEW d \in Devices, NEW v \in {"api", "web"},
            Authenticate(r, d, v)
    PROVE  IInv'
<1> USE DEF Authenticate, IInv
<1>1. pc' \in [Requests -> Steps]
  BY StepNames, GotoType, AnswerType DEF TypeOK
<1>2. TypeOK'
  BY <1>1 DEF TypeOK, Bound, Targeted
<1>3. Bound'
  BY DEF TypeOK, Bound, Leased, Targeted, Goto
<1>4. Rows'
  BY DEF TypeOK, Rows, Bound, Targeted, Goto, Admissible, Rest
<1>5. Marks'
  BY DEF TypeOK, Marks, Rows, Bound, Targeted, Goto
<1>6. Owed'
  <2> SUFFICES ASSUME NEW e \in Devices, e \notin cut' PROVE OwedAt(e)'
    BY DEF Owed
  <2>1. \A q \in Requests : q # r => pc'[q] = pc[q] /\ target'[q] = target[q]
    BY DEF TypeOK, Goto
  <2>2. ~Midway(r, e)
    BY DEF Rest, Midway
  <2> QED
    BY <2>1, <2>2, OwedFrame DEF Owed
<1>7. Lists'
  BY DEF TypeOK, Lists, Goto
<1> QED
  BY <1>2, <1>3, <1>4, <1>5, <1>6, <1>7

\* Act preserves it.
LEMMA ActInv ==
    ASSUME IInv, NEW r \in Requests, Act(r)
    PROVE  IInv'
<1> USE DEF Act, IInv
<1>1. pc' \in [Requests -> Steps]
  BY StepNames, GotoType, AnswerType DEF TypeOK
<1>2. TypeOK'
  BY <1>1 DEF TypeOK, Bound, Targeted
<1>3. Bound'
  BY DEF TypeOK, Bound, Leased, Targeted, Goto, Answer
<1>4. Rows'
  BY DEF TypeOK, Rows, Bound, Targeted, Goto, Answer
<1>5. Marks'
  BY DEF TypeOK, Marks, Rows, Bound, Targeted, Goto, Answer
<1>6. Owed'
  BY DEF TypeOK, Owed, OwedAt, Rows, Marks, Bound, Targeted, Goto, Answer
<1>7. Lists'
  BY DEF TypeOK, Lists, Goto, Answer
<1> QED
  BY <1>2, <1>3, <1>4, <1>5, <1>6, <1>7

\* Watch preserves it.
LEMMA WatchInv ==
    ASSUME IInv, NEW r \in Requests, Watch(r)
    PROVE  IInv'
<1> USE DEF Watch, IInv
<1>1. pc' \in [Requests -> Steps]
  BY StepNames, GotoType, AnswerType DEF TypeOK
<1>2. TypeOK'
  BY <1>1 DEF TypeOK, Bound, Targeted
<1>3. Bound'
  BY DEF TypeOK, Bound, Leased, Targeted, Goto
<1>4. Rows'
  BY DEF TypeOK, Rows, Bound, Targeted, Goto
<1>5. Marks'
  BY DEF TypeOK, Marks, Rows, Bound, Targeted, Goto
<1>6. Owed'
  BY DEF TypeOK, Owed, OwedAt, Rows, Marks, Bound, Targeted, Goto
<1>7. Lists'
  BY DEF TypeOK, Lists, Goto
<1> QED
  BY <1>2, <1>3, <1>4, <1>5, <1>6, <1>7

\* RevokeLookup preserves it.
LEMMA RevokeLookupInv ==
    ASSUME IInv, NEW r \in Requests, NEW d \in Devices, RevokeLookup(r, d)
    PROVE  IInv'
<1> USE DEF RevokeLookup, IInv
<1>1. pc' \in [Requests -> Steps]
  BY StepNames, GotoType, AnswerType DEF TypeOK
<1>2. TypeOK'
  BY <1>1 DEF TypeOK, Bound, Targeted
<1>3. Bound'
  BY DEF TypeOK, Bound, Leased, Targeted, Goto, Answer
<1>4. Rows'
  BY DEF TypeOK, Rows, Bound, Targeted, Goto, Answer
<1>5. Marks'
  BY DEF TypeOK, Marks, Rows, Bound, Targeted, Goto, Answer
<1>6. Owed'
  <2> SUFFICES ASSUME NEW e \in Devices, e \notin cut' PROVE OwedAt(e)'
    BY DEF Owed
  <2>1. \A q \in Requests : q # r => pc'[q] = pc[q] /\ target'[q] = target[q]
    BY DEF TypeOK, Goto, Answer
  <2>2. ~Midway(r, e)
    BY DEF Midway
  <2> QED
    BY <2>1, <2>2, OwedFrame DEF Owed
<1>7. Lists'
  BY DEF TypeOK, Lists, Goto, Answer
<1> QED
  BY <1>2, <1>3, <1>4, <1>5, <1>6, <1>7

\* RevokeMark preserves it.
LEMMA RevokeMarkInv ==
    ASSUME IInv, NEW r \in Requests, RevokeMark(r)
    PROVE  IInv'
<1> USE DEF RevokeMark, IInv
<1>1. pc' \in [Requests -> Steps]
  BY StepNames, GotoType, AnswerType DEF TypeOK
<1>2. TypeOK'
  BY <1>1 DEF TypeOK, Bound, Targeted, Status
<1>3. Bound'
  BY DEF TypeOK, Bound, Leased, Targeted, Goto
<1>4. Rows'
  BY DEF TypeOK, Rows, Bound, Targeted, Goto
<1>5. Marks'
  BY DEF TypeOK, Marks, Rows, Bound, Targeted, Goto
<1>6. Owed'
  BY DEF TypeOK, Owed, OwedAt, Rows, Marks, Bound, Targeted, Goto
<1>7. Lists'
  BY DEF TypeOK, Lists, Goto
<1> QED
  BY <1>2, <1>3, <1>4, <1>5, <1>6, <1>7

\* MarkFails preserves it.
LEMMA MarkFailsInv ==
    ASSUME IInv, NEW r \in Requests, MarkFails(r)
    PROVE  IInv'
<1> USE DEF MarkFails, IInv
<1>1. pc' \in [Requests -> Steps]
  BY StepNames, GotoType, AnswerType DEF TypeOK
<1>2. TypeOK'
  BY <1>1 DEF TypeOK, Bound, Targeted
<1>3. Bound'
  BY DEF TypeOK, Bound, Leased, Targeted, Goto
<1>4. Rows'
  BY DEF TypeOK, Rows, Bound, Targeted, Goto
<1>5. Marks'
  BY DEF TypeOK, Marks, Rows, Bound, Targeted, Goto
<1>6. Owed'
  BY DEF TypeOK, Owed, OwedAt, Rows, Marks, Bound, Targeted, Goto
<1>7. Lists'
  BY DEF TypeOK, Lists, Goto
<1> QED
  BY <1>2, <1>3, <1>4, <1>5, <1>6, <1>7

\* RevokeSweep preserves it.
LEMMA RevokeSweepInv ==
    ASSUME IInv, NEW r \in Requests, RevokeSweep(r)
    PROVE  IInv'
<1> USE DEF RevokeSweep, IInv
<1>1. pc' \in [Requests -> Steps]
  BY StepNames, GotoType, AnswerType DEF TypeOK
<1>2. TypeOK'
  BY <1>1 DEF TypeOK, Bound, Targeted
<1>3. Bound'
  BY DEF TypeOK, Bound, Leased, Targeted, Goto, Answer
<1>4. Rows'
  BY DEF TypeOK, Rows, Bound, Targeted, Goto, Answer
<1>5. Marks'
  BY DEF TypeOK, Marks, Rows, Bound, Targeted, Goto, Answer
<1>6. Owed'
  BY DEF TypeOK, Owed, OwedAt, Rows, Marks, Bound, Targeted, Goto, Answer
<1>7. Lists'
  BY DEF TypeOK, Lists, Goto, Answer
<1> QED
  BY <1>2, <1>3, <1>4, <1>5, <1>6, <1>7

\* SweepFails preserves it.
LEMMA SweepFailsInv ==
    ASSUME IInv, NEW r \in Requests, SweepFails(r)
    PROVE  IInv'
<1> USE DEF SweepFails, IInv
<1>1. pc' \in [Requests -> Steps]
  BY StepNames, GotoType, AnswerType DEF TypeOK
<1>2. TypeOK'
  BY <1>1 DEF TypeOK, Bound, Targeted
<1>3. Bound'
  BY DEF TypeOK, Bound, Leased, Targeted, Goto, Answer
<1>4. Rows'
  BY DEF TypeOK, Rows, Bound, Targeted, Goto, Answer
<1>5. Marks'
  BY DEF TypeOK, Marks, Rows, Bound, Targeted, Goto, Answer
<1>6. Owed'
  BY DEF TypeOK, Owed, OwedAt, Rows, Marks, Bound, Targeted, Goto, Answer
<1>7. Lists'
  BY DEF TypeOK, Lists, Goto, Answer
<1> QED
  BY <1>2, <1>3, <1>4, <1>5, <1>6, <1>7

\* RefreshRead preserves it.
LEMMA RefreshReadInv ==
    ASSUME IInv, NEW r \in Requests, RefreshRead(r)
    PROVE  IInv'
<1> USE DEF RefreshRead, IInv
<1>1. pc' \in [Requests -> Steps]
  BY StepNames, GotoType, AnswerType DEF TypeOK
<1>2. TypeOK'
  <2>1. \A list \in {device, Unlisted} : list \in [Devices -> Status]
    BY DEF TypeOK, Unlisted, Status
  <2> QED
    BY <1>1, <2>1 DEF TypeOK
<1>3. Bound'
  BY DEF TypeOK, Bound, Leased, Targeted, Goto
<1>4. Rows'
  BY DEF TypeOK, Rows, Bound, Targeted, Goto
<1>5. Marks'
  BY DEF TypeOK, Marks, Rows, Bound, Targeted, Goto
<1>6. Owed'
  BY DEF TypeOK, Owed, OwedAt, Rows, Marks, Bound, Targeted, Goto
<1>7. Lists'
  BY DEF TypeOK, Lists, Goto, Unlisted
<1> QED
  BY <1>2, <1>3, <1>4, <1>5, <1>6, <1>7

\* RefreshShow preserves it.
LEMMA RefreshShowInv ==
    ASSUME IInv, NEW r \in Requests, RefreshShow(r)
    PROVE  IInv'
<1> USE DEF RefreshShow, IInv
<1>1. pc' \in [Requests -> Steps]
  BY StepNames, GotoType, AnswerType DEF TypeOK
<1>2. TypeOK'
  BY <1>1 DEF TypeOK, Bound, Targeted, Status, Unlisted
<1>3. Bound'
  BY DEF TypeOK, Bound, Leased, Targeted, Goto
<1>4. Rows'
  BY DEF TypeOK, Rows, Bound, Targeted, Goto
<1>5. Marks'
  BY DEF TypeOK, Marks, Rows, Bound, Targeted, Goto
<1>6. Owed'
  BY DEF TypeOK, Owed, OwedAt, Rows, Marks, Bound, Targeted, Goto
<1>7. Lists'
  BY DEF TypeOK, Lists, Goto, Unlisted
<1> QED
  BY <1>2, <1>3, <1>4, <1>5, <1>6, <1>7

\* Abort preserves it.
LEMMA AbortInv ==
    ASSUME IInv, NEW r \in Requests, Abort(r)
    PROVE  IInv'
<1> USE DEF Abort, IInv
<1>1. pc' \in [Requests -> Steps]
  BY StepNames, GotoType, AnswerType DEF TypeOK
<1>2. TypeOK'
  BY <1>1 DEF TypeOK, Bound, Targeted, Status, Unlisted, CutBy
<1>3. Bound'
  BY DEF TypeOK, Bound, Leased, Targeted, Goto
<1>4. Rows'
  BY DEF TypeOK, Rows, Bound, Targeted, Goto
<1>5. Marks'
  BY DEF TypeOK, Marks, Rows, Bound, Targeted, Goto, CutBy
<1>6. Owed'
  BY DEF TypeOK, Owed, OwedAt, Rows, Marks, Bound, Targeted, Midway, Goto, CutBy
<1>7. Lists'
  BY DEF TypeOK, Lists, Goto, Unlisted
<1> QED
  BY <1>2, <1>3, <1>4, <1>5, <1>6, <1>7

\* Restart preserves it.
LEMMA RestartInv ==
    ASSUME IInv, Restart
    PROVE  IInv'
<1> USE DEF Restart, IInv
<1>1. pc' \in [Requests -> Steps]
  BY StepNames, GotoType, AnswerType DEF TypeOK
<1>2. TypeOK'
  BY <1>1 DEF TypeOK, Bound, Targeted, Status, Unlisted, CutBy
<1>3. Bound'
  BY DEF TypeOK, Bound, Leased, Targeted
<1>4. Rows'
  BY DEF TypeOK, Rows, Bound, Targeted
<1>5. Marks'
  BY DEF TypeOK, Marks, Rows, Bound, Targeted, CutBy
<1>6. Owed'
  BY DEF TypeOK, Owed, OwedAt, Rows, Marks, Bound, Targeted, Midway, CutBy
<1>7. Lists'
  BY DEF TypeOK, Lists, Unlisted
<1> QED
  BY <1>2, <1>3, <1>4, <1>5, <1>6, <1>7

\* Tick preserves it.
LEMMA TickInv ==
    ASSUME IInv, Tick
    PROVE  IInv'
<1> USE DEF Tick, IInv
<1>1. TypeOK'
  BY MaxTimeAssumption DEF TypeOK, Times
<1> QED
  BY <1>1 DEF Bound, Rows, Marks, Owed, OwedAt, Lists

\* So does every step, and every stutter.
LEMMA InvStep == IInv /\ [Next]_vars => IInv'
<1> SUFFICES ASSUME IInv, [Next]_vars PROVE IInv'
  OBVIOUS
<1>1. CASE UNCHANGED vars
  BY <1>1 DEF vars, IInv, TypeOK, Bound, Rows, Marks, Owed, OwedAt, Lists
<1>2. ASSUME NEW r \in Requests, Arrival(r) PROVE IInv'
  BY <1>2, EnrollInsertInv, UnlockInv, AuthenticateInv DEF Arrival
<1>3. ASSUME NEW r \in Requests, Handler(r) PROVE IInv'
  BY <1>3, EnrollIssueInv, IssueFailsInv, ActInv, WatchInv, RevokeLookupInv,
     RevokeMarkInv, MarkFailsInv, RevokeSweepInv, SweepFailsInv, RefreshReadInv,
     RefreshShowInv
  DEF Handler
<1> QED
  BY <1>1, <1>2, <1>3, AbortInv, RestartInv, TickInv DEF Next

\* IInv holds in every reachable state.
THEOREM Invariance == Spec => []IInv
BY InvInit, InvStep, PTL DEF Spec

(***************************************************************************)
(* The properties.                                                         *)
(***************************************************************************)

\* Type correctness: the tables, the request records and the signal keep
\* their shape in every step of every handler.
THEOREM TypeCorrect == Spec => []TypeOK
BY Invariance, PTL DEF IInv

\* The devices and sessions tables agree on every device that no handler is
\* midway on and no failure or overtaking has touched.
THEOREM TablesAgreeAlways == Spec => []TablesAgree
<1>1. IInv => TablesAgree
  <2> SUFFICES ASSUME IInv, NEW d \in Devices, d \notin cut,
                      \A r \in Requests : ~Midway(r, d)
               PROVE  device[d] = "live" <=> session[d] # None
    BY DEF TablesAgree
  <2>1. OwedAt(d)
    BY DEF IInv, Owed
  <2>2. device[d] = "absent" \/ device[d] = "live" \/ device[d] = "revoked"
    BY DEF IInv, TypeOK, Status
  <2>3. device[d] = "absent" => session[d] = None
    BY DEF IInv, Rows
  <2> QED
    BY <2>1, <2>2, <2>3 DEF OwedAt, Midway
<1> QED
  BY <1>1, Invariance, PTL

\* A 204 of the revocation endpoint is never sent for a device that is not
\* revoked.
THEOREM KilledIsRevokedAlways == Spec => []KilledIsRevoked
<1>1. IInv => KilledIsRevoked
  BY DEF IInv, Bound, Targeted, Marks, KilledIsRevoked
<1> QED
  BY <1>1, Invariance, PTL

\* The dashboard shows as revoked only devices that are.
THEOREM ShownRevokedIsRevokedAlways == Spec => []ShownRevokedIsRevoked
<1>1. IInv => ShownRevokedIsRevoked
  BY DEF IInv, Lists, ShownRevokedIsRevoked
<1> QED
  BY <1>1, Invariance, PTL

\* A revoked row stays revoked.
LEMMA RevokedStays ==
    ASSUME IInv, [Next]_vars, NEW d \in Devices, device[d] = "revoked"
    PROVE  device'[d] = "revoked"
<1>1. CASE UNCHANGED vars
  BY <1>1 DEF vars
<1>2. ASSUME NEW r \in Requests, Arrival(r) PROVE device'[d] = "revoked"
  BY <1>2 DEF Arrival, EnrollInsert, Unlock, Authenticate, IInv, TypeOK
<1>3. ASSUME NEW r \in Requests, Handler(r) PROVE device'[d] = "revoked"
  BY <1>3 DEF Handler, EnrollIssue, IssueFails, Act, Watch, RevokeLookup, RevokeMark,
     MarkFails, RevokeSweep, SweepFails, RefreshRead, RefreshShow, IInv, TypeOK
<1> QED
  BY <1>1, <1>2, <1>3 DEF Next, Abort, Restart, Tick

\* Handlers under way, hang-ups, restarts and the clock admit and unlock nobody.
LEMMA NoOtherEntry ==
    ASSUME IInv, NEW r \in Requests, NEW q \in Requests,
           Handler(q) \/ Abort(q) \/ Restart \/ Tick \/ UNCHANGED vars
    PROVE  /\ pc'[r] = "authed" => pc[r] = "authed" /\ actor'[r] = actor[r]
           /\ pc'[r] = "unlocked" => pc[r] = "unlocked" /\ target'[r] = target[r]
<1> USE DEF IInv, TypeOK, Goto, Answer
<1>1. CASE Handler(q)
  <2>1. CASE EnrollIssue(q) \/ IssueFails(q) \/ Act(q) \/ Watch(q)
    BY <2>1 DEF EnrollIssue, IssueFails, Act, Watch
  <2>2. ASSUME NEW d \in Devices, RevokeLookup(q, d)
        PROVE  /\ pc'[r] = "authed" => pc[r] = "authed" /\ actor'[r] = actor[r]
               /\ pc'[r] = "unlocked" => pc[r] = "unlocked" /\ target'[r] = target[r]
    BY <2>2 DEF RevokeLookup
  <2>3. CASE RevokeMark(q) \/ MarkFails(q) \/ RevokeSweep(q) \/ SweepFails(q)
    BY <2>3 DEF RevokeMark, MarkFails, RevokeSweep, SweepFails
  <2>4. CASE RefreshRead(q) \/ RefreshShow(q)
    BY <2>4 DEF RefreshRead, RefreshShow
  <2> QED
    BY <1>1, <2>1, <2>2, <2>3, <2>4 DEF Handler
<1>2. CASE Abort(q)
  BY <1>2 DEF Abort
<1>3. CASE Restart \/ Tick \/ UNCHANGED vars
  BY <1>3 DEF Restart, Tick, vars
<1> QED
  BY <1>1, <1>2, <1>3

\* Revocation is final for every number of devices and requests: the mark is
\* never taken back and lets no later request in.
THEOREM RevocationIsFinalAlways == Spec => RevocationIsFinal
<1>1. IInv /\ [Next]_vars =>
        [\A d \in Devices : device[d] = "revoked" =>
          /\ device'[d] = "revoked"
          /\ \A r \in Requests :
                /\ pc'[r] = "authed" /\ actor'[r] = d => pc[r] = "authed" /\ actor[r] = d
                /\ pc'[r] = "unlocked" /\ target'[r] = d =>
                      pc[r] = "unlocked" /\ target[r] = d]_vars
  <2> SUFFICES ASSUME IInv, [Next]_vars, NEW d \in Devices, device[d] = "revoked",
                      NEW r \in Requests
               PROVE  /\ device'[d] = "revoked"
                      /\ pc'[r] = "authed" /\ actor'[r] = d =>
                            pc[r] = "authed" /\ actor[r] = d
                      /\ pc'[r] = "unlocked" /\ target'[r] = d =>
                            pc[r] = "unlocked" /\ target[r] = d
    BY RevokedStays
  <2>1. device'[d] = "revoked"
    BY RevokedStays
  <2>2. ASSUME NEW q \in Requests, Arrival(q)
        PROVE  /\ pc'[r] = "authed" /\ actor'[r] = d => pc[r] = "authed" /\ actor[r] = d
               /\ pc'[r] = "unlocked" /\ target'[r] = d =>
                     pc[r] = "unlocked" /\ target[r] = d
    BY <2>2 DEF Arrival, EnrollInsert, Unlock, Authenticate, Admissible, Goto, IInv, TypeOK
  <2> QED
    BY <2>1, <2>2, NoOtherEntry DEF Next
<1> QED
  BY <1>1, Invariance, PTL DEF Spec, RevocationIsFinal

(***************************************************************************)
(* The handlers implement Registry.tla.                                    *)
(***************************************************************************)

\* A step that leaves both tables alone leaves the tokens alone.
LEMMA SameTokens ==
    ASSUME device' = device, session' = session
    PROVE  Tokens' = Tokens
BY DEF Tokens, TokenOf

\* A step of one request touches no other request's lease.
LEMMA OtherLeases ==
    ASSUME NEW r \in Requests, \A q \in Requests : q # r => LeaseOf(q)' = LeaseOf(q),
           LeaseOf(r)' = LeaseOf(r)
    PROVE  Leases' = Leases
BY DEF Leases

\* A request that ends gives back its own lease.
LEMMA OneReleased ==
    ASSUME NEW r \in Requests, \A q \in Requests : q # r => LeaseOf(q)' = LeaseOf(q),
           LeaseOf(r)' = None, Tokens' = Tokens
    PROVE  Promise!Release({r})
BY DEF Leases, Promise!Release

\* What a step of request r leaves to the others.
LEMMA LeaseFrame ==
    ASSUME IInv, NEW r \in Requests, NEW q \in Requests, q # r,
           NEW s, pc' = [pc EXCEPT ![r] = s],
           actor' = actor \/ \E x : actor' = [actor EXCEPT ![r] = x]
    PROVE  LeaseOf(q)' = LeaseOf(q)
BY DEF LeaseOf, IInv, TypeOK

\* A handler that ends or goes on without writing is a release or a stutter.
LEMMA QuietStep ==
    ASSUME IInv, NEW r \in Requests, NEW s, Goto(r, s), s \in Leased => pc[r] \in Leased,
           device' = device, session' = session, actor' = actor
    PROVE  [Promise!Next]_(Promise!vars)
<1>1. \A q \in Requests : q # r => LeaseOf(q)' = LeaseOf(q)
  BY LeaseFrame DEF Goto
<1>2. Tokens' = Tokens
  BY SameTokens
<1>3. pc'[r] = s
  BY DEF Goto, IInv, TypeOK
<1>4. CASE s \notin Leased
  <2>1. LeaseOf(r)' = None
    BY <1>3, <1>4 DEF LeaseOf
  <2> QED
    BY <1>1, <1>2, <2>1, OneReleased DEF Promise!Next
<1>5. CASE s \in Leased /\ pc[r] \in Leased
  BY <1>1, <1>2, <1>3, <1>5, OtherLeases DEF LeaseOf, Promise!vars
<1> QED
  BY <1>4, <1>5

\* Enrolling and unlocking take no lease, and a device row alone is no token.
LEMMA EnrollInsertRefines ==
    ASSUME IInv, NEW r \in Requests, NEW d \in Devices, EnrollInsert(r, d)
    PROVE  UNCHANGED Promise!vars
<1>1. Tokens' = Tokens
  <2> SUFFICES ASSUME NEW e \in Devices PROVE TokenOf(e)' = TokenOf(e)
    BY DEF Tokens
  <2> QED
    BY DEF EnrollInsert, TokenOf, IInv, TypeOK, Rows
<1>2. \A q \in Requests : q # r => LeaseOf(q)' = LeaseOf(q)
  BY LeaseFrame DEF EnrollInsert, Goto
<1>3. LeaseOf(r)' = LeaseOf(r)
  BY DEF EnrollInsert, Goto, LeaseOf, Leased, Rest, IInv, TypeOK
<1> QED
  BY <1>1, <1>2, <1>3, OtherLeases DEF Promise!vars

\* An unlock changes nothing that Registry.tla sees, or leaves a lease behind.
LEMMA UnlockRefines ==
    ASSUME IInv, NEW r \in Requests, NEW d \in Devices, Unlock(r, d)
    PROVE  UNCHANGED Promise!vars
<1>1. Tokens' = Tokens
  BY SameTokens DEF Unlock
<1>2. \A q \in Requests : q # r => LeaseOf(q)' = LeaseOf(q)
  BY LeaseFrame DEF Unlock, Goto
<1>3. LeaseOf(r)' = LeaseOf(r)
  BY DEF Unlock, Goto, LeaseOf, Leased, Rest, IInv, TypeOK
<1> QED
  BY <1>1, <1>2, <1>3, OtherLeases DEF Promise!vars

\* The token check admits on a usable token.
LEMMA AuthenticateRefines ==
    ASSUME IInv, NEW r \in Requests, NEW d \in Devices, NEW v, Authenticate(r, d, v)
    PROVE  Promise!Admit(r, d)
<1>1. Tokens' = Tokens
  BY SameTokens DEF Authenticate
<1>2. Tokens[d] = "usable"
  BY DEF Authenticate, Admissible, Tokens, TokenOf
<1>3. \A q \in Requests : q # r => LeaseOf(q)' = LeaseOf(q)
  BY LeaseFrame DEF Authenticate, Goto
<1>4. LeaseOf(r)' = d
  BY DEF Authenticate, Goto, LeaseOf, Leased, IInv, TypeOK
<1>5. Leases' = [Leases EXCEPT ![r] = d]
  BY <1>3, <1>4 DEF Leases
<1> QED
  BY <1>1, <1>2, <1>5 DEF Promise!Admit

\* The session row is the token, unless the device was revoked before.
LEMMA EnrollIssueRefines ==
    ASSUME IInv, NEW r \in Requests, EnrollIssue(r)
    PROVE  [Promise!Next]_(Promise!vars)
<1>0. PICK d \in Devices : d = target[r]
  BY DEF IInv, Bound, Targeted, EnrollIssue
<1>1. device[d] # "absent" /\ session[d] = None
  BY <1>0 DEF IInv, Bound, Rows, Targeted, EnrollIssue
<1>2. \A q \in Requests : q # r => LeaseOf(q)' = LeaseOf(q)
  BY LeaseFrame DEF EnrollIssue, Goto
<1>3. LeaseOf(r)' = LeaseOf(r)
  BY DEF EnrollIssue, Goto, LeaseOf, Leased, IInv, TypeOK
<1>4. Leases' = Leases
  BY <1>2, <1>3, OtherLeases
<1>5. \A e \in Devices : e # d => TokenOf(e)' = TokenOf(e)
  BY <1>0, <1>1 DEF EnrollIssue, TokenOf, IInv, TypeOK
<1>6. CASE device[d] = "revoked"
  <2>1. TokenOf(d)' = TokenOf(d)
    BY <1>0, <1>6 DEF EnrollIssue, TokenOf
  <2> QED
    BY <1>4, <1>5, <2>1 DEF Tokens, Promise!vars
<1>7. CASE device[d] = "live"
  <2>1. TokenOf(d) = "none"
    BY <1>0, <1>1, <1>7 DEF TokenOf
  <2>2. session'[d] # None
    BY <1>0, <1>1, NoneAssumption DEF EnrollIssue, IInv, TypeOK, Times
  <2>3. TokenOf(d)' = "usable"
    BY <1>0, <1>7, <2>2 DEF EnrollIssue, TokenOf
  <2>4. Tokens' = [Tokens EXCEPT ![d] = "usable"]
    BY <1>0, <1>1, <1>5, <2>3 DEF Tokens
  <2>5. Promise!Issue(d)
    BY <1>0, <1>1, <1>4, <2>1, <2>4 DEF Promise!Issue, Tokens
  <2> QED
    BY <1>0, <1>1, <2>5 DEF Promise!Next
<1> QED
  BY <1>0, <1>1, <1>6, <1>7 DEF IInv, TypeOK, Status

\* The mark kills the token on the strength of a lease.
LEMMA RevokeMarkRefines ==
    ASSUME IInv, NEW r \in Requests, RevokeMark(r)
    PROVE  [Promise!Next]_(Promise!vars)
<1>0. PICK d \in Devices : d = target[r]
  BY DEF IInv, Bound, Targeted, RevokeMark
<1>1. LeaseOf(r) \in Devices /\ LeaseOf(r) # None
  BY NoneAssumption DEF IInv, Bound, Leased, RevokeMark, LeaseOf
<1>2. \A q \in Requests : q # r => LeaseOf(q)' = LeaseOf(q)
  BY LeaseFrame DEF RevokeMark, Goto
<1>3. LeaseOf(r)' = LeaseOf(r)
  BY DEF RevokeMark, Goto, LeaseOf, Leased, IInv, TypeOK
<1>4. Leases' = Leases
  BY <1>2, <1>3, OtherLeases
<1>5. \A e \in Devices : e # d => TokenOf(e)' = TokenOf(e)
  BY <1>0, <1>1 DEF RevokeMark, TokenOf, IInv, TypeOK
<1>6. TokenOf(d)' = "dead"
  BY <1>0, <1>1 DEF RevokeMark, TokenOf, IInv, TypeOK
<1>7. Tokens' = [Tokens EXCEPT ![d] = "dead"]
  BY <1>0, <1>1, <1>5, <1>6 DEF Tokens
<1>8. Leases[r] # None
  BY <1>0, <1>1 DEF Leases
<1>9. Promise!Kill(r, d)
  BY <1>4, <1>7, <1>8 DEF Promise!Kill
<1> QED
  BY <1>0, <1>1, <1>9 DEF Promise!Next

\* Deleting the session row of a revoked device changes no token; of a live
\* one (a dashboard request whose UPDATE failed) it loses the token.
LEMMA RevokeSweepRefines ==
    ASSUME IInv, NEW r \in Requests, RevokeSweep(r)
    PROVE  [Promise!Next]_(Promise!vars)
<1>0. PICK d \in Devices : d = target[r]
  BY DEF IInv, Bound, Targeted, RevokeSweep
<1>1. LeaseOf(r) \in Devices /\ LeaseOf(r) # None
  BY NoneAssumption DEF IInv, Bound, Leased, RevokeSweep, LeaseOf
<1>2. \A q \in Requests : q # r => LeaseOf(q)' = LeaseOf(q)
  BY LeaseFrame DEF RevokeSweep, Answer, Goto
<1>3. \A e \in Devices : e # d => TokenOf(e)' = TokenOf(e)
  BY <1>0, <1>1 DEF RevokeSweep, TokenOf, IInv, TypeOK
<1>4. CASE via[r] = "api"
  <2>1. TokenOf(d)' = TokenOf(d)
    BY <1>0, <1>1, <1>4 DEF RevokeSweep, TokenOf, IInv, Marks
  <2>2. Tokens' = Tokens
    BY <1>3, <2>1 DEF Tokens
  <2>3. LeaseOf(r)' = None
    BY <1>4 DEF RevokeSweep, Answer, Goto, LeaseOf, Leased, IInv, TypeOK
  <2> QED
    BY <1>2, <2>2, <2>3, OneReleased DEF Promise!Next
<1>5. CASE via[r] # "api"
  <2>1. LeaseOf(r)' = LeaseOf(r)
    BY <1>5 DEF RevokeSweep, Answer, Goto, LeaseOf, Leased, IInv, TypeOK
  <2>2. Leases' = Leases
    BY <1>2, <2>1, OtherLeases
  <2>3. CASE TokenOf(d) = "usable"
    <3>1. device[d] # "revoked"
      BY <2>3 DEF TokenOf
    <3>2. TokenOf(d)' = "none"
      BY <1>0, <1>1, <3>1 DEF RevokeSweep, TokenOf, IInv, TypeOK
    <3>3. Tokens' = [Tokens EXCEPT ![d] = "none"]
      BY <1>0, <1>1, <1>3, <3>2 DEF Tokens
    <3>4. Promise!Lose(r, d)
      BY <1>0, <1>1, <2>2, <2>3, <3>3 DEF Promise!Lose, Tokens, Leases
    <3> QED
      BY <1>0, <1>1, <3>4 DEF Promise!Next
  <2>4. CASE TokenOf(d) # "usable"
    <3>1. TokenOf(d)' = TokenOf(d)
      BY <1>0, <1>1, <2>4 DEF RevokeSweep, TokenOf, IInv, TypeOK
    <3> QED
      BY <1>3, <2>2, <3>1 DEF Tokens, Promise!vars
  <2> QED
    BY <2>3, <2>4
<1> QED
  BY <1>4, <1>5

\* A hang-up gives back one lease, a restart all of them.
LEMMA AbortRefines ==
    ASSUME IInv, NEW r \in Requests, Abort(r)
    PROVE  Promise!Release({r})
<1>1. Tokens' = Tokens
  BY SameTokens DEF Abort
<1>2. \A q \in Requests : q # r => LeaseOf(q)' = LeaseOf(q)
  BY LeaseFrame DEF Abort, Goto
<1>3. LeaseOf(r)' = None
  BY DEF Abort, Goto, LeaseOf, Leased, IInv, TypeOK
<1> QED
  BY <1>1, <1>2, <1>3, OneReleased

\* A restart ends every lease, and nothing else that Registry.tla sees.
LEMMA RestartRefines ==
    ASSUME IInv, Restart
    PROVE  Promise!Release(Requests)
<1>1. Tokens' = Tokens
  BY SameTokens DEF Restart
<1>2. \A q \in Requests : LeaseOf(q)' = None
  BY DEF Restart, LeaseOf, Leased
<1> QED
  BY <1>1, <1>2 DEF Leases, Promise!Release

\* Every step of a handler is a step of the registry or a stutter.
LEMMA HandlerRefines ==
    ASSUME IInv, NEW r \in Requests, Handler(r)
    PROVE  [Promise!Next]_(Promise!vars)
<1>1. CASE EnrollIssue(r)
  BY <1>1, EnrollIssueRefines
<1>2. CASE RevokeMark(r)
  BY <1>2, RevokeMarkRefines
<1>3. CASE RevokeSweep(r)
  BY <1>3, RevokeSweepRefines
<1>4. CASE IssueFails(r)
  BY <1>4, QuietStep DEF IssueFails, Leased
<1>5. CASE Act(r) \/ Watch(r)
  BY <1>5, QuietStep DEF Act, Watch, Answer, Leased
<1>6. ASSUME NEW d \in Devices, RevokeLookup(r, d)
      PROVE  [Promise!Next]_(Promise!vars)
  BY <1>6, QuietStep DEF RevokeLookup, Answer, Leased
<1>7. CASE MarkFails(r)
  BY <1>7, QuietStep DEF MarkFails, Leased
<1>8. CASE SweepFails(r)
  BY <1>8, QuietStep DEF SweepFails, Answer, Leased
<1>9. CASE RefreshRead(r) \/ RefreshShow(r)
  BY <1>9, QuietStep DEF RefreshRead, RefreshShow, Leased
<1> QED
  BY <1>1, <1>2, <1>3, <1>4, <1>5, <1>6, <1>7, <1>8, <1>9 DEF Handler

\* The promise of Registry.tla holds of the handlers: a token is killed or lost
\* only under a lease taken while the holder's own token was usable, and a dead
\* token is never usable again.
THEOREM Implements == Spec => KeepsPromise
<1>1. Init => Promise!Init
  BY DEF Init, Promise!Init, Tokens, TokenOf, Leases, LeaseOf, Leased, Unlisted
<1>2. IInv /\ [Next]_vars => [Promise!Next]_(Promise!vars)
  <2> SUFFICES ASSUME IInv, [Next]_vars PROVE [Promise!Next]_(Promise!vars)
    OBVIOUS
  <2>1. CASE UNCHANGED vars \/ Tick
    <3>1. UNCHANGED <<device, session, pc, actor>>
      BY <2>1 DEF vars, Tick
    <3> QED
      BY <3>1 DEF Promise!vars, Tokens, TokenOf, Leases, LeaseOf
  <2>2. CASE Restart
    BY <2>2, RestartRefines DEF Promise!Next
  <2>3. ASSUME NEW r \in Requests, Arrival(r) PROVE [Promise!Next]_(Promise!vars)
    BY <2>3, EnrollInsertRefines, UnlockRefines, AuthenticateRefines
    DEF Arrival, Promise!Next
  <2>4. ASSUME NEW r \in Requests, Abort(r) PROVE [Promise!Next]_(Promise!vars)
    BY <2>4, AbortRefines DEF Promise!Next
  <2> QED
    BY <2>1, <2>2, <2>3, <2>4, HandlerRefines DEF Next
<1> QED
  BY <1>1, <1>2, Invariance, PTL DEF Spec, KeepsPromise, Promise!Spec
=============================================================================
