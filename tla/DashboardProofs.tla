-------------------------- MODULE DashboardProofs --------------------------
(***************************************************************************)
(* Proofs about Dashboard.tla, for any lists, any order of them, any       *)
(* number of requests and any bound of the changes: what a page finds in   *)
(* the shared signals is no older than the oldest request it ran beside.   *)
(***************************************************************************)
EXTENDS Dashboard, TLAPS, WellFoundedInduction

(***************************************************************************)
(* The least of any set of versions, which need not be finite.             *)
(***************************************************************************)
LEMMA MinIsLeast ==
    ASSUME NEW S, S \subseteq Nat, S # {}
    PROVE  Min(S) \in S /\ \A y \in S : Min(S) <= y
<1> DEFINE Less == OpToRel(<, Nat)
<1>1. IsWellFoundedOn(Less, Nat)
  BY NatLessThanWellFounded
<1>2. \A x, y \in Nat : y < x => <<y, x>> \in Less
  BY DEF OpToRel
<1> HIDE DEF Less
<1>3. PICK x \in S : \A y \in S : ~ (<<y, x>> \in Less)
  BY <1>1, WFMin
<1>4. \A y \in S : x <= y
  <2>1. x \in Nat /\ \A y \in S : y \in Nat
    OBVIOUS
  <2>2. \A y \in S : ~ (y < x)
    BY <1>2, <1>3, <2>1, Zenon
  <2> QED
    BY <2>1, <2>2
<1> QED
  BY <1>4 DEF Min

(***************************************************************************)
(* The inductive invariant.                                                *)
(***************************************************************************)

\* Versions only grow: a signal is behind its table, what a refresh has read is
\* from after the request began, and no running request began before the oldest
\* one that another can come across.
Ordered ==
    /\ \A l \in Lists : signal[l] # None => signal[l] <= table[l]
    /\ \A q \in Running : \A l \in Lists :
          /\ since[q][l] <= table[l]
          /\ snap[q][l] # None => since[q][l] <= snap[q][l] /\ snap[q][l] <= table[l]
    /\ \A r, q \in Running : \A l \in Lists : oldest[r][l] <= since[q][l]

\* A request that is not in a refresh is at the first list, one that rests has
\* read nothing, and one that deletes does so in a list.
Rested ==
    \A r \in Requests :
        /\ pc[r] \in Rest \cup {"deleting", "rendering"} => at[r] = 1
        /\ pc[r] \in Rest => snap[r] = Empty
        /\ pc[r] = "deleting" => kind[r] \in Lists

\* What a refresh has been through and has not set yet is read, or was missed.
Fetched ==
    \A r \in Requests : \A i \in 1 .. Len(Order) :
        (pc[r] = "reading" /\ i < at[r]) \/ (pc[r] = "setting" /\ at[r] <= i) =>
            snap[r][Order[i]] # None \/ Order[i] \in missed

\* What request r may show of list l.
Fresh(r, l) ==
    /\ signal[l] = None => l \in missed
    /\ signal[l] # None => oldest[r][l] <= signal[l]

\* A list that a running refresh has set stays fresh for its own request,
\* whoever sets it again.
Shown ==
    \A r \in Requests : \A i \in 1 .. Len(Order) :
        pc[r] = "rendering" \/ (pc[r] = "setting" /\ i < at[r]) => Fresh(r, Order[i])

IInv == TypeOK /\ Ordered /\ Rested /\ Fetched /\ Shown

USE DEF Versions

\* What is assumed of the constants, one fact at a time.
LEMMA Constants ==
    /\ None \notin Nat /\ MaxEdits \in Nat
    /\ Len(Order) \in Nat \ {0}
    /\ \A i \in 1 .. Len(Order) : Order[i] \in Lists
BY ListsAssumption

Steps == Rest \cup {"deleting", "reading", "setting", "rendering"}

(***************************************************************************)
(* Positions in the order of the lists.                                    *)
(***************************************************************************)

\* The list a request has come to.
LEMMA ListAt ==
    ASSUME TypeOK, NEW r \in Requests
    PROVE  /\ at[r] \in 1 .. Len(Order) /\ List(r) \in Lists
           /\ \A i \in 1 .. Len(Order) : Order[i] \in Lists
           /\ \A i \in 1 .. Len(Order) : Order[i] = List(r) => i = at[r]
           /\ Len(Order) \in Nat \ {0}
           /\ ~IsLast(r) => at[r] + 1 \in 1 .. Len(Order)
<1>1. at[r] \in 1 .. Len(Order)
  BY DEF TypeOK
<1>2. \A i \in 1 .. Len(Order) : Order[i] \in Lists
  BY Constants
<1>3. Len(Order) \in Nat \ {0}
  BY Constants
<1>4. ~IsLast(r) => at[r] + 1 \in 1 .. Len(Order)
  BY <1>1, <1>3 DEF IsLast
<1>5. \A i \in 1 .. Len(Order) : Order[i] = List(r) => i = at[r]
  BY <1>1, ListsAssumption DEF List
<1> QED
  BY <1>1, <1>2, <1>3, <1>4, <1>5 DEF List

\* Handlers that are over rest at the first list with nothing read, and the
\* others are as they were.
LEMMA EndEffect ==
    ASSUME TypeOK, NEW R, NEW step \in Rest, End(R, step)
    PROVE  /\ pc' \in [Requests -> Steps] /\ kind' \in [Requests -> Lists \cup {"index"}]
           /\ at' \in [Requests -> 1 .. Len(Order)]
           /\ snap' \in [Requests -> [Lists -> Versions \cup {None}]]
           /\ since' \in [Requests -> [Lists -> Versions]]
           /\ oldest' \in [Requests -> [Lists -> Versions]]
           /\ \A r \in Requests : r \in R =>
                 pc'[r] = step /\ at'[r] = 1 /\ snap'[r] = Empty
           /\ \A r \in Requests : r \notin R =>
                 /\ pc'[r] = pc[r] /\ at'[r] = at[r] /\ snap'[r] = snap[r]
                 /\ kind'[r] = kind[r] /\ since'[r] = since[r] /\ oldest'[r] = oldest[r]
<1>1. Start \in [Lists -> Versions] /\ Empty \in [Lists -> Versions \cup {None}]
  BY Constants DEF Start, Empty
<1>2. 1 \in 1 .. Len(Order)
  BY Constants
<1> QED
  BY <1>1, <1>2 DEF TypeOK, End, Steps
\* The values of one list, and of one request.
LEMMA Values ==
    ASSUME TypeOK, NEW r \in Requests, NEW l \in Lists
    PROVE  /\ table[l] \in Versions /\ signal[l] \in Versions \cup {None}
           /\ snap[r][l] \in Versions \cup {None}
           /\ since[r][l] \in Versions /\ oldest[r][l] \in Versions
           /\ Versions \subseteq Nat /\ None \notin Versions
<1>1. table[l] \in Versions /\ signal[l] \in Versions \cup {None}
  BY DEF TypeOK
<1>2. snap[r] \in [Lists -> Versions \cup {None}] /\ since[r] \in [Lists -> Versions]
      /\ oldest[r] \in [Lists -> Versions]
  BY DEF TypeOK
<1>3. Versions \subseteq Nat
  OBVIOUS
<1>4. None \notin Versions
  BY <1>3, Constants
<1> QED
  BY <1>1, <1>2, <1>3, <1>4

(***************************************************************************)
(* The handlers of some requests are over.                                 *)
(***************************************************************************)
LEMMA EndInv ==
    ASSUME IInv, NEW R, NEW step \in Rest, End(R, step), UNCHANGED <<table, missed>>,
           signal' \in [Lists -> Versions \cup {None}],
           \A l \in Lists : signal'[l] # None => signal'[l] <= table[l],
           \A r \in Requests, l \in Lists :
               r \notin R /\ pc[r] \in {"setting", "rendering"} /\ Fresh(r, l) =>
                   IF signal'[l] = None THEN l \in missed ELSE oldest[r][l] <= signal'[l]
    PROVE  IInv'
<1>1. /\ pc' \in [Requests -> Steps] /\ kind' \in [Requests -> Lists \cup {"index"}]
      /\ at' \in [Requests -> 1 .. Len(Order)]
      /\ snap' \in [Requests -> [Lists -> Versions \cup {None}]]
      /\ since' \in [Requests -> [Lists -> Versions]]
      /\ oldest' \in [Requests -> [Lists -> Versions]]
  BY EndEffect DEF IInv
<1>2. \A r \in Requests : r \in R => pc'[r] = step /\ at'[r] = 1 /\ snap'[r] = Empty
  BY EndEffect DEF IInv
<1>3. \A r \in Requests : r \notin R =>
          /\ pc'[r] = pc[r] /\ at'[r] = at[r] /\ snap'[r] = snap[r]
          /\ kind'[r] = kind[r] /\ since'[r] = since[r] /\ oldest'[r] = oldest[r]
  BY EndEffect DEF IInv
<1>4. TypeOK'
  BY <1>1 DEF IInv, TypeOK, Steps
<1>5. \A r \in Running' : r \notin R /\ r \in Running
  BY <1>2, <1>3 DEF Running
<1>6. Running' \subseteq Requests
  BY DEF Running
<1>7. Ordered'
  BY <1>3, <1>5, <1>6 DEF IInv, Ordered
<1>8. Rested'
  <2>1. Empty' = Empty
    BY DEF Empty
  <2> QED
    BY <1>2, <1>3, <2>1 DEF IInv, Rested, Rest
<1>9. Fetched'
  BY <1>2, <1>3 DEF IInv, Fetched, Rest
<1>10. Shown'
  <2> SUFFICES ASSUME NEW r \in Requests, NEW i \in 1 .. Len(Order),
                      pc'[r] = "rendering" \/ (pc'[r] = "setting" /\ i < at'[r])
               PROVE  IF signal'[Order[i]] = None THEN Order[i] \in missed
                      ELSE oldest'[r][Order[i]] <= signal'[Order[i]]
    BY DEF Shown, Fresh
  <2>1. r \notin R
    BY <1>2 DEF Rest
  <2>2. Fresh(r, Order[i]) /\ Order[i] \in Lists
    BY <1>3, <2>1, Constants DEF IInv, Shown
  <2> QED
    BY <1>3, <2>1, <2>2
<1> QED
  BY <1>4, <1>7, <1>8, <1>9, <1>10 DEF IInv

\* So when a client hangs up, a page is served, a device is not there, and at a
\* restart of the server.
LEMMA OverInv ==
    ASSUME IInv, NEW r \in Requests, NotOwned(r) \/ Serve(r) \/ HangUp(r)
    PROVE  IInv'
<1>1. PICK step \in Rest : End({r}, step)
  BY DEF NotOwned, Serve, HangUp, Rest
<1>2. UNCHANGED <<table, signal, missed>>
  BY DEF NotOwned, Serve, HangUp
<1>3. signal' \in [Lists -> Versions \cup {None}]
  BY <1>2 DEF IInv, TypeOK
<1>4. \A l \in Lists : signal'[l] # None => signal'[l] <= table[l]
  BY <1>2 DEF IInv, Ordered
<1>5. \A q \in Requests, l \in Lists :
          q \notin {r} /\ pc[q] \in {"setting", "rendering"} /\ Fresh(q, l) =>
              IF signal'[l] = None THEN l \in missed ELSE oldest[q][l] <= signal'[l]
  BY <1>2 DEF Fresh
<1> QED
  BY <1>1, <1>2, <1>3, <1>4, <1>5, EndInv

LEMMA RestartInv ==
    ASSUME IInv, Restart
    PROVE  IInv'
<1>1. End(Requests, "idle") /\ "idle" \in Rest /\ UNCHANGED <<table, missed>>
  BY DEF Restart, Rest
<1>2. /\ signal' \in [Lists -> Versions \cup {None}]
      /\ \A l \in Lists : signal'[l] = None
  BY DEF Restart, Empty
<1> QED
  BY <1>1, <1>2, EndInv

(***************************************************************************)
(* The tables change.                                                      *)
(***************************************************************************)
LEMMA EditEffect ==
    ASSUME TypeOK, NEW l \in Lists, Edit(l)
    PROVE  table' \in [Lists -> Versions] /\ \A m \in Lists : table[m] <= table'[m]
<1>1. /\ table \in [Lists -> Versions] /\ table[l] \in Nat /\ table[l] < MaxEdits
      /\ table' = [table EXCEPT ![l] = table[l] + 1]
  BY DEF TypeOK, Edit
<1>2. table[l] + 1 \in Versions
  BY <1>1, Constants
<1>3. \A m \in Lists : table[m] \in Nat
  BY <1>1
<1> QED
  BY <1>1, <1>2, <1>3

\* A request may leave its deletion for the refresh beside it.
LEMMA TableInv ==
    ASSUME IInv, table' \in [Lists -> Versions], \A m \in Lists : table[m] <= table'[m],
           \/ pc' = pc
           \/ \E r \in Requests : pc[r] = "deleting" /\ pc' = [pc EXCEPT ![r] = "reading"],
           UNCHANGED <<signal, kind, at, snap, history>>
    PROVE  IInv'
<1> USE DEF history
<1>1. /\ \A q \in Requests : pc'[q] # pc[q] =>
            pc[q] = "deleting" /\ pc'[q] = "reading"
      /\ pc' \in [Requests -> Steps]
  BY DEF IInv, TypeOK, Steps, Rest
<1>2. TypeOK'
  BY <1>1 DEF IInv, TypeOK, Steps
<1>3. Running' = Running /\ Running \subseteq Requests
  BY <1>1 DEF Running, Rest
<1>4. Ordered'
  <2>1. \A l \in Lists : signal[l] # None => signal[l] <= table'[l]
    <3> SUFFICES ASSUME NEW l \in Lists, signal[l] # None PROVE signal[l] <= table'[l]
      OBVIOUS
    <3>1. signal[l] \in Nat /\ table[l] \in Nat /\ table'[l] \in Nat
      BY DEF IInv, TypeOK
    <3>2. signal[l] <= table[l] /\ table[l] <= table'[l]
      BY DEF IInv, Ordered
    <3> QED
      BY <3>1, <3>2
  <2>2. ASSUME NEW q \in Running, NEW l \in Lists
        PROVE  /\ since[q][l] <= table'[l]
               /\ snap[q][l] # None => since[q][l] <= snap[q][l] /\ snap[q][l] <= table'[l]
    <3>1. /\ since[q][l] \in Nat /\ table[l] \in Nat /\ table'[l] \in Nat
          /\ snap[q][l] # None => snap[q][l] \in Nat
      BY <1>3, Values DEF IInv
    <3>2. /\ since[q][l] <= table[l] /\ table[l] <= table'[l]
          /\ snap[q][l] # None => since[q][l] <= snap[q][l] /\ snap[q][l] <= table[l]
      BY DEF IInv, Ordered
    <3> QED
      BY <3>1, <3>2
  <2> QED
    BY <1>3, <2>1, <2>2 DEF IInv, Ordered
<1>5. Rested'
  <2>1. Empty' = Empty
    BY DEF Empty
  <2> QED
    BY <1>1, <2>1 DEF IInv, Rested, Rest
<1>6. Fetched'
  <2>1. \A q \in Requests : pc[q] = "deleting" => at[q] = 1
    BY DEF IInv, Rested
  <2> QED
    BY <1>1, <2>1 DEF IInv, Fetched
<1>7. Shown'
  BY <1>1 DEF IInv, Shown, Fresh
<1> QED
  BY <1>2, <1>4, <1>5, <1>6, <1>7 DEF IInv

LEMMA ApiEditInv ==
    ASSUME IInv, NEW l \in Lists, ApiEdit(l)
    PROVE  IInv'
<1>1. table' \in [Lists -> Versions] /\ \A m \in Lists : table[m] <= table'[m]
  BY EditEffect DEF IInv, ApiEdit
<1>2. UNCHANGED <<signal, pc, kind, at, snap, history>>
  BY DEF ApiEdit, request
<1> QED
  BY <1>1, <1>2, TableInv

LEMMA DeleteRowInv ==
    ASSUME IInv, NEW r \in Requests, DeleteRow(r)
    PROVE  IInv'
<1>1. table' \in [Lists -> Versions] /\ \A m \in Lists : table[m] <= table'[m]
  <2>1. CASE UNCHANGED table
    <3>1. \A m \in Lists : table[m] \in Nat /\ table'[m] = table[m]
      BY <2>1 DEF IInv, TypeOK
    <3> QED
      BY <2>1, <3>1 DEF IInv, TypeOK
  <2>2. CASE Edit(kind[r])
    <3>1. kind[r] \in Lists
      BY DEF DeleteRow, IInv, Rested
    <3> QED
      BY <2>2, <3>1, EditEffect DEF IInv
  <2> QED
    BY <2>1, <2>2 DEF DeleteRow
<1>2. /\ UNCHANGED <<signal, kind, at, snap, history>>
      /\ pc[r] = "deleting" /\ pc' = [pc EXCEPT ![r] = "reading"]
  BY DEF DeleteRow
<1> QED
  BY <1>1, <1>2, TableInv
(***************************************************************************)
(* A request comes in.                                                     *)
(***************************************************************************)
LEMMA BeginInv ==
    ASSUME IInv, NEW r \in Requests, NEW k \in Lists \cup {"index"}, Begin(r, k)
    PROVE  IInv'
<1> DEFINE heard(l) == {table[l]} \cup {since[q][l] : q \in Running}
<1>1. TypeOK /\ pc[r] \in Rest /\ at[r] = 1 /\ snap[r] = Empty /\ r \notin Running
  BY DEF IInv, Begin, Rested, Running
<1>2. /\ pc' = [pc EXCEPT ![r] = Entry(k)] /\ kind' = [kind EXCEPT ![r] = k]
      /\ since' = [since EXCEPT ![r] = table]
      /\ oldest' = [oldest EXCEPT ![r] = [l \in Lists |-> Min(heard(l))]]
      /\ UNCHANGED <<table, signal, at, snap, missed>>
  BY DEF Begin
<1>3. Entry(k) \in {"reading", "deleting"} /\ (Entry(k) = "deleting" => k \in Lists)
  BY DEF Entry
<1>4. ASSUME NEW l \in Lists
      PROVE  /\ Min(heard(l)) \in Versions /\ Min(heard(l)) <= table[l]
             /\ \A q \in Running : Min(heard(l)) <= since[q][l]
  <2>1. heard(l) \subseteq Versions /\ heard(l) # {} /\ table[l] \in heard(l)
    BY <1>1, Values DEF Running, TypeOK
  <2>2. heard(l) \subseteq Nat
    BY <2>1
  <2>3. \A q \in Running : since[q][l] \in heard(l)
    OBVIOUS
  <2> HIDE DEF heard
  <2>4. Min(heard(l)) \in heard(l) /\ \A y \in heard(l) : Min(heard(l)) <= y
    BY <2>1, <2>2, MinIsLeast
  <2> QED
    BY <2>1, <2>3, <2>4
<1> HIDE DEF heard
<1>5. \A q \in Requests :
          IF q = r
          THEN /\ pc'[q] = Entry(k) /\ kind'[q] = k /\ since'[q] = table
               /\ \A l \in Lists : oldest'[q][l] = Min(heard(l))
          ELSE /\ pc'[q] = pc[q] /\ kind'[q] = kind[q] /\ since'[q] = since[q]
               /\ oldest'[q] = oldest[q]
  BY <1>1, <1>2 DEF TypeOK
<1>6. TypeOK'
  <2>1. [l \in Lists |-> Min(heard(l))] \in [Lists -> Versions]
    BY <1>4
  <2>2. oldest' \in [Requests -> [Lists -> Versions]]
    BY <1>1, <1>2, <2>1 DEF TypeOK
  <2>3. since' \in [Requests -> [Lists -> Versions]]
    BY <1>1, <1>2 DEF TypeOK
  <2>4. pc' \in [Requests -> Steps] /\ kind' \in [Requests -> Lists \cup {"index"}]
    BY <1>1, <1>2, <1>3 DEF TypeOK, Steps, Rest
  <2> QED
    BY <1>1, <1>2, <2>2, <2>3, <2>4 DEF TypeOK, Steps
<1>7. \A q \in Running' : q \in Requests /\ (q = r \/ q \in Running)
  BY <1>5 DEF Running
<1>8. Ordered'
  <2>1. \A l \in Lists : table[l] <= table[l] /\ snap[r][l] = None
    BY <1>1, Values DEF Empty
  <2>2. \A q \in Running : \A l \in Lists : oldest[q][l] <= table[l]
    <3> SUFFICES ASSUME NEW q \in Running, NEW l \in Lists PROVE oldest[q][l] <= table[l]
      OBVIOUS
    <3>1. oldest[q][l] \in Nat /\ since[q][l] \in Nat /\ table[l] \in Nat
      BY <1>1, Values DEF Running
    <3>2. oldest[q][l] <= since[q][l] /\ since[q][l] <= table[l]
      BY DEF IInv, Ordered
    <3> QED
      BY <3>1, <3>2
  <2>3. ASSUME NEW q \in Running', NEW l \in Lists
        PROVE  /\ since'[q][l] <= table[l]
               /\ snap[q][l] # None => since'[q][l] <= snap[q][l] /\ snap[q][l] <= table[l]
    <3>1. CASE q = r
      BY <1>5, <2>1, <3>1
    <3>2. CASE q # r
      BY <1>5, <1>7, <3>2 DEF IInv, Ordered
    <3> QED
      BY <3>1, <3>2
  <2>4. ASSUME NEW p \in Running', NEW q \in Running', NEW l \in Lists
        PROVE  oldest'[p][l] <= since'[q][l]
    <3>1. CASE p = r /\ q = r
      BY <1>4, <1>5, <3>1
    <3>2. CASE p = r /\ q # r
      BY <1>4, <1>5, <1>7, <3>2
    <3>3. CASE p # r /\ q = r
      BY <1>5, <1>7, <2>2, <3>3
    <3>4. CASE p # r /\ q # r
      BY <1>5, <1>7, <3>4 DEF IInv, Ordered
    <3> QED
      BY <3>1, <3>2, <3>3, <3>4
  <2> QED
    BY <1>2, <2>3, <2>4 DEF IInv, Ordered
<1>9. Rested'
  <2>1. Empty' = Empty
    BY DEF Empty
  <2> QED
    BY <1>1, <1>2, <1>3, <1>5, <2>1 DEF IInv, Rested, Rest
<1>10. Fetched'
  BY <1>1, <1>2, <1>3, <1>5 DEF IInv, Fetched
<1>11. Shown'
  BY <1>2, <1>3, <1>5 DEF IInv, Shown, Fresh
<1> QED
  BY <1>6, <1>8, <1>9, <1>10, <1>11 DEF IInv

(***************************************************************************)
(* A select, whether it succeeds or fails.                                 *)
(***************************************************************************)
LEMMA ReadInv ==
    ASSUME IInv, NEW r \in Requests, NEW version \in Versions \cup {None}, Read(r, version),
           version # None => version = table[List(r)],
           missed \subseteq missed', missed' \subseteq Lists,
           version = None => List(r) \in missed'
    PROVE  IInv'
<1>1. TypeOK /\ pc[r] = "reading" /\ r \in Running
  BY DEF IInv, Read, Running, Rest
<1>2. /\ snap' = [snap EXCEPT ![r] = [snap[r] EXCEPT ![List(r)] = version]]
      /\ at' = [at EXCEPT ![r] = IF IsLast(r) THEN 1 ELSE at[r] + 1]
      /\ pc' = [pc EXCEPT ![r] = IF IsLast(r) THEN "setting" ELSE "reading"]
      /\ UNCHANGED <<table, signal, kind, since, oldest>>
  BY <1>1 DEF Read, Advance
<1>3. /\ at[r] \in 1 .. Len(Order) /\ List(r) \in Lists
      /\ \A i \in 1 .. Len(Order) : Order[i] = List(r) => i = at[r]
      /\ Len(Order) \in Nat \ {0}
      /\ ~IsLast(r) => at[r] + 1 \in 1 .. Len(Order)
  BY <1>1, ListAt
<1>4. /\ at'[r] = IF IsLast(r) THEN 1 ELSE at[r] + 1
      /\ pc'[r] = IF IsLast(r) THEN "setting" ELSE "reading"
      /\ \A q \in Requests : q # r => pc'[q] = pc[q] /\ at'[q] = at[q] /\ snap'[q] = snap[q]
      /\ \A l \in Lists : snap'[r][l] = IF l = List(r) THEN version ELSE snap[r][l]
  <2>1. snap[r] \in [Lists -> Versions \cup {None}] /\ snap \in [Requests -> [Lists -> Versions \cup {None}]]
    BY <1>1 DEF TypeOK
  <2>2. \A l \in Lists : snap'[r][l] = IF l = List(r) THEN version ELSE snap[r][l]
    BY <1>2, <2>1
  <2>3. \A q \in Requests : q # r => snap'[q] = snap[q]
    BY <1>2, <2>1
  <2>4. /\ at'[r] = IF IsLast(r) THEN 1 ELSE at[r] + 1
        /\ pc'[r] = IF IsLast(r) THEN "setting" ELSE "reading"
        /\ \A q \in Requests : q # r => pc'[q] = pc[q] /\ at'[q] = at[q]
    BY <1>1, <1>2 DEF TypeOK
  <2> QED
    BY <2>2, <2>3, <2>4
<1>5. TypeOK'
  <2>1. [snap[r] EXCEPT ![List(r)] = version] \in [Lists -> Versions \cup {None}]
    BY <1>1, <1>3 DEF TypeOK
  <2>2. snap' \in [Requests -> [Lists -> Versions \cup {None}]]
    BY <1>1, <1>2, <2>1 DEF TypeOK
  <2>3. at' \in [Requests -> 1 .. Len(Order)]
    <3>1. (IF IsLast(r) THEN 1 ELSE at[r] + 1) \in 1 .. Len(Order)
      BY <1>3
    <3> QED
      BY <1>1, <1>2, <3>1 DEF TypeOK
  <2>4. pc' \in [Requests -> Steps]
    BY <1>1, <1>2 DEF TypeOK, Steps
  <2> QED
    BY <1>1, <1>2, <2>2, <2>3, <2>4 DEF TypeOK, Steps
<1>6. Running' = Running /\ Running \subseteq Requests
  BY <1>1, <1>4 DEF Running, Rest
<1>7. Ordered'
  <2>1. ASSUME NEW q \in Running, NEW l \in Lists, snap'[q][l] # None
        PROVE  since[q][l] <= snap'[q][l] /\ snap'[q][l] <= table[l]
    <3>1. CASE q = r /\ l = List(r)
      <4>1. snap'[q][l] = table[l] /\ since[q][l] <= table[l]
        BY <1>1, <1>4, <2>1, <3>1 DEF IInv, Ordered
      <4>2. table[l] \in Nat
        BY <1>1, Values DEF Running
      <4> QED
        BY <4>1, <4>2
    <3>2. CASE ~(q = r /\ l = List(r))
      <4>1. snap'[q][l] = snap[q][l]
        BY <1>4, <1>6, <3>2
      <4> QED
        BY <2>1, <4>1 DEF IInv, Ordered
    <3> QED
      BY <3>1, <3>2
  <2> QED
    BY <1>2, <1>6, <2>1 DEF IInv, Ordered
<1>8. Rested'
  <2>1. Empty' = Empty
    BY DEF Empty
  <2>2. pc'[r] \in {"setting", "reading"}
    BY <1>4
  <2> QED
    BY <1>2, <1>4, <2>1, <2>2 DEF IInv, Rested, Rest
<1>9. Fetched'
  <2> SUFFICES ASSUME NEW q \in Requests, NEW i \in 1 .. Len(Order),
                      \/ pc'[q] = "reading" /\ i < at'[q]
                      \/ pc'[q] = "setting" /\ at'[q] <= i
               PROVE  snap'[q][Order[i]] # None \/ Order[i] \in missed'
    BY DEF Fetched
  <2>1. CASE q # r
    BY <1>4, <2>1 DEF IInv, Fetched
  <2>2. CASE q = r /\ i = at[r]
    <3>1. Order[i] = List(r) /\ Order[i] \in Lists
      BY <1>3, <2>2 DEF List
    <3> QED
      BY <1>4, <2>2, <3>1
  <2>3. CASE q = r /\ i # at[r]
    <3>1. i \in Int /\ at[r] \in Int /\ at[r] <= Len(Order) /\ i <= Len(Order)
      BY <1>3
    <3>2. i < at[r]
      BY <1>4, <2>3, <3>1 DEF IsLast
    <3>3. snap[r][Order[i]] # None \/ Order[i] \in missed
      BY <1>1, <3>2 DEF IInv, Fetched
    <3>4. Order[i] \in Lists /\ Order[i] # List(r)
      BY <1>3, <2>3, Constants
    <3> QED
      BY <1>4, <2>3, <3>3, <3>4
  <2> QED
    BY <2>1, <2>2, <2>3
<1>10. Shown'
  <2>1. ~(pc'[r] = "setting" /\ at'[r] # 1) /\ pc'[r] # "rendering"
    BY <1>4
  <2>2. \A i \in 1 .. Len(Order) : ~(i < 1)
    OBVIOUS
  <2> QED
    BY <1>2, <1>4, <2>1, <2>2 DEF IInv, Shown, Fresh
<1> QED
  BY <1>5, <1>7, <1>8, <1>9, <1>10 DEF IInv

LEMMA ReadListInv ==
    ASSUME IInv, NEW r \in Requests, ReadList(r) \/ ReadFails(r)
    PROVE  IInv'
<1>1. List(r) \in Lists /\ table[List(r)] \in Versions /\ missed \subseteq Lists
  BY ListAt, Values DEF IInv, TypeOK
<1>2. table[List(r)] # None
  BY <1>1, Values DEF IInv
<1>3. CASE ReadList(r)
  BY <1>1, <1>2, <1>3, ReadInv DEF ReadList
<1>4. CASE ReadFails(r)
  BY <1>1, <1>4, ReadInv DEF ReadFails
<1> QED
  BY <1>3, <1>4

(***************************************************************************)
(* A signal is set.                                                        *)
(***************************************************************************)

\* Whoever sets it, it stays fresh for every request that runs.
LEMMA PublishEffect ==
    ASSUME IInv, NEW r \in Requests, pc[r] = "setting", Publish(r)
    PROVE  /\ signal' \in [Lists -> Versions \cup {None}]
           /\ \A l \in Lists : signal'[l] # None => signal'[l] <= table[l]
           /\ \A q \in Requests, l \in Lists :
                 pc[q] \in {"setting", "rendering"} /\ (l = List(r) \/ Fresh(q, l)) =>
                     IF signal'[l] = None THEN l \in missed ELSE oldest[q][l] <= signal'[l]
<1>1. TypeOK /\ r \in Running /\ List(r) \in Lists
  BY ListAt DEF IInv, Running, Rest
<1>2. \A l \in Lists : signal'[l] = IF l = List(r) THEN snap[r][l] ELSE signal[l]
  BY <1>1 DEF TypeOK, Publish
<1>3. signal' \in [Lists -> Versions \cup {None}]
  <2>1. snap[r][List(r)] \in Versions \cup {None}
    BY <1>1, Values
  <2> QED
    BY <1>1, <2>1 DEF TypeOK, Publish
<1>4. \A l \in Lists : signal'[l] # None => signal'[l] <= table[l]
  BY <1>1, <1>2 DEF IInv, Ordered
<1>5. snap[r][List(r)] # None \/ List(r) \in missed
  <2>1. at[r] \in 1 .. Len(Order) /\ at[r] <= at[r]
    BY <1>1, ListAt
  <2> QED
    BY <2>1 DEF IInv, Fetched, List
<1>6. ASSUME NEW q \in Requests, NEW l \in Lists,
             pc[q] \in {"setting", "rendering"}, l = List(r) \/ Fresh(q, l)
      PROVE  IF signal'[l] = None THEN l \in missed ELSE oldest[q][l] <= signal'[l]
  <2>1. CASE l # List(r)
    BY <1>2, <1>6, <2>1 DEF Fresh
  <2>2. CASE l = List(r) /\ snap[r][l] = None
    BY <1>2, <1>5, <2>2
  <2>3. CASE l = List(r) /\ snap[r][l] # None
    <3>1. q \in Running
      BY <1>6 DEF Running, Rest
    <3>2. oldest[q][l] <= since[r][l] /\ since[r][l] <= snap[r][l]
      BY <1>1, <2>3, <3>1 DEF IInv, Ordered
    <3>3. oldest[q][l] \in Nat /\ since[r][l] \in Nat /\ snap[r][l] \in Nat
      BY <1>1, <2>3, Values
    <3> QED
      BY <1>2, <2>3, <3>2, <3>3
  <2> QED
    BY <2>1, <2>2, <2>3
<1> QED
  BY <1>3, <1>4, <1>6

LEMMA SetSignalInv ==
    ASSUME IInv, NEW r \in Requests, SetSignal(r)
    PROVE  IInv'
<1>1. TypeOK /\ pc[r] = "setting" /\ Publish(r) /\ UNCHANGED <<table, missed>>
  BY DEF IInv, SetSignal
<1>2. /\ signal' \in [Lists -> Versions \cup {None}]
      /\ \A l \in Lists : signal'[l] # None => signal'[l] <= table[l]
      /\ \A q \in Requests, l \in Lists :
            pc[q] \in {"setting", "rendering"} /\ (l = List(r) \/ Fresh(q, l)) =>
                IF signal'[l] = None THEN l \in missed ELSE oldest[q][l] <= signal'[l]
  BY <1>1, PublishEffect
<1>3. CASE IsLast(r) /\ kind[r] # "index"
  <2>1. End({r}, "redirected") /\ "redirected" \in Rest
    BY <1>3 DEF SetSignal, Rest
  <2> QED
    BY <1>1, <1>2, <2>1, EndInv
<1>4. CASE ~(IsLast(r) /\ kind[r] # "index")
  <2>1. /\ snap' = [snap EXCEPT ![r] = [snap[r] EXCEPT ![List(r)] = None]]
        /\ at' = [at EXCEPT ![r] = IF IsLast(r) THEN 1 ELSE at[r] + 1]
        /\ pc' = [pc EXCEPT ![r] = IF IsLast(r) THEN "rendering" ELSE "setting"]
        /\ UNCHANGED <<table, missed, kind, since, oldest>>
    BY <1>1, <1>4 DEF SetSignal, Advance
  <2>2. /\ at[r] \in 1 .. Len(Order) /\ List(r) \in Lists
        /\ \A i \in 1 .. Len(Order) : Order[i] = List(r) => i = at[r]
        /\ Len(Order) \in Nat \ {0}
        /\ ~IsLast(r) => at[r] + 1 \in 1 .. Len(Order)
    BY <1>1, ListAt
  <2>3. /\ at'[r] = IF IsLast(r) THEN 1 ELSE at[r] + 1
        /\ pc'[r] = IF IsLast(r) THEN "rendering" ELSE "setting"
        /\ \A q \in Requests : q # r => pc'[q] = pc[q] /\ at'[q] = at[q] /\ snap'[q] = snap[q]
        /\ \A l \in Lists : snap'[r][l] = IF l = List(r) THEN None ELSE snap[r][l]
    <3>1. /\ snap[r] \in [Lists -> Versions \cup {None}]
          /\ snap \in [Requests -> [Lists -> Versions \cup {None}]]
      BY <1>1 DEF TypeOK
    <3>2. \A l \in Lists : snap'[r][l] = IF l = List(r) THEN None ELSE snap[r][l]
      BY <2>1, <3>1
    <3>3. \A q \in Requests : q # r => snap'[q] = snap[q]
      BY <2>1, <3>1
    <3>4. /\ at'[r] = IF IsLast(r) THEN 1 ELSE at[r] + 1
          /\ pc'[r] = IF IsLast(r) THEN "rendering" ELSE "setting"
          /\ \A q \in Requests : q # r => pc'[q] = pc[q] /\ at'[q] = at[q]
      BY <1>1, <2>1 DEF TypeOK
    <3> QED
      BY <3>2, <3>3, <3>4
  <2>4. TypeOK'
    <3>1. [snap[r] EXCEPT ![List(r)] = None] \in [Lists -> Versions \cup {None}]
      BY <1>1, <2>2 DEF TypeOK
    <3>2. snap' \in [Requests -> [Lists -> Versions \cup {None}]]
      BY <1>1, <2>1, <3>1 DEF TypeOK
    <3>3. at' \in [Requests -> 1 .. Len(Order)]
      <4>1. (IF IsLast(r) THEN 1 ELSE at[r] + 1) \in 1 .. Len(Order)
        BY <2>2
      <4> QED
        BY <1>1, <2>1, <4>1 DEF TypeOK
    <3>4. pc' \in [Requests -> Steps]
      BY <1>1, <2>1 DEF TypeOK, Steps
    <3> QED
      BY <1>1, <1>2, <2>1, <3>2, <3>3, <3>4 DEF TypeOK, Steps
  <2>5. Running' = Running /\ Running \subseteq Requests
    BY <1>1, <2>3 DEF Running, Rest
  <2>6. Ordered'
    <3>1. \A q \in Running : \A l \in Lists : snap'[q][l] # None => snap'[q][l] = snap[q][l]
      BY <2>3, <2>5
    <3> QED
      BY <1>2, <2>1, <2>5, <3>1 DEF IInv, Ordered
  <2>7. Rested'
    <3>1. Empty' = Empty
      BY DEF Empty
    <3>2. pc'[r] \in {"setting", "rendering"} /\ (pc'[r] = "rendering" => at'[r] = 1)
      BY <2>3
    <3> QED
      BY <2>1, <2>3, <3>1, <3>2 DEF IInv, Rested, Rest
  <2>8. Fetched'
    <3> SUFFICES ASSUME NEW q \in Requests, NEW i \in 1 .. Len(Order),
                        \/ pc'[q] = "reading" /\ i < at'[q]
                        \/ pc'[q] = "setting" /\ at'[q] <= i
                 PROVE  snap'[q][Order[i]] # None \/ Order[i] \in missed
      BY <2>1 DEF Fetched
    <3>1. CASE q # r
      BY <2>3, <3>1 DEF IInv, Fetched
    <3>2. CASE q = r
      <4>1. i \in Int /\ at[r] \in Int /\ at[r] + 1 <= i
        BY <2>2, <2>3, <3>2
      <4>2. snap[r][Order[i]] # None \/ Order[i] \in missed
        BY <1>1, <4>1 DEF IInv, Fetched
      <4>3. Order[i] \in Lists /\ Order[i] # List(r)
        BY <2>2, <4>1, Constants
      <4> QED
        BY <2>3, <3>2, <4>2, <4>3
    <3> QED
      BY <3>1, <3>2
  <2>9. Shown'
    <3> SUFFICES ASSUME NEW q \in Requests, NEW i \in 1 .. Len(Order),
                        pc'[q] = "rendering" \/ (pc'[q] = "setting" /\ i < at'[q])
                 PROVE  IF signal'[Order[i]] = None THEN Order[i] \in missed
                        ELSE oldest[q][Order[i]] <= signal'[Order[i]]
      BY <2>1 DEF Shown, Fresh
    <3>1. Order[i] \in Lists
      BY Constants
    <3>2. pc[q] \in {"setting", "rendering"}
      BY <1>1, <2>3
    <3>3. Order[i] = List(r) \/ Fresh(q, Order[i])
      <4>1. CASE q # r
        BY <2>3, <4>1 DEF IInv, Shown
      <4>2. CASE q = r /\ i = at[r]
        BY <4>2 DEF List
      <4>3. CASE q = r /\ i # at[r]
        <5>1. i \in Int /\ at[r] \in Int /\ i <= Len(Order) /\ Len(Order) \in Int
          BY <2>2
        <5>2. i < at[r]
          BY <1>1, <2>3, <4>3, <5>1 DEF IsLast
        <5> QED
          BY <1>1, <4>3, <5>2 DEF IInv, Shown
      <4> QED
        BY <4>1, <4>2, <4>3
    <3> QED
      BY <1>2, <3>1, <3>2, <3>3
  <2> QED
    BY <2>4, <2>6, <2>7, <2>8, <2>9 DEF IInv
<1> QED
  BY <1>3, <1>4

(***************************************************************************)
(* Together.                                                               *)
(***************************************************************************)
LEMMA InvInit == Init => IInv
<1> SUFFICES ASSUME Init PROVE IInv
  OBVIOUS
<1>1. Start \in [Lists -> Versions] /\ Empty \in [Lists -> Versions \cup {None}]
  BY Constants DEF Start, Empty
<1>2. 1 \in 1 .. Len(Order)
  BY Constants
<1>3. TypeOK
  BY <1>1, <1>2 DEF Init, TypeOK, Rest
<1>4. Running = {} /\ \A l \in Lists : signal[l] = None
  BY DEF Init, Running, Rest, Empty
<1>5. Ordered
  BY <1>4 DEF Ordered
<1>6. Rested /\ Fetched /\ Shown
  BY DEF Init, Rested, Fetched, Shown, Rest
<1> QED
  BY <1>3, <1>5, <1>6 DEF IInv

LEMMA InvNext == IInv /\ [Next]_vars => IInv'
<1> SUFFICES ASSUME IInv, [Next]_vars PROVE IInv'
  OBVIOUS
<1>1. ASSUME NEW r \in Requests, Handler(r) PROVE IInv'
  BY <1>1, DeleteRowInv, ReadListInv, SetSignalInv, OverInv DEF Handler
<1>2. ASSUME NEW r \in Requests, NotOwned(r) \/ ReadFails(r) \/ HangUp(r) PROVE IInv'
  BY <1>2, ReadListInv, OverInv
<1>3. ASSUME NEW r \in Requests, NEW k \in Lists \cup {"index"}, Begin(r, k) PROVE IInv'
  BY <1>3, BeginInv
<1>4. ASSUME NEW l \in Lists, ApiEdit(l) PROVE IInv'
  BY <1>4, ApiEditInv
<1>5. CASE Restart
  BY <1>5, RestartInv
<1>6. CASE UNCHANGED vars
  BY <1>6 DEF vars, request, history, IInv, TypeOK, Ordered, Rested, Fetched, Shown, Fresh,
              Running, Empty
<1> QED
  BY <1>1, <1>2, <1>3, <1>4, <1>5, <1>6 DEF Next

LEMMA InvAlways == Spec => []IInv
BY InvInit, InvNext, PTL DEF Spec

\* The versions, the signals and the requests' records stay within their types,
\* for any number of requests (web.rs refresh, index).
THEOREM TypeCorrect == Spec => []TypeOK
<1>1. IInv => TypeOK
  BY DEF IInv
<1> QED
  BY <1>1, InvAlways, PTL

\* However many requests share the signals, a page shows nothing older than the
\* oldest request it ran beside, and an empty list only after a select failed
\* (web.rs refresh, index).
THEOREM StalenessBoundedAlways == Spec => []StalenessBounded
<1>1. IInv => StalenessBounded
  <2> SUFFICES ASSUME IInv, NEW r \in Requests, NEW l \in Lists, pc[r] = "rendering"
               PROVE  IF signal[l] = None THEN l \in missed
                      ELSE oldest[r][l] <= signal[l] /\ signal[l] <= table[l]
    BY DEF StalenessBounded
  <2>1. PICK i \in 1 .. Len(Order) : Order[i] = l
    BY ListsAssumption
  <2>2. Fresh(r, l)
    BY <2>1 DEF IInv, Shown
  <2> QED
    BY <2>2 DEF Fresh, IInv, Ordered
<1> QED
  BY <1>1, InvAlways, PTL
=============================================================================
