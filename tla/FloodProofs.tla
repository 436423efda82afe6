---------------------------- MODULE FloodProofs ----------------------------
(***************************************************************************)
(* Proofs about Flood.tla, for any keys, any limit, any window and any     *)
(* bounds.  The inductive invariant places the log against the window that *)
(* is open: everything up to its first admission is no younger than its    *)
(* start, and everything up to the first admission of the window before    *)
(* is older than its start by a whole window.                              *)
(***************************************************************************)
EXTENDS Flood, TLAPS

\* What a key's entry and its log have to do with each other.
Counted(k) ==
    /\ born[k] = None => Len(log[k]) = 0 /\ opened[k] = 0
    /\ born[k] # None => born[k] <= now
    /\ count[k] <= Attempts => Len(log[k]) = opened[k] + count[k]
    /\ count[k] > Attempts => Len(log[k]) = opened[k] + Attempts

Placed(k) ==
    \A i \in 1 .. Len(log[k]) :
        /\ log[k][i] <= now
        /\ i <= opened[k] + 1 => log[k][i] <= born[k]
        /\ i <= opened[k] + 1 - Attempts => log[k][i] + Window <= born[k]

Spread(k) ==
    \A i, j \in 1 .. Len(log[k]) :
        j - i >= 2 * Attempts - 1 => log[k][j] - log[k][i] >= Window

IInv == TypeOK /\ \A k \in Keys : Counted(k) /\ Placed(k) /\ Spread(k)

\* A call on another key is none of this key's business.
LEMMA OtherKeys ==
    ASSUME IInv, NEW k \in Keys, NEW c \in Keys, c # k, Call(c)
    PROVE  (Counted(k) /\ Placed(k) /\ Spread(k))'
<1>1. /\ now' = now /\ count'[k] = count[k] /\ born'[k] = born[k]
      /\ log'[k] = log[k] /\ opened'[k] = opened[k]
  BY DEF IInv, TypeOK, Call
<1> QED
  BY <1>1 DEF IInv, Counted, Placed, Spread

\* The call's own key: its entry and log after the call.
LEMMA OwnKey ==
    ASSUME IInv, NEW k \in Keys, Call(k)
    PROVE  (Counted(k) /\ Placed(k) /\ Spread(k))'
<1> USE AttemptsAssumption, WindowAssumption, NoneAssumption
<1> DEFINE old == log[k]
           len == Len(old)
<1>0. /\ now \in Nat /\ now' = now /\ count[k] \in Nat /\ opened[k] \in Nat
      /\ old \in Seq(Nat) /\ len \in Nat /\ born[k] \in Nat \cup {None}
      /\ born[k] = None <=> count[k] = 0
  BY DEF Call, IInv, TypeOK
<1>1. /\ count'[k] = Strikes(k)
      /\ born'[k] = IF Opens(k) THEN now ELSE born[k]
      /\ opened'[k] = IF Opens(k) THEN len ELSE opened[k]
      /\ log'[k] = IF Strikes(k) <= Attempts THEN Append(old, now) ELSE old
  BY DEF Call, IInv, TypeOK
<1>2. /\ Len(Append(old, now)) = len + 1
      /\ Append(old, now)[len + 1] = now
      /\ \A i \in 1 .. len : Append(old, now)[i] = old[i] /\ old[i] \in Nat
  <2>1. old \in Seq(Nat) /\ now \in Nat
    BY <1>0
  <2>2. Len(Append(old, now)) = len + 1 /\ Append(old, now)[len + 1] = now
    BY <2>1
  <2>3. \A i \in 1 .. len : Append(old, now)[i] = old[i]
    BY <2>1
  <2>4. \A i \in 1 .. len : old[i] \in Nat
    BY <2>1
  <2> QED
    BY <2>2, <2>3, <2>4
<1>3. Counted(k)
  BY DEF IInv
<1>9. ASSUME NEW i \in 1 .. len
      PROVE  /\ i \in Int /\ 1 <= i /\ i <= len /\ old[i] \in Nat /\ old[i] <= now
             /\ i <= opened[k] + 1 => old[i] <= born[k]
             /\ i <= opened[k] + 1 - Attempts => old[i] + Window <= born[k]
  BY <1>0, <1>2 DEF IInv, Placed
<1>10. ASSUME NEW i \in 1 .. len, NEW j \in 1 .. len, j - i >= 2 * Attempts - 1
       PROVE  old[j] - old[i] >= Window
  <2>1. Spread(k)
    BY DEF IInv
  <2> QED
    BY <1>10, <2>1 DEF Spread
<1>4. ASSUME Opens(k), NEW i \in 1 .. len
      PROVE  /\ old[i] <= now
             /\ i <= opened[k] + 1 => old[i] + Window <= now
             /\ i <= len + 1 - Attempts => old[i] + Window <= now
  <2>1. born[k] \in Nat /\ born[k] + Window <= now
    <3>1. born[k] # None
      BY <1>3 DEF Counted
    <3>2. born[k] \in Nat /\ now \in Nat /\ now - born[k] >= Window
      BY <1>0, <1>4, <3>1 DEF Opens
    <3> QED
      BY <3>2
  <2>2. len <= opened[k] + Attempts
    <3>1. count[k] \in Nat /\ opened[k] \in Nat
      BY <1>0
    <3> QED
      BY <1>3, <3>1 DEF Counted
  <2>3. /\ old[i] \in Nat /\ old[i] <= now /\ i \in Int
        /\ i <= opened[k] + 1 => old[i] <= born[k]
    BY <1>9
  <2>4. len \in Nat /\ opened[k] \in Nat /\ now \in Nat
    BY <1>0
  <2>5. i <= len + 1 - Attempts => i <= opened[k] + 1
    BY <2>2, <2>3, <2>4
  <2>6. i <= opened[k] + 1 => old[i] + Window <= now
    BY <2>1, <2>3, <2>4
  <2> QED
    BY <2>3, <2>5, <2>6
<1>5. CASE Opens(k) /\ 1 <= Attempts
  <2>1. /\ count'[k] = 1 /\ born'[k] = now /\ opened'[k] = len
        /\ log'[k] = Append(old, now)
    BY <1>1, <1>5 DEF Strikes
  <2>2. Len(log'[k]) = len + 1
    BY <1>2, <2>1
  <2>3. Counted(k)'
    BY <1>0, <1>5, <2>1, <2>2 DEF Counted
  <2>4. Placed(k)'
    <3> SUFFICES ASSUME NEW i \in 1 .. len + 1
                 PROVE  /\ log'[k][i] <= now
                        /\ i <= len + 1 - Attempts => log'[k][i] + Window <= now
      BY <1>0, <2>1, <2>2 DEF Placed
    <3>1. CASE i \in 1 .. len
      <4>1. log'[k][i] = old[i]
        BY <1>2, <2>1, <3>1
      <4> QED
        BY <1>4, <1>5, <3>1, <4>1
    <3>2. CASE i = len + 1
      <4>1. log'[k][i] = now
        BY <1>2, <2>1, <3>2
      <4> QED
        BY <1>0, <1>5, <3>2, <4>1
    <3>3. i \in 1 .. len \/ i = len + 1
      BY <1>0
    <3> QED
      BY <3>1, <3>2, <3>3
  <2>5. Spread(k)'
    <3> SUFFICES ASSUME NEW i \in 1 .. len + 1, NEW j \in 1 .. len + 1,
                        j - i >= 2 * Attempts - 1
                 PROVE  log'[k][j] - log'[k][i] >= Window
      BY <2>2 DEF Spread
    <3>1. i \in 1 .. len /\ log'[k][i] = old[i]
      BY <1>0, <1>2, <1>5, <2>1
    <3>2. CASE j = len + 1
      <4>1. len <= opened[k] + Attempts
        BY <1>0, <1>3 DEF Counted
      <4>2. i <= opened[k] + 1
        BY <1>0, <1>5, <3>1, <3>2, <4>1
      <4>3. old[i] + Window <= now /\ old[i] \in Nat
        BY <1>4, <1>5, <1>9, <3>1, <4>2
      <4>4. log'[k][j] = now
        BY <1>2, <2>1, <3>2
      <4>5. now - old[i] >= Window
        BY <1>0, <4>3
      <4> QED
        BY <3>1, <4>4, <4>5
    <3>3. CASE j # len + 1
      <4>1. j \in 1 .. len
        BY <1>0, <3>3
      <4>2. log'[k][j] = old[j]
        BY <1>2, <2>1, <4>1
      <4> QED
        BY <1>10, <3>1, <4>1, <4>2
    <3> QED
      BY <3>2, <3>3
  <2> QED
    BY <2>3, <2>4, <2>5
<1>6. CASE Opens(k) /\ Attempts = 0
  <2>1. /\ count'[k] = 1 /\ born'[k] = now /\ opened'[k] = len /\ log'[k] = old
    BY <1>1, <1>6 DEF Strikes
  <2>2. Counted(k)'
    BY <1>0, <1>3, <1>6, <2>1 DEF Counted
  <2>3. Placed(k)'
    <3> SUFFICES ASSUME NEW i \in 1 .. len
                 PROVE  old[i] <= now /\ old[i] + Window <= now
      BY <1>0, <1>6, <1>9, <2>1 DEF Placed
    <3>1. i <= len + 1 - Attempts
      BY <1>0, <1>6
    <3> QED
      BY <1>4, <1>6, <3>1
  <2>4. Spread(k)'
    BY <1>10, <2>1 DEF Spread
  <2> QED
    BY <2>2, <2>3, <2>4
<1>7. CASE ~Opens(k) /\ count[k] + 1 <= Attempts
  <2>1. /\ count'[k] = count[k] + 1 /\ born'[k] = born[k] /\ opened'[k] = opened[k]
        /\ log'[k] = Append(old, now)
    BY <1>1, <1>7 DEF Strikes
  <2>2. Len(log'[k]) = len + 1
    BY <1>2, <2>1
  <2>3. born[k] \in Nat /\ born[k] <= now
    BY <1>0, <1>3, <1>7 DEF Opens, Counted
  <2>4. len = opened[k] + count[k] /\ 1 <= count[k]
    <3>1. count[k] \in Nat /\ count[k] # 0 /\ count[k] <= Attempts
      BY <1>0, <1>7, <2>3
    <3>2. len = opened[k] + count[k]
      BY <1>3, <3>1 DEF Counted
    <3> QED
      BY <3>1, <3>2
  <2>5. Counted(k)'
    <3>1. count[k] \in Nat /\ opened[k] \in Nat /\ now' = now
      BY <1>0
    <3>2. born'[k] # None /\ born'[k] <= now'
      BY <2>1, <2>3, <3>1
    <3>3. count'[k] <= Attempts /\ ~(count'[k] > Attempts)
      BY <1>7, <2>1, <3>1
    <3>4. Len(log'[k]) = opened'[k] + count'[k]
      BY <2>1, <2>2, <2>4, <3>1
    <3> QED
      BY <3>2, <3>3, <3>4 DEF Counted
  <2>6. Placed(k)'
    <3> SUFFICES ASSUME NEW i \in 1 .. len + 1
                 PROVE  /\ log'[k][i] <= now
                        /\ i <= opened[k] + 1 => log'[k][i] <= born[k]
                        /\ i <= opened[k] + 1 - Attempts =>
                              log'[k][i] + Window <= born[k]
      BY <1>0, <2>1, <2>2 DEF Placed
    <3>1. CASE i \in 1 .. len
      <4>1. log'[k][i] = old[i]
        BY <1>2, <2>1, <3>1
      <4> QED
        BY <1>9, <3>1, <4>1
    <3>2. CASE i = len + 1
      <4>1. log'[k][i] = now
        BY <1>2, <2>1, <3>2
      <4>2. ~(i <= opened[k] + 1) /\ ~(i <= opened[k] + 1 - Attempts)
        <5>1. count[k] \in Nat /\ opened[k] \in Nat
          BY <1>0
        <5> QED
          BY <2>4, <3>2, <5>1
      <4>3. now <= now
        BY <1>0
      <4> QED
        BY <4>1, <4>2, <4>3
    <3>3. i \in 1 .. len \/ i = len + 1
      BY <1>0
    <3> QED
      BY <3>1, <3>2, <3>3
  <2>7. Spread(k)'
    <3> SUFFICES ASSUME NEW i \in 1 .. len + 1, NEW j \in 1 .. len + 1,
                        j - i >= 2 * Attempts - 1
                 PROVE  log'[k][j] - log'[k][i] >= Window
      BY <2>2 DEF Spread
    <3>1. i \in 1 .. len /\ log'[k][i] = old[i]
      BY <1>0, <1>2, <1>7, <2>1
    <3>2. CASE j = len + 1
      <4>1. i <= opened[k] + 1 - Attempts
        <5>1. i \in Int /\ j = opened[k] + count[k] + 1
          BY <1>9, <2>4, <3>1, <3>2
        <5>2. count[k] \in Nat /\ opened[k] \in Nat /\ j \in Int
          BY <1>0, <5>1
        <5>3. j <= opened[k] + Attempts
          <6>1. count[k] + 1 <= Attempts
            BY <1>7
          <6>2. opened[k] + (count[k] + 1) <= opened[k] + Attempts
            BY <5>2, <6>1
          <6>3. j = opened[k] + (count[k] + 1)
            BY <5>1, <5>2
          <6> QED
            BY <6>2, <6>3
        <5>4. i <= j + 1 - 2 * Attempts
          BY <5>1, <5>2
        <5>5. j + 1 - 2 * Attempts <= opened[k] + 1 - Attempts
          BY <5>2, <5>3
        <5>6. /\ j + 1 - 2 * Attempts \in Int
              /\ opened[k] + 1 - Attempts \in Int
          BY <5>2
        <5> QED
          BY <5>1, <5>4, <5>5, <5>6
      <4>2. old[i] + Window <= born[k] /\ old[i] \in Nat
        BY <1>9, <3>1, <4>1
      <4>3. log'[k][j] = now
        BY <1>2, <2>1, <3>2
      <4>4. now \in Nat
        BY <1>0
      <4>5. now - old[i] >= Window
        BY <2>3, <4>2, <4>4
      <4> QED
        BY <3>1, <4>3, <4>5
    <3>3. CASE j # len + 1
      <4>1. j \in 1 .. len
        BY <1>0, <3>3
      <4>2. log'[k][j] = old[j]
        BY <1>2, <2>1, <4>1
      <4> QED
        BY <1>10, <3>1, <4>1, <4>2
    <3> QED
      BY <3>2, <3>3
  <2> QED
    BY <2>5, <2>6, <2>7
<1>8. CASE ~Opens(k) /\ count[k] + 1 > Attempts
  <2>1. /\ count'[k] = count[k] + 1 /\ born'[k] = born[k] /\ opened'[k] = opened[k]
        /\ log'[k] = old
    BY <1>0, <1>1, <1>8 DEF Strikes
  <2>2. Counted(k)'
    BY <1>0, <1>3, <1>8, <2>1 DEF Counted
  <2>3. Placed(k)' /\ Spread(k)'
    BY <1>0, <1>9, <1>10, <2>1 DEF Placed, Spread
  <2> QED
    BY <2>2, <2>3
<1> QED
  BY <1>0, <1>5, <1>6, <1>7, <1>8

\* The types survive a call.
LEMMA CallType ==
    ASSUME IInv, NEW k \in Keys, Call(k)
    PROVE  TypeOK'
<1>1. Strikes(k) \in Nat /\ Strikes(k) # 0
  BY DEF IInv, TypeOK, Strikes
<1>2. Append(log[k], now) \in Seq(Nat) /\ Len(log[k]) \in Nat
  BY DEF IInv, TypeOK
<1> QED
  BY <1>1, <1>2, NoneAssumption DEF IInv, TypeOK, Call, Opens

\* Every step preserves the invariant.
LEMMA InvStep == IInv /\ [Next]_vars => IInv'
<1> SUFFICES ASSUME IInv, [Next]_vars PROVE IInv'
  OBVIOUS
<1>1. ASSUME NEW k \in Keys, Call(k) PROVE IInv'
  BY <1>1, OtherKeys, OwnKey, CallType DEF IInv
<1>2. CASE Restart
  BY <1>2, AttemptsAssumption DEF Restart, IInv, TypeOK, Counted, Placed, Spread
<1>3. CASE Tick
  <2>1. now' \in Nat /\ now <= now'
    BY <1>3 DEF Tick, IInv, TypeOK
  <2>2. UNCHANGED <<count, born, log, opened>>
    BY <1>3 DEF Tick
  <2>3. ASSUME NEW k \in Keys PROVE (Counted(k) /\ Placed(k) /\ Spread(k))'
    <3>1. \A i \in 1 .. Len(log[k]) : log[k][i] \in Nat
      BY DEF IInv, TypeOK
    <3>2. born[k] # None => born[k] \in Nat
      BY DEF IInv, TypeOK
    <3> QED
      BY <2>1, <2>2, <3>1, <3>2 DEF IInv, TypeOK, Counted, Placed, Spread
  <2> QED
    BY <2>1, <2>2, <2>3 DEF IInv, TypeOK
<1>4. CASE UNCHANGED vars
  BY <1>4 DEF vars, IInv, TypeOK, Counted, Placed, Spread
<1> QED
  BY <1>1, <1>2, <1>3, <1>4 DEF Next

\* The invariant holds in every reachable state.
THEOREM Invariance == Spec => []IInv
<1>1. Init => IInv
  BY AttemptsAssumption, NoneAssumption DEF Init, IInv, TypeOK, Counted, Placed, Spread
<1> QED
  BY <1>1, InvStep, PTL DEF Spec

\* For any limit and window, no interval as long as the window sees 2 * Attempts
\* or more admissions of one key.
THEOREM ThrottledAlways == Spec => []Throttled
<1>1. IInv => Throttled
  <2> SUFFICES ASSUME IInv, NEW k \in Keys PROVE DOMAIN log[k] = 1 .. Len(log[k])
    BY DEF IInv, Spread, Throttled
  <2>1. log[k] \in Seq(Nat)
    BY DEF IInv, TypeOK
  <2> QED
    BY <2>1
<1> QED
  BY <1>1, Invariance, PTL

\* The types of the map's entries and of the history, for any number of calls.
THEOREM TypeCorrect == Spec => []TypeOK
<1>1. IInv => TypeOK
  BY DEF IInv
<1> QED
  BY <1>1, Invariance, PTL

\* With a limit above zero the window that is open began with an admission.
First(k) ==
    born[k] # None /\ Attempts > 0 =>
        opened[k] < Len(log[k]) /\ log[k][opened[k] + 1] = born[k]

\* What a call does to its own key's entry and log.
LEMMA CallEffect ==
    ASSUME TypeOK, NEW k \in Keys, Call(k)
    PROVE  /\ now \in Nat /\ count[k] \in Nat /\ opened[k] \in Nat /\ Len(log[k]) \in Nat
           /\ count'[k] = Strikes(k)
           /\ born'[k] = IF Opens(k) THEN now ELSE born[k]
           /\ opened'[k] = IF Opens(k) THEN Len(log[k]) ELSE opened[k]
           /\ log'[k] = IF Strikes(k) <= Attempts THEN Append(log[k], now) ELSE log[k]
           /\ Len(Append(log[k], now)) = Len(log[k]) + 1
           /\ Append(log[k], now)[Len(log[k]) + 1] = now
           /\ \A i \in 1 .. Len(log[k]) : Append(log[k], now)[i] = log[k][i]
<1>1. now \in Nat /\ count[k] \in Nat /\ opened[k] \in Nat /\ log[k] \in Seq(Nat)
  BY DEF TypeOK
<1>2. /\ Len(Append(log[k], now)) = Len(log[k]) + 1
      /\ Append(log[k], now)[Len(log[k]) + 1] = now
      /\ \A i \in 1 .. Len(log[k]) : Append(log[k], now)[i] = log[k][i]
  BY <1>1
<1>3. /\ count'[k] = Strikes(k)
      /\ born'[k] = IF Opens(k) THEN now ELSE born[k]
      /\ opened'[k] = IF Opens(k) THEN Len(log[k]) ELSE opened[k]
      /\ log'[k] = IF Strikes(k) <= Attempts THEN Append(log[k], now) ELSE log[k]
  BY DEF Call, TypeOK
<1>4. Len(log[k]) \in Nat
  BY <1>1
<1> QED
  BY <1>1, <1>2, <1>3, <1>4

\* It stays that way.
LEMMA FirstStep ==
    ASSUME IInv, [Next]_vars, NEW k \in Keys, First(k)
    PROVE  First(k)'
<1> USE AttemptsAssumption, NoneAssumption
<1>1. CASE Call(k)
  <2>1. TypeOK
    BY DEF IInv
  <2>2. CASE Opens(k) /\ Attempts > 0
    <3>1. Strikes(k) <= Attempts
      BY <2>2 DEF Strikes
    <3>2. /\ opened'[k] = Len(log[k]) /\ born'[k] = now /\ log'[k] = Append(log[k], now)
          /\ Len(log[k]) \in Nat
      BY <1>1, <2>1, <2>2, <3>1, CallEffect
    <3>3. Len(log'[k]) = Len(log[k]) + 1 /\ log'[k][Len(log[k]) + 1] = now
      BY <1>1, <2>1, <3>2, CallEffect
    <3>4. opened'[k] < Len(log'[k])
      BY <3>2, <3>3
    <3> QED
      BY <3>2, <3>3, <3>4 DEF First
  <2>3. CASE ~Opens(k) /\ Attempts > 0
    <3>1. born[k] # None /\ born'[k] = born[k] /\ opened'[k] = opened[k]
      BY <1>1, <2>1, <2>3, CallEffect DEF Opens
    <3>2. /\ opened[k] \in Nat /\ Len(log[k]) \in Nat
          /\ opened[k] < Len(log[k]) /\ log[k][opened[k] + 1] = born[k]
      BY <1>1, <2>1, <2>3, <3>1, CallEffect DEF First
    <3>3. Len(log'[k]) >= Len(log[k]) /\ log'[k][opened[k] + 1] = log[k][opened[k] + 1]
      <4>1. opened[k] + 1 \in 1 .. Len(log[k])
        BY <3>2
      <4>2. log'[k] = log[k] \/ log'[k] = Append(log[k], now)
        BY <1>1, <2>1, CallEffect
      <4>3. CASE log'[k] = log[k]
        BY <3>2, <4>3
      <4>4. CASE log'[k] = Append(log[k], now)
        <5>1. Len(log'[k]) = Len(log[k]) + 1
          BY <1>1, <2>1, <4>4, CallEffect
        <5>2. log'[k][opened[k] + 1] = log[k][opened[k] + 1]
          BY <1>1, <2>1, <4>1, <4>4, CallEffect
        <5> QED
          BY <3>2, <5>1, <5>2
      <4> QED
        BY <4>2, <4>3, <4>4
    <3>4. Len(log'[k]) \in Nat
      <4>1. TypeOK'
        BY InvStep DEF IInv
      <4> QED
        BY <4>1 DEF TypeOK
    <3> QED
      BY <3>1, <3>2, <3>3, <3>4 DEF First
  <2>4. CASE ~(Attempts > 0)
    BY <2>4 DEF First
  <2> QED
    BY <2>2, <2>3, <2>4
<1>2. ASSUME NEW c \in Keys, c # k, Call(c) PROVE First(k)'
  <2>1. born'[k] = born[k] /\ log'[k] = log[k] /\ opened'[k] = opened[k]
    BY <1>2 DEF IInv, TypeOK, Call
  <2> QED
    BY <2>1 DEF First
<1>3. CASE Restart
  BY <1>3 DEF Restart, First
<1>4. CASE Tick \/ UNCHANGED vars
  BY <1>4 DEF Tick, vars, First
<1> QED
  BY <1>1, <1>2, <1>3, <1>4 DEF Next

\* A step that counts a call and admits nothing is a refusal, and the admission
\* Attempts back opened the window that is not over yet.
LEMMA RefusalHasCause ==
    ASSUME IInv, NEW k \in Keys, First(k), [Next]_vars,
           count'[k] > count[k], log' = log, Attempts > 0
    PROVE  /\ Len(log[k]) >= Attempts
           /\ now - log[k][Len(log[k]) - Attempts + 1] < Window
<1> USE AttemptsAssumption, WindowAssumption, NoneAssumption
<1>0. TypeOK /\ Counted(k)
  BY DEF IInv
<1>1. Call(k)
  <2>1. count[k] \in Nat /\ ~(count[k] > count[k]) /\ ~(0 > count[k])
    BY <1>0 DEF TypeOK
  <2>2. ASSUME NEW c \in Keys, c # k, Call(c) PROVE FALSE
    <3>1. count'[k] = count[k]
      BY <1>0, <2>2 DEF TypeOK, Call
    <3> QED
      BY <2>1, <3>1
  <2>3. ~Restart
    <3>1. Restart => count'[k] = 0
      BY DEF Restart
    <3> QED
      BY <2>1, <3>1
  <2>4. ~Tick /\ ~UNCHANGED vars
    <3>1. Tick \/ UNCHANGED vars => count'[k] = count[k]
      BY DEF Tick, vars
    <3> QED
      BY <2>1, <3>1
  <2> QED
    BY <2>2, <2>3, <2>4 DEF Next
<1>2. ~(Strikes(k) <= Attempts)
  <2>1. SUFFICES ASSUME Strikes(k) <= Attempts PROVE FALSE
    OBVIOUS
  <2>2. log'[k] = Append(log[k], now)
    BY <1>0, <1>1, <2>1, CallEffect
  <2>3. Len(log[k]) = Len(log[k]) + 1 /\ Len(log[k]) \in Nat
    BY <1>0, <1>1, <2>2, CallEffect
  <2> QED
    BY <2>3
<1>3. ~Opens(k)
  BY <1>2 DEF Strikes
<1>4. /\ count[k] \in Nat /\ opened[k] \in Nat /\ Len(log[k]) \in Nat
      /\ count[k] >= Attempts
  BY <1>0, <1>1, <1>2, <1>3, CallEffect DEF Strikes
<1>5. Len(log[k]) = opened[k] + Attempts
  BY <1>0, <1>4 DEF Counted
<1>6. born[k] # None /\ now - born[k] < Window
  <2>1. born[k] # None /\ ~(now - born[k] >= Window)
    BY <1>3 DEF Opens
  <2>2. born[k] \in Nat /\ now \in Nat
    BY <1>0, <2>1 DEF TypeOK
  <2> QED
    BY <2>1, <2>2
<1>7. log[k][opened[k] + 1] = born[k]
  BY <1>6 DEF First
<1>8. Len(log[k]) - Attempts + 1 = opened[k] + 1
  BY <1>4, <1>5
<1> QED
  BY <1>4, <1>5, <1>6, <1>7, <1>8

\* For any limit and window, nobody is locked out by refused calls: a refusal
\* comes only while the last Attempts admissions are all younger than the window
\* (ctx.rs admit).
THEOREM RefusedForCauseAlways == Spec => RefusedForCause
<1> DEFINE Firsts == \A k \in Keys : First(k)
<1>1. Init => Firsts
  BY DEF Init, First
<1>2. IInv /\ Firsts /\ [Next]_vars => Firsts'
  BY FirstStep
<1>3. IInv /\ Firsts /\ [Next]_vars =>
          [\A k \in Keys :
              count'[k] > count[k] /\ log' = log /\ Attempts > 0 =>
                  /\ Len(log[k]) >= Attempts
                  /\ now - log[k][Len(log[k]) - Attempts + 1] < Window]_vars
  BY RefusalHasCause
<1> HIDE DEF Firsts
<1> QED
  BY <1>1, <1>2, <1>3, Invariance, PTL DEF Spec, RefusedForCause
=============================================================================
