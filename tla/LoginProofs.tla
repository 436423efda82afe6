---------------------------- MODULE LoginProofs ----------------------------
(***************************************************************************)
(* Proofs about Login.tla, for any clients and secrets, any lifetime of a  *)
(* half-finished login, and any number of handshakes and registrations.    *)
(***************************************************************************)
EXTENDS Login, TLAPS

(***************************************************************************)
(* The inductive invariant.                                                *)
(***************************************************************************)

\* What a client has unwrapped, and would wrap anew, is the vault secret.
Unwrapped == \A c \in Clients : secret[c] # None => secret[c] = "real"

\* The map holds handshakes as they were begun, which are those up to ids.
Begun ==
    \A i \in Ids :
        /\ begun[i] # None <=> i <= ids
        /\ begun[i] # None => begun[i].at <= begun[i].born /\ begun[i].born <= now
        /\ pend[i] # None =>
              begun[i] # None /\ pend[i] = [reg |-> begun[i].reg, born |-> begun[i].born]

\* What is granted has been taken out of the map, and is not begun again.
Spent == \A i \in Ids : grants[i] > 0 => pend[i] = None /\ i <= ids

\* A registration that was read at some time is in force, or was replaced since.
Since(g, t) ==
    \/ g = record
    \/ retired[g] # None /\ t <= retired[g]

\* So it is with what a handshake was begun under, and with what a login_start
\* has read and will begin one under.
Replaced ==
    /\ \A i \in Ids : begun[i] # None => Since(begun[i].reg, begun[i].at)
    /\ \A c \in Clients : read[c] # None => Since(read[c].reg, read[c].at) /\ read[c].at <= now

IInv ==
    /\ TypeOK /\ Unwrapped /\ Begun /\ Spent /\ Replaced
    /\ WrapMatchesRecord /\ SecretsReadable /\ GrantedOnce

\* The initial states satisfy it.
LEMMA InvInit == Init => IInv
BY BoundsAssumption, NoneAssumption
DEF Init, IInv, TypeOK, Unwrapped, Begun, Spent, Replaced, WrapMatchesRecord,
    SecretsReadable, GrantedOnce, Ids, Regs, VaultSecrets, Handshakes

\* Ending a command leaves a client with nothing.
LEMMA OverType ==
    ASSUME TypeOK, NEW c \in Clients, Over(c),
           UNCHANGED <<now, record, wrap, data, posted, ids, regs, begun, retired>>,
           pend' \in [Ids -> Handshakes \cup {None}], grants' \in [Ids -> 0 .. 2]
    PROVE  TypeOK'
BY DEF TypeOK, Over

\* What the server knows of handshakes is kept by every step that leaves it
\* and the record alone, and begins no login.
LEMMA ServerFrame ==
    ASSUME IInv, UNCHANGED <<now, record, pend, ids, history>>,
           \A c \in Clients : read'[c] \in {read[c], None}
    PROVE  (Begun /\ Spent /\ Replaced /\ GrantedOnce)'
BY DEF IInv, history, Begun, Spent, Replaced, Since, GrantedOnce

\* LoginRead preserves it: what is read is in force.
LEMMA LoginReadInv ==
    ASSUME IInv, NEW c \in Clients, LoginRead(c)
    PROVE  IInv'
<1> USE DEF IInv, LoginRead, server, history
<1> DEFINE q == [reg |-> record, at |-> now]
<1>1. q \in Readings /\ q # None
  BY NoneAssumption DEF TypeOK, Readings
<1>2. TypeOK'
  BY <1>1 DEF TypeOK
<1>3. Begun' /\ Spent' /\ GrantedOnce'
  BY DEF Begun, Spent, GrantedOnce
<1>4. Replaced'
  <2>1. read'[c] = q /\ \A d \in Clients : d # c => read'[d] = read[d]
    BY DEF TypeOK
  <2>2. q.reg = record /\ q.at = now
    OBVIOUS
  <2>3. ASSUME NEW d \in Clients, read'[d] # None
        PROVE  Since(read'[d].reg, read'[d].at) /\ read'[d].at <= now
    <3>1. CASE d = c
      <4>1. read'[d].reg = record /\ read'[d].at = now
        BY <2>1, <2>2, <3>1
      <4>2. now \in Nat
        BY DEF TypeOK
      <4> QED
        BY <4>1, <4>2 DEF Since
    <3>2. CASE d # c
      BY <2>1, <2>3, <3>2 DEF Replaced, Since
    <3> QED
      BY <3>1, <3>2
  <2> HIDE DEF q
  <2> QED
    BY <2>3 DEF Replaced, Since
<1>5. Unwrapped' /\ WrapMatchesRecord' /\ SecretsReadable'
  BY DEF Unwrapped, WrapMatchesRecord, SecretsReadable
<1> QED
  BY <1>2, <1>3, <1>4, <1>5

\* LoginStart preserves it: the handshake inherits what was read.
LEMMA LoginStartInv ==
    ASSUME IInv, NEW c \in Clients, LoginStart(c)
    PROVE  IInv'
<1> USE DEF IInv, LoginStart, server
<1> DEFINE p == [reg |-> read[c].reg, born |-> now]
           h == [reg |-> read[c].reg, at |-> read[c].at, born |-> now]
<1>1. /\ read[c] # None /\ read[c] \in Readings
      /\ read[c].reg \in Regs /\ read[c].at \in 0 .. MaxTime
      /\ read[c].at <= now /\ Since(read[c].reg, read[c].at)
  BY DEF TypeOK, Replaced, Readings
<1>2. /\ ids' = ids + 1 /\ ids' \in Ids /\ ids \in Nat
      /\ p \in Handshakes /\ p # None /\ h \in Births /\ h # None
  BY <1>1, BoundsAssumption, NoneAssumption DEF TypeOK, Ids, Handshakes, Births
<1>3. /\ begun' = [begun EXCEPT ![ids'] = h] /\ begun'[ids'] = h
      /\ \A i \in Ids : i # ids' => begun'[i] = begun[i]
  BY <1>2 DEF TypeOK
<1>4. /\ pend' \in [Ids -> Handshakes \cup {None}]
      /\ pend'[ids'] = p
      /\ \A i \in Ids : i # ids' /\ pend'[i] # None => pend'[i] = pend[i]
  BY <1>2 DEF TypeOK, PendingInsert
<1>5. /\ \A d \in Clients : read'[d] \in {read[d], None}
      /\ \A d \in Clients : secret'[d] \in {secret[d], None}
  BY DEF TypeOK, Proves, Over
<1> HIDE DEF p, h
<1>6. TypeOK'
  <2>1. ids' # None /\ ids' \in 0 .. MaxIds /\ read[c].reg # None
    BY <1>1, <1>2, NoneAssumption, BoundsAssumption DEF TypeOK, Regs, Ids
  <2>2. begun' \in [Ids -> Births \cup {None}]
    BY <1>2, <1>3 DEF TypeOK
  <2>3. CASE Over(c) /\ UNCHANGED posted
    BY <1>4, <2>1, <2>2, <2>3 DEF TypeOK, Over
  <2>4. CASE Proves(c, ids')
    BY <1>1, <1>2, <1>4, <2>1, <2>2, <2>4 DEF TypeOK, Proves
  <2> QED
    BY <2>3, <2>4
<1>7. Begun'
  BY <1>1, <1>2, <1>3, <1>4 DEF TypeOK, Begun, Ids, Handshakes, p, h
<1>8. Spent' /\ GrantedOnce'
  BY <1>2, <1>4 DEF TypeOK, Spent, GrantedOnce, Ids
<1>9. Replaced'
  BY <1>1, <1>3, <1>5 DEF Replaced, Since, h
<1>10. Unwrapped' /\ WrapMatchesRecord' /\ SecretsReadable'
  BY <1>5 DEF Unwrapped, WrapMatchesRecord, SecretsReadable
<1> QED
  BY <1>6, <1>7, <1>8, <1>9, <1>10

\* LoginFinish preserves it.
LEMMA LoginFinishInv ==
    ASSUME IInv, NEW i \in Ids, LoginFinish(i)
    PROVE  IInv'
<1> USE DEF IInv, LoginFinish, server
<1>1. /\ pend' \in [Ids -> Handshakes \cup {None}] /\ pend'[i] = None
      /\ \A j \in Ids : j # i => pend'[j] = pend[j]
  BY DEF TypeOK, Taken
<1>2. /\ grants' \in [Ids -> 0 .. 2]
      /\ \A j \in Ids : j # i => grants'[j] = grants[j]
      /\ grants'[i] \in {grants[i], grants[i] + 1}
      /\ grants'[i] # grants[i] => pend[i] # None
  BY DEF TypeOK, Granted
<1>3. TypeOK'
  <2>1. CASE UNCHANGED client
    BY <1>1, <1>2, <2>1 DEF TypeOK, client
  <2>2. ASSUME NEW c \in Clients, pc[c] = "proving", Over(c)
        PROVE  TypeOK'
    BY <1>1, <1>2, <2>2, OverType
  <2>3. ASSUME NEW c \in Clients, pc[c] = "proving", pc' = [pc EXCEPT ![c] = "granted"],
               UNCHANGED <<read, id, key, secret, fresh>>
        PROVE  TypeOK'
    BY <1>1, <1>2, <2>3 DEF TypeOK
  <2> QED
    BY <2>1, <2>2, <2>3
<1>4. Unwrapped'
  BY DEF Unwrapped, TypeOK, Over, client
<1>5. Begun' /\ Replaced'
  <2>1. \A c \in Clients : read'[c] \in {read[c], None}
    BY DEF TypeOK, Over, client
  <2> QED
    BY <1>1, <2>1 DEF Begun, Replaced, Since
<1>6. Spent' /\ GrantedOnce'
  BY <1>1, <1>2 DEF TypeOK, Begun, Spent, GrantedOnce, Ids
<1>7. WrapMatchesRecord' /\ SecretsReadable'
  BY DEF WrapMatchesRecord, SecretsReadable
<1> QED
  BY <1>3, <1>4, <1>5, <1>6, <1>7

\* The end of a command preserves it.
LEMMA GiveUpInv ==
    ASSUME IInv, NEW c \in Clients, Over(c),
           UNCHANGED <<now, server, pend, posted, ids, regs, history>>
    PROVE  IInv'
<1>1. TypeOK'
  BY OverType DEF IInv, TypeOK, server, history
<1>2. Unwrapped' /\ WrapMatchesRecord' /\ SecretsReadable'
  BY DEF IInv, TypeOK, Over, server, Unwrapped, WrapMatchesRecord, SecretsReadable
<1> QED
  <2>1. \A d \in Clients : read'[d] \in {read[d], None}
    BY DEF IInv, TypeOK, Over
  <2> QED
    BY <1>1, <1>2, <2>1, ServerFrame DEF IInv, server

\* FetchVault preserves it.
LEMMA FetchVaultInv ==
    ASSUME IInv, NEW c \in Clients, FetchVault(c)
    PROVE  IInv'
<1>1. CASE wrap.key # key[c]
  BY <1>1, GiveUpInv DEF FetchVault
<1>2. CASE wrap.key = key[c]
  <2>1. TypeOK'
    BY <1>2, NoneAssumption DEF IInv, TypeOK, FetchVault, server, history
  <2>2. Unwrapped' /\ WrapMatchesRecord' /\ SecretsReadable'
    BY <1>2 DEF IInv, TypeOK, FetchVault, server, Unwrapped, WrapMatchesRecord,
                SecretsReadable
  <2> QED
    BY <1>2, <2>1, <2>2, ServerFrame DEF IInv, FetchVault, server
<1> QED
  BY <1>1, <1>2

\* PutSecret and DeleteSecret preserve it.
LEMMA SecretsInv ==
    ASSUME IInv, NEW n \in Names, (\E c \in Clients : PutSecret(c, n)) \/ DeleteSecret(n)
    PROVE  IInv'
<1>1. ASSUME NEW c \in Clients, PutSecret(c, n) PROVE IInv'
  <2>1. secret[c] = "real" /\ "real" \in VaultSecrets
    BY <1>1, NoneAssumption DEF IInv, TypeOK, Unwrapped, PutSecret, VaultSecrets
  <2>2. TypeOK'
    BY <1>1, <2>1 DEF IInv, TypeOK, PutSecret, Over, history
  <2>3. Unwrapped' /\ WrapMatchesRecord' /\ SecretsReadable'
    BY <1>1, <2>1 DEF IInv, TypeOK, PutSecret, Over, Unwrapped, WrapMatchesRecord,
                      SecretsReadable
  <2>4. \A d \in Clients : read'[d] \in {read[d], None}
    BY <1>1 DEF IInv, TypeOK, PutSecret, Over
  <2> QED
    BY <1>1, <2>2, <2>3, <2>4, ServerFrame DEF IInv, PutSecret
<1>2. CASE DeleteSecret(n)
  <2>1. TypeOK'
    BY <1>2 DEF IInv, TypeOK, DeleteSecret, client, history
  <2>2. Unwrapped' /\ WrapMatchesRecord' /\ SecretsReadable'
    BY <1>2 DEF IInv, TypeOK, DeleteSecret, client, Unwrapped, WrapMatchesRecord,
                SecretsReadable
  <2> QED
    BY <1>2, <2>1, <2>2, ServerFrame DEF IInv, DeleteSecret, client
<1> QED
  BY <1>1, <1>2

\* RekeyStart preserves it.
LEMMA RekeyStartInv ==
    ASSUME IInv, NEW c \in Clients, RekeyStart(c)
    PROVE  IInv'
<1>1. regs' \in Regs /\ regs' # None
  BY BoundsAssumption, NoneAssumption DEF IInv, TypeOK, RekeyStart, Regs
<1>2. TypeOK'
  BY <1>1 DEF IInv, TypeOK, RekeyStart, server, history
<1>3. Unwrapped' /\ WrapMatchesRecord' /\ SecretsReadable'
  BY DEF IInv, RekeyStart, server, Unwrapped, WrapMatchesRecord, SecretsReadable
<1> QED
  BY <1>2, <1>3, ServerFrame DEF IInv, RekeyStart, server

\* RekeyFinish preserves it: the record it replaces is retired now.
LEMMA RekeyFinishInv ==
    ASSUME IInv, NEW c \in Clients, RekeyFinish(c)
    PROVE  IInv'
<1> USE DEF IInv, RekeyFinish
<1>1. fresh[c] \in Regs /\ secret[c] = "real" /\ "real" \in VaultSecrets
  BY DEF TypeOK, Unwrapped, VaultSecrets
<1>2. wrap' = [key |-> fresh[c], secret |-> "real"]
  BY <1>1
<1>3. TypeOK'
  BY <1>1, <1>2 DEF TypeOK, Over
<1>4. Unwrapped'
  BY DEF TypeOK, Unwrapped, Over
<1>5. WrapMatchesRecord' /\ SecretsReadable'
  BY <1>2 DEF WrapMatchesRecord, SecretsReadable
<1>6. Begun' /\ Spent' /\ GrantedOnce'
  BY DEF Begun, Spent, GrantedOnce
<1>7. Replaced'
  <2>1. ASSUME NEW g \in Regs, NEW t \in Nat, t <= now, Since(g, t)
        PROVE  Since(g, t)'
    BY <2>1, NoneAssumption DEF TypeOK, Since
  <2>2. ASSUME NEW i \in Ids, begun[i] # None
        PROVE  Since(begun[i].reg, begun[i].at)'
    <3>1. begun[i].reg \in Regs /\ begun[i].at \in Nat /\ begun[i].at <= now
      BY <2>2 DEF TypeOK, Begun, Births
    <3> QED
      BY <2>1, <2>2, <3>1 DEF Replaced, Since
  <2>3. ASSUME NEW d \in Clients, read[d] # None
        PROVE  \/ read[d].reg = record'
               \/ retired'[read[d].reg] # None /\ read[d].at <= retired'[read[d].reg]
    <3>1. read[d].reg \in Regs /\ read[d].at \in Nat /\ read[d].at <= now
      BY <2>3 DEF TypeOK, Replaced, Readings
    <3> QED
      BY <2>1, <2>3, <3>1 DEF Replaced, Since
  <2>4. \A d \in Clients : read'[d] \in {read[d], None}
    BY DEF TypeOK, Over
  <2> QED
    BY <2>2, <2>3, <2>4 DEF Replaced, Since
<1> QED
  BY <1>3, <1>4, <1>5, <1>6, <1>7

\* Every step preserves the invariant.
LEMMA InvNext == IInv /\ [Next]_vars => IInv'
<1> SUFFICES ASSUME IInv, [Next]_vars PROVE IInv'
  OBVIOUS
<1>1. ASSUME NEW c \in Clients,
             \/ LoginRead(c) \/ LoginStart(c) \/ FetchVault(c)
             \/ RekeyStart(c) \/ RekeyFinish(c)
      PROVE  IInv'
  BY <1>1, LoginReadInv, LoginStartInv, FetchVaultInv, RekeyStartInv, RekeyFinishInv
<1>2. ASSUME NEW c \in Clients, GiveUp(c) PROVE IInv'
  BY <1>2, GiveUpInv DEF GiveUp
<1>3. ASSUME NEW n \in Names, (\E c \in Clients : PutSecret(c, n)) \/ DeleteSecret(n)
      PROVE  IInv'
  BY <1>3, SecretsInv
<1>4. ASSUME NEW i \in Ids, LoginFinish(i) PROVE IInv'
  BY <1>4, LoginFinishInv
<1>5. CASE Restart
  <2> USE <1>5 DEF Restart, server, history, IInv
  <2>1. TypeOK'
    BY DEF TypeOK
  <2>2. Begun' /\ Spent' /\ Replaced'
    BY DEF Begun, Spent, Replaced, Since
  <2> QED
    BY <2>1, <2>2 DEF Unwrapped, WrapMatchesRecord, SecretsReadable, GrantedOnce
<1>6. CASE Tick
  <2>1. now' \in 0 .. MaxTime /\ now < now'
    BY <1>6, BoundsAssumption DEF Tick, IInv, TypeOK
  <2>2. UNCHANGED <<server, pend, posted, client, ids, regs, history>>
    BY <1>6 DEF Tick
  <2>3. TypeOK'
    BY <2>1, <2>2 DEF IInv, TypeOK, server, client, history
  <2>4. Begun'
    BY <2>1, <2>2 DEF IInv, TypeOK, Begun, Births, history
  <2>5. Replaced'
    BY <2>1, <2>2 DEF IInv, TypeOK, Replaced, Since, Readings, server, client, history
  <2> QED
    BY <2>2, <2>3, <2>4, <2>5 DEF server, client, history, IInv, Unwrapped, Spent,
        WrapMatchesRecord, SecretsReadable, GrantedOnce
<1>7. CASE UNCHANGED vars
  BY <1>7 DEF vars, server, client, history, IInv, TypeOK, Unwrapped, Begun, Spent,
              Replaced, Since, WrapMatchesRecord, SecretsReadable, GrantedOnce
<1> QED
  BY <1>1, <1>2, <1>3, <1>4, <1>5, <1>6, <1>7 DEF Next

\* The inductive invariant holds always.
LEMMA InvAlways == Spec => []IInv
BY InvInit, InvNext, PTL DEF Spec

\* The tables, the map and the clients always have values of their types, and
\* a client holds what its step says.
THEOREM TypeCorrect == Spec => []TypeOK
<1>1. IInv => TypeOK
  BY DEF IInv
<1> QED
  BY <1>1, InvAlways, PTL

\* However many clients change the password at the same time and stop half
\* way, the wrap is sealed under the record beside it.
THEOREM WrapMatchesRecordAlways == Spec => []WrapMatchesRecord
<1>1. IInv => WrapMatchesRecord
  BY DEF IInv
<1> QED
  BY <1>1, InvAlways, PTL

\* The vault secret made at registration outlives every password change, and
\* every stored value is sealed under it.
THEOREM SecretsReadableAlways == Spec => []SecretsReadable
<1>1. IInv => SecretsReadable
  BY DEF IInv
<1> QED
  BY <1>1, InvAlways, PTL

\* No handshake is granted twice, however often its finish message arrives.
THEOREM GrantedOnceAlways == Spec => []GrantedOnce
<1>1. IInv => GrantedOnce
  BY DEF IInv
<1> QED
  BY <1>1, InvAlways, PTL

\* Only LoginFinish grants, and only a handshake that is in the map and young.
LEMMA GrantStep ==
    ASSUME TypeOK, [Next]_vars, NEW i \in Ids, grants'[i] > grants[i]
    PROVE  pend[i] # None /\ Young(pend[i])
<1>1. ASSUME NEW j \in Ids, LoginFinish(j) PROVE pend[i] # None /\ Young(pend[i])
  BY <1>1 DEF LoginFinish, Granted, TypeOK
<1>2. grants' = grants \/ \E j \in Ids : LoginFinish(j)
  BY DEF Next, LoginRead, LoginStart, FetchVault, RekeyStart, RekeyFinish, GiveUp, PutSecret,
         DeleteSecret, Restart, Tick, vars, history
<1> QED
  BY <1>1, <1>2 DEF TypeOK

\* A handshake begun under a password that was replaced gets past login_finish
\* for no longer after the change than a lifetime and the time its login_start
\* took from the record to its birth, whatever is delayed or repeated.
THEOREM OldPasswordDiesOutAlways == Spec => OldPasswordDiesOut
<1>1. ASSUME IInv, [Next]_vars, NEW i \in Ids, grants'[i] > grants[i]
      PROVE  \/ begun[i].reg = record
             \/ now - retired[begun[i].reg] < PendTTL + (begun[i].born - begun[i].at)
  <2>1. pend[i] # None /\ Young(pend[i])
    BY <1>1, GrantStep DEF IInv
  <2>2. /\ begun[i] # None /\ begun[i] \in Births
        /\ pend[i] = [reg |-> begun[i].reg, born |-> begun[i].born]
    BY <1>1, <2>1 DEF IInv, Begun, TypeOK
  <2>3. now - begun[i].born < PendTTL
    BY <2>1, <2>2 DEF Young
  <2> SUFFICES ASSUME begun[i].reg # record
               PROVE  now - retired[begun[i].reg] < PendTTL + (begun[i].born - begun[i].at)
    OBVIOUS
  <2>4. /\ retired[begun[i].reg] # None
        /\ begun[i].at <= retired[begun[i].reg]
    BY <1>1, <2>2 DEF IInv, Replaced, Since
  <2>5. /\ retired[begun[i].reg] \in Nat /\ now \in Nat
        /\ begun[i].born \in Nat /\ begun[i].at \in Nat
    BY <1>1, <2>2, <2>4 DEF IInv, TypeOK, Births
  <2> QED
    BY <2>3, <2>4, <2>5, BoundsAssumption
<1>2. IInv /\ [Next]_vars =>
        [\A i \in Ids : grants'[i] > grants[i] =>
            \/ begun[i].reg = record
            \/ now - retired[begun[i].reg] < PendTTL + (begun[i].born - begun[i].at)]_vars
  BY <1>1
<1> QED
  BY <1>2, InvAlways, PTL DEF Spec, OldPasswordDiesOut
=============================================================================
