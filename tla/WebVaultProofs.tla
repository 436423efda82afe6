--------------------------- MODULE WebVaultProofs ---------------------------
(***************************************************************************)
(* Proofs about WebVault.tla, for any number of handles and registrations: *)
(* a handle names one session however often it is used again, the vault    *)
(* secret made at registration is the one that is wrapped, and a lock      *)
(* leaves no other session that has it.                                    *)
(***************************************************************************)
EXTENDS WebVault, TLAPS, WellFoundedInduction

(***************************************************************************)
(* The inductive invariant.                                                *)
(***************************************************************************)

\* Handshakes run on a page without an open vault: register and enroll on the
\* login page, unlock on the other, where the dialog's button is disabled from
\* the submit of the form on, until it fails or the page is loaded.
Alone ==
    /\ \A t \in Flows :
          /\ flow[t].pc = "idle" => flow[t].handle = None
          /\ flow[t].pc # "idle" => vkey = None /\ (t = "unlock" <=> page = "home")
    /\ flow["unlock"].pc \notin {"new", "registering", "registered"}
    /\ flow["unlock"].pc # "idle" \/ vkey # None => ~go

\* There is an account where one is needed, and only the vault's secret is sent.
Account ==
    /\ page = "home" => wrap # None
    /\ \A t \in Flows : flow[t].pc = "finishing" => wrap # None
    /\ sent # None => wrap # None /\ sent = "real"

IInv == TypeOK /\ Alone /\ Account /\ HandlesArePrivate /\ VaultIsKept /\ LockForgets

Steps == {"idle", "new", "registering", "registered", "begin", "starting", "finishing",
          "fetching"}
Wraps == [reg : Regs, secret : Secrets]
Table == [Handles -> Sessions \cup {None}]

\* What is assumed of the constants, one fact at a time.
LEMMA Constants ==
    /\ MaxHandle \in Nat /\ MaxRegs \in Nat /\ 1 \in Regs
    /\ None \notin Nat /\ None \notin Handles /\ None \notin Regs
    /\ None \notin Forms /\ None # "chip" /\ None \notin Secrets
    /\ None \notin Sessions /\ None \notin Wraps
BY BoundsAssumption, NoneAssumption DEF Handles, Regs, Wraps

(***************************************************************************)
(* The handles of the wasm module.                                         *)
(***************************************************************************)

\* The greatest of a set of numbers up to n.
LEMMA MaxIsGreatest ==
    ASSUME NEW n \in Nat, NEW S, S \subseteq 0 .. n, S # {}
    PROVE  Max(S) \in S /\ \A y \in S : y <= Max(S)
<1> DEFINE Less  == OpToRel(<, Nat)
           Below == {n - x : x \in S}
<1>1. IsWellFoundedOn(Less, Nat)
  BY NatLessThanWellFounded
<1>2. \A x, y \in Nat : y < x => <<y, x>> \in Less
  BY DEF OpToRel
<1>3. Below \subseteq Nat /\ Below # {}
  <2>1. \A x \in 0 .. n : n - x \in Nat
    OBVIOUS
  <2>2. \A x \in S : n - x \in Nat
    BY <2>1
  <2> QED
    BY <2>2
<1> HIDE DEF Less
<1>4. PICK b \in Below : \A c \in Below : ~ (<<c, b>> \in Less)
  BY <1>1, <1>3, WFMin
<1>5. \A c \in Below : b <= c
  <2>1. b \in Nat /\ \A c \in Below : c \in Nat
    BY <1>3
  <2>2. \A c \in Below : ~ (c < b)
    BY <1>2, <1>4, <2>1, Zenon
  <2> HIDE DEF Below
  <2> QED
    BY <2>1, <2>2
<1>6. PICK x \in S : b = n - x
  BY <1>4
<1>7. \A y \in S : x >= y
  <2> SUFFICES ASSUME NEW y \in S PROVE x >= y
    OBVIOUS
  <2>1. n - y \in Below
    OBVIOUS
  <2>2. n - x <= n - y
    BY <1>5, <1>6, <2>1
  <2> QED
    BY <2>2
<1>8. Max(S) \in S /\ \A y \in S : Max(S) >= y
  BY <1>7 DEF Max
<1> QED
  BY <1>8

\* put finds a handle that is not in use.
LEMMA UnusedIsFree ==
    ASSUME NEW table \in Table, Unused(table) \in Handles
    PROVE  table[Unused(table)] = None
<1> DEFINE Used == {0} \cup {h \in Handles : table[h] # None}
<1>1. Used \subseteq 0 .. MaxHandle /\ Used # {}
  BY Constants DEF Handles
<1>2. Max(Used) \in Used /\ \A y \in Used : y <= Max(Used)
  BY <1>1, Constants, MaxIsGreatest
<1>3. Unused(table) = 1 + Max(Used)
  BY DEF Unused
<1>4. Unused(table) \in Used => FALSE
  BY <1>1, <1>2, <1>3
<1> QED
  BY <1>4

\* A session that is put goes to a free handle, and no other handle changes.
LEMMA PutEffect ==
    ASSUME NEW table \in Table, NEW s \in Sessions, Put(table, s)
    PROVE  /\ Unused(table) \in Handles /\ table[Unused(table)] = None
           /\ sessions' \in Table /\ sessions'[Unused(table)] = s
           /\ \A x \in Handles : x # Unused(table) => sessions'[x] = table[x]
<1>1. Unused(table) \in Handles
  BY DEF Put
<1>2. table[Unused(table)] = None
  BY <1>1, UnusedIsFree
<1> QED
  BY <1>1, <1>2 DEF Put, Table

\* A session that is taken is gone, and no other handle changes.
LEMMA TakenEffect ==
    ASSUME TypeOK, NEW h \in Handles
    PROVE  /\ Taken(h) \in Table /\ Taken(h)[h] = None
           /\ \A x \in Handles : x # h => Taken(h)[x] = sessions[x]
BY DEF TypeOK, Taken, Table

\* A step of one handshake.
LEMMA FlowEffect ==
    ASSUME TypeOK, NEW t \in Flows, NEW step \in Steps, NEW h \in Handles \cup {None},
           Flow(t, step, h)
    PROVE  /\ flow' \in [Flows -> [pc : Steps, handle : Handles \cup {None}]]
           /\ flow'[t].pc = step /\ flow'[t].handle = h
           /\ \A u \in Flows : u # t => flow'[u] = flow[u]
BY DEF TypeOK, Flow, Steps

\* The step and the handle of a handshake.
LEMMA FlowTypes ==
    ASSUME TypeOK, NEW t \in Flows
    PROVE  /\ flow[t].pc \in Steps /\ flow[t].handle \in Handles \cup {None}
           /\ flow[t] = Rest <=> flow[t].pc = "idle" /\ flow[t].handle = None
<1>1. flow[t] \in [pc : Steps, handle : Handles \cup {None}]
  BY DEF TypeOK, Steps
<1> QED
  BY <1>1 DEF Rest

\* A handle that is known, and its session.
LEMMA KnownHandle ==
    ASSUME TypeOK, NEW h \in Handles \cup {None}, Known(h)
    PROVE  /\ h \in Handles /\ h # None /\ sessions[h] # None /\ sessions[h] \in Sessions
           /\ sessions[h].of \in Flows /\ sessions[h].export \in Regs \cup {None}
           /\ sessions[h].secret \in Secrets /\ sessions[h].rekey \in BOOLEAN
<1>1. h \in Handles /\ h # None /\ sessions[h] # None
  BY Constants DEF Known
<1>2. sessions[h] \in Sessions
  BY <1>1 DEF TypeOK
<1> QED
  BY <1>1, <1>2 DEF Sessions

\* The session of a handshake is its own, and is not open.
LEMMA OwnSession ==
    ASSUME IInv, NEW t \in Flows, flow[t].handle # None
    PROVE  /\ Known(flow[t].handle) /\ sessions[flow[t].handle].of = t
           /\ t = "unlock" => sessions[flow[t].handle].secret = "empty"
<1> DEFINE h == flow[t].handle
<1>1. Known(h) /\ sessions[h].of = t /\ h # vkey
  BY DEF IInv, HandlesArePrivate
<1>2. h \in Handles /\ sessions[h].secret \in Secrets
  BY <1>1, FlowTypes, KnownHandle DEF IInv
<1>3. t = "unlock" => sessions[h].secret # "real"
  BY <1>1, <1>2 DEF IInv, LockForgets
<1> QED
  BY <1>1, <1>2, <1>3 DEF Secrets

(***************************************************************************)
(* Steps that keep the invariant, by what they change.                     *)
(***************************************************************************)

\* A step of a handshake: it goes on, under a handle that was its own or free,
\* or it is over.
HandshakeStep(t, step, h) ==
    /\ vkey = None /\ (t = "unlock" <=> page = "home")
    /\ t = "unlock" => step \notin {"new", "registering", "registered"}
    /\ step = "idle" => h = None
    /\ Flow(t, step, h)
    /\ sessions' \in Table
    /\ h # None => /\ sessions'[h] # None /\ sessions'[h].of = t
                   /\ t = "unlock" => sessions'[h].secret = "empty"
    /\ h = None \/ h = flow[t].handle \/ sessions[h] = None
    /\ \A x \in Handles : x # h =>
          \/ sessions'[x] = sessions[x]
          \/ sessions'[x] = None /\ x = flow[t].handle
    /\ wrap' = wrap \/ (wrap = None /\ wrap' = [reg |-> 1, secret |-> "real"])
    /\ step = "finishing" => wrap' # None
    /\ go' \in BOOLEAN /\ asked' \in BOOLEAN
    /\ t # "unlock" => go' = go /\ asked' = asked
    /\ t = "unlock" /\ step = "idle" => ~asked'
    /\ t = "unlock" /\ step # "idle" => ~go' /\ (asked' => dialog # None)
    /\ UNCHANGED <<page, dialog, vkey, form, sent>>

LEMMA HandshakeInv ==
    ASSUME IInv, NEW t \in Flows, NEW step \in Steps, NEW h \in Handles \cup {None},
           HandshakeStep(t, step, h)
    PROVE  IInv'
<1> USE DEF HandshakeStep
<1>1. /\ flow' \in [Flows -> [pc : Steps, handle : Handles \cup {None}]]
      /\ flow'[t].pc = step /\ flow'[t].handle = h
      /\ \A u \in Flows : u # t => flow'[u] = flow[u]
  BY FlowEffect DEF IInv
<1>2. wrap' \in Wraps \cup {None} /\ (wrap # None => wrap' # None)
      /\ (wrap' # None => wrap'.secret = "real")
  <2>1. [reg |-> 1, secret |-> "real"] \in Wraps
    BY Constants DEF Wraps, Secrets
  <2> QED
    BY <2>1, Constants DEF IInv, TypeOK, VaultIsKept, Wraps
<1>3. TypeOK'
  <2>1. asked' => dialog' # None /\ flow'["unlock"] # Rest
    <3>1. CASE t = "unlock"
      <4>1. asked' => flow'[t].pc # "idle"
        BY <1>1, <3>1
      <4> QED
        BY <3>1, <4>1 DEF Rest
    <3>2. CASE t # "unlock"
      <4>1. flow'["unlock"] = flow["unlock"]
        BY <1>1, <3>2 DEF Flows
      <4> QED
        BY <3>2, <4>1 DEF IInv, TypeOK
    <3> QED
      BY <3>1, <3>2
  <2>2. sessions' \in [Handles -> Sessions \cup {None}]
    BY DEF Table
  <2>3. flow' \in [Flows -> [pc : {"idle", "new", "registering", "registered", "begin",
                                 "starting", "finishing", "fetching"},
                           handle : Handles \cup {None}]]
    BY <1>1 DEF Steps
  <2>4. wrap' \in [reg : Regs, secret : Secrets] \cup {None}
    BY <1>2 DEF Wraps
  <2> QED
    BY <2>1, <2>2, <2>3, <2>4 DEF IInv, TypeOK
<1>4. Alone'
  <2>1. ASSUME NEW u \in Flows
        PROVE  /\ flow'[u].pc = "idle" => flow'[u].handle = None
               /\ flow'[u].pc # "idle" => vkey' = None /\ (u = "unlock" <=> page' = "home")
    BY <1>1, <2>1 DEF IInv, Alone
  <2>2. /\ flow'["unlock"].pc \notin {"new", "registering", "registered"}
        /\ flow'["unlock"].pc # "idle" \/ vkey' # None => ~go'
    <3>1. CASE t = "unlock"
      BY <1>1, <3>1
    <3>2. CASE t # "unlock"
      <4>1. flow'["unlock"] = flow["unlock"]
        BY <1>1, <3>2 DEF Flows
      <4> QED
        BY <3>2, <4>1 DEF IInv, Alone
    <3> QED
      BY <3>1, <3>2
  <2> QED
    BY <2>1, <2>2 DEF Alone
<1>5. Account'
  <2>1. ASSUME NEW u \in Flows, flow'[u].pc = "finishing"
        PROVE  wrap' # None
    BY <1>1, <1>2, <2>1 DEF IInv, Account
  <2> QED
    BY <1>2, <2>1 DEF IInv, Account
<1>6. HandlesArePrivate'
  <2>1. ASSUME NEW u \in Flows, flow'[u].handle # None
        PROVE  /\ Known(flow[u].handle)' /\ sessions'[flow'[u].handle].of = u
               /\ flow'[u].handle # vkey'
    <3>1. CASE u = t
      BY <1>1, <2>1, <3>1 DEF Known
    <3>2. CASE u # t
      <4> DEFINE g == flow[u].handle
      <4>1. flow'[u].handle = g /\ g # None
        BY <1>1, <2>1, <3>2
      <4>2. g \in Handles /\ sessions[g] # None /\ sessions[g].of = u
        BY <4>1, OwnSession, FlowTypes, KnownHandle DEF IInv
      <4>3. g # flow[t].handle
        BY <3>2, <4>1, <4>2, OwnSession
      <4>4. g # h
        BY <4>1, <4>2, <4>3
      <4>5. sessions'[g] = sessions[g]
        BY <4>2, <4>3, <4>4
      <4> QED
        BY <4>1, <4>2, <4>5 DEF Known
    <3> QED
      BY <3>1, <3>2
  <2>2. ~ Known(vkey)'
    BY DEF Known
  <2> QED
    BY <2>1, <2>2 DEF HandlesArePrivate, Known
<1>7. VaultIsKept'
  BY <1>2 DEF VaultIsKept
<1>8. LockForgets'
  <2> SUFFICES ASSUME NEW x \in Handles, Known(x)', sessions'[x].of = "unlock",
                      sessions'[x].secret = "real"
               PROVE  FALSE
    BY DEF LockForgets, Known
  <2>1. x # None
    BY Constants
  <2>2. x # h
    BY <2>1
  <2>3. sessions'[x] = sessions[x]
    BY <2>1, <2>2 DEF Known
  <2>4. x = vkey
    BY <2>1, <2>3 DEF IInv, LockForgets, Known
  <2> QED
    BY <2>1, <2>4
<1> QED
  BY <1>3, <1>4, <1>5, <1>6, <1>7, <1>8 DEF IInv

\* The forms, the dialog and the server go on: the open vault stays what it is,
\* or is taken.
HomeStep ==
    /\ vkey' \in {vkey, None} /\ sessions' \in Table
    /\ \A x \in Handles : x # vkey => sessions'[x] = sessions[x]
    /\ vkey # None =>
          \/ sessions'[vkey] = None
          \/ /\ vkey' = vkey /\ sessions[vkey] # None
             /\ sessions'[vkey].secret = sessions[vkey].secret
    /\ form' \in [Forms -> {"idle", "asking", "waiting", "posted"}]
    /\ dialog' \in Forms \cup {"chip", None} /\ asked' \in BOOLEAN
    /\ dialog' # None => page = "home"
    /\ asked' => asked /\ dialog' # None
    /\ \A f \in Forms : form'[f] = "asking" <=> dialog' = f
    /\ sent' # None => wrap' # None /\ sent' = "real"
    /\ wrap' \in Wraps \cup {None} /\ (wrap # None => wrap' # None)
    /\ wrap' # None => wrap'.secret = "real"
    /\ UNCHANGED <<page, go, flow>>

LEMMA HomeInv == ASSUME IInv, HomeStep PROVE IInv'
<1> USE DEF HomeStep
<1>1. TypeOK'
  <2>1. sent' \in Secrets \cup {None}
    BY DEF Secrets
  <2>2. asked' => dialog' # None /\ flow'["unlock"] # Rest
    BY DEF IInv, TypeOK
  <2>3. sessions' \in [Handles -> Sessions \cup {None}]
    BY DEF Table
  <2>4. wrap' \in [reg : Regs, secret : Secrets] \cup {None}
    BY DEF Wraps
  <2> QED
    BY <2>1, <2>2, <2>3, <2>4 DEF IInv, TypeOK
<1>2. Alone'
  BY DEF IInv, Alone
<1>3. Account'
  BY DEF IInv, Account
<1>4. HandlesArePrivate'
  <2>1. ASSUME NEW u \in Flows, flow[u].handle # None
        PROVE  /\ Known(flow[u].handle)' /\ sessions'[flow[u].handle].of = u
               /\ flow[u].handle # vkey'
    <3> DEFINE g == flow[u].handle
    <3>1. g \in Handles /\ sessions[g] # None /\ sessions[g].of = u
      BY <2>1, OwnSession, FlowTypes, KnownHandle DEF IInv
    <3>2. g # vkey
      BY <2>1 DEF IInv, HandlesArePrivate
    <3>3. sessions'[g] = sessions[g]
      BY <3>1, <3>2
    <3> QED
      BY <2>1, <3>1, <3>2, <3>3 DEF Known
  <2>2. Known(vkey)' => sessions'[vkey'].secret = "real"
    BY DEF IInv, HandlesArePrivate, Known
  <2> QED
    BY <2>1, <2>2 DEF HandlesArePrivate, Known
<1>5. VaultIsKept'
  BY DEF VaultIsKept
<1>6. LockForgets'
  <2> SUFFICES ASSUME NEW x \in Handles, Known(x)', sessions'[x].of = "unlock",
                      sessions'[x].secret = "real", x # vkey'
               PROVE  FALSE
    BY DEF LockForgets, Known
  <2>1. x # None
    BY Constants
  <2>2. x # vkey
    BY <2>1 DEF Known
  <2>3. sessions'[x] = sessions[x]
    BY <2>2
  <2> QED
    BY <2>1, <2>2, <2>3 DEF IInv, LockForgets, Known
<1> QED
  BY <1>1, <1>2, <1>3, <1>4, <1>5, <1>6 DEF IInv

\* A page that has just been loaded has no session, no work and no dialog.
LEMMA Loaded ==
    ASSUME page \in {"login", "home"}, page = "home" => wrap # None,
           sessions = [h \in Handles |-> None], vkey = None,
           flow = [t \in Flows |-> Rest], form = [f \in Forms |-> "idle"],
           dialog = None, asked = FALSE, go = TRUE,
           wrap \in Wraps \cup {None}, wrap # None => wrap.secret = "real",
           sent # None => wrap # None /\ sent = "real"
    PROVE  IInv
<1>1. \A t \in Flows : flow[t].pc = "idle" /\ flow[t].handle = None
  BY DEF Rest
<1>2. \A x \in Handles : ~ Known(x)
  BY DEF Known
<1>3. TypeOK
  <2>1. flow \in [Flows -> [pc : {"idle", "new", "registering", "registered", "begin",
                                 "starting", "finishing", "fetching"},
                           handle : Handles \cup {None}]]
    BY DEF Rest
  <2>2. sent \in Secrets \cup {None} /\ wrap \in [reg : Regs, secret : Secrets] \cup {None}
    BY DEF Secrets, Wraps
  <2>3. \A f \in Forms : form[f] = "asking" <=> dialog = f
    BY Constants
  <2> QED
    BY <2>1, <2>2, <2>3 DEF TypeOK
<1>4. Alone
  BY <1>1 DEF Alone, Flows
<1>5. Account
  BY <1>1 DEF Account
<1>6. HandlesArePrivate
  BY <1>1 DEF HandlesArePrivate, Known
<1>7. VaultIsKept
  BY DEF VaultIsKept
<1>8. LockForgets
  BY <1>2 DEF LockForgets
<1> QED
  BY <1>3, <1>4, <1>5, <1>6, <1>7, <1>8 DEF IInv

\* The page is loaded, with or without an account.
LEMMA LoadInv ==
    ASSUME IInv, NEW p \in {"login", "home"}, p = "home" => wrap # None,
           Load(p), UNCHANGED <<sent, wrap>>
    PROVE  IInv'
<1>1. page' = p /\ vkey' = None /\ dialog' = None /\ asked' = FALSE /\ go' = TRUE
      /\ sessions' = [h \in Handles |-> None]
      /\ flow' = [t \in Flows |-> Rest] /\ form' = [f \in Forms |-> "idle"]
  BY DEF Load
<1>2. /\ wrap' \in Wraps \cup {None} /\ (wrap' # None => wrap'.secret = "real")
      /\ sent' # None => wrap' # None /\ sent' = "real"
  BY DEF IInv, TypeOK, VaultIsKept, Account, Wraps
<1>3. \A t \in Flows : flow'[t].pc = "idle" /\ flow'[t].handle = None
  BY <1>1 DEF Rest
<1>4. TypeOK'
  <2>1. flow' \in [Flows -> [pc : {"idle", "new", "registering", "registered", "begin",
                                 "starting", "finishing", "fetching"},
                           handle : Handles \cup {None}]]
    BY <1>1 DEF Rest
  <2>2. \A f \in Forms : form'[f] = "asking" <=> dialog' = f
    BY <1>1, Constants
  <2>3. sent' \in Secrets \cup {None} /\ wrap' \in [reg : Regs, secret : Secrets] \cup {None}
    BY <1>2 DEF Secrets, Wraps
  <2> QED
    BY <1>1, <2>1, <2>2, <2>3 DEF TypeOK
<1>5. Alone'
  BY <1>1, <1>3 DEF Alone, Flows
<1>6. Account'
  BY <1>1, <1>2, <1>3 DEF Account
<1>7. HandlesArePrivate'
  BY <1>1, <1>3 DEF HandlesArePrivate, Known
<1>8. VaultIsKept'
  BY <1>2 DEF VaultIsKept
<1>9. LockForgets'
  BY <1>1 DEF LockForgets, Known
<1> QED
  BY <1>4, <1>5, <1>6, <1>7, <1>8, <1>9 DEF IInv

(***************************************************************************)
(* The handshakes.                                                         *)
(***************************************************************************)

\* A handshake that runs has the page to itself.
LEMMA Running ==
    ASSUME IInv, NEW t \in Flows, flow[t].pc # "idle"
    PROVE  /\ vkey = None /\ (t = "unlock" <=> page = "home")
           /\ t = "unlock" => ~go /\ flow[t].pc \notin {"new", "registering", "registered"}
           /\ asked => dialog # None
           /\ go \in BOOLEAN /\ asked \in BOOLEAN /\ sessions \in Table
BY DEF IInv, Alone, TypeOK, Table

LEMMA SubmitInv == ASSUME IInv, NEW t \in Flows, Submit(t) PROVE IInv'
<1> DEFINE step == IF t = "register" THEN "new" ELSE "begin"
<1>1. /\ page = "login" /\ t # "unlock" /\ Flow(t, step, None)
      /\ UNCHANGED <<page, dialog, asked, go, sessions, vkey, form, sent, wrap>>
  BY DEF Submit, screen
<1>2. vkey = None /\ go \in BOOLEAN /\ asked \in BOOLEAN /\ sessions \in Table
  BY <1>1 DEF IInv, TypeOK, Table
<1>3. step \in Steps /\ step # "idle" /\ step # "finishing"
  BY DEF Steps
<1> HIDE DEF step
<1>4. HandshakeStep(t, step, None)
  BY <1>1, <1>2, <1>3 DEF HandshakeStep, step
<1> QED
  BY <1>3, <1>4, HandshakeInv

LEMMA BegunSession ==
    ASSUME NEW t \in Flows
    PROVE  Begun(t) \in Sessions /\ Begun(t).of = t /\ Begun(t).secret = "empty"
BY DEF Begun, Sessions, Secrets

LEMMA RegisterStartInv == ASSUME IInv, NEW t \in Flows, RegisterStart(t) PROVE IInv'
<1> DEFINE h == Unused(sessions)
<1>1. /\ flow[t].pc = "new" /\ Put(sessions, Begun(t)) /\ Flow(t, "registering", h)
      /\ UNCHANGED <<page, dialog, asked, go, vkey, form, sent, wrap>>
  BY DEF RegisterStart, screen
<1>2. /\ vkey = None /\ t # "unlock" /\ page # "home" /\ sessions \in Table
      /\ go \in BOOLEAN /\ asked \in BOOLEAN
  BY <1>1, Running
<1>3. /\ h \in Handles /\ sessions[h] = None /\ sessions' \in Table
      /\ sessions'[h] = Begun(t) /\ \A x \in Handles : x # h => sessions'[x] = sessions[x]
  BY <1>1, <1>2, PutEffect, BegunSession
<1>4. sessions'[h] # None /\ sessions'[h].of = t
  BY <1>3, BegunSession, Constants
<1> HIDE DEF h
<1>5. HandshakeStep(t, "registering", h)
  BY <1>1, <1>2, <1>3, <1>4 DEF HandshakeStep
<1>6. "registering" \in Steps
  BY DEF Steps
<1> QED
  BY <1>3, <1>5, <1>6, HandshakeInv

LEMMA LoginStartInv == ASSUME IInv, NEW t \in Flows, LoginStart(t) PROVE IInv'
<1> DEFINE h == Unused(sessions)
<1>1. /\ flow[t].pc = "begin" /\ Put(sessions, Begun(t)) /\ Flow(t, "starting", h)
      /\ UNCHANGED <<page, dialog, asked, go, vkey, form, sent, wrap>>
  BY DEF LoginStart, screen
<1>2. /\ vkey = None /\ (t = "unlock" <=> page = "home") /\ sessions \in Table
      /\ t = "unlock" => ~go
      /\ go \in BOOLEAN /\ asked \in BOOLEAN /\ (asked => dialog # None)
  BY <1>1, Running
<1>3. /\ h \in Handles /\ sessions[h] = None /\ sessions' \in Table
      /\ sessions'[h] = Begun(t) /\ \A x \in Handles : x # h => sessions'[x] = sessions[x]
  BY <1>1, <1>2, PutEffect, BegunSession
<1>4. sessions'[h] # None /\ sessions'[h].of = t /\ sessions'[h].secret = "empty"
  BY <1>3, BegunSession, Constants
<1> HIDE DEF h
<1>5. HandshakeStep(t, "starting", h)
  BY <1>1, <1>2, <1>3, <1>4 DEF HandshakeStep
<1>6. "starting" \in Steps
  BY DEF Steps
<1> QED
  BY <1>3, <1>5, <1>6, HandshakeInv

\* finish_*: the session of the handshake is taken, and put again with more in
\* it, under its own handle or another that is free.
LEMMA AgainEffect ==
    ASSUME IInv, NEW t \in Flows, Known(flow[t].handle), NEW s \in Sessions,
           Put(Taken(flow[t].handle), s)
    PROVE  LET h == Unused(Taken(flow[t].handle)) IN
           /\ h \in Handles /\ sessions' \in Table /\ sessions'[h] = s /\ s # None
           /\ h = flow[t].handle \/ sessions[h] = None
           /\ \A x \in Handles : x # h =>
                 \/ sessions'[x] = sessions[x]
                 \/ sessions'[x] = None /\ x = flow[t].handle
<1> DEFINE old   == flow[t].handle
           table == Taken(old)
           h     == Unused(table)
<1>1. old \in Handles
  BY FlowTypes, KnownHandle DEF IInv
<1>2. /\ table \in Table /\ table[old] = None
      /\ \A x \in Handles : x # old => table[x] = sessions[x]
  BY <1>1, TakenEffect DEF IInv
<1> HIDE DEF table, old
<1>3. /\ h \in Handles /\ table[h] = None /\ sessions' \in Table /\ sessions'[h] = s
      /\ \A x \in Handles : x # h => sessions'[x] = table[x]
  BY <1>2, PutEffect DEF table, old
<1> HIDE DEF h
<1>4. /\ h \in Handles /\ sessions' \in Table /\ sessions'[h] = s /\ s # None
      /\ h = old \/ sessions[h] = None
      /\ \A x \in Handles : x # h =>
            \/ sessions'[x] = sessions[x]
            \/ sessions'[x] = None /\ x = old
  BY <1>2, <1>3, Constants
<1> QED
  BY <1>4 DEF h, table, old

LEMMA RegisterFinishInv == ASSUME IInv, NEW t \in Flows, RegisterFinish(t) PROVE IInv'
<1> DEFINE old == flow[t].handle
           h   == Unused(Taken(old))
           s   == [sessions[old] EXCEPT !.export = 1, !.secret = "real"]
<1>1. /\ flow[t].pc = "registering" /\ Known(old)
      /\ Put(Taken(old), s) /\ Flow(t, "registered", h)
      /\ UNCHANGED <<page, dialog, asked, go, vkey, form, sent, wrap>>
  BY DEF RegisterFinish, screen
<1>2. /\ vkey = None /\ t # "unlock" /\ page # "home"
      /\ go \in BOOLEAN /\ asked \in BOOLEAN
  BY <1>1, Running
<1>3. sessions[old] \in Sessions /\ sessions[old].of = t
  <2>1. old # None
    BY <1>1 DEF Known
  <2> QED
    BY <1>1, <2>1, OwnSession, FlowTypes, KnownHandle DEF IInv
<1>4. s \in Sessions /\ s.of = t
  BY <1>3, Constants DEF Sessions, Secrets
<1> HIDE DEF s
<1>5. /\ h \in Handles /\ sessions' \in Table /\ sessions'[h] = s /\ s # None
      /\ h = old \/ sessions[h] = None
      /\ \A x \in Handles : x # h =>
            sessions'[x] = sessions[x] \/ (sessions'[x] = None /\ x = old)
  BY <1>1, <1>4, AgainEffect
<1> HIDE DEF h
<1>6. HandshakeStep(t, "registered", h)
  BY <1>1, <1>2, <1>4, <1>5 DEF HandshakeStep
<1>7. "registered" \in Steps
  BY DEF Steps
<1> QED
  BY <1>5, <1>6, <1>7, HandshakeInv

LEMMA LoginFinishInv == ASSUME IInv, NEW t \in Flows, LoginFinish(t) PROVE IInv'
<1> DEFINE old == flow[t].handle
           h   == Unused(Taken(old))
           s   == [sessions[old] EXCEPT !.export = wrap.reg]
<1>1. /\ flow[t].pc = "starting" /\ wrap # None /\ Known(old)
      /\ Put(Taken(old), s) /\ Flow(t, "finishing", h)
      /\ UNCHANGED <<page, dialog, asked, go, vkey, form, sent, wrap>>
  BY DEF LoginFinish, screen
<1>2. /\ vkey = None /\ (t = "unlock" <=> page = "home")
      /\ t = "unlock" => ~go
      /\ go \in BOOLEAN /\ asked \in BOOLEAN /\ (asked => dialog # None)
  BY <1>1, Running
<1>3. /\ sessions[old] \in Sessions /\ sessions[old].of = t
      /\ t = "unlock" => sessions[old].secret = "empty"
  <2>1. old # None
    BY <1>1 DEF Known
  <2> QED
    BY <1>1, <2>1, OwnSession, FlowTypes, KnownHandle DEF IInv
<1>4. wrap.reg \in Regs
  BY <1>1 DEF IInv, TypeOK
<1>5. s \in Sessions /\ s.of = t /\ s.secret = sessions[old].secret
  BY <1>3, <1>4 DEF Sessions
<1> HIDE DEF s
<1>6. /\ h \in Handles /\ sessions' \in Table /\ sessions'[h] = s /\ s # None
      /\ h = old \/ sessions[h] = None
      /\ \A x \in Handles : x # h =>
            sessions'[x] = sessions[x] \/ (sessions'[x] = None /\ x = old)
  BY <1>1, <1>5, AgainEffect
<1> HIDE DEF h
<1>7. HandshakeStep(t, "finishing", h)
  BY <1>1, <1>2, <1>3, <1>5, <1>6 DEF HandshakeStep
<1>8. "finishing" \in Steps
  BY DEF Steps
<1> QED
  BY <1>6, <1>7, <1>8, HandshakeInv

LEMMA RegisterDoneInv == ASSUME IInv, NEW t \in Flows, RegisterDone(t) PROVE IInv'
<1>1. /\ flow[t].pc = "registered" /\ wrap = None
      /\ wrap' = [reg |-> 1, secret |-> "real"] /\ Flow(t, "begin", None)
      /\ UNCHANGED <<page, dialog, asked, go, sessions, vkey, form, sent>>
  BY DEF RegisterDone, screen
<1>2. /\ vkey = None /\ t # "unlock" /\ page # "home" /\ sessions \in Table
      /\ go \in BOOLEAN /\ asked \in BOOLEAN
  BY <1>1, Running
<1>3. HandshakeStep(t, "begin", None)
  BY <1>1, <1>2 DEF HandshakeStep
<1>4. "begin" \in Steps
  BY DEF Steps
<1> QED
  BY <1>3, <1>4, HandshakeInv

LEMMA UnlockedInv == ASSUME IInv, NEW t \in Flows, Unlocked(t) PROVE IInv'
<1> DEFINE h == flow[t].handle
<1>1. /\ flow[t].pc = "finishing" /\ t = "unlock" /\ Flow(t, "fetching", h)
      /\ UNCHANGED <<page, dialog, asked, go, sessions, vkey, form, sent, wrap>>
  BY DEF Unlocked, screen
<1>2. /\ vkey = None /\ page = "home" /\ ~go /\ sessions \in Table
      /\ go \in BOOLEAN /\ asked \in BOOLEAN /\ (asked => dialog # None)
  BY <1>1, Running
<1>3. h \in Handles \cup {None}
  BY FlowTypes DEF IInv
<1>4. h # None => /\ sessions[h] # None /\ sessions[h].of = t
                  /\ sessions[h].secret = "empty"
  BY <1>1, <1>3, OwnSession, KnownHandle DEF IInv
<1> HIDE DEF h
<1>5. HandshakeStep(t, "fetching", h)
  BY <1>1, <1>2, <1>3, <1>4 DEF HandshakeStep, h
<1>6. "fetching" \in Steps
  BY DEF Steps
<1> QED
  BY <1>3, <1>5, <1>6, HandshakeInv

LEMMA FlowFailsInv == ASSUME IInv, NEW t \in Flows, FlowFails(t) PROVE IInv'
<1>1. /\ flow[t].pc # "idle" /\ Flow(t, "idle", None)
      /\ wrap' = wrap \/ (wrap = None /\ wrap' = [reg |-> 1, secret |-> "real"])
      /\ sessions' = sessions \/ sessions' = Taken(flow[t].handle)
      /\ go' = IF t = "unlock" THEN TRUE ELSE go
      /\ asked' = IF t = "unlock" THEN FALSE ELSE asked
      /\ UNCHANGED <<page, dialog, vkey, form, sent>>
  BY DEF FlowFails
<1>2. /\ vkey = None /\ (t = "unlock" <=> page = "home") /\ sessions \in Table
      /\ go \in BOOLEAN /\ asked \in BOOLEAN
  BY <1>1, Running
<1>3. /\ sessions' \in Table
      /\ \A x \in Handles : sessions'[x] = sessions[x]
                              \/ (sessions'[x] = None /\ x = flow[t].handle)
  BY <1>1, <1>2 DEF Taken, Table
<1>4. HandshakeStep(t, "idle", None)
  BY <1>1, <1>2, <1>3 DEF HandshakeStep
<1>5. "idle" \in Steps
  BY DEF Steps
<1> QED
  BY <1>4, <1>5, HandshakeInv

LEMMA UnlockInv == ASSUME IInv, Unlock PROVE IInv'
<1>1. /\ dialog # None /\ go /\ Flow("unlock", "begin", None)
      /\ go' = FALSE /\ asked' = TRUE
      /\ UNCHANGED <<page, dialog, sessions, vkey, form, sent, wrap>>
  BY DEF Unlock
<1>2. vkey = None /\ page = "home" /\ sessions \in Table
  BY <1>1 DEF IInv, TypeOK, Alone, Table
<1>3. HandshakeStep("unlock", "begin", None)
  BY <1>1, <1>2 DEF HandshakeStep, Flows
<1>4. "begin" \in Steps
  BY DEF Steps
<1>5. "unlock" \in Flows
  BY DEF Flows
<1> QED
  BY <1>3, <1>4, <1>5, HandshakeInv

(***************************************************************************)
(* The vault is opened.                                                    *)
(***************************************************************************)

LEMMA DeriveInv == ASSUME IInv, Derive PROVE IInv'
<1> DEFINE h == flow["unlock"].handle
<1>1. /\ flow["unlock"].pc = "fetching" /\ Known(h)
      /\ sessions' = [sessions EXCEPT ![h].secret = wrap.secret,
                                      ![h].rekey = asked /\ dialog = "passwd"]
      /\ vkey' = h /\ Flow("unlock", "idle", None)
      /\ form' = IF asked /\ dialog \in Forms THEN [form EXCEPT ![dialog] = "waiting"] ELSE form
      /\ dialog' = IF asked THEN None ELSE dialog
      /\ asked' = FALSE
      /\ UNCHANGED <<page, go, sent, wrap>>
  BY DEF Derive, Opens
<1>2. "unlock" \in Flows
  BY DEF Flows
<1>3. vkey = None /\ page = "home" /\ ~go
  BY <1>1, <1>2, Running
<1>4. wrap # None /\ wrap.secret = "real"
  BY <1>3 DEF IInv, Account, VaultIsKept
<1>5. h \in Handles /\ h # None /\ sessions[h] \in Sessions /\ sessions[h].of = "unlock"
  <2>1. h # None
    BY <1>1 DEF Known
  <2> QED
    BY <1>1, <1>2, <2>1, OwnSession, FlowTypes, KnownHandle DEF IInv
<1> HIDE DEF h
<1>6. /\ sessions' \in Table /\ sessions'[h] # None
      /\ sessions'[h].of = "unlock" /\ sessions'[h].secret = "real"
      /\ \A x \in Handles : x # h => sessions'[x] = sessions[x]
  <2> DEFINE s == [sessions[h] EXCEPT !.secret = wrap.secret,
                                      !.rekey = asked /\ dialog = "passwd"]
  <2>1. (asked /\ dialog = "passwd") \in BOOLEAN
    OBVIOUS
  <2>2. s \in Sessions /\ s.of = "unlock" /\ s.secret = "real"
    BY <1>4, <1>5, <2>1 DEF Sessions, Secrets
  <2>3. sessions' = [sessions EXCEPT ![h] = s]
    BY <1>1, <1>5 DEF IInv, TypeOK
  <2> HIDE DEF s
  <2> QED
    BY <1>5, <2>2, <2>3, Constants DEF IInv, TypeOK, Table
<1>7. /\ flow' \in [Flows -> [pc : Steps, handle : Handles \cup {None}]]
      /\ flow'["unlock"].pc = "idle" /\ flow'["unlock"].handle = None
      /\ \A t \in Flows : t # "unlock" => flow'[t] = flow[t]
  BY <1>1, <1>2, FlowEffect DEF IInv, Steps
<1>8. \A t \in Flows : flow'[t].pc = "idle" /\ flow'[t].handle = None
  BY <1>3, <1>7 DEF IInv, Alone
<1>9. TypeOK'
  <2>1. /\ form' \in [Forms -> {"idle", "asking", "waiting", "posted"}]
        /\ \A f \in Forms : form'[f] = "asking" <=> dialog' = f
    BY <1>1, Constants DEF IInv, TypeOK
  <2>2. dialog' \in Forms \cup {"chip", None}
    BY <1>1 DEF IInv, TypeOK
  <2>3. flow' \in [Flows -> [pc : {"idle", "new", "registering", "registered", "begin",
                                 "starting", "finishing", "fetching"},
                           handle : Handles \cup {None}]]
    BY <1>7 DEF Steps
  <2>4. sessions' \in [Handles -> Sessions \cup {None}]
    BY <1>6 DEF Table
  <2> QED
    BY <1>1, <1>3, <1>5, <2>1, <2>2, <2>3, <2>4 DEF IInv, TypeOK
<1>10. Alone'
  BY <1>1, <1>2, <1>3, <1>8 DEF Alone
<1>11. Account'
  BY <1>1, <1>8 DEF IInv, Account
<1>12. HandlesArePrivate'
  BY <1>1, <1>6, <1>8 DEF HandlesArePrivate, Known
<1>13. VaultIsKept'
  BY <1>1 DEF IInv, VaultIsKept
<1>14. LockForgets'
  <2> SUFFICES ASSUME NEW x \in Handles, Known(x)', sessions'[x].of = "unlock",
                      sessions'[x].secret = "real", x # h
               PROVE  FALSE
    BY <1>1 DEF LockForgets, Known
  <2>1. sessions'[x] = sessions[x] /\ x # None
    BY <1>6, Constants
  <2>2. x = vkey
    BY <2>1 DEF IInv, LockForgets, Known
  <2> QED
    BY <1>3, <2>1, <2>2
<1> QED
  BY <1>9, <1>10, <1>11, <1>12, <1>13, <1>14 DEF IInv

(***************************************************************************)
(* home: the dialog, the chip, the forms and the server.                   *)
(***************************************************************************)

\* What the steps of home start from.
LEMMA Home ==
    ASSUME IInv
    PROVE  /\ sessions \in Table /\ vkey \in Handles \cup {None}
           /\ form \in [Forms -> {"idle", "asking", "waiting", "posted"}]
           /\ dialog \in Forms \cup {"chip", None} /\ asked \in BOOLEAN
           /\ vkey # None \/ dialog # None => page = "home"
           /\ asked => dialog # None
           /\ \A f \in Forms : form[f] = "asking" <=> dialog = f
           /\ sent # None => wrap # None /\ sent = "real"
           /\ wrap \in Wraps \cup {None} /\ (wrap # None => wrap.secret = "real")
           /\ None \notin Forms /\ None \notin Handles
           /\ Known(vkey) => vkey # None /\ sessions[vkey] # None /\ sessions[vkey].secret = "real"
<1>1. Known(vkey) => vkey # None /\ sessions[vkey] # None /\ sessions[vkey].secret = "real"
  BY DEF IInv, HandlesArePrivate, Known
<1> QED
  BY <1>1, Constants DEF IInv, TypeOK, Account, VaultIsKept, Table, Wraps

\* A session that is taken from the open vault.
LEMMA TakenVault ==
    ASSUME IInv, vkey # None, sessions' = Taken(vkey)
    PROVE  /\ sessions' \in Table /\ sessions'[vkey] = None
           /\ \A x \in Handles : x # vkey => sessions'[x] = sessions[x]
BY Home, TakenEffect DEF IInv

LEMMA WantInv == ASSUME IInv, NEW f \in Forms, Want(f) PROVE IInv'
<1>1. /\ page = "home" /\ dialog = None /\ form[f] = "idle"
      /\ UNCHANGED <<page, asked, go, vkey, flow, sent, wrap>>
  BY DEF Want, Free
<1>2. CASE vkey = None
  <2>1. dialog' = f /\ form' = [form EXCEPT ![f] = "asking"] /\ UNCHANGED sessions
    BY <1>2 DEF Want, Form
  <2>2. HomeStep
    BY <1>1, <1>2, <2>1, Home DEF HomeStep
  <2> QED
    BY <2>2, HomeInv
<1>3. CASE vkey # None
  <2>1. /\ form' = [form EXCEPT ![f] = IF f = "get" \/ Known(vkey) THEN "waiting" ELSE "idle"]
        /\ sessions' = IF f = "passwd" /\ Known(vkey)
                       THEN [sessions EXCEPT ![vkey].rekey = TRUE] ELSE sessions
        /\ dialog' = None
    BY <1>1, <1>3 DEF Want, Form
  <2>2. /\ form' \in [Forms -> {"idle", "asking", "waiting", "posted"}]
        /\ \A g \in Forms : form'[g] = "asking" <=> dialog' = g
    BY <1>1, <2>1, Home
  <2>3. /\ sessions' \in Table /\ \A x \in Handles : x # vkey => sessions'[x] = sessions[x]
        /\ sessions'[vkey] = None \/ (sessions[vkey] # None /\ sessions'[vkey].secret = sessions[vkey].secret)
    <3>1. CASE f = "passwd" /\ Known(vkey)
      <4> DEFINE s == [sessions[vkey] EXCEPT !.rekey = TRUE]
      <4>1. vkey \in Handles /\ sessions[vkey] # None /\ sessions[vkey] \in Sessions
        BY <3>1, Home, KnownHandle DEF IInv
      <4>2. s \in Sessions /\ s.secret = sessions[vkey].secret
        BY <4>1 DEF Sessions
      <4>3. sessions' = [sessions EXCEPT ![vkey] = s]
        BY <2>1, <3>1
      <4> HIDE DEF s
      <4> QED
        BY <4>1, <4>2, <4>3, Home DEF Table
    <3>2. CASE ~ (f = "passwd" /\ Known(vkey))
      BY <2>1, <3>2, Home
    <3> QED
      BY <3>1, <3>2
  <2>4. HomeStep
    BY <1>1, <1>3, <2>1, <2>2, <2>3, Home DEF HomeStep
  <2> QED
    BY <2>4, HomeInv
<1> QED
  BY <1>2, <1>3

LEMMA CancelInv == ASSUME IInv, Cancel PROVE IInv'
<1>1. /\ dialog # None
      /\ form' = IF dialog \in Forms THEN [form EXCEPT ![dialog] = "idle"] ELSE form
      /\ dialog' = None /\ asked' = FALSE
      /\ UNCHANGED <<page, go, sessions, vkey, flow, sent, wrap>>
  BY DEF Cancel
<1>2. /\ form' \in [Forms -> {"idle", "asking", "waiting", "posted"}]
      /\ \A f \in Forms : form'[f] = "asking" <=> dialog' = f
  BY <1>1, Home
<1>3. HomeStep
  BY <1>1, <1>2, Home DEF HomeStep
<1> QED
  BY <1>3, HomeInv

LEMMA LockInv == ASSUME IInv, Lock PROVE IInv'
<1>1. /\ vkey # None /\ sessions' = Taken(vkey) /\ vkey' = None
      /\ UNCHANGED <<page, dialog, asked, go, flow, form, sent, wrap>>
  BY DEF Lock, screen
<1>2. HomeStep
  BY <1>1, Home, TakenVault DEF HomeStep
<1> QED
  BY <1>2, HomeInv

LEMMA AskInv == ASSUME IInv, Ask PROVE IInv'
<1>1. /\ page = "home" /\ dialog = None /\ dialog' = "chip"
      /\ UNCHANGED <<page, asked, go, sessions, vkey, flow, form, sent, wrap>>
  BY DEF Ask, Free
<1>2. \A f \in Forms : form'[f] = "asking" <=> dialog' = f
  BY <1>1, Home DEF Forms
<1>3. HomeStep
  BY <1>1, <1>2, Home DEF HomeStep
<1> QED
  BY <1>3, HomeInv

LEMMA GotInv == ASSUME IInv, Got PROVE IInv'
<1>1. /\ form["get"] = "waiting" /\ form' = [form EXCEPT !["get"] = "idle"]
      /\ UNCHANGED <<page, dialog, asked, go, sessions, vkey, flow, sent, wrap>>
  BY DEF Got, Form, screen
<1>2. /\ form' \in [Forms -> {"idle", "asking", "waiting", "posted"}]
      /\ \A f \in Forms : form'[f] = "asking" <=> dialog' = f
  BY <1>1, Home DEF Forms
<1>3. HomeStep
  BY <1>1, <1>2, Home DEF HomeStep
<1> QED
  BY <1>3, HomeInv

LEMMA FormFailsInv == ASSUME IInv, NEW f \in Forms, FormFails(f) PROVE IInv'
<1>1. /\ form[f] # "asking" /\ form' = [form EXCEPT ![f] = "idle"] /\ sent' \in {sent, None}
      /\ UNCHANGED <<page, dialog, asked, go, sessions, vkey, flow, wrap>>
  BY DEF FormFails, Form, screen
<1>2. /\ form' \in [Forms -> {"idle", "asking", "waiting", "posted"}]
      /\ \A g \in Forms : form'[g] = "asking" <=> dialog' = g
  BY <1>1, Home
<1>3. HomeStep
  BY <1>1, <1>2, Home DEF HomeStep
<1> QED
  BY <1>3, HomeInv

LEMMA RekeyFinishInv == ASSUME IInv, RekeyFinish PROVE IInv'
<1>1. /\ form["passwd"] = "waiting"
      /\ UNCHANGED <<page, dialog, asked, go, vkey, flow, wrap>>
  BY DEF RekeyFinish, screen
<1>2. \E step \in {"idle", "posted"} : form' = [form EXCEPT !["passwd"] = step]
  BY DEF RekeyFinish, Form
<1>3. /\ form' \in [Forms -> {"idle", "asking", "waiting", "posted"}]
      /\ \A f \in Forms : form'[f] = "asking" <=> dialog' = f
  BY <1>1, <1>2, Home DEF Forms
<1>4. CASE ~Known(vkey)
  <2>1. UNCHANGED <<sessions, sent>>
    BY <1>4 DEF RekeyFinish
  <2>2. vkey # None => sessions[vkey] = None
    BY <1>4 DEF Known
  <2>3. HomeStep
    BY <1>1, <1>3, <2>1, <2>2, Home DEF HomeStep
  <2> QED
    BY <2>3, HomeInv
<1>5. CASE Known(vkey)
  <2>1. sessions' = Taken(vkey) /\ sent' \in {sent, "real"}
    BY <1>5, Home DEF RekeyFinish
  <2>2. /\ sessions' \in Table /\ sessions'[vkey] = None
        /\ \A x \in Handles : x # vkey => sessions'[x] = sessions[x]
    BY <1>5, <2>1, Home, TakenVault
  <2>3. wrap # None
    BY <1>5, Home DEF IInv, Account
  <2>4. HomeStep
    BY <1>1, <1>3, <2>1, <2>2, <2>3, Home DEF HomeStep
  <2> QED
    BY <2>4, HomeInv
<1> QED
  BY <1>4, <1>5

LEMMA RekeyedInv == ASSUME IInv, Rekeyed PROVE IInv'
<1>1. /\ sent # None /\ wrap.reg < MaxRegs
      /\ wrap' = [reg |-> wrap.reg + 1, secret |-> sent] /\ sent' = None
      /\ UNCHANGED <<page, dialog, asked, go, sessions, vkey, flow, form>>
  BY DEF Rekeyed, screen
<1>2. wrap # None /\ sent = "real" /\ wrap.reg \in Regs
  BY <1>1, Home DEF Wraps
<1>3. wrap' \in Wraps /\ wrap'.secret = "real" /\ wrap' # None
  BY <1>1, <1>2, Constants DEF Wraps, Secrets, Regs
<1>4. HomeStep
  BY <1>1, <1>3, Home DEF HomeStep
<1> QED
  BY <1>4, HomeInv

LEMMA ElsewhereInv == ASSUME IInv, Elsewhere PROVE IInv'
<1>1. /\ wrap # None /\ wrap.reg < MaxRegs /\ wrap' = [wrap EXCEPT !.reg = @ + 1]
      /\ UNCHANGED <<page, dialog, asked, go, sessions, vkey, flow, form, sent>>
  BY DEF Elsewhere, screen
<1>2. wrap \in Wraps /\ wrap.secret = "real" /\ wrap.reg \in Regs
  BY <1>1, Home DEF Wraps
<1>3. wrap' \in Wraps /\ wrap'.secret = "real" /\ wrap' # None
  BY <1>1, <1>2, Constants DEF Wraps, Secrets, Regs
<1>4. HomeStep
  BY <1>1, <1>3, Home DEF HomeStep
<1> QED
  BY <1>4, HomeInv

(***************************************************************************)
(* The page is loaded.                                                     *)
(***************************************************************************)

LEMMA EnrolledInv == ASSUME IInv, NEW t \in Flows, Enrolled(t) PROVE IInv'
<1>1. flow[t].pc = "finishing" /\ Load("home") /\ UNCHANGED <<sent, wrap>>
  BY DEF Enrolled
<1>2. wrap # None
  BY <1>1 DEF IInv, Account
<1> QED
  BY <1>1, <1>2, LoadInv

LEMMA ReloadInv == ASSUME IInv, NEW p \in {page, "login"}, Reload(p) PROVE IInv'
<1>1. Load(p) /\ UNCHANGED <<sent, wrap>>
  BY DEF Reload
<1>2. p \in {"login", "home"} /\ (p = "home" => wrap # None)
  BY DEF IInv, TypeOK, Account
<1> QED
  BY <1>1, <1>2, LoadInv

(***************************************************************************)
(* The theorems.                                                           *)
(***************************************************************************)

LEMMA InitInv == Init => IInv
<1> SUFFICES ASSUME Init PROVE IInv
  OBVIOUS
<1>1. /\ page \in {"login", "home"} /\ (page = "home" => wrap # None)
      /\ wrap \in {None, [reg |-> 1, secret |-> "real"]} /\ sent = None
  BY Constants DEF Init, Wraps
<1>2. wrap \in Wraps \cup {None} /\ (wrap # None => wrap.secret = "real")
  BY <1>1, Constants DEF Wraps, Secrets
<1> QED
  BY <1>1, <1>2, Loaded DEF Init

LEMMA NextInv == IInv /\ [Next]_vars => IInv'
<1> SUFFICES ASSUME IInv, [Next]_vars PROVE IInv'
  OBVIOUS
<1>1. ASSUME NEW t \in Flows,
             \/ Submit(t) \/ RegisterStart(t) \/ RegisterFinish(t) \/ RegisterDone(t)
             \/ LoginStart(t) \/ LoginFinish(t) \/ Enrolled(t) \/ Unlocked(t) \/ FlowFails(t)
      PROVE  IInv'
  BY <1>1, SubmitInv, RegisterStartInv, RegisterFinishInv, RegisterDoneInv, LoginStartInv,
     LoginFinishInv, EnrolledInv, UnlockedInv, FlowFailsInv
<1>2. ASSUME NEW f \in Forms, Want(f) \/ FormFails(f)
      PROVE  IInv'
  BY <1>2, WantInv, FormFailsInv
<1>3. CASE Derive \/ Unlock \/ Cancel \/ Lock \/ Ask
  BY <1>3, DeriveInv, UnlockInv, CancelInv, LockInv, AskInv
<1>4. CASE Got \/ RekeyFinish \/ Rekeyed \/ Elsewhere
  BY <1>4, GotInv, RekeyFinishInv, RekeyedInv, ElsewhereInv
<1>5. ASSUME NEW p \in {page, "login"}, Reload(p)
      PROVE  IInv'
  BY <1>5, ReloadInv
<1>6. CASE UNCHANGED vars
  <2>1. UNCHANGED <<page, dialog, asked, go, sessions, vkey, flow, form, sent, wrap>>
    BY <1>6 DEF vars, screen
  <2>2. HomeStep
    BY <2>1, Home DEF HomeStep
  <2> QED
    BY <2>2, HomeInv
<1> QED
  BY <1>1, <1>2, <1>3, <1>4, <1>5, <1>6 DEF Next

LEMMA Inductive == Spec => []IInv
<1> QED
  BY InitInv, NextInv, PTL DEF Spec

\* Every variable of the page, of the wasm module and of the server keeps to its
\* values, and a form waits for the dialog just while it is open for that form.
THEOREM TypeCorrect == Spec => []TypeOK
<1>1. IInv => TypeOK
  BY DEF IInv
<1> QED
  BY <1>1, Inductive, PTL

\* Whatever handles are given out again (lib.rs put), a handshake of the page
\* finds its own session, and the key of the vault never one that is half way.
THEOREM HandlesArePrivateAlways == Spec => []HandlesArePrivate
<1>1. IInv => HandlesArePrivate
  BY DEF IInv
<1> QED
  BY <1>1, Inductive, PTL

\* However often the password is changed, here or elsewhere, and whatever is
\* locked, opened or loaded meanwhile, the wrap holds the secret made at
\* registration (lib.rs rekey_finish).
THEOREM VaultIsKeptAlways == Spec => []VaultIsKept
<1>1. IInv => VaultIsKept
  BY DEF IInv
<1> QED
  BY <1>1, Inductive, PTL

\* Of the sessions an unlock has begun only the one the page calls its vault has
\* the vault secret, so that locking it leaves none (shell.js lock).
THEOREM LockForgetsAlways == Spec => []LockForgets
<1>1. IInv => LockForgets
  BY DEF IInv
<1> QED
  BY <1>1, Inductive, PTL
=============================================================================
