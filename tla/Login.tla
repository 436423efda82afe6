------------------------------- MODULE Login -------------------------------
(***************************************************************************)
(* The OPAQUE handshakes, the password record and the vault: login_start,  *)
(* login_finish, rekey_start, rekey_finish and vault of routes/auth.rs,    *)
(* the pending map of ctx.rs, and the client that drives them (client's    *)
(* session.rs and commands/secret.rs).                                     *)
(*                                                                         *)
(* A registration is a number: the OPAQUE record, the export key that only *)
(* its password recovers, and the key the vault secret is wrapped under    *)
(* all stand or fall with it, also when the same password is chosen again  *)
(* (the envelope's nonce is new).  A client that typed a wrong password    *)
(* cannot read the reply of login_start, which to the server looks like a  *)
(* reply that was lost.  The account and the bearer tokens are those of    *)
(* Register.tla and Devices.tla.                                           *)
(***************************************************************************)
EXTENDS Naturals, FiniteSets

CONSTANTS
    Clients,
    Names,      \* names of secrets
    PendTTL,    \* PENDING_TTL, in ticks
    MaxTime,    \* bound of the clock
    MaxIds,     \* bound of the handshakes started
    MaxRegs,    \* bound of the registrations made
    None

ASSUME BoundsAssumption ==
    PendTTL \in Nat \ {0} /\ MaxTime \in Nat /\ MaxIds \in Nat /\ MaxRegs \in Nat \ {0}

VARIABLES
    now,       \* the clock
    record,    \* users.record: the registration that is in force
    wrap,      \* users.wrap: the vault secret, and the key it is sealed under
    data,      \* table secrets: the vault secret a value is sealed under
    pend,      \* Ctx::pendings
    posted,    \* login/finish messages that are on their way, or were
    pc,        \* how far each client's command is
    read,      \* the record its login_start has read, and when
    id,        \* its handshake
    key,       \* the registration whose export key it has recovered
    secret,    \* the vault secret it has unwrapped
    fresh,     \* the new registration it has made
    ids,       \* handshakes started so far
    regs,      \* registrations made so far
    begun,     \* history: each handshake's registration, its reading and its birth
    grants,    \* history: how often each handshake was granted
    retired    \* history: when each registration was replaced

server == <<record, wrap, data>>
client == <<pc, read, id, key, secret, fresh>>
history == <<begun, grants, retired>>
vars == <<now, server, pend, posted, client, ids, regs, history>>

Ids  == 1 .. MaxIds
Regs == 1 .. MaxRegs

\* The vault secret made at registration, and anything that is not it.
VaultSecrets == {"real", "other"}

Handshakes == [reg : Regs, born : 0 .. MaxTime]
Readings   == [reg : Regs, at : 0 .. MaxTime]
Births     == [reg : Regs, at : 0 .. MaxTime, born : 0 .. MaxTime]

ASSUME NoneAssumption ==
    None \notin Nat \cup VaultSecrets \cup Handshakes \cup Readings \cup Births

Init ==
    /\ now = 0
    /\ record = 1
    /\ wrap = [key |-> 1, secret |-> "real"]
    /\ data = [n \in Names |-> None]
    /\ pend = [i \in Ids |-> None]
    /\ posted = {}
    /\ pc = [c \in Clients |-> "idle"]
    /\ read = [c \in Clients |-> None]
    /\ id = [c \in Clients |-> None]
    /\ key = [c \in Clients |-> None]
    /\ secret = [c \in Clients |-> None]
    /\ fresh = [c \in Clients |-> None]
    /\ ids = 0
    /\ regs = 1
    /\ begun = [i \in Ids |-> None]
    /\ grants = [i \in Ids |-> 0]
    /\ retired = [g \in Regs |-> None]

Young(p) == now - p.born < PendTTL

Tick ==
    /\ now < MaxTime
    /\ now' = now + 1
    /\ UNCHANGED <<server, pend, posted, client, ids, regs, history>>

\* The client's command is over, whatever came of it.
Over_Mutant(c) ==
    /\ pc' = [pc EXCEPT ![c] = "idle"]
    /\ id' = [id EXCEPT ![c] = None]
    /\ UNCHANGED <<read, key, secret, fresh>>

Over(c) ==
    /\ pc' = [pc EXCEPT ![c] = "idle"]
    /\ read' = [read EXCEPT ![c] = None]
    /\ id' = [id EXCEPT ![c] = None]
    /\ key' = [key EXCEPT ![c] = None]
    /\ secret' = [secret EXCEPT ![c] = None]
    /\ fresh' = [fresh EXCEPT ![c] = None]

-----------------------------------------------------------------------------
(* A login, to enroll or to unlock.                                        *)

\* login_start has read the record; what follows runs when its task is
\* scheduled again.
LoginRead(c) ==
    /\ pc[c] = "idle"
    /\ ids < MaxIds
    /\ pc' = [pc EXCEPT ![c] = "asking"]
    /\ read' = [read EXCEPT ![c] = [reg |-> record, at |-> now]]
    /\ UNCHANGED <<now, server, pend, posted, id, key, secret, fresh, ids, regs, history>>

\* pending_insert: drop what is too old, then add.
PendingInsert(i, p) ==
    pend' = [j \in Ids |->
                CASE j = i -> p
                  [] j # i /\ pend[j] # None -> IF Young(pend[j]) THEN pend[j] ELSE None
                  [] OTHER -> None]

\* login of the client's session.rs: with the right password and the reply it
\* recovers the export key, and sends its finish message.
Proves(c, i) ==
    /\ pc' = [pc EXCEPT ![c] = "proving"]
    /\ read' = [read EXCEPT ![c] = None]
    /\ id' = [id EXCEPT ![c] = i]
    /\ key' = [key EXCEPT ![c] = read[c].reg]
    /\ posted' = posted \cup {i}
    /\ UNCHANGED <<secret, fresh>>

\* The rest of login_start: the handshake is of the record that was read, and
\* is born now; the client goes on, or cannot.
LoginStart(c) ==
    /\ pc[c] = "asking"
    /\ ids < MaxIds
    /\ ids' = ids + 1
    /\ PendingInsert(ids', [reg |-> read[c].reg, born |-> now])
    /\ begun' = [begun EXCEPT ![ids'] = [reg |-> read[c].reg, at |-> read[c].at, born |-> now]]
    /\ \/ Proves(c, ids')
       \/ Over(c) /\ UNCHANGED posted
    /\ UNCHANGED <<now, server, regs, grants, retired>>

\* login_finish, of a message that may be late or a repetition: pending_take
\* removes the handshake and refuses it if it is too old.
Granted_Mutant(i) == pend[i] # None
Granted(i) == IF pend[i] = None THEN FALSE ELSE Young(pend[i])

Taken_Mutant(i) == IF pend[i] # None /\ Young(pend[i]) THEN pend ELSE [pend EXCEPT ![i] = None]
Taken(i) == [pend EXCEPT ![i] = None]

LoginFinish(i) ==
    /\ i \in posted
    /\ pend' = Taken(i)
    /\ grants' = IF Granted(i) /\ grants[i] < 2 THEN [grants EXCEPT ![i] = @ + 1] ELSE grants
    /\ \/ \E c \in Clients :
             /\ pc[c] = "proving" /\ id[c] = i
             /\ IF Granted(i)
                THEN pc' = [pc EXCEPT ![c] = "granted"] /\ UNCHANGED <<read, id, key, secret, fresh>>
                ELSE Over(c)
       \/ UNCHANGED client
    /\ UNCHANGED <<now, server, posted, ids, regs, begun, retired>>

\* The command is over: done, failed, or its user gave up.  What it sent may
\* still arrive.
GiveUp(c) ==
    /\ pc[c] # "idle"
    /\ Over(c)
    /\ UNCHANGED <<now, server, pend, posted, ids, regs, history>>

-----------------------------------------------------------------------------
(* What an unlocked client does: secrets and the password change.          *)

\* GET vault, and opening it with the export key of the handshake.  A wrap
\* sealed under another registration fails as crypto.
FetchVault(c) ==
    /\ pc[c] = "granted"
    /\ IF wrap.key = key[c]
       THEN /\ pc' = [pc EXCEPT ![c] = "open"]
            /\ secret' = [secret EXCEPT ![c] = wrap.secret]
            /\ UNCHANGED <<read, id, key, fresh>>
       ELSE Over(c)
    /\ UNCHANGED <<now, server, pend, posted, ids, regs, history>>

\* secret set: seal under the vault secret, then PUT (an upsert).
PutSecret(c, n) ==
    /\ pc[c] = "open"
    /\ data' = [data EXCEPT ![n] = secret[c]]
    /\ Over(c)
    /\ UNCHANGED <<now, record, wrap, pend, posted, ids, regs, history>>

DeleteSecret(n) ==
    /\ data[n] # None
    /\ data' = [data EXCEPT ![n] = None]
    /\ UNCHANGED <<now, record, wrap, pend, posted, client, ids, regs, history>>

\* passwd: a new registration (rekey_start changes nothing on the server), and
\* the same vault secret wrapped anew; the request is then on its way.
RekeyStart_Mutant(c) ==
    /\ pc[c] = "open"
    /\ regs < MaxRegs
    /\ regs' = regs + 1
    /\ fresh' = [fresh EXCEPT ![c] = regs']
    /\ secret' = [secret EXCEPT ![c] = "other"]
    /\ pc' = [pc EXCEPT ![c] = "rekeying"]
    /\ UNCHANGED <<now, server, pend, posted, read, id, key, ids, history>>

RekeyStart(c) ==
    /\ pc[c] = "open"
    /\ regs < MaxRegs
    /\ regs' = regs + 1
    /\ fresh' = [fresh EXCEPT ![c] = regs']
    /\ pc' = [pc EXCEPT ![c] = "rekeying"]
    /\ UNCHANGED <<now, server, pend, posted, read, id, key, secret, ids, history>>

\* rekey_finish: record and wrap in one UPDATE, on the strength of the bearer
\* token alone.
RekeyFinish_Mutant(c) ==
    /\ pc[c] = "rekeying"
    /\ record' = fresh[c]
    /\ retired' = [retired EXCEPT ![record] = now]
    /\ Over(c)
    /\ UNCHANGED <<now, wrap, data, pend, posted, ids, regs, begun, grants>>

RekeyFinish(c) ==
    /\ pc[c] = "rekeying"
    /\ record' = fresh[c]
    /\ wrap' = [key |-> fresh[c], secret |-> secret[c]]
    /\ retired' = [retired EXCEPT ![record] = now]
    /\ Over(c)
    /\ UNCHANGED <<now, data, pend, posted, ids, regs, begun, grants>>

\* The server stops and starts: half-finished logins are gone, and so are the
\* handlers that were about to begin one.
Restart ==
    /\ pend' = [i \in Ids |-> None]
    /\ pc' = [c \in Clients |-> IF pc[c] = "asking" THEN "idle" ELSE pc[c]]
    /\ read' = [c \in Clients |-> None]
    /\ UNCHANGED <<now, server, posted, id, key, secret, fresh, ids, regs, history>>

-----------------------------------------------------------------------------

Next ==
    \/ \E c \in Clients :
          \/ LoginRead(c) \/ LoginStart(c) \/ FetchVault(c)
          \/ RekeyStart(c) \/ RekeyFinish(c) \/ GiveUp(c)
    \/ \E c \in Clients, n \in Names : PutSecret(c, n)
    \/ \E n \in Names : DeleteSecret(n)
    \/ \E i \in Ids : LoginFinish(i)
    \/ Restart
    \/ Tick

Spec == Init /\ [][Next]_vars

-----------------------------------------------------------------------------

\* The values of the server's tables and of the clients' commands; a client
\* holds what its step says.
TypeOK ==
    /\ now \in 0 .. MaxTime
    /\ record \in Regs
    /\ wrap \in [key : Regs, secret : VaultSecrets]
    /\ data \in [Names -> VaultSecrets \cup {None}]
    /\ pend \in [Ids -> Handshakes \cup {None}]
    /\ posted \subseteq Ids
    /\ pc \in [Clients -> {"idle", "asking", "proving", "granted", "open", "rekeying"}]
    /\ read \in [Clients -> Readings \cup {None}]
    /\ id \in [Clients -> Ids \cup {None}]
    /\ key \in [Clients -> Regs \cup {None}]
    /\ secret \in [Clients -> VaultSecrets \cup {None}]
    /\ fresh \in [Clients -> Regs \cup {None}]
    /\ \A c \in Clients :
          /\ read[c] # None <=> pc[c] = "asking"
          /\ id[c] # None <=> pc[c] \notin {"idle", "asking"}
          /\ key[c] # None <=> pc[c] \notin {"idle", "asking"}
          /\ secret[c] # None <=> pc[c] \in {"open", "rekeying"}
          /\ fresh[c] # None <=> pc[c] = "rekeying"
    /\ ids \in 0 .. MaxIds /\ regs \in Regs
    /\ begun \in [Ids -> Births \cup {None}]
    /\ grants \in [Ids -> 0 .. 2]
    /\ retired \in [Regs -> 0 .. MaxTime \cup {None}]

\* Whoever proves the password that is in force can open the vault: the wrap
\* is sealed under the record beside it, through concurrent password changes
\* and commands that stop half way (auth.rs rekey_finish, client session.rs).
WrapMatchesRecord == wrap.key = record

\* No password change loses the vault: it still holds the secret made at
\* registration, and every stored value is sealed under it (session.rs rekey,
\* commands/secret.rs).
SecretsReadable ==
    /\ wrap.secret = "real"
    /\ \A n \in Names : data[n] # None => data[n] = wrap.secret

\* A handshake is granted at most once, however often its finish message
\* arrives: an enrollment is not repeated (ctx.rs pending_take).
GrantedOnce == \A i \in Ids : grants[i] <= 1

\* What the documents say of the map of half-finished logins: whatever is in
\* it is no older than its lifetime.  Only the next insert clears it (ctx.rs
\* pending_insert).
PendingsExpire ==
    \A i \in Ids : pend[i] # None => now - pend[i].born < PendTTL

\* A replaced password dies out: after the change, a handshake begun under it
\* gets past login_finish for no longer than PENDING_TTL and the time its
\* login_start took from reading the record to its birth, whatever is delayed
\* or repeated (ctx.rs pending_take; auth.rs login_start, login_finish).
OldPasswordDiesOut ==
    [][\A i \in Ids : grants'[i] > grants[i] =>
          \/ begun[i].reg = record
          \/ now - retired[begun[i].reg] < PendTTL + (begun[i].born - begun[i].at)]_vars
=============================================================================
