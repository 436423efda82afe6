------------------------------- MODULE Devices -------------------------------
(***************************************************************************)
(* Devices, their session rows, and the requests that live on them:        *)
(* routes/account.rs (token check), routes/device.rs (revocation),         *)
(* routes/web.rs (the same for the dashboard) and the database half of     *)
(* login_finish in routes/auth.rs (enroll, verify, issue).                 *)
(*                                                                         *)
(* Every action is one await point of a handler: one SQL statement, or one *)
(* section without an await.  Handlers interleave freely, a client that    *)
(* hangs up drops its handler between two statements (Abort), and the      *)
(* server may stop at any time (Restart).  A request that is refused       *)
(* changes nothing and is a stuttering step.                               *)
(*                                                                         *)
(* One account owns everything (Register.tla), so the "owner = ?" filters  *)
(* always hold.  issue() runs once per enrolled device, so session rows,   *)
(* and tokens, are named by their device.                                  *)
(***************************************************************************)
EXTENDS Naturals

CONSTANTS
    Devices,    \* device ids (fresh uuids)
    Requests,   \* slots for the requests the server works on at one time
    TTL,        \* session_ttl: ticks, or None
    MaxTime,    \* bound of the clock
    None

ASSUME MaxTimeAssumption == MaxTime \in Nat
ASSUME NoneAssumption == None \notin Nat /\ None \notin Devices
ASSUME TTLAssumption == TTL \in Nat \cup {None}

VARIABLES
    device,    \* table devices: absent, live (revoked is null), revoked
    session,   \* table sessions: the time the device's row was created
    now,       \* the wall clock
    pc,        \* how far the request is
    via,       \* "api": the Account extractor; "web": the dashboard's cookie
    actor,     \* the device whose token the request came in with
    target,    \* the device the request enrolls, verifies or revokes
    snap,      \* the device list the request's refresh() has read
    shown,     \* the dashboard's "devices" signal
    cut        \* history: devices with a statement that failed or was cut
               \* off, or that were revoked before their token was issued

vars == <<device, session, now, pc, via, actor, target, snap, shown, cut>>

Status == {"absent", "live", "revoked"}
Times  == 0 .. MaxTime

\* Where a request waits for its client, and the answers it ends with.
Rest == {"idle", "failed", "enrolled", "unlocked", "killed", "acted", "redirected"}

\* Where a request runs on the strength of its token.
Leased == {"authed", "looked", "marked", "refresh", "read", "watching"}

Steps == Rest \cup Leased \cup {"inserted"}

Unlisted == [d \in Devices |-> "absent"]

Fresh(d) == IF TTL = None THEN TRUE ELSE now - session[d] <= TTL

\* Where a request holds a device between the two statements that change it.
Midway(r, d) == pc[r] \in {"inserted", "marked"} /\ target[r] = d

Init ==
    /\ device = Unlisted
    /\ session = [d \in Devices |-> None]
    /\ now = 0
    /\ pc = [r \in Requests |-> "idle"]
    /\ via = [r \in Requests |-> "api"]
    /\ actor = [r \in Requests |-> None]
    /\ target = [r \in Requests |-> None]
    /\ snap = [r \in Requests |-> Unlisted]
    /\ shown = Unlisted
    /\ cut = {}

Goto(r, step) == pc' = [pc EXCEPT ![r] = step]

\* The handler ends: the API's answer, or the dashboard's trailing refresh().
Answer(r, code) == Goto(r, IF via[r] = "api" THEN code ELSE "refresh")

Tick ==
    /\ now < MaxTime
    /\ now' = now + 1
    /\ UNCHANGED <<device, session, pc, via, actor, target, snap, shown, cut>>

-----------------------------------------------------------------------------
(* login_finish, after the password was proved (Login.tla).                *)

EnrollInsert_Mutant(r, d) ==
    /\ pc[r] \in Rest
    /\ device[d] # "live"
    /\ device' = [device EXCEPT ![d] = "live"]
    /\ Goto(r, "inserted")
    /\ via' = [via EXCEPT ![r] = "api"]
    /\ actor' = [actor EXCEPT ![r] = None]
    /\ target' = [target EXCEPT ![r] = d]
    /\ UNCHANGED <<session, now, snap, shown, cut>>

\* enroll: the device row.
EnrollInsert(r, d) ==
    /\ pc[r] \in Rest
    /\ device[d] = "absent"
    /\ device' = [device EXCEPT ![d] = "live"]
    /\ Goto(r, "inserted")
    /\ via' = [via EXCEPT ![r] = "api"]
    /\ actor' = [actor EXCEPT ![r] = None]
    /\ target' = [target EXCEPT ![r] = d]
    /\ UNCHANGED <<session, now, snap, shown, cut>>

\* issue: the session row, and the token for the client.
EnrollIssue_Mutant(r) ==
    /\ pc[r] = "inserted"
    /\ session' = [session EXCEPT ![target[r]] = now + 1]
    /\ cut' = IF device[target[r]] = "revoked" THEN cut \cup {target[r]} ELSE cut
    /\ Goto(r, "enrolled")
    /\ UNCHANGED <<device, now, via, actor, target, snap, shown>>

EnrollIssue(r) ==
    /\ pc[r] = "inserted"
    /\ session' = [session EXCEPT ![target[r]] = now]
    /\ cut' = IF device[target[r]] = "revoked" THEN cut \cup {target[r]} ELSE cut
    /\ Goto(r, "enrolled")
    /\ UNCHANGED <<device, now, via, actor, target, snap, shown>>

IssueFails(r) ==
    /\ pc[r] = "inserted"
    /\ cut' = cut \cup {target[r]}
    /\ Goto(r, "failed")
    /\ UNCHANGED <<device, session, now, via, actor, target, snap, shown>>

\* verify: an enrolled device proves the password and gets no new session.
Unlock(r, d) ==
    /\ pc[r] \in Rest
    /\ device[d] = "live"
    /\ Goto(r, "unlocked")
    /\ via' = [via EXCEPT ![r] = "api"]
    /\ actor' = [actor EXCEPT ![r] = None]
    /\ target' = [target EXCEPT ![r] = d]
    /\ UNCHANGED <<device, session, now, snap, shown, cut>>

-----------------------------------------------------------------------------
(* Requests that carry a token.                                            *)

Admissible_Mutant(d, v) ==
    /\ session[d] # None
    /\ v = "api" => Fresh(d)

Admissible(d, v) ==
    /\ device[d] = "live"
    /\ session[d] # None
    /\ v = "api" => Fresh(d)

\* Account::from_request_parts, and account() of the dashboard, which does
\* not look at the age of the session.
Authenticate(r, d, v) ==
    /\ pc[r] \in Rest
    /\ Admissible(d, v)
    /\ Goto(r, "authed")
    /\ via' = [via EXCEPT ![r] = v]
    /\ actor' = [actor EXCEPT ![r] = d]
    /\ target' = [target EXCEPT ![r] = None]
    /\ UNCHANGED <<device, session, now, snap, shown, cut>>

\* Any other authenticated handler: its one write, then its answer.
Act(r) ==
    /\ pc[r] = "authed"
    /\ Answer(r, "acted")
    /\ UNCHANGED <<device, session, now, via, actor, target, snap, shown, cut>>

\* revoke and web_device read the row first; one already revoked is reported
\* done at once, one that is missing is refused.
RevokeLookup(r, d) ==
    /\ pc[r] = "authed"
    /\ target' = [target EXCEPT ![r] = d]
    /\ \/ device[d] = "live" /\ Goto(r, "looked")
       \/ device[d] = "revoked" /\ Answer(r, "killed")
       \/ device[d] = "absent"
          /\ Goto(r, IF via[r] = "api" THEN "failed" ELSE "redirected")
    /\ UNCHANGED <<device, session, now, via, actor, snap, shown, cut>>

RevokeMark_Mutant(r) ==
    /\ pc[r] = "looked"
    /\ Goto(r, "marked")
    /\ UNCHANGED <<device, session, now, via, actor, target, snap, shown, cut>>

RevokeMark(r) ==
    /\ pc[r] = "looked"
    /\ device' = [device EXCEPT ![target[r]] = "revoked"]
    /\ Goto(r, "marked")
    /\ UNCHANGED <<session, now, via, actor, target, snap, shown, cut>>

MarkFails_Mutant(r) ==
    /\ pc[r] = "looked"
    /\ Goto(r, "marked")
    /\ cut' = cut \cup {target[r]}
    /\ UNCHANGED <<device, session, now, via, actor, target, snap, shown>>

\* The UPDATE fails.  The API answers 500; the dashboard ignores the error
\* and goes on to delete the sessions.
MarkFails(r) ==
    /\ pc[r] = "looked"
    /\ Goto(r, IF via[r] = "api" THEN "failed" ELSE "marked")
    /\ cut' = IF via[r] = "api" THEN cut ELSE cut \cup {target[r]}
    /\ UNCHANGED <<device, session, now, via, actor, target, snap, shown>>

RevokeSweep_Mutant(r) ==
    /\ pc[r] = "marked"
    /\ session' = [session EXCEPT ![actor[r]] = None]
    /\ Answer(r, "killed")
    /\ UNCHANGED <<device, now, via, actor, target, snap, shown, cut>>

RevokeSweep(r) ==
    /\ pc[r] = "marked"
    /\ session' = [session EXCEPT ![target[r]] = None]
    /\ Answer(r, "killed")
    /\ UNCHANGED <<device, now, via, actor, target, snap, shown, cut>>

SweepFails(r) ==
    /\ pc[r] = "marked"
    /\ Answer(r, "failed")
    /\ cut' = cut \cup {target[r]}
    /\ UNCHANGED <<device, session, now, via, actor, target, snap, shown>>

-----------------------------------------------------------------------------
(* The dashboard's signals and its event stream.                           *)

RefreshRead_Mutant(r) ==
    /\ pc[r] = "refresh"
    /\ snap' = [snap EXCEPT ![r] =
                  [d \in Devices |-> IF d = target[r] THEN "revoked" ELSE device[d]]]
    /\ Goto(r, "read")
    /\ UNCHANGED <<device, session, now, via, actor, target, shown, cut>>

\* refresh: the select of the device list; a failed select reads as empty.
RefreshRead(r) ==
    /\ pc[r] = "refresh"
    /\ \E list \in {device, Unlisted} : snap' = [snap EXCEPT ![r] = list]
    /\ Goto(r, "read")
    /\ UNCHANGED <<device, session, now, via, actor, target, shown, cut>>

\* refresh: signals.set, after two more selects.
RefreshShow(r) ==
    /\ pc[r] = "read"
    /\ shown' = snap[r]
    /\ snap' = [snap EXCEPT ![r] = Unlisted]
    /\ Goto(r, "redirected")
    /\ UNCHANGED <<device, session, now, via, actor, target, cut>>

\* events: the token is checked once, then the stream stays open.
Watch(r) ==
    /\ pc[r] = "authed"
    /\ via[r] = "web"
    /\ Goto(r, "watching")
    /\ UNCHANGED <<device, session, now, via, actor, target, snap, shown, cut>>

-----------------------------------------------------------------------------
(* Handlers that end early.                                                *)

CutBy(S) == {d \in Devices : \E r \in S : Midway(r, d)}

\* The client hangs up, and its handler is dropped where it stands.
Abort(r) ==
    /\ pc[r] \notin Rest
    /\ Goto(r, "idle")
    /\ snap' = [snap EXCEPT ![r] = Unlisted]
    /\ actor' = [actor EXCEPT ![r] = None]
    /\ target' = [target EXCEPT ![r] = None]
    /\ cut' = cut \cup CutBy({r})
    /\ UNCHANGED <<device, session, now, via, shown>>

\* The server stops and starts: the database stays, the signals are seeded.
Restart ==
    /\ pc' = [r \in Requests |-> "idle"]
    /\ snap' = [r \in Requests |-> Unlisted]
    /\ actor' = [r \in Requests |-> None]
    /\ target' = [r \in Requests |-> None]
    /\ shown' = Unlisted
    /\ cut' = cut \cup CutBy(Requests)
    /\ UNCHANGED <<device, session, now, via>>

-----------------------------------------------------------------------------

Handler(r) ==
    \/ EnrollIssue(r) \/ IssueFails(r)
    \/ Act(r) \/ Watch(r) \/ \E d \in Devices : RevokeLookup(r, d)
    \/ RevokeMark(r) \/ MarkFails(r) \/ RevokeSweep(r) \/ SweepFails(r)
    \/ RefreshRead(r) \/ RefreshShow(r)

Arrival(r) ==
    \E d \in Devices :
        \/ EnrollInsert(r, d) \/ Unlock(r, d)
        \/ \E v \in {"api", "web"} : Authenticate(r, d, v)

Next ==
    \/ \E r \in Requests : Arrival(r) \/ Handler(r) \/ Abort(r)
    \/ Restart
    \/ Tick

Spec == Init /\ [][Next]_vars

\* The runtime polls every handler that can go on; nothing makes a client
\* ask, hang up, or the server stop.
Fairness == \A r \in Requests : WF_vars(Handler(r))

FairSpec == Spec /\ Fairness

-----------------------------------------------------------------------------
(* Properties.                                                             *)

\* The values of the tables, the request records and the signal.
TypeOK ==
    /\ device \in [Devices -> Status]
    /\ session \in [Devices -> Times \cup {None}]
    /\ now \in Times
    /\ pc \in [Requests -> Steps]
    /\ via \in [Requests -> {"api", "web"}]
    /\ actor \in [Requests -> Devices \cup {None}]
    /\ target \in [Requests -> Devices \cup {None}]
    /\ snap \in [Requests -> [Devices -> Status]]
    /\ shown \in [Devices -> Status]
    /\ cut \subseteq Devices

\* The two tables agree: apart from devices whose enrollment or revocation was
\* cut off, failed half way or overtook each other, and while no request is
\* between its two statements, a device has a session row exactly when it is
\* live (auth.rs enroll/issue, device.rs revoke, web.rs web_device).
TablesAgree ==
    \A d \in Devices \ cut :
        (\A r \in Requests : ~Midway(r, d)) => (device[d] = "live" <=> session[d] # None)

\* A 204 from DELETE devices/{id} means the device is revoked, whatever failed
\* or interleaved on the way (device.rs revoke, both of its Ok branches).
KilledIsRevoked ==
    \A r \in Requests :
        pc[r] = "killed" => target[r] \in Devices /\ device[target[r]] = "revoked"

\* The dashboard never shows as revoked a device that still has access, though
\* web_device ignores a failed UPDATE and refresh publishes what it read some
\* selects ago (web.rs web_device, refresh).
ShownRevokedIsRevoked ==
    \A d \in Devices : shown[d] = "revoked" => device[d] = "revoked"

\* Revocation is final: the row stays revoked, and no later request is
\* admitted with the device's token or unlocked under its id, whatever session
\* rows were left behind (account.rs, web.rs known_token, auth.rs verify).
RevocationIsFinal ==
    [][\A d \in Devices : device[d] = "revoked" =>
          /\ device'[d] = "revoked"
          /\ \A r \in Requests :
                /\ pc'[r] = "authed" /\ actor'[r] = d => pc[r] = "authed" /\ actor[r] = d
                /\ pc'[r] = "unlocked" /\ target'[r] = d =>
                      pc[r] = "unlocked" /\ target[r] = d]_vars

\* Tokens and leases as Registry.tla sees them.
TokenOf(d) ==
    CASE device[d] = "revoked" -> "dead"
      [] device[d] = "live" /\ session[d] # None -> "usable"
      [] OTHER -> "none"

LeaseOf(r) == IF pc[r] \in Leased THEN actor[r] ELSE None

Tokens == [d \in Devices |-> TokenOf(d)]
Leases == [r \in Requests |-> LeaseOf(r)]

Promise == INSTANCE Registry WITH token <- Tokens, lease <- Leases

\* The handlers keep the promise of Registry.tla: a token is killed or lost
\* only by a request that was admitted while its own token was usable, and a
\* killed token never comes back, in every interleaving of the statements.
KeepsPromise == Promise!Spec

\* A revocation that has found its device live ends with the device revoked
\* and its session row gone, unless its request failed or was cut off
\* (device.rs revoke, web.rs web_device).
RevocationCompletes ==
    \A r \in Requests, d \in Devices :
        pc[r] = "looked" /\ target[r] = d ~>
            \/ device[d] = "revoked" /\ session[d] = None
            \/ pc[r] \in {"failed", "idle"}
            \/ d \in cut

-----------------------------------------------------------------------------
(* What the documents say and the code does not keep.                      *)

\* docs/security.md:88: with SYLVIE_SESSION_TTL_DAYS set, tokens expire: a
\* token older than that admits no request.
TokensExpire ==
    [][\A r \in Requests : pc[r] \in Rest /\ pc'[r] = "authed" => Fresh(actor'[r])]_vars
=============================================================================
