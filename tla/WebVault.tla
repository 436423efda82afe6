------------------------------ MODULE WebVault ------------------------------
(***************************************************************************)
(* The browser's half of the vault: the sessions of the wasm module        *)
(* (crates/web/src/lib.rs), which its callers name by handles, and the     *)
(* page that drives it (crates/server/web/shell.js).                       *)
(*                                                                         *)
(* The page runs one piece of code at a time, up to an await; between two  *)
(* pieces anything else may run: another form, the dialog's cancel, the    *)
(* lock chip.  A modal dialog keeps the user from everything behind it,    *)
(* and a form's button is disabled while its work lasts.  The server is    *)
(* that of Login.tla: the wrap and the record in force change together, so *)
(* a registration's number says which export key opens the wrap.           *)
(***************************************************************************)
EXTENDS Naturals, FiniteSetsExt

CONSTANTS
    MaxHandle,  \* bound of the handles given out
    MaxRegs,    \* bound of the registrations in force one after the other
    None

ASSUME BoundsAssumption == MaxHandle \in Nat \ {0} /\ MaxRegs \in Nat \ {0}

VARIABLES
    page,      \* "login" or "home"
    sessions,  \* SESSIONS: handle to session
    vkey,      \* the handle of the open vault
    flow,      \* the handshakes that run: each one's step and handle
    form,      \* the work of home's forms
    dialog,    \* who waits for the unlock dialog, when it is open
    asked,     \* the unlock that runs was submitted in the open dialog
    go,        \* the dialog's button is enabled
    sent,      \* the vault secret in a rekey/finish on its way
    wrap       \* server: registration in force and the vault secret in its wrap

screen == <<page, dialog, asked, go>>
vars == <<screen, sessions, vkey, flow, form, sent, wrap>>

Handles == 1 .. MaxHandle
Regs    == 1 .. MaxRegs
Flows   == {"register", "enroll", "unlock"}
Forms   == {"get", "set", "passwd"}

\* The secret made at registration, and what a session has before derive_vault.
Secrets == {"real", "empty"}

Sessions == [of : Flows, export : Regs \cup {None}, secret : Secrets, rekey : BOOLEAN]

ASSUME NoneAssumption ==
    None \notin Nat \cup Forms \cup {"chip"} \cup Secrets \cup Sessions
                    \cup [reg : Regs, secret : Secrets]

Rest == [pc |-> "idle", handle |-> None]

\* A page that has just been loaded.
Load(p) ==
    /\ page' = p
    /\ sessions' = [h \in Handles |-> None]
    /\ vkey' = None
    /\ flow' = [t \in Flows |-> Rest]
    /\ form' = [f \in Forms |-> "idle"]
    /\ dialog' = None /\ asked' = FALSE /\ go' = TRUE

Init ==
    /\ wrap \in {None, [reg |-> 1, secret |-> "real"]}
    /\ page \in IF wrap = None THEN {"login"} ELSE {"login", "home"}
    /\ sessions = [h \in Handles |-> None]
    /\ vkey = None
    /\ flow = [t \in Flows |-> Rest]
    /\ form = [f \in Forms |-> "idle"]
    /\ dialog = None /\ asked = FALSE /\ go = TRUE
    /\ sent = None

-----------------------------------------------------------------------------
(* lib.rs: put, take and edit.                                             *)

\* put: the greatest handle in use, and one.
Unused(table) == 1 + Max({0} \cup {h \in Handles : table[h] # None})

Taken(h) == [sessions EXCEPT ![h] = None]

Put(table, s) ==
    /\ Unused(table) \in Handles
    /\ sessions' = [table EXCEPT ![Unused(table)] = s]

Begun(t) == [of |-> t, export |-> None, secret |-> "empty", rekey |-> FALSE]

\* A handle that is null, or of a session that was taken, is an error.
Known(h) == IF h = None THEN FALSE ELSE sessions[h] # None

-----------------------------------------------------------------------------
(* The handshakes: register and enroll of the login page, unlock of home.  *)

Flow(t, step, h) == flow' = [flow EXCEPT ![t] = [pc |-> step, handle |-> h]]

\* A form of the login page is submitted.
Submit(t) ==
    /\ page = "login" /\ t # "unlock" /\ flow[t] = Rest
    /\ Flow(t, IF t = "register" THEN "new" ELSE "begin", None)
    /\ UNCHANGED <<screen, sessions, vkey, form, sent, wrap>>

\* start_registration, and the message to register/start.
RegisterStart(t) ==
    /\ flow[t].pc = "new"
    /\ Put(sessions, Begun(t))
    /\ Flow(t, "registering", Unused(sessions))
    /\ UNCHANGED <<screen, vkey, form, sent, wrap>>

\* finish_registration, and the message to register/finish.
RegisterFinish(t) ==
    /\ flow[t].pc = "registering"
    /\ LET h == flow[t].handle IN
       /\ Known(h)
       /\ Put(Taken(h), [sessions[h] EXCEPT !.export = 1, !.secret = "real"])
       /\ Flow(t, "registered", Unused(Taken(h)))
    /\ UNCHANGED <<screen, vkey, form, sent, wrap>>

\* The server makes the account if there is none; register goes on to enroll
\* and leaves its session behind.
RegisterDone(t) ==
    /\ flow[t].pc = "registered"
    /\ wrap = None
    /\ wrap' = [reg |-> 1, secret |-> "real"]
    /\ Flow(t, "begin", None)
    /\ UNCHANGED <<screen, sessions, vkey, form, sent>>

\* start_login, and the message to login/start.
LoginStart(t) ==
    /\ flow[t].pc = "begin"
    /\ Put(sessions, Begun(t))
    /\ Flow(t, "starting", Unused(sessions))
    /\ UNCHANGED <<screen, vkey, form, sent, wrap>>

\* finish_login with the right password, and the message to login/finish.
LoginFinish(t) ==
    /\ flow[t].pc = "starting"
    /\ wrap # None
    /\ LET h == flow[t].handle IN
       /\ Known(h)
       /\ Put(Taken(h), [sessions[h] EXCEPT !.export = wrap.reg])
       /\ Flow(t, "finishing", Unused(Taken(h)))
    /\ UNCHANGED <<screen, vkey, form, sent, wrap>>

\* The grant: enroll opens it, drops the session and goes to home; unlock asks
\* for the vault.
Enrolled(t) ==
    /\ flow[t].pc = "finishing" /\ t # "unlock"
    /\ Load("home")
    /\ UNCHANGED <<sent, wrap>>

Unlocked_Mutant(t) ==
    /\ flow[t].pc = "finishing" /\ t = "unlock"
    /\ Flow(t, "fetching", flow[t].handle)
    /\ vkey' = flow[t].handle
    /\ UNCHANGED <<screen, sessions, form, sent, wrap>>

Unlocked(t) ==
    /\ flow[t].pc = "finishing" /\ t = "unlock"
    /\ Flow(t, "fetching", flow[t].handle)
    /\ UNCHANGED <<screen, sessions, vkey, form, sent, wrap>>

\* derive_vault.  If the dialog is still open whoever waited for it goes on,
\* the password change with rekey_start; its button stays disabled.  A user who
\* has cancelled meanwhile gets the vault opened all the same.
Opens ==
    /\ flow["unlock"].pc = "fetching"
    /\ LET h == flow["unlock"].handle IN
       /\ Known(h)
       /\ sessions[h].export = wrap.reg
       /\ sessions' = [sessions EXCEPT ![h].secret = wrap.secret,
                                       ![h].rekey = asked /\ dialog = "passwd"]
       /\ vkey' = h
    /\ Flow("unlock", "idle", None)
    /\ form' = IF asked /\ dialog \in Forms THEN [form EXCEPT ![dialog] = "waiting"] ELSE form
    /\ dialog' = IF asked THEN None ELSE dialog
    /\ asked' = FALSE
    /\ UNCHANGED <<page, sent, wrap>>

Derive_Mutant == Opens /\ go' = TRUE
Derive == Opens /\ UNCHANGED go

\* A call fails, or the password is wrong: finish_* drop the session they took,
\* the others leave it.  The server may have made the account.
FlowFails(t) ==
    /\ flow[t].pc # "idle"
    /\ \/ UNCHANGED sessions
       \/ flow[t].pc \in {"registering", "starting"} /\ sessions' = Taken(flow[t].handle)
    /\ \/ UNCHANGED wrap
       \/ /\ flow[t].pc = "registered" /\ wrap = None
          /\ wrap' = [reg |-> 1, secret |-> "real"]
    /\ Flow(t, "idle", None)
    /\ go' = IF t = "unlock" THEN TRUE ELSE go
    /\ asked' = IF t = "unlock" THEN FALSE ELSE asked
    /\ UNCHANGED <<page, dialog, vkey, form, sent>>

-----------------------------------------------------------------------------
(* home: the dialog, the chip and the forms.                               *)

Form(f, step) == form' = [form EXCEPT ![f] = step]

\* Nothing is in front of the page.
Free == page = "home" /\ dialog = None

\* want: the form's work up to its first await, with an open vault, or first
\* the dialog.  Only secretGet has an await before it uses the vault, and only
\* passwd's rekey_start changes the session.
Want(f) ==
    /\ Free /\ form[f] = "idle"
    /\ IF vkey = None
       THEN dialog' = f /\ Form(f, "asking") /\ UNCHANGED sessions
       ELSE /\ Form(f, IF f = "get" \/ Known(vkey) THEN "waiting" ELSE "idle")
            /\ sessions' = IF f = "passwd" /\ Known(vkey)
                           THEN [sessions EXCEPT ![vkey].rekey = TRUE] ELSE sessions
            /\ UNCHANGED dialog
    /\ UNCHANGED <<page, asked, go, vkey, flow, sent, wrap>>

Unlock ==
    /\ dialog # None /\ go /\ flow["unlock"] = Rest
    /\ Flow("unlock", "begin", None)
    /\ go' = FALSE /\ asked' = TRUE
    /\ UNCHANGED <<page, dialog, sessions, vkey, form, sent, wrap>>

Cancel_Mutant ==
    /\ dialog # None
    /\ dialog' = None /\ asked' = FALSE
    /\ UNCHANGED <<page, go, sessions, vkey, flow, form, sent, wrap>>

Cancel ==
    /\ dialog # None
    /\ form' = IF dialog \in Forms THEN [form EXCEPT ![dialog] = "idle"] ELSE form
    /\ dialog' = None /\ asked' = FALSE
    /\ UNCHANGED <<page, go, sessions, vkey, flow, sent, wrap>>

\* The chip: lock, or ask.
Lock_Mutant ==
    /\ Free /\ vkey # None
    /\ vkey' = None
    /\ UNCHANGED <<screen, sessions, flow, form, sent, wrap>>

Lock ==
    /\ Free /\ vkey # None
    /\ sessions' = Taken(vkey)
    /\ vkey' = None
    /\ UNCHANGED <<screen, flow, form, sent, wrap>>

Ask ==
    /\ Free /\ vkey = None
    /\ dialog' = "chip"
    /\ UNCHANGED <<page, asked, go, sessions, vkey, flow, form, sent, wrap>>

\* secretGet: open_secret, or its error.
Got ==
    /\ form["get"] = "waiting"
    /\ Form("get", "idle")
    /\ UNCHANGED <<screen, sessions, vkey, flow, sent, wrap>>

\* rekey_finish on whatever vault is open by now: it takes the session, and
\* with a rekey_start behind it wraps the vault secret anew.
RekeyFinish ==
    /\ form["passwd"] = "waiting"
    /\ IF ~Known(vkey)
       THEN Form("passwd", "idle") /\ UNCHANGED <<sessions, sent>>
       ELSE /\ sessions' = Taken(vkey)
            /\ IF sessions[vkey].rekey
               THEN Form("passwd", "posted") /\ sent' = sessions[vkey].secret
               ELSE Form("passwd", "idle") /\ UNCHANGED sent
    /\ UNCHANGED <<screen, vkey, flow, wrap>>

\* The server: a rekey/finish arrives, or a password change from elsewhere.
Rekeyed ==
    /\ sent # None /\ wrap.reg < MaxRegs
    /\ wrap' = [reg |-> wrap.reg + 1, secret |-> sent]
    /\ sent' = None
    /\ UNCHANGED <<screen, sessions, vkey, flow, form>>

Elsewhere ==
    /\ wrap # None
    /\ wrap.reg < MaxRegs
    /\ wrap' = [wrap EXCEPT !.reg = @ + 1]
    /\ UNCHANGED <<screen, sessions, vkey, flow, form, sent>>

\* A call of a form fails; the request may have got through, or may yet.
FormFails(f) ==
    /\ form[f] \in {"waiting", "posted"}
    /\ Form(f, "idle")
    /\ sent' \in IF f = "passwd" /\ form[f] = "posted" THEN {sent, None} ELSE {sent}
    /\ UNCHANGED <<screen, sessions, vkey, flow, wrap>>

\* location.reload, after a set or a password change that went well, or
\* because the user wants to, who may also go to the login page.
Reload(p) ==
    /\ Load(p)
    /\ UNCHANGED <<sent, wrap>>

-----------------------------------------------------------------------------

Next ==
    \/ \E t \in Flows :
          \/ Submit(t) \/ RegisterStart(t) \/ RegisterFinish(t) \/ RegisterDone(t)
          \/ LoginStart(t) \/ LoginFinish(t) \/ Enrolled(t) \/ Unlocked(t) \/ FlowFails(t)
    \/ \E f \in Forms : Want(f) \/ FormFails(f)
    \/ Derive \/ Unlock \/ Cancel \/ Lock \/ Ask
    \/ Got \/ RekeyFinish \/ Rekeyed \/ Elsewhere
    \/ \E p \in {page, "login"} : Reload(p)

Spec == Init /\ [][Next]_vars

-----------------------------------------------------------------------------

\* The values of the page's variables, of the wasm module's and of the server's;
\* a form waits for the dialog while the dialog is open for it.
TypeOK ==
    /\ page \in {"login", "home"}
    /\ sessions \in [Handles -> Sessions \cup {None}]
    /\ vkey \in Handles \cup {None}
    /\ flow \in [Flows -> [pc : {"idle", "new", "registering", "registered", "begin",
                                 "starting", "finishing", "fetching"},
                           handle : Handles \cup {None}]]
    /\ form \in [Forms -> {"idle", "asking", "waiting", "posted"}]
    /\ dialog \in Forms \cup {"chip", None}
    /\ asked \in BOOLEAN /\ go \in BOOLEAN
    /\ sent \in Secrets \cup {None}
    /\ wrap \in [reg : Regs, secret : Secrets] \cup {None}
    /\ vkey # None \/ dialog # None => page = "home"
    /\ asked => dialog # None /\ flow["unlock"] # Rest
    /\ \A f \in Forms : form[f] = "asking" <=> dialog = f

\* A handle is good for the session it was given out for and for no other,
\* although handles are used again (lib.rs put): a handshake finds its own
\* session, and the key of the vault never opens one that is half way.
HandlesArePrivate ==
    /\ \A t \in Flows : flow[t].handle # None =>
          /\ Known(flow[t].handle) /\ sessions[flow[t].handle].of = t
          /\ flow[t].handle # vkey
    /\ Known(vkey) => sessions[vkey].secret = "real"

\* No password change from the browser loses the vault, whatever is locked,
\* unlocked or reloaded while it runs: what is wrapped anew is the secret made
\* at registration (lib.rs rekey_finish, shell.js passwd).
VaultIsKept == wrap # None => wrap.secret = "real"

\* Locking takes the vault secret out of memory: only the open vault and a
\* handshake that runs, or has run on the login page, have one (shell.js lock).
LockForgets ==
    \A h \in Handles :
        Known(h) /\ sessions[h].of = "unlock" /\ sessions[h].secret = "real" => h = vkey

\* shell.js:3: the page keeps the vault open until the lock chip is clicked.
OpenUntilLocked == vkey # None /\ form["passwd"] # "posted" => Known(vkey)
=============================================================================
