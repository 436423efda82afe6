-------------------------------- MODULE Cli --------------------------------
(***************************************************************************)
(* The command-line client (src/crates/client): what its commands do to    *)
(* config.toml, the one place a computer keeps its device and token, while *)
(* the server hands out and kills tokens.                                  *)
(*                                                                         *)
(* The commands are processes of one user on one computer: they may run at *)
(* the same time, be killed at any point, lose a request or its answer,    *)
(* and find the disk full.  They use one account, but each spells its url  *)
(* and user name as it was given them (net.rs normalizes the url only to   *)
(* use it), so the texts they save differ in length.  The server is seen   *)
(* through Registry.tla, which Devices.tla implements.                     *)
(***************************************************************************)
EXTENDS Naturals

CONSTANTS
    Commands,   \* processes of the sylvie program
    Devices,    \* device ids (fresh uuids)
    Lengths,    \* the lengths of the texts that are saved
    Garbled,    \* a device id or token that is part of one and part of another
    Torn,       \* the contents of a file that does not parse
    None

Parts == Devices \cup {Garbled}

\* The contents of a file that parses, as far as they name a device and token.
Texts == [device : Parts, token : Parts]

ASSUME FileAssumption ==
    /\ Garbled \notin Devices /\ None \notin Parts /\ Torn # None
    /\ None \notin Texts /\ Torn \notin Texts
    /\ Lengths \subseteq Nat \ {0}

VARIABLES
    account,    \* the server has its account (Register.tla)
    token,      \* per device: "none", "usable", "dead"
    lease,      \* the device a command's request was admitted with
    aim,        \* the device a command's request is to revoke
    file,       \* config.toml: absent (None), Torn, or a text
    extent,     \* how far it has been written since it was truncated, and
    inside,     \* the devices whose texts left bytes in it, while it is open
    pc,         \* how far the command is
    dev,        \* the device a command was granted or whose token it has read
    due,        \* the length of the text save() has yet to write to config.toml
    forgotten,  \* history: devices whose token the client has let go of
    cut,        \* history: a save() was cut off and left no whole text
    even        \* history: the saves that had the file open at a time since it
                \* was last whole and closed, or opened by one alone, wrote
                \* texts of one length

server == <<token, lease>>
content == <<file, extent, inside>>
vars == <<account, server, aim, content, pc, dev, due, forgotten, cut, even>>

Hub == INSTANCE Registry WITH Requests <- Commands

\* No command runs; "left" is a logout that was reported done.
Rest == {"idle", "left"}

\* Commands whose request carries the token they have read.
Asking == {"using", "kicking", "leaving"}

Text(d) == [device |-> d, token |-> d]

\* It parses, and the token is the device's.
Whole(f) == \E d \in Devices : f = Text(d)

\* The device whose token a file still has.
Kept(f) == IF f \in Texts THEN {f.token} \ {Garbled} ELSE {}

Larger(a, b) == IF a >= b THEN a ELSE b

Init ==
    /\ account = FALSE
    /\ Hub!Init
    /\ aim = [c \in Commands |-> None]
    /\ file = None
    /\ extent = 0
    /\ inside = {}
    /\ pc = [c \in Commands |-> "idle"]
    /\ dev = [c \in Commands |-> None]
    /\ due = [c \in Commands |-> 0]
    /\ forgotten = {}
    /\ cut = FALSE
    /\ even = TRUE

Goto(c, step) == pc' = [pc EXCEPT ![c] = step]

Ready(c) == pc[c] \in Rest /\ lease[c] = None

-----------------------------------------------------------------------------
(* login and register.                                                     *)

\* credentials() loads the file first, so one that does not parse refuses
\* even the commands that would replace it.
LoginBegin(c) ==
    /\ Ready(c)
    /\ file # Torn
    /\ account
    /\ Goto(c, "login")
    /\ dev' = [dev EXCEPT ![c] = None]
    /\ UNCHANGED <<account, server, aim, content, due, forgotten, cut, even>>

\* The account is made by one request and the login that follows is another:
\* cut off between the two, a retry is refused and login is the way in.
Register(c) ==
    /\ Ready(c)
    /\ file # Torn
    /\ ~account
    /\ account' = TRUE
    /\ \/ Goto(c, "login")
       \/ Goto(c, "idle")
    /\ dev' = [dev EXCEPT ![c] = None]
    /\ UNCHANGED <<server, aim, content, due, forgotten, cut, even>>

\* The server enrolls a device and the client receives its token.
Enroll(c, d) ==
    /\ pc[c] = "login"
    /\ Hub!Issue(d)
    /\ Goto(c, "granted")
    /\ dev' = [dev EXCEPT ![c] = d]
    /\ UNCHANGED <<account, aim, content, due, forgotten, cut, even>>

\* It enrolls a device, and the client is gone or its answer is lost.
EnrollLost(c, d) ==
    /\ pc[c] = "login"
    /\ Hub!Issue(d)
    /\ Goto(c, "idle")
    /\ forgotten' = forgotten \cup {d}
    /\ UNCHANGED <<account, aim, content, dev, due, cut, even>>

LoginFails_Mutant(c) ==
    /\ pc[c] = "login"
    /\ Goto(c, "granted")
    /\ UNCHANGED <<account, server, aim, content, dev, due, forgotten, cut, even>>

\* A wrong password, a refused or failed request, Ctrl-C.
LoginFails(c) ==
    /\ pc[c] = "login"
    /\ Goto(c, "idle")
    /\ UNCHANGED <<account, server, aim, content, dev, due, forgotten, cut, even>>

\* Before fs::write: no config directory, no permission; or Ctrl-C.
SaveFails(c) ==
    /\ pc[c] = "granted"
    /\ Goto(c, "idle")
    /\ forgotten' = forgotten \cup {dev[c]}
    /\ UNCHANGED <<account, server, aim, content, dev, due, cut, even>>

SaveBegin_Mutant(c, n) ==
    /\ pc[c] = "granted"
    /\ Goto(c, "saving")
    /\ due' = [due EXCEPT ![c] = n]
    /\ even' = \A x \in Commands : due[x] # 0 => even /\ due[x] = n
    /\ file' = IF file = None THEN Torn ELSE file
    /\ extent' \in IF file = None THEN {0} ELSE Lengths
    /\ UNCHANGED <<account, server, aim, inside, dev, forgotten, cut>>

\* fs::write opens and truncates: the token that was saved is gone.
SaveBegin(c, n) ==
    /\ pc[c] = "granted"
    /\ Goto(c, "saving")
    /\ due' = [due EXCEPT ![c] = n]
    /\ even' = \A x \in Commands : due[x] # 0 => even /\ due[x] = n
    /\ file' = Torn
    /\ extent' = 0
    /\ inside' = {}
    /\ cut' = FALSE
    /\ forgotten' = forgotten \cup Kept(file)
    /\ UNCHANGED <<account, server, aim, dev>>

Others(c) == \E x \in Commands \ {c} : due[x] # 0

\* A save() is over after writing n: it lets go of its own token, and of the
\* one that was in the file, unless the file has it.
SaveOver(c, n) ==
    /\ pc[c] = "saving"
    /\ Goto(c, "idle")
    /\ due' = [due EXCEPT ![c] = 0]
    /\ extent' = IF Others(c) THEN Larger(extent, n) ELSE 0
    /\ inside' = IF Others(c)
                 THEN (IF n < extent THEN inside ELSE {})
                         \cup (IF n = 0 THEN {} ELSE {dev[c]})
                 ELSE {}
    /\ even' = (even \/ (Whole(file') /\ ~Others(c)))
    /\ forgotten' = forgotten \cup ((Kept(file) \cup {dev[c]}) \ Kept(file'))
    /\ UNCHANGED <<account, server, aim, dev>>

\* The text is written, from the start of the file, over that of an
\* overlapping save() if there is one.  The end of a longer text stays behind
\* it; most such ends do not parse, a bare newline or unknown key does.
SaveEnd(c) ==
    /\ due[c] # 0
    /\ \/ file' = Text(dev[c])
       \/ extent > due[c] /\ file' = Torn
    /\ cut' = FALSE
    /\ SaveOver(c, due[c])

\* What load() may read once the text of c was cut off over that of another:
\* from its start the new text took the place of the old, so the device is the
\* new one before the token is.
Mixtures(c) ==
    LET pieces == inside \cup {dev[c], Garbled}
    IN  {f \in [device : pieces, token : pieces] :
            f.token = dev[c] => f.device = dev[c]}

\* Killed, or the disk is full: n of the text is written.  (Only its last
\* newline missing, it is as good as written.)
SaveCut(c) ==
    /\ \E n \in 0..(due[c] - 1) :
          /\ file' \in CASE n = 0               -> {file}
                         [] n > 0 /\ n >= extent -> {Torn}
                         [] n > 0 /\ n < extent  -> {Torn, file} \cup Mixtures(c)
          /\ SaveOver(c, n)
    /\ cut' = ~Whole(file')

\* The text is written, or not, into a file that a logout has unlinked.
SaveLost(c) ==
    /\ due[c] = 0
    /\ UNCHANGED <<file, cut>>
    /\ SaveOver(c, 0)

-----------------------------------------------------------------------------
(* Commands that read the file and ask with its token.                     *)

Stored(c) == file \in Texts

\* stored(), and the request is sent with the token it has read.
Ask(c, step, d) ==
    /\ Ready(c)
    /\ Stored(c)
    /\ Goto(c, step)
    /\ dev' = [dev EXCEPT ![c] = file.token]
    /\ aim' = [aim EXCEPT ![c] = d]
    /\ UNCHANGED <<account, server, content, due, forgotten, cut, even>>

\* upload, and every other command that revokes nothing.
Use(c) == Ask(c, "using", None)

\* device revoke: any device, also the one of this computer.
Kick(c, d) == Ask(c, "kicking", d)

\* logout asks to revoke the device it has read.
Leave(c) == Stored(c) /\ Ask(c, "leaving", file.device)

Arrive(c) ==
    /\ pc[c] \in Asking
    /\ lease[c] = None
    /\ dev[c] \in Devices
    /\ Hub!Admit(c, dev[c])
    /\ UNCHANGED <<account, aim, content, pc, dev, due, forgotten, cut, even>>

\* The handler of DELETE devices/{id}.
Revoke(c) ==
    /\ aim[c] \in Devices
    /\ token[aim[c]] # "none"
    /\ Hub!Kill(c, aim[c])
    /\ UNCHANGED <<account, aim, content, pc, dev, due, forgotten, cut, even>>

\* deliver() sees a success.  A command of several requests sends the next
\* one with the token it has, logout goes on to clear().
Answered(c) ==
    /\ pc[c] \in Asking
    /\ lease[c] # None
    /\ aim[c] = None \/ (aim[c] \in Devices /\ token[aim[c]] = "dead")
    /\ Hub!Release({c})
    /\ \/ pc[c] = "leaving" /\ Goto(c, "gone")
       \/ pc[c] = "using" /\ UNCHANGED pc
       \/ pc[c] # "leaving" /\ Goto(c, "idle")
    /\ UNCHANGED <<account, aim, content, dev, due, forgotten, cut, even>>

Fails_Mutant(c) ==
    /\ pc[c] \in Asking
    /\ Goto(c, IF pc[c] = "leaving" THEN "gone" ELSE "idle")
    /\ UNCHANGED <<account, server, aim, content, dev, due, forgotten, cut, even>>

\* 401 for a token that is dead or garbled, 404, 500, no connection, a lost answer or
\* Ctrl-C: the command ends and the file stays.  The server may still be at
\* work on the request.
Fails(c) ==
    /\ pc[c] \in Asking
    /\ Goto(c, "idle")
    /\ UNCHANGED <<account, server, aim, content, dev, due, forgotten, cut, even>>

\* The server drops a request whose client is gone, done or not.
Drop(c) ==
    /\ pc[c] = "idle"
    /\ lease[c] # None
    /\ Hub!Release({c})
    /\ UNCHANGED <<account, aim, content, pc, dev, due, forgotten, cut, even>>

\* clear() removes whatever file is there now, also one that a login has
\* saved, or is saving, since stored() was read.
Clear(c) ==
    /\ pc[c] = "gone"
    /\ Goto(c, "left")
    /\ file' = None
    /\ extent' = 0
    /\ inside' = {}
    /\ due' = [x \in Commands |-> 0]
    /\ cut' = FALSE
    /\ forgotten' = forgotten \cup (Kept(file) \ {aim[c]})
    /\ UNCHANGED <<account, server, aim, dev, even>>

ClearFails_Mutant(c) ==
    /\ pc[c] = "gone"
    /\ Goto(c, "left")
    /\ UNCHANGED <<account, server, aim, content, dev, due, forgotten, cut, even>>

\* remove_file fails, or Ctrl-C: revoked, and still configured.
ClearFails(c) ==
    /\ pc[c] = "gone"
    /\ Goto(c, "idle")
    /\ UNCHANGED <<account, server, aim, content, dev, due, forgotten, cut, even>>

-----------------------------------------------------------------------------
(* What others do.                                                         *)

\* The dashboard, a client on another computer, or a late DELETE whose client
\* is gone, revokes a device.
RevokedElsewhere(d) ==
    /\ token[d] = "usable"
    /\ token' = [token EXCEPT ![d] = "dead"]
    /\ UNCHANGED <<account, lease, aim, content, pc, dev, due, forgotten, cut, even>>

\* The user removes a file that no command can read, or write, any more.
RemoveByHand ==
    /\ file = Torn
    /\ \A c \in Commands : due[c] = 0
    /\ file' = None
    /\ extent' = 0
    /\ inside' = {}
    /\ cut' = FALSE
    /\ UNCHANGED <<account, server, aim, pc, dev, due, forgotten, even>>

-----------------------------------------------------------------------------

Next ==
    \/ \E c \in Commands :
          \/ LoginBegin(c) \/ Register(c) \/ LoginFails(c)
          \/ \E d \in Devices : Enroll(c, d) \/ EnrollLost(c, d)
          \/ SaveFails(c) \/ \E n \in Lengths : SaveBegin(c, n)
          \/ SaveEnd(c) \/ SaveCut(c) \/ SaveLost(c)
          \/ Use(c) \/ Leave(c) \/ \E d \in Devices : Kick(c, d)
          \/ Arrive(c) \/ Revoke(c) \/ Answered(c) \/ Fails(c) \/ Drop(c)
          \/ Clear(c) \/ ClearFails(c)
    \/ \E d \in Devices : RevokedElsewhere(d)
    \/ RemoveByHand

Spec == Init /\ [][Next]_vars

-----------------------------------------------------------------------------
(* Properties.                                                             *)

\* The values of the file, the processes and the server; a command that uses
\* or saves a device has one; and only a save() that runs has the file open.
TypeOK ==
    /\ account \in BOOLEAN
    /\ token \in [Devices -> {"none", "usable", "dead"}]
    /\ lease \in [Commands -> Devices \cup {None}]
    /\ aim \in [Commands -> Parts \cup {None}]
    /\ file \in Texts \cup {None, Torn}
    /\ extent \in Nat
    /\ inside \subseteq Devices
    /\ pc \in [Commands -> Rest \cup Asking \cup {"login", "granted", "saving", "gone"}]
    /\ dev \in [Commands -> Parts \cup {None}]
    /\ \A c \in Commands : pc[c] \notin {"idle", "login"} => dev[c] # None
    /\ due \in [Commands -> Lengths \cup {0}]
    /\ \A c \in Commands : due[c] # 0 => pc[c] = "saving" /\ file # None
    /\ forgotten \subseteq Devices
    /\ cut \in BOOLEAN /\ even \in BOOLEAN

Holds(c, d) == dev[c] = d /\ pc[c] \in {"granted", "saving"}

\* No usable token is dropped silently: it is in config.toml, or in the hands
\* of a login that still runs, or it was let go of in one of six ways - an
\* answer lost after the enrollment, a save that failed or was cut off, a save
\* into a file that a logout had unlinked, a save that left the end of a longer
\* text behind it, a later login in its place, a logout that cleared another
\* token than it had revoked.  A refused or failed logout is none of them
\* (commands/auth.rs logout, config.rs save and clear).
LiveIsAccounted ==
    \A d \in Devices :
        token[d] = "usable" =>
            d \in Kept(file) \/ d \in forgotten \/ \E c \in Commands : Holds(c, d)

\* "logged out" is reported only when the token of the device it was read for
\* is dead on the server, and neither the device nor a byte of its text is in
\* the file: no save() that was overtaken brings it back, and none that is cut
\* off later mixes it in.
LogoutMeansRevoked ==
    \A c \in Commands :
        pc[c] = "left" =>
            /\ token[aim[c]] = "dead"
            /\ aim[c] \notin inside
            /\ file \in Texts => aim[c] \notin {file.device, file.token}

\* A file that locks its user out, because it does not parse or because its
\* token is not its device's, is one that a login is writing, or one a login was
\* cut off writing, or the work of overlapping saves of texts that differ in
\* length: overlapping saves of equal texts, failed ones and a logout in between
\* never leave one (config.rs save).
WholeUnlessCut ==
    \/ file = None \/ Whole(file)
    \/ cut \/ ~even
    \/ \E c \in Commands : due[c] # 0
=============================================================================
