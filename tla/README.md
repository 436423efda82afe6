# sylvie: TLA+ specifications

sylvie is a self-hosted vault for one owner: a server (axum, SQLite, a
directory of file objects), a command-line client, and a dashboard whose
cryptography runs in the browser as a wasm module. The password never leaves
the client: registration and login are OPAQUE handshakes, and the vault secret
is wrapped under a key only the password recovers. Possession of a device token
admits a request; knowledge of the password unlocks the vault.

This directory holds TLA+ modules of the parts of the program whose
correctness depends on the order in which things happen, TLC configurations
that check them on small instances, and TLAPS proofs for every instance.
Source paths below are relative to the repository root; `server/`, `client/`
and `web/` stand for `crates/server/src/`, `crates/client/src/` and
`crates/web/src/`.

## 1. Inventory

| Component | State | Operations | Hard behaviour | What makes it correct |
|---|---|---|---|---|
| Account (`server/routes/auth.rs`, `server/db.rs`) | table `users` | register_start, register_finish | registrations race inside a deferred SQLite transaction; a commit may be done when its handler is gone | one account; every answer tells the truth; a race has a winner |
| Flood gate (`server/ctx.rs` admit) | map of strikes, in memory | admit | window boundaries, refused calls, restarts | a bound on any interval; no refusal without cause |
| Handshakes (`auth.rs`, `ctx.rs` pendings) | pending map, `users.record` | login_start, login_finish, rekey_start, rekey_finish | late or repeated messages, a record that changes between two awaits of one handler, restarts | granted once; a replaced password dies out |
| Vault and secrets (`client/session.rs`, `client/commands/secret.rs`, `auth.rs` vault, `routes/secret.rs`) | `users.wrap`, table `secrets` | fetch vault, put, delete, change password | concurrent password changes, commands that stop half way | record and wrap belong together; no value becomes unreadable |
| Devices and sessions (`auth.rs` enroll/issue/verify, `routes/account.rs`, `routes/device.rs`) | tables `devices`, `sessions` | enroll, unlock, authenticate, list, revoke | two statements per operation, failures and hang-ups between them, requests already admitted | tables agree; revocation is final; only admitted requests revoke |
| Dashboard (`routes/web.rs`) | signals of three lists, event streams | web_device, web_file, web_secret, login_post, logout, refresh, events | ignored errors, lists published after they were read, signals that all pages share | never shows as revoked what has access; a bound on how old a list may be; settles when the tables do |
| Files (`routes/file.rs`, `client/commands/file.rs`) | table `files`, objects | upload, list, meta, content, remove, download | write-behind of tokio's `File`, writes that land in part, row and object in two steps, readers during removal | rows have objects; orphans have a cause; digests tell the truth |
| Browser vault (`web/lib.rs`, `crates/server/web/shell.js`) | SESSIONS, `vkey`, the dialog, the forms | register, enroll, unlock, lock, secret get/set, passwd | awaits interleave with user actions; handles are used again | handles never cross; no password change loses the vault; lock forgets |
| Client configuration (`client/config.rs`, `client/lib.rs`, `client/commands/`) | `config.toml` | register, login, logout, device revoke, every command that asks with the token | lost replies, commands that overlap, texts of different length over each other, a stop while writing | no usable token dropped silently; a reported logout is one; a file that is not whole has a cause |
| Backup (`deploy/pull-backup.sh`) | a copy of database and files | pull, restore | two stores copied one after the other while the server goes on | what has a row and is still stored is in the copy, whole as far as its digest |
| HTTP client (`client/net.rs`) | none | call, upload, download | none of its own: one request, no retry, and whoever calls must live with a lost answer | |
| Codecs, cryptography (`crates/core`) | none | seal, open, OPAQUE steps | none: pure | what they promise is assumed |
| Configuration, start-up (`server/main.rs`, `config.rs`) | environment, OPAQUE setup | load, build | runs once, alone | |
| Deployment, build (`deploy/`, `build-web.sh`) | none | scripts | | |

How they interact. Every request enters through axum as a task of its own;
tasks share the database pool, the pending and flood maps (each behind one
mutex), the signals, and the storage directory. A client that hangs up drops
its handler at whatever await it has reached. The server keeps pendings,
strikes and signals in memory only. `register_start` and `login_start` pass
the flood gate first; `login_finish` ends in enroll/issue or verify; every
other route begins with the token check; the dashboard's mutations end with
`refresh()`, which the JSON endpoints do not call. The client and
the page drive the same JSON endpoints; their own state is the recovered
export key and the vault secret.

The hazards, each at its line, are listed in `PROJECT.json` under `hazards`
with the properties that cover them.

## 2. Modules

```
Registry.tla   <-- implemented by -- Devices.tla   (DevicesProofs.tla)
     ^----------- the server of ---- Cli.tla       (CliProofs.tla)
Flood.tla      <-- extended by ----- Register.tla  (FloodProofs.tla, RegisterProofs.tla)
Login.tla      (LoginProofs.tla)
Files.tla      <-- extended by ----- Backup.tla    (BackupProofs.tla)
Dashboard.tla  (DashboardProofs.tla)
WebVault.tla   (WebVaultProofs.tla)
MC<Module>.tla: the symmetry sets and the instance TLC runs
```

Register runs behind the flood gate, whose calls and clock are its own, so it
extends Flood and is proved to implement it. For the rest the division follows
what the components share. Login, Register and Devices
are three parts of `auth.rs` that meet in few facts: Register gives the one
account that the others assume, Login decides that a password was proved, and
Devices begins an enrollment or unlock wherever that can happen. Cli sees the
server through Registry, which Devices is proved to implement. Each is
checked against the weakest assumption about the others (any client may prove
the password at any time; the account exists), so nothing is lost by keeping
them apart except the properties that relate them, which are planned
(section 7).

### Registry, Devices

Registry.tla is what sylvie promises about tokens: issued once, killed or lost
only by a request admitted while its own token was usable, never back from the
dead. It has no tables, statements or clock.

Devices.tla has the two tables (`device`, `session`), the requests being
worked on (`pc`, `via`, `actor`, `target`), and the dashboard's signal
(`shown`, with `snap` for what a `refresh()` has read and not yet published).
An action is one SQL statement or one section without an await:

| Action | Code |
|---|---|
| EnrollInsert, EnrollIssue, IssueFails | enroll, issue in auth.rs |
| Unlock | verify in auth.rs |
| Authenticate | the Account extractor; account()/known_token in web.rs, which differs: no age check |
| RevokeLookup, RevokeMark, MarkFails, RevokeSweep, SweepFails | revoke in device.rs, web_device in web.rs; `via` says which, and with it whether a failed UPDATE ends the request or is ignored |
| Act | any other authenticated handler |
| RefreshRead, RefreshShow, Watch | refresh and events in web.rs |
| Abort, Restart, Tick | hang-up, stop and start, time |

`cut` is history: the devices some statement of whose enrollment or revocation
failed, was cut off or was overtaken. Properties that cannot hold for these
are stated for the others; properties that hold regardless do not mention it.

### Flood

`count` and `born` are the Strike of a key; `log` and `opened` are history. The
mutex makes a call one step. Refused calls count and do not move the window.

### Login

The password record is modelled by the number of the registration that made it:
export key and wrapping key stand or fall with that number. `login_start` is two
steps, because it awaits the record: LoginRead takes it (`read`), LoginStart
makes the handshake and inserts it, and a password change may commit between
them. The pending map is `pend`, whose entries are pruned only by the next
insert, as in `pending_insert`; `posted` is the set of finish messages that may
arrive, once, twice, late or never. `begun` is history: what each handshake was
begun under, when that was read and when the handshake was born. OldPasswordDiesOut
is stated with the time between the two; without it, TLC finds a handshake of the
old record that is born after the change and granted a lifetime later. The
client's commands are `pc`, with the key recovered, the vault secret unwrapped
and the new registration made. A wrong password makes the client stop after
`login_start`. A restart drops the handlers that wait for the record.

### Register

A registration passes the gate (Ask, a call of Flood), is refused or asked to
finish (Start), and then runs the transaction of `register_finish` with SQLite's
rules in WAL mode: the first read takes the snapshot (Count), the insert upgrades
to the single write lock only from the newest snapshot (Insert, InsertBusy), and
everything before the commit rolls back when the handler is dropped. Commit is
what SQLite does, Answer what the handler still has to: between the two a client
that hangs up, or a restart, leaves a row that nobody was answered 204 for
("gone"). CreatedIsTheAccount says what each answer is worth, and SomeoneWins
that a refusal for another's sake is for one that got to write. Elsewhere stands
for the calls of the gate that `login_start` makes, and for time.

### Files

A body is a number of units, sent in chunks of any number of them, and a digest
stands for the length of the prefix it was taken of. `disk`, `flying` and `ailing`
are tokio's `File`: a write is handed to a thread and lands later, unit by unit
(Land), so that a reader may see a part of it, and it may fail after any part; the
error is reported to the next write, if there is one. `last` is the length of the
last chunk: AlmostWhole and Verdicts say that what object or digest may miss lies
within it. Removal runs the statements of `remove` or of
`web_file`, which differ in what a failed DELETE does. The download is the
client's: meta, content (row, then open), and the digest check.

### Backup

Backup.tla extends Files.tla with the snapshot that `pull-backup.sh` takes while
the server goes on: the table as of one moment (CopyRows), the names in the
directory (ListObjects), then the objects one by one, each as long as it is when
tar comes to it (PackObject). tar ends in failure when an object it has listed
is gone, and `&&` with `set -e` then ends the pull without a snapshot. Restore
is the recipe at the script's end: a new box holds the rows and objects of the
snapshot and no request of the old one. The rows of files still being removed
then have no object (`Gone`), and the objects of files stored between the two
copies have no row (`Strays`); the properties of Files take both as causes.

### Dashboard

The three lists live in signals that every page and event stream of the server
shares. `refresh()` reads three tables in turn (ReadList, ReadFails) and then
sets three signals in turn (SetSignal); `index` renders what the signals hold by
then and not what it has read (Serve). A list is a version, the number of
changes to its table. A hang-up drops a handler only at an await, so never
between two sets. `since` and `oldest` are history: the tables as a handler
began, and as the earliest handler it overlaps began; `missed` is the lists a
select has failed on. The relation of the device list to revocations is in
Devices.tla, which has it row by row.

### Cli

The commands of `crates/client` as processes of one user on one computer that
share `config.toml`, whose state is `file`: absent, Torn, or a text, of which the
device and the token count, either of them Garbled if it is part of one and part of
another. Each command spells its url and user name as it was given them, so the
texts have lengths of their own. `save` opens and truncates (SaveBegin) and then
writes (SaveEnd), or is cut off (SaveCut). `due` is the length it has yet to write,
0 when `clear` has unlinked the file it has open (SaveLost). `extent` is how far the
open file has been written: a text written over a longer one leaves the end of that
behind it, and load() then mostly fails. One cut off over another leaves what has
been overwritten and what has not: a file that does not parse, or a mixture that
does (Mixtures), whose device and token need not belong together. A logout sends the
token and revokes the device of the text it has read, whole or not.

The server is the instance `Hub` of Registry.tla; RevokedElsewhere stands for the
dashboard, for other computers, and for a DELETE that arrives after its client has
given up. `forgotten`, `cut` and `even` are history: the devices the client has let
go of in a known way, that a save was cut off, and that the saves which had the file
open at the same time wrote texts of one length.

### WebVault

`sessions` is the SESSIONS table of the wasm module; `put` gives out the greatest
handle in use plus one, so handles come back. `flow` has the three handshakes,
`form` the work of the page's forms, `dialog`, `asked` and `go` the unlock dialog
and its button, `vkey` the page's idea of the open vault. One action is the code
between two awaits; anything the user can click runs between them. A flow or form
may fail at every call. The server is reduced to the wrap in force; password
changes from elsewhere are an action.

## 3. Runs

| Run | Configuration | Instance | What it shows |
|---|---|---|---|
| devices | Devices.cfg | 2 devices, 2 requests, TTL 1, clock to 2 | TypeOK; TablesAgree; KilledIsRevoked; ShownRevokedIsRevoked; RevocationIsFinal; KeepsPromise (Devices implements Registry) |
| devices_live | DevicesLive.cfg | 1 device, 2 requests, no clock | RevocationCompletes, under fairness |
| register | Register.cfg | 3 registrations, 2 keys, 2 attempts, window 2, clock to 4, 4 calls | Throttled, RefusedForCause of the gate; OneAccount, CreatedIsTheAccount, SomeoneWins behind it |
| login | Login.cfg | 2 clients, 1 name, 3 handshakes, 4 registrations, clock to 3 | WrapMatchesRecord, SecretsReadable, GrantedOnce, OldPasswordDiesOut |
| files | Backup.cfg (MCBackup) | 2 uploads of 0, 2 or 3 units (limit 2), 2 removals, 1 download, one snapshot at a time | RowHasObject, OrphansExplained, AlmostWhole, Verdicts, and SnapshotHoldsUp, with snapshots taken and restored at any moment |
| webvault | WebVault.cfg | 4 handles, 3 registrations in turn | HandlesArePrivate, VaultIsKept, LockForgets |
| cli | Cli.cfg | 3 commands, 3 devices, texts of length 2 or 3 | LiveIsAccounted, LogoutMeansRevoked, WholeUnlessCut |
| dashboard | Dashboard.cfg | 2 requests, 2 lists, 1 change to each | StalenessBounded; Settles, under fairness |
| devices_expiry, login_pending, files_hash, webvault_open | | as above, login_pending with 2 handshakes and registrations | a counterexample each, section 6 |

TLC checks in every run that some step is always possible.

Bounds and why they suffice:

- Two requests are enough for every race in Devices: each hazard is two handlers
  on one device (enroll against revoke, revoke against revoke, mutation against
  refresh), and the second device is there for requests of a revoked device
  against one that stays. A TTL of 1 and a clock to 2 make a token fresh, at
  the limit, and expired.
- Register: four ticks hold two windows of two and their boundary, and four calls
  two full windows of two attempts, in which the last of three calls in one window
  is refused. The counter is a u32 in the code and is not near its width in any
  window. Three registrations are one that wins, one that is refused by its
  snapshot and one by the lock; two keys are two peers, or one of them with two
  names.
- Login: three handshakes and four registrations let two clients log in, one
  change the password twice, and a third handshake be late; the clock passes the
  pending lifetime and leaves a tick.
- Files: a body of 0, one at the limit, one above it; a body of two units is one
  chunk that may land in part, or two chunks. Digests can miss only the last chunk,
  so longer bodies add nothing but length. The constraint `Few` takes either one
  file under all the removals and downloads, or two files of the greatest length,
  uploaded one after the other and then one of them removed: files share nothing but
  the directory and the snapshot, so these are the cases there are.
- Cli: three commands make the longest overlap in the code, a logout overtaken
  by two logins that save over each other; each needs a device of its own. Two
  lengths are a shorter and a longer text, and from 2 on a text can be cut off
  within. The constraint `Few` allows one request at a time once all three devices
  are enrolled; before that they overlap freely. The view `Seen` merges states
  that differ in a device nothing looks at again (that of an idle command).
- Dashboard: two requests make an older refresh cross a newer one and a page be
  rendered from another's lists. The lists differ only in that `web_device` may
  skip its refresh, so devices and one other list are enough. One change per
  table tells an old version from a new one.
- WebVault: with four handles every flow and the open vault can have one at the
  same time, and handles are used again after a drop. An action that would need
  a fifth is not taken: MaxHandle and MaxRegs end behaviours, they do not
  change one.

Symmetry is over devices, requests, keys, clients, uuids and removals, where
these are interchangeable in Init, Next and the properties. The two liveness runs
(devices_live, dashboard) declare none.

Every property has a mutant in `PROJECT.json`: a plausible slip in the code
(an `_Mutant` operator beside the definition it changes) that makes the
property fail in its run.

## 4. Fairness

Devices and Dashboard have a liveness property. `FairSpec` of Devices assumes
weak fairness of `Handler(r)` for every request: tokio polls a task that can go
on, and every SQL statement returns, with a result or an error. Nothing is
assumed of arrivals, hang-ups, restarts or the clock, so RevocationCompletes has
to say what a failed or dropped request leaves.

`FairSpec` of Dashboard assumes the same of its handlers and nothing else: no
browser has to ask for a page, and the failure of a select is no step of
`Handler`. So Settles states what it depends on: from some point on no table
changes, no select fails and the server does not restart, while pages go on
being served. Without the last nothing would set the lists right, because the
API changes tables without a refresh.

None of the properties about the clients has liveness: a user may stop at any
point.

## 5. Proofs

The proofs hold for every value of the constants under the named assumptions of
the modules. They do not depend on the sizes of the runs. The assumptions are
these: bounds are natural numbers; `None` is none of the values it stands beside;
a half-finished login lives for at least a tick (Login; the code says 300
seconds); a refresh goes through every list, once (Dashboard). TLC evaluates each
of them in the runs of its module.

Every safety property that a run checks is a theorem, about all reachable states
or all steps. What follows is why each needs more than itself: the inductive
invariant of each proof, which TLC checked on the run's instance before it was
proved. A module has one lemma per action, and shares what several actions need.

**DevicesProofs** proves TypeOK, TablesAgree, KilledIsRevoked,
ShownRevokedIsRevoked and RevocationIsFinal, and that Devices implements
Registry. The invariants are not inductive as they stand: TablesAgree, for one,
says nothing of a device some request is midway on, so the step that ends being
midway could break it. The inductive invariant knows what a request has already
done at each step:

- Bound: admitted requests have an actor, and those past their lookup a target
  whose row exists;
- Rows: a session row is issued once, by the one request that made the device;
- Marks: past the UPDATE the device is revoked, unless the dashboard ignored a
  failure;
- Owed: where the two tables disagree and nothing was cut, some request is
  midway and owes the second statement;
- Lists: what a refresh has read as revoked is revoked, and stays so.

Each action has a lemma. The refinement then takes one lemma per action that
moves a token or a lease; every other step maps to a stutter. The case that
needs the invariant is EnrollIssue on a device revoked in the meantime, which
must not bring a dead token back: TokenOf lets the mark win, as the token check
does.

**FloodProofs** proves TypeOK, Throttled and RefusedForCause. The invariant places
each admission against the open window: those up to the window's first are no
younger than its start (Placed), those a whole window's worth before are older by
a window, and Counted relates the strike counter to the number of admissions
logged. RefusedForCause needs in addition that the open window began with an
admission (First), so that the admission `Attempts` back is as young as the
window.

**RegisterProofs** proves RegisterTypeOK, OneAccount, CreatedIsTheAccount and
SomeoneWins for any number of registrations, and that they reach the gate only as
calls of it (PassesTheGate: RegisterSpec implies the Spec of Flood), so that
Throttled and RefusedForCause hold behind it too. The argument about the account is
about snapshots: the holder of the write lock has the newest snapshot (Holder), and
what was counted in the newest snapshot is still true (Counted). Without the check of
the snapshot in CanWrite, the deferred transaction would let two registrations
through; that is a mutant of the run. Rows says where a registration with a row can
be: committed, answered 204, or gone without an answer. Taken and Busy name, for every
refusal, the other one that it is owed to.

**CliProofs** proves TypeOK, LiveIsAccounted, LogoutMeansRevoked and
WholeUnlessCut for any number of commands and any lengths. The properties become
inductive with four facts: a device that a command or the file names was once
enrolled (Known), so that no later enrollment hands the same one to someone else; a
device that is not saved yet is known to one command only and left no byte in the
file (Private), so that a save, a mixture or a failure concerns no other command's
token; a logout revokes the device it has read, and clears only once that is dead
(Left); and as long as the overlapping texts have one length nothing was written
beyond it (Level), so that the last of them to be written covers the others. There is
one lemma per action; the three ways a save ends share SaveOverInv.

**LoginProofs** proves TypeOK, WrapMatchesRecord, SecretsReadable, GrantedOnce and
OldPasswordDiesOut for any number of clients, handshakes and registrations. What the
properties need of each other is that a client never holds another vault secret than
the one made at registration (Unwrapped): it unwraps only under the key of the record
the wrap was sealed under, so that whatever it wraps or seals later is the same
secret, however many changes have come between. A granted handshake is out of the map
and its number is not begun again (Begun, Spent). What a `login_start` has read, and
what a handshake was begun under, is the record in force or was replaced no earlier
than it was read (Replaced). With the lifetime that `pending_take` checks, that bounds
how long an old password can still be proved.

**BackupProofs** proves BackupTypeOK, RowHasObject, OrphansExplained, AlmostWhole,
Verdicts and SnapshotHoldsUp of `BackupSpec`, for any number of uploads, removals
and downloads of bodies of any length, with snapshots taken and restored at any
moment. Counted ties together what an upload has handed to tokio's `File`, what
has landed, in whole or in part, and what is flying or was refused: at most one chunk
is out at a time, which is why only the last can be missed. Stored says that every row, on the
server or in the snapshot, is of an upload that is done and whole as far as its
digest; Removing and Downloading say the same of the file a handler is busy with.
Archived is the argument about the two copies: as long as the server has a row
that the copy of the table has, the object is still listed or already packed,
and it was packed after the digest was taken.

**DashboardProofs** proves TypeOK and StalenessBounded for any lists, in any order,
and any number of requests. `oldest[r]` has to bound not only what `r` reads but
what every other request that runs beside it may still set: a running request has
read nothing from before it began, and none began before the oldest that another
can come across (Ordered). Fetched says that a refresh that sets has read every
list it has still to set, or missed it, and Shown that what it has set stays fresh
for it, whoever sets it again. That the oldest of the running requests exists is
MinIsLeast, from the well-foundedness of the natural numbers.

**WebVaultProofs** proves TypeOK, HandlesArePrivate, VaultIsKept and LockForgets
for any number of handles. A handle that `put` gives out is free because it is
above the greatest in use (MaxIsGreatest, UnusedIsFree). The rest is that a
handshake has the page to itself: while one runs no vault is open, register and
enroll run on the login page only and unlock on the other, and the dialog's button
is disabled from the submit on (Alone). Account says that what a password change
sends is the vault secret, and that an account exists wherever one is needed. Two
lemmas carry the steps: HandshakeInv for everything that a handshake does, under
a handle that was its own or free, and HomeInv for the dialog, the forms and the
server, which leave the open vault as it is or take it.

Model-checked only: RevocationCompletes and Settles. They are liveness under
fairness, which the prover cannot treat. The four properties of section 6 are
false, and have counterexamples instead of proofs.

## 6. Where code and documents disagree

Each has a run that ends in a counterexample.

- **TokensExpire** (`web.rs:634`). The dashboard does not look at the age of a
  session; with a lifetime configured an expired token still browses, deletes
  and revokes there, while the API refuses it.
- **PendingsExpire** (`ctx.rs:126`). docs/protocol.md:38 says that the server holds a
  half-finished login for at most 5 minutes, and docs/architecture.md:37 that the map
  has a 5 minute TTL. The code drops old entries only as it inserts the next, so the
  last one is held until then, however long. GrantedOnce and OldPasswordDiesOut show
  that none of these is granted late.
- **HashMatches** (`file.rs:52`). `upload` drops tokio's `File` without a flush
  and reads the object back, so the digest stored may miss the last chunk, and
  an error of the last write is never seen. AlmostWhole and Verdicts say how far
  the damage goes.
- **OpenUntilLocked** (`shell.js:272`). After a password change that failed the
  page holds the handle of a session the wasm module has dropped, and believes
  the vault open.

More disagreements have no run of their own:

- `file.rs:163`, `web.rs:560`: docs/architecture.md:82 says that deleting a row deletes
  its blob. The row goes first, and an unlink that then fails, or never comes because
  the handler is dropped, leaves the blob. OrphansExplained has that among its causes,
  and nothing collects the orphan.
- `ctx.rs:116`: docs/protocol.md:8 says 10 attempts per 5 minutes. Windows are fixed and
  do not slide, so an interval of that length can see `2 * Attempts - 1` admissions,
  which is the bound Throttled states.
- `device.rs:49`: `revoke` answers 204 at once for a device that is already
  marked. If the DELETE of its sessions had failed or been cut off, the retry
  leaves the rows, and so does an enrollment that issues its row after the
  sweep; docs/protocol.md:93 says that the call kills the sessions.
  RevocationIsFinal shows what saves it: the rows admit nobody.
- `auth.rs:186`: `rekey_finish` does not check that the record it replaces is the
  one the preceding login proved (docs/protocol.md:60), so the later of two
  concurrent changes replaces a password its user never knew. WrapMatchesRecord
  and SecretsReadable show that the vault survives.

Observations made while modelling that concern no statement of a document.

Server:

- `floods` keeps an entry for every key ever tried.
- A registration whose client hangs up at the commit may have made the account all
  the same.
- A `login_start` that waits long for the record makes a handshake of a password that
  was replaced meanwhile, which then lives as long as any other.
- The loser of a race between two registrations is answered 500 (busy) rather than
  conflict.
- An admitted request, or an open event stream, outlives the revocation of its
  device.

Dashboard:

- An older refresh can overwrite the lists of a newer one, for every
  page, until the next refresh. A failed select empties a list for every page.
- Changes made through the API show only after some page refreshes.

Command-line client:

- A `config.toml` that does not parse refuses even login and register
  (`client/lib.rs:128`), until it is removed by hand.
- Two logins that overlap, with a url or user name of different length, can leave a
  `config.toml` that does not parse although both were reported done.
- A login cut off over another's text can leave a file that parses but has the device
  of one and the token of the other; logout then revokes the device, and the token
  that it was sent with stays usable.
- A login that is cut off while it saves has truncated the token saved before it;
  that token stays usable on the server.
- logout removes whatever file is there after its answer, also one that a login
  saved in the meantime.
- logout of a device revoked elsewhere is refused with 401 and leaves the file.
- register makes the account and logs in with separate requests. Cut off between
  them, a retry is refused, and login is the way on.

Backup:

- A pull beside a removal may fail, which is what keeps a bad snapshot from
  being kept; it must be run again.
- A restore brings back deleted files, revoked devices and replaced passwords.
- The recipe copies `db.snapshot` over `sylvie.db` and does not mention a `-wal`
  file beside it; the model restores on a new box, where there is none.

Browser:

- The unlock dialog's button stays disabled after a success, so a locked page
  must be loaded anew. Cancelling the dialog while the handshake runs does not
  stop it from opening the vault. A handshake that fails after its first step
  leaves its session in the wasm module.

## 7. Plan

Built, in the order of importance: Registry and Devices, Flood, Login,
Register, Files, WebVault, Cli, Backup, Dashboard, and proofs about each of them.

Next, as a model: Hub.tla, Register, Login and Devices in one state, for the
properties that relate them: a device exists only after an account and a
granted handshake.

## 8. Not modelled

- Cryptography and codecs (`crates/core`): pure functions, assumed to do what they
  promise. Login.tla and WebVault.tla say which key opens what.
- The HTTP client by itself: one request per call, no retry, so a call that
  succeeds, is refused or loses its answer is a step of the command that made it
  (Answered, Fails, EnrollLost in Cli.tla). Normalising the url is formatting.
- The cookie that login_post sets and logout takes back: the browser keeps it,
  and the check of it is Authenticate in Devices.tla.
- The tables of the backup other than `files`: they are in the same copy of the
  database, and a restore takes them back as a whole.
- HTML, CSS, status lines, the clipboard, the upload form of the page: layout.
- Reading the configuration and creating the OPAQUE setup: done once, alone. The
  in-memory state a start creates is the Init and the Restart of the modules.
- Deployment and build scripts.
