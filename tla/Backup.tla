------------------------------- MODULE Backup -------------------------------
(***************************************************************************)
(* deploy/pull-backup.sh over the files of Files.tla, while the server     *)
(* goes on: sqlite copies the database as of one moment, then tar lists    *)
(* the storage directory and reads one object after the other.  tar fails  *)
(* when an object it has listed is gone, and && and "set -e" end the pull. *)
(* The recipe at the script's end restores a snapshot on a new box.        *)
(***************************************************************************)
EXTENDS Files

VARIABLES
    pull,      \* how far the pull is
    rows,      \* db.snapshot: table files as it was copied
    listed,    \* objects tar has listed and not read yet
    objects    \* files.tgz: the lengths of the objects in it

copy == <<pull, rows, listed, objects>>
backupVars == <<vars, copy>>

NoRows == [f \in Uuids |-> None]

BackupInit ==
    /\ Init
    /\ pull = "idle"
    /\ rows = NoRows
    /\ listed = {}
    /\ objects = NoRows

\* .backup of the database.
CopyRows ==
    /\ pull = "idle"
    /\ pull' = "rows"
    /\ rows' = row
    /\ UNCHANGED <<vars, listed, objects>>

\* tar reads the names in the directory.
ListObjects ==
    /\ pull = "rows"
    /\ pull' = "packing"
    /\ listed' = {f \in Uuids : linked[f]}
    /\ UNCHANGED <<vars, rows, objects>>

\* tar reads an object as far as it is written.
PackObject(f) ==
    /\ f \in listed /\ linked[f]
    /\ listed' = listed \ {f}
    /\ objects' = [objects EXCEPT ![f] = disk[f]]
    /\ UNCHANGED <<vars, pull, rows>>

PullDone_Mutant ==
    /\ pull = "packing" /\ listed = {}
    /\ pull' = "done"
    /\ rows' = row
    /\ UNCHANGED <<vars, listed, objects>>

PullDone ==
    /\ pull = "packing" /\ listed = {}
    /\ pull' = "done"
    /\ UNCHANGED <<vars, rows, listed, objects>>

\* A listed object is gone or changes under tar's hands, or the connection or
\* a disk fails: nothing is kept, and the pull may be run again.
PullFails ==
    /\ pull \in {"rows", "packing"}
    /\ pull' = "idle"
    /\ rows' = NoRows
    /\ listed' = {}
    /\ objects' = NoRows
    /\ UNCHANGED vars

\* Rows of the snapshot without an object, and objects without a row.
Gone == {f \in Uuids : rows[f] # None /\ objects[f] = None}
Strays == {f \in Uuids : rows[f] = None /\ objects[f] # None}

\* The server is set up anew from the snapshot: no request and no write of
\* the old one goes on, and what came after the snapshot is undone.
Restore ==
    /\ pull = "done"
    /\ row' = rows
    /\ linked' = [f \in Uuids |-> objects[f] # None]
    /\ disk' = [f \in Uuids |-> IF objects[f] = None THEN disk[f] ELSE objects[f]]
    /\ flying' = [f \in Uuids |-> FALSE]
    /\ up' = [f \in Uuids |-> IF Uploading(f) THEN "failed" ELSE up[f]]
    /\ del' = [d \in Removals |->
                 IF del[d].pc = "new" THEN del[d] ELSE [del[d] EXCEPT !.pc = "over"]]
    /\ get' = [g \in Downloads |->
                 IF get[g].pc \in {"opening", "streaming"}
                 THEN [get[g] EXCEPT !.pc = "internal"] ELSE get[g]]
    /\ leaked' = Strays
    /\ spoiled' = Gone
    /\ UNCHANGED <<ailing, body, written, last, hash, copy>>

Pull ==
    \/ CopyRows \/ ListObjects \/ PullDone \/ PullFails \/ Restore
    \/ \E f \in Uuids : PackObject(f)

BackupNext == (Next /\ UNCHANGED copy) \/ Pull

BackupSpec == BackupInit /\ [][BackupNext]_backupVars

-----------------------------------------------------------------------------

\* The values of the snapshot, beside those of Files.tla.
BackupTypeOK ==
    /\ TypeOK
    /\ pull \in {"idle", "rows", "packing", "done"}
    /\ rows \in [Uuids -> [size : Nat, hash : Nat] \cup {None}]
    /\ listed \subseteq Uuids
    /\ objects \in [Uuids -> Nat \cup {None}]

\* What the snapshot has a row of and the server still has a row of is in the
\* archive, at least as far as its digest goes and no longer than it is on the
\* server: the database is copied before the files, and remove deletes in the
\* same order (pull-backup.sh, file.rs remove).
SnapshotHoldsUp ==
    pull = "done" =>
        \A f \in Uuids :
            rows[f] # None /\ row[f] # None /\ f \notin spoiled =>
                /\ objects[f] # None
                /\ rows[f].hash <= objects[f] /\ objects[f] <= body[f]
=============================================================================
