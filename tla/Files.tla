------------------------------- MODULE Files -------------------------------
(***************************************************************************)
(* Stored files: upload, content and remove of routes/file.rs, web_file of *)
(* routes/web.rs, and the download command of the client.                  *)
(*                                                                         *)
(* A file is its uuid, drawn by the upload that makes it, so uploads and   *)
(* files have the same names.  Data are counted in units, of which a chunk *)
(* of a body has any number: every digest here is of a prefix of the body, *)
(* and stands for that prefix's length.  tokio's File writes behind:       *)
(* write_all waits for the write before it, hands its own to a thread, and *)
(* returns; dropping the File waits for nothing, and an error is reported  *)
(* to the next write, if there is one.  The thread's write is a loop that  *)
(* others may look into, and that may fail half way.                       *)
(* A handler can be dropped at every await, its client having hung up.     *)
(***************************************************************************)
EXTENDS Naturals

CONSTANTS
    Uuids,      \* the files uploaded
    Removals,   \* requests that delete a file
    Downloads,  \* client commands
    Bodies,     \* lengths of the bodies sent, in units
    Limit,      \* limits.max_file, in units
    None

ASSUME BodiesAssumption == Bodies \subseteq Nat /\ Limit \in Nat
ASSUME NoneAssumption == None \notin Uuids \cup Nat \cup [size : Nat, hash : Nat]

VARIABLES
    row,       \* table files
    linked,    \* the object has its name in the storage directory
    disk,      \* units in the object, also when only readers hold it
    flying,    \* a write of the object is with a thread
    ailing,    \* File's last_write_err
    up,        \* how far the upload is
    body,      \* length of what its client sends
    written,   \* upload's own count
    last,      \* length of the last chunk it has handed on
    hash,      \* upload's digest
    del,       \* each removal: its step, its file and the handler
    get,       \* each download: its step, its item and what it received
    leaked,    \* history: objects whose clean-up failed or was cut off
    spoiled    \* history: files whose row the dashboard failed to delete

storage == <<row, linked, disk, flying, ailing>>
upload  == <<up, body, written, last, hash>>
history == <<leaked, spoiled>>
vars == <<storage, upload, del, get, history>>

NoItem == [id |-> None, hash |-> 0, data |-> 0]

Init ==
    /\ row = [f \in Uuids |-> None]
    /\ linked = [f \in Uuids |-> FALSE]
    /\ disk = [f \in Uuids |-> 0]
    /\ flying = [f \in Uuids |-> FALSE]
    /\ ailing = [f \in Uuids |-> FALSE]
    /\ up = [f \in Uuids |-> "new"]
    /\ body \in [Uuids -> Bodies]
    /\ written = [f \in Uuids |-> 0]
    /\ last = [f \in Uuids |-> 0]
    /\ hash = [f \in Uuids |-> 0]
    /\ del = [d \in Removals |-> [pc |-> "new", id |-> None, by |-> "remove"]]
    /\ get = [g \in Downloads |-> [pc |-> "new", item |-> NoItem]]
    /\ leaked = {} /\ spoiled = {}

-----------------------------------------------------------------------------
(* upload                                                                  *)

Uploading(f) == up[f] \in {"receiving", "digesting", "hashed"}

Upload(f, step) == up' = [up EXCEPT ![f] = step]

\* File::create, under the new uuid.
Create(f) ==
    /\ up[f] = "new"
    /\ linked' = [linked EXCEPT ![f] = TRUE]
    /\ Upload(f, "receiving")
    /\ UNCHANGED <<row, disk, flying, ailing, body, written, last, hash, del, get, history>>

\* The chunks that the rest of the body may come in.
Chunks(f) == 1 .. body[f] - written[f]

\* A chunk within the limit: write_all, once the write before is over.
Fits_Mutant(f, n) == written[f] <= Limit
Fits(f, n) == written[f] + n <= Limit

Chunk(f) ==
    /\ up[f] = "receiving"
    /\ ~flying[f] /\ ~ailing[f]
    /\ \E n \in Chunks(f) :
          /\ Fits(f, n)
          /\ written' = [written EXCEPT ![f] = @ + n]
          /\ last' = [last EXCEPT ![f] = n]
    /\ flying' = [flying EXCEPT ![f] = TRUE]
    /\ UNCHANGED <<row, linked, disk, ailing, up, body, hash, del, get, history>>

\* write_all reports that the write before failed; the object stays.
ChunkFails(f) ==
    /\ up[f] = "receiving"
    /\ ~flying[f] /\ ailing[f]
    /\ \E n \in Chunks(f) : Fits(f, n)
    /\ Upload(f, "failed")
    /\ leaked' = leaked \cup {f}
    /\ UNCHANGED <<storage, body, written, last, hash, del, get, spoiled>>

\* Too large: the object is removed, and a failure of that is not looked at.
TooLarge_Mutant(f) ==
    /\ up[f] = "receiving"
    /\ \E n \in Chunks(f) : ~Fits(f, n)
    /\ Upload(f, "failed")
    /\ UNCHANGED <<storage, body, written, last, hash, del, get, history>>

TooLarge(f) ==
    /\ up[f] = "receiving"
    /\ \E n \in Chunks(f) : ~Fits(f, n)
    /\ Upload(f, "failed")
    /\ \/ linked' = [linked EXCEPT ![f] = FALSE] /\ UNCHANGED leaked
       \/ leaked' = leaked \cup {f} /\ UNCHANGED linked
    /\ UNCHANGED <<row, disk, flying, ailing, body, written, last, hash, del, get, spoiled>>

\* The thread's write gets on, and ends with the last unit or fails at any,
\* whatever has become of the upload.
Land(f) ==
    /\ flying[f]
    /\ \/ /\ disk' = [disk EXCEPT ![f] = @ + 1]
          /\ flying' = [flying EXCEPT ![f] = disk[f] + 1 < written[f]]
          /\ UNCHANGED ailing
       \/ /\ ailing' = [ailing EXCEPT ![f] = TRUE]
          /\ flying' = [flying EXCEPT ![f] = FALSE]
          /\ UNCHANGED disk
    /\ UNCHANGED <<row, linked, upload, del, get, history>>

\* The body is over: drop(file).
StreamEnds_Mutant(f) ==
    /\ up[f] = "receiving"
    /\ Upload(f, "digesting")
    /\ UNCHANGED <<storage, body, written, last, hash, del, get, history>>

StreamEnds(f) ==
    /\ up[f] = "receiving" /\ written[f] = body[f]
    /\ Upload(f, "digesting")
    /\ UNCHANGED <<storage, body, written, last, hash, del, get, history>>

\* The object is read back and hashed.
Digest_Mutant(f) ==
    /\ up[f] = "digesting"
    /\ hash' = [hash EXCEPT ![f] = written[f]]
    /\ Upload(f, "hashed")
    /\ UNCHANGED <<storage, body, written, last, del, get, history>>

Digest(f) ==
    /\ up[f] = "digesting"
    /\ hash' = [hash EXCEPT ![f] = disk[f]]
    /\ Upload(f, "hashed")
    /\ UNCHANGED <<storage, body, written, last, del, get, history>>

Insert(f) ==
    /\ up[f] = "hashed"
    /\ row' = [row EXCEPT ![f] = [size |-> written[f], hash |-> hash[f]]]
    /\ Upload(f, "stored")
    /\ UNCHANGED <<linked, disk, flying, ailing, body, written, last, hash, del, get, history>>

\* The stream breaks, a call fails, or the client hangs up: nothing cleans up.
UploadFails(f) ==
    /\ Uploading(f)
    /\ Upload(f, "failed")
    /\ leaked' = leaked \cup {f}
    /\ UNCHANGED <<storage, body, written, last, hash, del, get, spoiled>>

-----------------------------------------------------------------------------
(* remove and web_file, which run the same statements                      *)

Remove(d, step) == del' = [del EXCEPT ![d].pc = step]

RemoveFind(d, f, by) ==
    /\ del[d].pc = "new"
    /\ row[f] # None
    /\ del' = [del EXCEPT ![d] = [pc |-> "found", id |-> f, by |-> by]]
    /\ UNCHANGED <<storage, upload, get, history>>

RemoveRow(d) ==
    /\ del[d].pc = "found"
    /\ row' = [row EXCEPT ![del[d].id] = None]
    /\ Remove(d, "unlinking")
    /\ UNCHANGED <<linked, disk, flying, ailing, upload, get, history>>

\* The DELETE fails: remove gives up, web_file goes on.
RemoveRowFails_Mutant(d) ==
    /\ del[d].pc = "found"
    /\ Remove(d, "unlinking")
    /\ spoiled' = IF del[d].by = "web_file" THEN spoiled \cup {del[d].id} ELSE spoiled
    /\ UNCHANGED <<storage, upload, get, leaked>>

RemoveRowFails(d) ==
    /\ del[d].pc = "found"
    /\ Remove(d, IF del[d].by = "remove" THEN "over" ELSE "unlinking")
    /\ spoiled' = IF del[d].by = "web_file" THEN spoiled \cup {del[d].id} ELSE spoiled
    /\ UNCHANGED <<storage, upload, get, leaked>>

\* remove_file; when it fails a warning is logged, at most.
RemoveObject(d) ==
    /\ del[d].pc = "unlinking"
    /\ Remove(d, "over")
    /\ \/ linked' = [linked EXCEPT ![del[d].id] = FALSE] /\ UNCHANGED leaked
       \/ leaked' = leaked \cup {del[d].id} /\ UNCHANGED linked
    /\ UNCHANGED <<row, disk, flying, ailing, upload, get, spoiled>>

\* The client hangs up.
RemoveAborts(d) ==
    /\ del[d].pc \in {"found", "unlinking"}
    /\ Remove(d, "over")
    /\ leaked' = IF del[d].pc = "unlinking" THEN leaked \cup {del[d].id} ELSE leaked
    /\ UNCHANGED <<storage, upload, get, spoiled>>

-----------------------------------------------------------------------------
(* download of the client, over meta and content                           *)

Get(g, step) == get' = [get EXCEPT ![g].pc = step]

\* GET files/{id}: the item the download is held against.
Meta(g, f) ==
    /\ get[g].pc = "new"
    /\ row[f] # None
    /\ get' = [get EXCEPT ![g] = [pc |-> "item", item |-> [NoItem EXCEPT !.id = f, !.hash = row[f].hash]]]
    /\ UNCHANGED <<storage, upload, del, history>>

\* GET files/{id}/content looks for the row, and then opens the object.
Content(g) ==
    /\ get[g].pc = "item"
    /\ Get(g, IF row[get[g].item.id] # None THEN "opening" ELSE "missing")
    /\ UNCHANGED <<storage, upload, del, history>>

Open(g) ==
    /\ get[g].pc = "opening"
    /\ Get(g, IF linked[get[g].item.id] THEN "streaming" ELSE "internal")
    /\ UNCHANGED <<storage, upload, del, history>>

\* The bytes read up to the end of the object, named or not, and their digest.
Received(g) == IF disk[get[g].item.id] = get[g].item.hash THEN "saved" ELSE "crypto"

Receive(g) ==
    /\ get[g].pc = "streaming"
    /\ get' = [get EXCEPT ![g].pc = Received(g), ![g].item.data = disk[get[g].item.id]]
    /\ UNCHANGED <<storage, upload, del, history>>

-----------------------------------------------------------------------------

\* The server stops and starts: its handlers are gone.  What a thread had still
\* to write is lost.
Restart ==
    /\ up' = [f \in Uuids |-> IF Uploading(f) THEN "failed" ELSE up[f]]
    /\ del' = [d \in Removals |->
                 IF del[d].pc = "new" THEN del[d] ELSE [del[d] EXCEPT !.pc = "over"]]
    /\ get' = [g \in Downloads |->
                 IF get[g].pc \in {"opening", "streaming"}
                 THEN [get[g] EXCEPT !.pc = "internal"] ELSE get[g]]
    /\ flying' = [f \in Uuids |-> FALSE]
    /\ leaked' = leaked \cup {f \in Uuids : Uploading(f)}
                        \cup {del[d].id : d \in {x \in Removals : del[x].pc = "unlinking"}}
    /\ UNCHANGED <<row, linked, disk, ailing, body, written, last, hash, spoiled>>

UploadNext(f) ==
    \/ Create(f) \/ Chunk(f) \/ ChunkFails(f) \/ TooLarge(f) \/ Land(f)
    \/ StreamEnds(f) \/ Digest(f) \/ Insert(f) \/ UploadFails(f)

RemovalNext(d) ==
    \/ \E f \in Uuids, by \in {"remove", "web_file"} : RemoveFind(d, f, by)
    \/ RemoveRow(d) \/ RemoveRowFails(d) \/ RemoveObject(d) \/ RemoveAborts(d)

DownloadNext(g) ==
    (\E f \in Uuids : Meta(g, f)) \/ Content(g) \/ Open(g) \/ Receive(g)

Next ==
    \/ \E f \in Uuids : UploadNext(f)
    \/ \E d \in Removals : RemovalNext(d)
    \/ \E g \in Downloads : DownloadNext(g)
    \/ Restart

Spec == Init /\ [][Next]_vars

-----------------------------------------------------------------------------

\* The values of the table, of the storage directory and of the requests.
TypeOK ==
    /\ row \in [Uuids -> [size : Nat, hash : Nat] \cup {None}]
    /\ linked \in [Uuids -> BOOLEAN]
    /\ disk \in [Uuids -> Nat]
    /\ flying \in [Uuids -> BOOLEAN]
    /\ ailing \in [Uuids -> BOOLEAN]
    /\ up \in [Uuids -> {"new", "receiving", "digesting", "hashed", "stored", "failed"}]
    /\ body \in [Uuids -> Bodies]
    /\ written \in [Uuids -> 0 .. Limit]
    /\ last \in [Uuids -> 0 .. Limit]
    /\ hash \in [Uuids -> Nat]
    /\ del \in [Removals -> [pc : {"new", "found", "unlinking", "over"},
                             id : Uuids \cup {None}, by : {"remove", "web_file"}]]
    /\ get \in [Downloads -> [pc : {"new", "item", "opening", "streaming",
                                    "saved", "crypto", "missing", "internal"},
                              item : [id : Uuids \cup {None}, hash : Nat, data : Nat]]]
    /\ leaked \subseteq Uuids /\ spoiled \subseteq Uuids

\* A listed file can be opened: its object is there, unless the dashboard
\* removed it after it had failed to delete the row (file.rs remove deletes
\* the row first; web.rs web_file).
RowHasObject == \A f \in Uuids : row[f] # None /\ f \notin spoiled => linked[f]

\* No object is forgotten: one without a row is still being uploaded or
\* unlinked, or its clean-up failed or was cut off (file.rs upload, remove).
OrphansExplained ==
    \A f \in Uuids :
        linked[f] /\ row[f] = None =>
            \/ Uploading(f)
            \/ \E d \in Removals : del[d].pc = "unlinking" /\ del[d].id = f
            \/ f \in leaked

\* Whatever a row says, it is of a whole body within the limit, of which the
\* object and the digest miss no more than the last chunk (file.rs upload).
AlmostWhole ==
    \A f \in Uuids : row[f] # None =>
        /\ row[f].size = body[f] /\ body[f] <= Limit
        /\ row[f].hash + last[f] >= body[f]
        /\ disk[f] + last[f] >= body[f]

\* What the client's digest check tells: a download it saves misses no more
\* than what the digest had missed of the last chunk, and one it rejects has
\* more of the body than the digest had seen, for it is the digest that is
\* short and never the object (client file.rs download, file.rs upload).
Verdicts ==
    \A g \in Downloads :
        LET f    == get[g].item.id
            data == get[g].item.data
        IN  /\ get[g].pc = "saved" => data = hash[f] /\ data + last[f] >= body[f]
            /\ get[g].pc = "crypto" => hash[f] < data /\ data <= body[f]

\* tests/api.rs:393: the hash of a stored file is the digest of its body.
HashMatches == \A f \in Uuids : row[f] # None => row[f].hash = body[f]
=============================================================================
