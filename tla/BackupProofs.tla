---------------------------- MODULE BackupProofs ----------------------------
(***************************************************************************)
(* Proofs about Files.tla and Backup.tla together, for any files, bodies,  *)
(* limit, removals and downloads: what holds of the table and the objects  *)
(* of the server, of a snapshot of it, and of a server restored from one.  *)
(***************************************************************************)
EXTENDS Backup, TLAPS

(***************************************************************************)
(* The inductive invariant.                                                *)
(***************************************************************************)

\* How much of the body the upload has handed on, and how much has arrived.
Counted ==
    \A f \in Uuids :
        /\ disk[f] <= written[f] /\ written[f] <= body[f]
        /\ flying[f] => disk[f] + 1 <= written[f]
        /\ up[f] = "new" => written[f] = 0 /\ ~linked[f] /\ ~ailing[f]
        /\ Uploading(f) =>
              /\ linked[f] /\ ~(flying[f] /\ ailing[f])
              /\ written[f] <= disk[f] + last[f]
              /\ ~flying[f] /\ ~ailing[f] => disk[f] = written[f]
        /\ up[f] \in {"digesting", "hashed", "stored"} => written[f] = body[f]
        /\ up[f] \in {"hashed", "stored"} =>
              hash[f] <= written[f] /\ written[f] <= hash[f] + last[f]
        /\ up[f] = "hashed" => hash[f] <= disk[f]

\* The upload is done, and the object has all that its digest was taken of and
\* misses no more than the last chunk.
Whole(f) == up[f] = "stored" /\ hash[f] <= disk[f] /\ body[f] <= disk[f] + last[f]

\* So it is with every file that has a row, on the server or in the snapshot,
\* and with every stored file as long as nothing can be restored.
Stored ==
    \A f \in Uuids :
        /\ row[f] # None => Whole(f) /\ row[f] = [size |-> written[f], hash |-> hash[f]]
        /\ rows[f] # None => Whole(f) /\ rows[f] = [size |-> written[f], hash |-> hash[f]]
        /\ up[f] = "stored" /\ pull # "done" => Whole(f)

\* A removal is of a stored file, and unlinks one whose row it has dealt with.
Removing ==
    \A d \in Removals :
        /\ del[d].pc # "new" => del[d].id \in Uuids /\ up[del[d].id] = "stored"
        /\ del[d].pc = "unlinking" => row[del[d].id] = None \/ del[d].id \in spoiled

\* A download holds the digest of a stored file, and the one it reads is whole.
Downloading ==
    \A g \in Downloads :
        /\ get[g].pc # "new" =>
              /\ get[g].item.id \in Uuids /\ up[get[g].item.id] = "stored"
              /\ get[g].item.hash = hash[get[g].item.id]
        /\ get[g].pc \in {"opening", "streaming"} => Whole(get[g].item.id)

\* The archive holds what its digests were taken of, and all that the table
\* had a row of and still has, once tar has come to it.
Archived ==
    /\ pull = "idle" => objects = NoRows
    /\ pull # "packing" => listed = {}
    /\ \A f \in Uuids : objects[f] # None =>
          /\ up[f] # "new" /\ objects[f] <= written[f]
          /\ rows[f] # None => hash[f] <= objects[f] /\ body[f] <= objects[f] + last[f]
    /\ pull \in {"packing", "done"} => \A f \in Uuids :
          rows[f] # None /\ row[f] # None /\ f \notin spoiled =>
              f \in listed \/ objects[f] # None

IInv ==
    /\ BackupTypeOK /\ Counted /\ Stored /\ Removing /\ Downloading /\ Archived
    /\ RowHasObject /\ OrphansExplained /\ Verdicts

USE BodiesAssumption

Removal == [pc : {"new", "found", "unlinking", "over"},
            id : Uuids \cup {None}, by : {"remove", "web_file"}]

Download == [pc : {"new", "item", "opening", "streaming",
                   "saved", "crypto", "missing", "internal"},
             item : [id : Uuids \cup {None}, hash : Nat, data : Nat]]

\* The numbers of an upload are numbers.
LEMMA UploadNumbers ==
    ASSUME BackupTypeOK, NEW f \in Uuids
    PROVE  /\ disk[f] \in Nat /\ written[f] \in Nat /\ body[f] \in Nat
           /\ hash[f] \in Nat /\ last[f] \in Nat /\ written[f] <= Limit
<1>1. disk[f] \in Nat /\ hash[f] \in Nat
  BY DEF BackupTypeOK, TypeOK
<1>2. written[f] \in 0 .. Limit /\ last[f] \in 0 .. Limit
  BY DEF BackupTypeOK, TypeOK
<1>3. written[f] \in Nat /\ written[f] <= Limit /\ last[f] \in Nat
  BY <1>2
<1>4. body[f] \in Nat
  <2>1. body[f] \in Bodies
    BY DEF BackupTypeOK, TypeOK
  <2> QED
    BY <2>1
<1> QED
  BY <1>1, <1>3, <1>4

\* A removal that goes to another step keeps its file, and the others stay.
LEMMA RemoveEffect ==
    ASSUME BackupTypeOK, NEW d \in Removals, NEW step \in {"found", "unlinking", "over"},
           Remove(d, step)
    PROVE  /\ del' \in [Removals -> Removal]
           /\ del'[d].pc = step /\ del'[d].id = del[d].id
           /\ \A x \in Removals : x # d => del'[x] = del[x]
<1>1. del \in [Removals -> Removal]
  BY DEF BackupTypeOK, TypeOK, Removal
<1>2. [del[d] EXCEPT !.pc = step] \in Removal
  BY <1>1 DEF Removal
<1>3. del' = [del EXCEPT ![d] = [del[d] EXCEPT !.pc = step]]
  BY DEF Remove
<1> QED
  BY <1>1, <1>2, <1>3 DEF Removal

\* What a removal changes keeps the types.
LEMMA RemovalType ==
    ASSUME BackupTypeOK, del' \in [Removals -> Removal],
           row' \in [Uuids -> [size : Nat, hash : Nat] \cup {None}],
           linked' \in [Uuids -> BOOLEAN], leaked' \subseteq Uuids, spoiled' \subseteq Uuids,
           UNCHANGED <<disk, flying, ailing, upload, get, copy>>
    PROVE  BackupTypeOK'
BY DEF BackupTypeOK, TypeOK, Removal, upload, copy

\* What a download changes keeps the types, and the others stay.
LEMMA DownloadType ==
    ASSUME BackupTypeOK, NEW g \in Downloads, NEW x \in Download,
           get' = [get EXCEPT ![g] = x],
           UNCHANGED <<storage, upload, del, history, copy>>
    PROVE  /\ BackupTypeOK'
           /\ get'[g] = x /\ \A y \in Downloads : y # g => get'[y] = get[y]
<1>1. get \in [Downloads -> Download]
  BY DEF BackupTypeOK, TypeOK, Download
<1>2. get' \in [Downloads -> Download]
  BY <1>1
<1>3. BackupTypeOK'
  BY <1>2 DEF BackupTypeOK, TypeOK, Download, storage, upload, history, copy
<1> QED
  BY <1>1, <1>3

\* A download that goes to another step keeps its item.
LEMMA GetEffect ==
    ASSUME BackupTypeOK, NEW g \in Downloads, NEW step, Get(g, step)
    PROVE  get' = [get EXCEPT ![g] = [pc |-> step, item |-> get[g].item]]
<1>1. get \in [Downloads -> Download]
  BY DEF BackupTypeOK, TypeOK, Download
<1>2. [get[g] EXCEPT !.pc = step] = [pc |-> step, item |-> get[g].item]
  BY <1>1 DEF Download
<1> QED
  BY <1>2 DEF Get

\* What a download holds when it has received the bytes.
LEMMA ReceiveEffect ==
    ASSUME NEW r \in Download, NEW step, NEW n \in Nat
    PROVE  [r EXCEPT !.pc = step, !.item.data = n] =
              [pc |-> step, item |-> [id |-> r.item.id, hash |-> r.item.hash, data |-> n]]
<1> DEFINE a == [r EXCEPT !.pc = step]
<1>1. a = [pc |-> step, item |-> r.item]
  BY DEF Download
<1>2. [a.item EXCEPT !.data = n] = [id |-> r.item.id, hash |-> r.item.hash, data |-> n]
  <2>1. a.item = r.item
    BY <1>1
  <2>2. r.item \in [id : Uuids \cup {None}, hash : Nat, data : Nat]
    BY DEF Download
  <2> HIDE DEF a
  <2> QED
    BY <2>1, <2>2
<1>3. ASSUME NEW y
      PROVE  [a EXCEPT !.item = y] = [pc |-> step, item |-> y]
  <2> HIDE DEF a
  <2> QED
    BY <1>1
<1> QED
  BY <1>2, <1>3, Zenon

\* The item a download begins with.
LEMMA MetaEffect ==
    ASSUME NEW f, NEW h
    PROVE  [NoItem EXCEPT !.id = f, !.hash = h] = [id |-> f, hash |-> h, data |-> 0]
<1> DEFINE a == [NoItem EXCEPT !.id = f]
<1>1. a = [id |-> f, hash |-> 0, data |-> 0]
  BY DEF NoItem
<1>2. [a EXCEPT !.hash = h] = [id |-> f, hash |-> h, data |-> 0]
  <2> HIDE DEF a
  <2> QED
    BY <1>1
<1> QED
  BY <1>2, Zenon

\* The initial states satisfy it.
LEMMA InvInit == BackupInit => IInv
<1> SUFFICES ASSUME BackupInit PROVE IInv
  OBVIOUS
<1> USE DEF BackupInit, Init, NoRows
<1>1. BackupTypeOK
  <2>1. get \in [Downloads -> Download] /\ del \in [Removals -> Removal]
    BY DEF NoItem, Download, Removal
  <2>2. /\ body \in [Uuids -> Bodies]
        /\ written \in [Uuids -> 0 .. Limit] /\ last \in [Uuids -> 0 .. Limit]
    OBVIOUS
  <2> QED
    BY <2>1, <2>2 DEF BackupTypeOK, TypeOK, Download, Removal
<1>2. Counted
  <2>1. \A f \in Uuids :
            /\ disk[f] = 0 /\ written[f] = 0
            /\ ~flying[f] /\ ~linked[f] /\ ~ailing[f] /\ up[f] = "new"
    OBVIOUS
  <2>2. \A f \in Uuids : ~Uploading(f)
    BY <2>1 DEF Uploading
  <2>3. \A f \in Uuids : disk[f] <= written[f] /\ written[f] <= body[f]
    <3>1. \A f \in Uuids : disk[f] = 0 /\ written[f] = 0
      OBVIOUS
    <3>2. \A f \in Uuids : body[f] \in Nat
      BY <1>1, UploadNumbers
    <3>3. \A n \in Nat : 0 <= n
      OBVIOUS
    <3> QED
      BY ONLY <3>1, <3>2, <3>3
  <2> QED
    BY ONLY <2>1, <2>2, <2>3 DEF Counted
<1>3. Stored /\ Archived /\ RowHasObject /\ OrphansExplained
  BY DEF Stored, Archived, RowHasObject, OrphansExplained
<1>4. Removing /\ Downloading /\ Verdicts
  BY DEF Removing, Downloading, Verdicts
<1> QED
  BY <1>1, <1>2, <1>3, <1>4 DEF IInv

\* What the upload, the removals and the history say is kept by every step
\* that leaves them alone.
LEMMA ServerFrame ==
    ASSUME IInv, UNCHANGED <<storage, upload, del, history>>
    PROVE  (Counted /\ Removing /\ RowHasObject /\ OrphansExplained)'
BY DEF IInv, storage, upload, history, Counted, Removing, RowHasObject,
       OrphansExplained, Uploading

\* Create preserves it.
LEMMA CreateInv ==
    ASSUME IInv, NEW f \in Uuids, Create(f), UNCHANGED copy
    PROVE  IInv'
<1> USE DEF IInv, Create, Upload, Uploading, Fits, storage, upload, history, copy
<1>1. BackupTypeOK'
  BY DEF BackupTypeOK, TypeOK
<1>2. Counted'
  BY DEF Counted, Uploading, BackupTypeOK, TypeOK
<1>3. Stored'
  BY DEF Stored, Counted, Whole, BackupTypeOK, TypeOK
<1>4. Removing'
  BY DEF Removing, Stored, Whole, BackupTypeOK, TypeOK
<1>5. Downloading'
  BY DEF Downloading, Stored, Counted, Whole, BackupTypeOK, TypeOK
<1>6. Archived'
  BY DEF Archived, Stored, Whole, Counted, RowHasObject, NoRows, BackupTypeOK,
         TypeOK
<1>7. RowHasObject'
  BY DEF RowHasObject, Removing, Stored, Whole, BackupTypeOK, TypeOK
<1>8. OrphansExplained'
  BY DEF OrphansExplained, Uploading, Stored, Whole, Counted, Removing,
         BackupTypeOK, TypeOK
<1>9. Verdicts'
  BY DEF Verdicts, Downloading, Counted, Whole, BackupTypeOK, TypeOK
<1> QED
  BY <1>1, <1>2, <1>3, <1>4, <1>5, <1>6, <1>7, <1>8, <1>9

\* Chunk preserves it.
LEMMA ChunkInv ==
    ASSUME IInv, NEW f \in Uuids, Chunk(f), UNCHANGED copy
    PROVE  IInv'
<1> USE DEF IInv, Chunk, Upload, Uploading, Fits, storage, upload, history, copy
<1>0. PICK n \in Chunks(f) :
        /\ written[f] + n <= Limit
        /\ written' = [written EXCEPT ![f] = written[f] + n]
        /\ last' = [last EXCEPT ![f] = n]
  OBVIOUS
<1>a. /\ disk[f] \in Nat /\ body[f] \in Nat /\ written[f] \in Nat
      /\ n \in Nat \ {0} /\ written[f] + n <= body[f] /\ n <= Limit
  <2>1. disk[f] \in Nat /\ body[f] \in Nat /\ written[f] \in Nat
    BY UploadNumbers
  <2> QED
    BY <1>0, <2>1 DEF Chunks
<1>1. BackupTypeOK'
  <2>1. written' \in [Uuids -> 0 .. Limit] /\ last' \in [Uuids -> 0 .. Limit]
    BY <1>0, <1>a DEF BackupTypeOK, TypeOK
  <2> QED
    BY <2>1 DEF BackupTypeOK, TypeOK
<1>2. Counted'
  <2>1. /\ flying'[f] /\ written'[f] = written[f] + n /\ last'[f] = n
        /\ \A e \in Uuids : e # f =>
              flying'[e] = flying[e] /\ written'[e] = written[e] /\ last'[e] = last[e]
    BY <1>0 DEF BackupTypeOK, TypeOK
  <2>2. written[f] = disk[f] /\ linked[f]
    BY DEF Counted
  <2> QED
    BY <1>a, <2>1, <2>2 DEF Counted
<1>3. Stored'
  BY DEF Stored, Counted, Whole, BackupTypeOK, TypeOK
<1>4. Removing'
  BY DEF Removing, Stored, Whole, BackupTypeOK, TypeOK
<1>5. Downloading'
  BY DEF Downloading, Stored, Counted, Whole, BackupTypeOK, TypeOK
<1>6. Archived'
  <2>1. \A e \in Uuids : /\ written[e] \in Nat /\ written'[e] \in Nat
                         /\ written[e] <= written'[e]
    BY <1>0, <1>a, UploadNumbers DEF BackupTypeOK, TypeOK
  <2>2. \A e \in Uuids : rows[e] # None => last'[e] = last[e]
    BY <1>0 DEF Stored, Whole, BackupTypeOK, TypeOK
  <2>3. \A e \in Uuids : objects[e] # None => objects[e] \in Nat
    BY DEF BackupTypeOK
  <2>4. \A e \in Uuids : objects[e] # None => objects[e] <= written'[e]
    BY <2>1, <2>3 DEF Archived
  <2> QED
    BY <2>2, <2>4 DEF Archived
<1>7. RowHasObject'
  BY DEF RowHasObject, Removing, Stored, Whole, BackupTypeOK, TypeOK
<1>8. OrphansExplained'
  BY DEF OrphansExplained, Uploading, Stored, Whole, Counted, Removing,
         BackupTypeOK, TypeOK
<1>9. Verdicts'
  BY DEF Verdicts, Downloading, Counted, Whole, BackupTypeOK, TypeOK
<1> QED
  BY <1>1, <1>2, <1>3, <1>4, <1>5, <1>6, <1>7, <1>8, <1>9

\* ChunkFails preserves it.
LEMMA ChunkFailsInv ==
    ASSUME IInv, NEW f \in Uuids, ChunkFails(f), UNCHANGED copy
    PROVE  IInv'
<1> USE DEF IInv, ChunkFails, Upload, Uploading, Fits, storage, upload, history,
            copy
<1>1. BackupTypeOK'
  BY DEF BackupTypeOK, TypeOK
<1>2. Counted'
  BY DEF Counted, Uploading, BackupTypeOK, TypeOK
<1>3. Stored'
  BY DEF Stored, Counted, Whole, BackupTypeOK, TypeOK
<1>4. Removing'
  BY DEF Removing, Stored, Whole, BackupTypeOK, TypeOK
<1>5. Downloading'
  BY DEF Downloading, Stored, Counted, Whole, BackupTypeOK, TypeOK
<1>6. Archived'
  BY DEF Archived, Stored, Whole, Counted, RowHasObject, NoRows, BackupTypeOK,
         TypeOK
<1>7. RowHasObject'
  BY DEF RowHasObject, Removing, Stored, Whole, BackupTypeOK, TypeOK
<1>8. OrphansExplained'
  BY DEF OrphansExplained, Uploading, Stored, Whole, Counted, Removing,
         BackupTypeOK, TypeOK
<1>9. Verdicts'
  BY DEF Verdicts, Downloading, Counted, Whole, BackupTypeOK, TypeOK
<1> QED
  BY <1>1, <1>2, <1>3, <1>4, <1>5, <1>6, <1>7, <1>8, <1>9

\* TooLarge preserves it.
LEMMA TooLargeInv ==
    ASSUME IInv, NEW f \in Uuids, TooLarge(f), UNCHANGED copy
    PROVE  IInv'
<1> USE DEF IInv, TooLarge, Upload, Uploading, Fits, storage, upload, history, copy
<1>1. BackupTypeOK'
  BY DEF BackupTypeOK, TypeOK
<1>2. Counted'
  BY DEF Counted, Uploading, BackupTypeOK, TypeOK
<1>3. Stored'
  BY DEF Stored, Counted, Whole, BackupTypeOK, TypeOK
<1>4. Removing'
  BY DEF Removing, Stored, Whole, BackupTypeOK, TypeOK
<1>5. Downloading'
  BY DEF Downloading, Stored, Counted, Whole, BackupTypeOK, TypeOK
<1>6. Archived'
  BY DEF Archived, Stored, Whole, Counted, RowHasObject, NoRows, BackupTypeOK,
         TypeOK
<1>7. RowHasObject'
  <2>1. row[f] = None
    BY DEF Stored, Whole
  <2>2. \A e \in Uuids : e # f => linked'[e] = linked[e]
    BY DEF BackupTypeOK, TypeOK
  <2> QED
    BY <2>1, <2>2 DEF RowHasObject
<1>8. OrphansExplained'
  BY DEF OrphansExplained, Uploading, Stored, Whole, Counted, Removing,
         BackupTypeOK, TypeOK
<1>9. Verdicts'
  BY DEF Verdicts, Downloading, Counted, Whole, BackupTypeOK, TypeOK
<1> QED
  BY <1>1, <1>2, <1>3, <1>4, <1>5, <1>6, <1>7, <1>8, <1>9

\* Land preserves it.
LEMMA LandInv ==
    ASSUME IInv, NEW f \in Uuids, Land(f), UNCHANGED copy
    PROVE  IInv'
<1> USE DEF IInv, Land, Upload, Uploading, Fits, storage, upload, history, copy
<1>1. BackupTypeOK'
  <2>1. /\ disk' \in [Uuids -> Nat] /\ flying' \in [Uuids -> BOOLEAN]
        /\ ailing' \in [Uuids -> BOOLEAN]
    <3>1. disk \in [Uuids -> Nat] /\ disk[f] + 1 \in Nat
      BY DEF BackupTypeOK, TypeOK
    <3>2. ailing \in [Uuids -> BOOLEAN] /\ flying \in [Uuids -> BOOLEAN]
      BY DEF BackupTypeOK, TypeOK
    <3>3. disk' = disk \/ disk' = [disk EXCEPT ![f] = disk[f] + 1]
      OBVIOUS
    <3>4. (disk[f] + 1 < written[f]) \in BOOLEAN
      OBVIOUS
    <3>5. flying' \in [Uuids -> BOOLEAN]
      BY <3>2, <3>4, Zenon
    <3>6. ailing' \in [Uuids -> BOOLEAN]
      BY <3>2, Zenon
    <3> QED
      BY <3>1, <3>3, <3>5, <3>6
  <2> QED
    BY <2>1 DEF BackupTypeOK, TypeOK
<1>n. /\ disk[f] \in Nat /\ written[f] \in Nat /\ last[f] \in Nat
      /\ disk[f] + 1 <= written[f]
  BY UploadNumbers DEF Counted
<1>d. /\ \A e \in Uuids : e # f =>
            disk'[e] = disk[e] /\ flying'[e] = flying[e] /\ ailing'[e] = ailing[e]
      /\ \/ /\ disk'[f] = disk[f] + 1 /\ ailing'[f] = ailing[f]
            /\ flying'[f] <=> disk[f] + 1 < written[f]
         \/ disk'[f] = disk[f] /\ ailing'[f] /\ ~flying'[f]
  BY DEF BackupTypeOK, TypeOK
<1>2. Counted'
  <2>1. \A e \in Uuids : e # f =>
            disk'[e] = disk[e] /\ flying'[e] = flying[e] /\ ailing'[e] = ailing[e]
    BY <1>d
  <2>2. /\ disk'[f] <= written[f] /\ disk[f] <= disk'[f] /\ disk'[f] \in Nat
        /\ flying'[f] => disk'[f] + 1 <= written[f]
    BY <1>n, <1>d
  <2>3. up[f] # "new"
    BY <1>n DEF Counted
  <2>4. Uploading(f) =>
           /\ linked[f] /\ ~(flying'[f] /\ ailing'[f])
           /\ written[f] <= disk'[f] + last[f]
           /\ ~flying'[f] /\ ~ailing'[f] => disk'[f] = written[f]
    <3> SUFFICES ASSUME Uploading(f)
                 PROVE  /\ linked[f] /\ ~(flying'[f] /\ ailing'[f])
                        /\ written[f] <= disk'[f] + last[f]
                        /\ ~flying'[f] /\ ~ailing'[f] => disk'[f] = written[f]
      OBVIOUS
    <3>1. linked[f] /\ ~ailing[f] /\ written[f] <= disk[f] + last[f]
      BY DEF Counted
    <3> QED
      BY <1>n, <1>d, <3>1
  <2>5. up[f] = "hashed" => hash[f] <= disk'[f]
    <3>1. hash[f] \in Nat
      BY UploadNumbers
    <3> QED
      BY <1>n, <2>2, <3>1 DEF Counted
  <2> QED
    BY <2>1, <2>2, <2>3, <2>4, <2>5 DEF Counted
<1>3. Stored'
  BY <1>n, <1>d, UploadNumbers DEF Stored, Counted, Whole
<1>4. Removing'
  BY DEF Removing, Stored, Whole, BackupTypeOK, TypeOK
<1>5. Downloading'
  BY DEF Downloading, Stored, Counted, Whole, BackupTypeOK, TypeOK
<1>6. Archived'
  BY DEF Archived, Stored, Whole, Counted, RowHasObject, NoRows, BackupTypeOK,
         TypeOK
<1>7. RowHasObject'
  BY DEF RowHasObject, Removing, Stored, Whole, BackupTypeOK, TypeOK
<1>8. OrphansExplained'
  BY DEF OrphansExplained, Uploading, Stored, Whole, Counted, Removing,
         BackupTypeOK, TypeOK
<1>9. Verdicts'
  BY DEF Verdicts, Downloading, Counted, Whole, BackupTypeOK, TypeOK
<1> QED
  BY <1>1, <1>2, <1>3, <1>4, <1>5, <1>6, <1>7, <1>8, <1>9

\* StreamEnds preserves it.
LEMMA StreamEndsInv ==
    ASSUME IInv, NEW f \in Uuids, StreamEnds(f), UNCHANGED copy
    PROVE  IInv'
<1> USE DEF IInv, StreamEnds, Upload, Uploading, Fits, storage, upload, history,
            copy
<1>1. BackupTypeOK'
  BY DEF BackupTypeOK, TypeOK
<1>2. Counted'
  BY DEF Counted, Uploading, BackupTypeOK, TypeOK
<1>3. Stored'
  BY DEF Stored, Counted, Whole, BackupTypeOK, TypeOK
<1>4. Removing'
  BY DEF Removing, Stored, Whole, BackupTypeOK, TypeOK
<1>5. Downloading'
  BY DEF Downloading, Stored, Counted, Whole, BackupTypeOK, TypeOK
<1>6. Archived'
  BY DEF Archived, Stored, Whole, Counted, RowHasObject, NoRows, BackupTypeOK,
         TypeOK
<1>7. RowHasObject'
  BY DEF RowHasObject, Removing, Stored, Whole, BackupTypeOK, TypeOK
<1>8. OrphansExplained'
  BY DEF OrphansExplained, Uploading, Stored, Whole, Counted, Removing,
         BackupTypeOK, TypeOK
<1>9. Verdicts'
  BY DEF Verdicts, Downloading, Counted, Whole, BackupTypeOK, TypeOK
<1> QED
  BY <1>1, <1>2, <1>3, <1>4, <1>5, <1>6, <1>7, <1>8, <1>9

\* Digest preserves it.
LEMMA DigestInv ==
    ASSUME IInv, NEW f \in Uuids, Digest(f), UNCHANGED copy
    PROVE  IInv'
<1> USE DEF IInv, Digest, Upload, Uploading, Fits, storage, upload, history, copy
<1>1. BackupTypeOK'
  BY DEF BackupTypeOK, TypeOK
<1>2. Counted'
  BY DEF Counted, Uploading, BackupTypeOK, TypeOK
<1>3. Stored'
  BY DEF Stored, Counted, Whole, BackupTypeOK, TypeOK
<1>4. Removing'
  BY DEF Removing, Stored, Whole, BackupTypeOK, TypeOK
<1>5. Downloading'
  BY DEF Downloading, Stored, Counted, Whole, BackupTypeOK, TypeOK
<1>6. Archived'
  BY DEF Archived, Stored, Whole, Counted, RowHasObject, NoRows, BackupTypeOK,
         TypeOK
<1>7. RowHasObject'
  BY DEF RowHasObject, Removing, Stored, Whole, BackupTypeOK, TypeOK
<1>8. OrphansExplained'
  BY DEF OrphansExplained, Uploading, Stored, Whole, Counted, Removing,
         BackupTypeOK, TypeOK
<1>9. Verdicts'
  BY DEF Verdicts, Downloading, Counted, Whole, BackupTypeOK, TypeOK
<1> QED
  BY <1>1, <1>2, <1>3, <1>4, <1>5, <1>6, <1>7, <1>8, <1>9

\* Insert preserves it.
LEMMA InsertInv ==
    ASSUME IInv, NEW f \in Uuids, Insert(f), UNCHANGED copy
    PROVE  IInv'
<1> USE DEF IInv, Insert, Upload, Uploading, Fits, storage, upload, history, copy
<1>1. BackupTypeOK'
  BY DEF BackupTypeOK, TypeOK
<1>2. Counted'
  BY DEF Counted, Uploading, BackupTypeOK, TypeOK
<1>3. Stored'
  BY DEF Stored, Counted, Whole, BackupTypeOK, TypeOK
<1>4. Removing'
  BY DEF Removing, Stored, Whole, BackupTypeOK, TypeOK
<1>5. Downloading'
  BY DEF Downloading, Stored, Counted, Whole, BackupTypeOK, TypeOK
<1>6. Archived'
  BY DEF Archived, Stored, Whole, Counted, RowHasObject, NoRows, BackupTypeOK,
         TypeOK
<1>7. RowHasObject'
  <2>1. linked[f]
    BY DEF Counted
  <2>2. \A e \in Uuids : e # f => row'[e] = row[e]
    BY DEF BackupTypeOK, TypeOK
  <2> QED
    BY <2>1, <2>2 DEF RowHasObject
<1>8. OrphansExplained'
  BY NoneAssumption DEF OrphansExplained, Uploading, Stored, Whole, Counted, Removing,
         BackupTypeOK, TypeOK
<1>9. Verdicts'
  BY DEF Verdicts, Downloading, Counted, Whole, BackupTypeOK, TypeOK
<1> QED
  BY <1>1, <1>2, <1>3, <1>4, <1>5, <1>6, <1>7, <1>8, <1>9

\* UploadFails preserves it.
LEMMA UploadFailsInv ==
    ASSUME IInv, NEW f \in Uuids, UploadFails(f), UNCHANGED copy
    PROVE  IInv'
<1> USE DEF IInv, UploadFails, Upload, Uploading, Fits, storage, upload, history,
            copy
<1>1. BackupTypeOK'
  BY DEF BackupTypeOK, TypeOK
<1>2. Counted'
  BY DEF Counted, Uploading, BackupTypeOK, TypeOK
<1>3. Stored'
  BY DEF Stored, Counted, Whole, BackupTypeOK, TypeOK
<1>4. Removing'
  BY DEF Removing, Stored, Whole, BackupTypeOK, TypeOK
<1>5. Downloading'
  BY DEF Downloading, Stored, Counted, Whole, BackupTypeOK, TypeOK
<1>6. Archived'
  BY DEF Archived, Stored, Whole, Counted, RowHasObject, NoRows, BackupTypeOK,
         TypeOK
<1>7. RowHasObject'
  BY DEF RowHasObject, Removing, Stored, Whole, BackupTypeOK, TypeOK
<1>8. OrphansExplained'
  BY DEF OrphansExplained, Uploading, Stored, Whole, Counted, Removing,
         BackupTypeOK, TypeOK
<1>9. Verdicts'
  BY DEF Verdicts, Downloading, Counted, Whole, BackupTypeOK, TypeOK
<1> QED
  BY <1>1, <1>2, <1>3, <1>4, <1>5, <1>6, <1>7, <1>8, <1>9

\* RemoveFind preserves it.
LEMMA RemoveFindInv ==
    ASSUME IInv, NEW d \in Removals, NEW f \in Uuids,
           NEW by \in {"remove", "web_file"}, RemoveFind(d, f, by), UNCHANGED copy
    PROVE  IInv'
<1> USE DEF IInv, RemoveFind, storage, upload, history, copy
<1>1. /\ del' \in [Removals -> Removal]
      /\ del'[d].pc = "found" /\ del'[d].id = f
      /\ \A x \in Removals : x # d => del'[x] = del[x]
  BY DEF BackupTypeOK, TypeOK, Removal
<1>2. BackupTypeOK'
  BY <1>1, RemovalType DEF BackupTypeOK, TypeOK
<1>3. Counted'
  BY <1>1 DEF Counted, Uploading
<1>4. Stored'
  BY <1>1 DEF Stored, Whole, BackupTypeOK, TypeOK
<1>5. Downloading' /\ Verdicts'
  BY <1>1 DEF Downloading, Verdicts, Whole
<1>6. Removing'
  BY <1>1, <1>2 DEF Removing, Stored, Whole, BackupTypeOK, TypeOK, Removal
<1>7. Archived'
  BY DEF Archived, BackupTypeOK, TypeOK
<1>8. RowHasObject'
  BY DEF RowHasObject, Removing, BackupTypeOK, TypeOK
<1>9. OrphansExplained'
  <2>1. del[d].pc # "unlinking"
    OBVIOUS
  <2> QED
    BY <1>1, <2>1 DEF OrphansExplained, Uploading
<1> QED
  BY <1>2, <1>3, <1>4, <1>5, <1>6, <1>7, <1>8, <1>9

\* RemoveRow preserves it.
LEMMA RemoveRowInv ==
    ASSUME IInv, NEW d \in Removals, RemoveRow(d), UNCHANGED copy
    PROVE  IInv'
<1> USE DEF IInv, RemoveRow, storage, upload, history, copy
<1>1. /\ del' \in [Removals -> Removal] /\ del[d].id \in Uuids
      /\ del'[d].pc = "unlinking" /\ del'[d].id = del[d].id
      /\ \A x \in Removals : x # d => del'[x] = del[x]
  BY RemoveEffect DEF Removing
<1>2. BackupTypeOK'
  BY <1>1, RemovalType DEF BackupTypeOK, TypeOK
<1>3. Counted'
  BY <1>1 DEF Counted, Uploading
<1>4. Stored'
  BY <1>1 DEF Stored, Whole, BackupTypeOK, TypeOK
<1>5. Downloading' /\ Verdicts'
  BY <1>1 DEF Downloading, Verdicts, Whole
<1>6. Removing'
  BY <1>1, <1>2 DEF Removing, Stored, Whole, BackupTypeOK, TypeOK, Removal
<1>7. Archived'
  BY DEF Archived, BackupTypeOK, TypeOK
<1>8. RowHasObject'
  BY DEF RowHasObject, Removing, BackupTypeOK, TypeOK
<1>9. OrphansExplained'
  <2>1. \A e \in Uuids : e # del[d].id => row'[e] = row[e]
    BY DEF BackupTypeOK, TypeOK
  <2> QED
    BY <1>1, <2>1 DEF OrphansExplained, Uploading
<1> QED
  BY <1>2, <1>3, <1>4, <1>5, <1>6, <1>7, <1>8, <1>9

\* RemoveRowFails preserves it.
LEMMA RemoveRowFailsInv ==
    ASSUME IInv, NEW d \in Removals, RemoveRowFails(d), UNCHANGED copy
    PROVE  IInv'
<1> USE DEF IInv, RemoveRowFails, storage, upload, history, copy
<1>1. /\ del' \in [Removals -> Removal] /\ del[d].id \in Uuids
      /\ del'[d].pc \in {"over", "unlinking"} /\ del'[d].id = del[d].id
      /\ \A x \in Removals : x # d => del'[x] = del[x]
  BY RemoveEffect DEF Removing
<1>2. BackupTypeOK'
  BY <1>1, RemovalType DEF BackupTypeOK, TypeOK
<1>3. Counted'
  BY <1>1 DEF Counted, Uploading
<1>4. Stored'
  BY <1>1 DEF Stored, Whole, BackupTypeOK, TypeOK
<1>5. Downloading' /\ Verdicts'
  BY <1>1 DEF Downloading, Verdicts, Whole
<1>6. Removing'
  <2>1. del'[d].pc = "unlinking" => del[d].id \in spoiled'
    <3>1. del \in [Removals -> Removal]
      BY DEF BackupTypeOK, TypeOK, Removal
    <3>2. del[d].by = "remove" \/ del[d].by = "web_file"
      BY <3>1 DEF Removal
    <3>3. del[d].by = "remove" => del'[d].pc = "over"
      BY RemoveEffect
    <3> QED
      BY <3>2, <3>3
  <2>2. up[del[d].id] = "stored"
    BY DEF Removing
  <2>3. spoiled \subseteq spoiled'
    OBVIOUS
  <2> QED
    BY <1>1, <2>1, <2>2, <2>3 DEF Removing
<1>7. Archived'
  BY DEF Archived, BackupTypeOK, TypeOK
<1>8. RowHasObject'
  BY DEF RowHasObject, Removing, BackupTypeOK, TypeOK
<1>9. OrphansExplained'
  <2>1. del[d].pc = "found" /\ UNCHANGED <<row, linked, up, leaked>>
    OBVIOUS
  <2> QED
    BY <1>1, <2>1 DEF OrphansExplained, Uploading
<1> QED
  BY <1>2, <1>3, <1>4, <1>5, <1>6, <1>7, <1>8, <1>9

\* RemoveObject preserves it.
LEMMA RemoveObjectInv ==
    ASSUME IInv, NEW d \in Removals, RemoveObject(d), UNCHANGED copy
    PROVE  IInv'
<1> USE DEF IInv, RemoveObject, storage, upload, history, copy
<1>1. /\ del' \in [Removals -> Removal] /\ del[d].id \in Uuids
      /\ del'[d].pc = "over" /\ del'[d].id = del[d].id
      /\ \A x \in Removals : x # d => del'[x] = del[x]
  BY RemoveEffect DEF Removing
<1>2. BackupTypeOK'
  BY <1>1, RemovalType DEF BackupTypeOK, TypeOK
<1>3. Counted'
  <2>1. up[del[d].id] = "stored"
    BY DEF Removing
  <2>2. \A e \in Uuids : e # del[d].id => linked'[e] = linked[e]
    BY DEF BackupTypeOK, TypeOK
  <2> QED
    BY <1>1, <2>1, <2>2 DEF Counted, Uploading
<1>4. Stored'
  BY <1>1 DEF Stored, Whole, BackupTypeOK, TypeOK
<1>5. Downloading' /\ Verdicts'
  BY <1>1 DEF Downloading, Verdicts, Whole
<1>6. Removing'
  BY <1>1, <1>2 DEF Removing, Stored, Whole, BackupTypeOK, TypeOK, Removal
<1>7. Archived'
  BY DEF Archived, BackupTypeOK, TypeOK
<1>8. RowHasObject'
  BY DEF RowHasObject, Removing, BackupTypeOK, TypeOK
<1>9. OrphansExplained'
  <2>1. ~linked'[del[d].id] \/ del[d].id \in leaked'
    BY <1>1 DEF BackupTypeOK, TypeOK
  <2>2. \A e \in Uuids : linked'[e] => linked[e]
    BY DEF BackupTypeOK, TypeOK
  <2>3. leaked \subseteq leaked'
    OBVIOUS
  <2> QED
    BY <1>1, <2>1, <2>2, <2>3 DEF OrphansExplained, Uploading
<1> QED
  BY <1>2, <1>3, <1>4, <1>5, <1>6, <1>7, <1>8, <1>9

\* RemoveAborts preserves it.
LEMMA RemoveAbortsInv ==
    ASSUME IInv, NEW d \in Removals, RemoveAborts(d), UNCHANGED copy
    PROVE  IInv'
<1> USE DEF IInv, RemoveAborts, storage, upload, history, copy
<1>1. /\ del' \in [Removals -> Removal] /\ del[d].id \in Uuids
      /\ del'[d].pc = "over" /\ del'[d].id = del[d].id
      /\ \A x \in Removals : x # d => del'[x] = del[x]
  BY RemoveEffect DEF Removing
<1>2. BackupTypeOK'
  BY <1>1, RemovalType DEF BackupTypeOK, TypeOK
<1>3. Counted'
  BY <1>1 DEF Counted, Uploading
<1>4. Stored'
  BY <1>1 DEF Stored, Whole, BackupTypeOK, TypeOK
<1>5. Downloading' /\ Verdicts'
  BY <1>1 DEF Downloading, Verdicts, Whole
<1>6. Removing'
  BY <1>1, <1>2 DEF Removing, Stored, Whole, BackupTypeOK, TypeOK, Removal
<1>7. Archived'
  BY DEF Archived, BackupTypeOK, TypeOK
<1>8. RowHasObject'
  BY DEF RowHasObject, Removing, BackupTypeOK, TypeOK
<1>9. OrphansExplained'
  <2>1. del[d].pc = "unlinking" => del[d].id \in leaked'
    OBVIOUS
  <2>2. leaked \subseteq leaked'
    OBVIOUS
  <2> QED
    BY <1>1, <2>1, <2>2 DEF OrphansExplained, Uploading
<1> QED
  BY <1>2, <1>3, <1>4, <1>5, <1>6, <1>7, <1>8, <1>9

\* Meta preserves it.
LEMMA MetaInv ==
    ASSUME IInv, NEW g \in Downloads, NEW f \in Uuids, Meta(g, f), UNCHANGED copy
    PROVE  IInv'
<1> USE DEF IInv, Meta, storage, upload, history, copy
<1> DEFINE x == [pc |-> "item", item |-> [id |-> f, hash |-> row[f].hash, data |-> 0]]
<1>1. /\ x \in Download /\ get' = [get EXCEPT ![g] = x]
      /\ x.pc = "item" /\ x.item.id = f /\ x.item.hash = row[f].hash
  <2>1. row[f].hash \in Nat
    BY DEF BackupTypeOK, TypeOK
  <2>2. [NoItem EXCEPT !.id = f, !.hash = row[f].hash] =
            [id |-> f, hash |-> row[f].hash, data |-> 0]
    BY MetaEffect
  <2>3. x \in Download
    BY <2>1 DEF Download
  <2> QED
    BY <2>2, <2>3
<1> HIDE DEF x
<1>2. /\ BackupTypeOK'
      /\ get'[g] = x /\ \A y \in Downloads : y # g => get'[y] = get[y]
  <2>1. BackupTypeOK /\ UNCHANGED <<storage, upload, del, history, copy>>
    OBVIOUS
  <2> QED
    BY ONLY <1>1, <2>1, DownloadType
<1>3. Stored' /\ Archived'
  BY DEF Stored, Archived, Whole
<1>4. Counted' /\ Removing' /\ RowHasObject' /\ OrphansExplained'
  BY ServerFrame
<1>5. Downloading'
  <2>1. \A y \in Downloads : get'[y] = IF y = g THEN x ELSE get[y]
    BY <1>2
  <2>2. up[f] = "stored" /\ row[f].hash = hash[f]
    <3>1. up[f] = "stored" /\ row[f] = [size |-> written[f], hash |-> hash[f]]
      BY DEF Stored, Whole
    <3> QED
      BY <3>1
  <2> QED
    BY <1>1, <2>1, <2>2 DEF Downloading, Whole
<1>6. Verdicts'
  BY <1>1, <1>2 DEF Verdicts
<1> QED
  BY <1>2, <1>3, <1>4, <1>5, <1>6

\* Content preserves it.
LEMMA ContentInv ==
    ASSUME IInv, NEW g \in Downloads, Content(g), UNCHANGED copy
    PROVE  IInv'
<1> USE DEF IInv, Content, Get, storage, upload, history, copy
<1> DEFINE x == [pc |-> IF row[get[g].item.id] # None THEN "opening" ELSE "missing",
               item |-> get[g].item]
<1>1. /\ x \in Download /\ get' = [get EXCEPT ![g] = x] /\ x.item = get[g].item
      /\ x.pc = IF row[get[g].item.id] # None THEN "opening" ELSE "missing"
  <2>1. get \in [Downloads -> Download]
    BY DEF BackupTypeOK, TypeOK, Download
  <2>2. get[g].item \in [id : Uuids \cup {None}, hash : Nat, data : Nat]
    BY <2>1 DEF Download
  <2> QED
    BY <2>2, GetEffect DEF Download
<1> HIDE DEF x
<1>2. /\ BackupTypeOK'
      /\ get'[g] = x /\ \A y \in Downloads : y # g => get'[y] = get[y]
  <2>1. BackupTypeOK /\ UNCHANGED <<storage, upload, del, history, copy>>
    OBVIOUS
  <2> QED
    BY ONLY <1>1, <2>1, DownloadType
<1>3. Stored' /\ Archived'
  BY DEF Stored, Archived, Whole
<1>4. Counted' /\ Removing' /\ RowHasObject' /\ OrphansExplained'
  BY ServerFrame
<1>5. Downloading'
  <2>1. \A y \in Downloads : get'[y] = IF y = g THEN x ELSE get[y]
    BY <1>2
  <2>2. /\ get[g].item.id \in Uuids /\ up[get[g].item.id] = "stored"
        /\ get[g].item.hash = hash[get[g].item.id]
    BY DEF Downloading
  <2>3. x.pc = "opening" => Whole(get[g].item.id)
    BY <1>1, <2>2 DEF Stored
  <2>4. x.pc # "streaming"
    BY <1>1
  <2>5. Downloading /\ UNCHANGED <<up, hash, disk, body, last>>
    OBVIOUS
  <2> QED
    BY ONLY <1>1, <2>1, <2>2, <2>3, <2>4, <2>5 DEF Downloading, Whole
<1>6. Verdicts'
  BY <1>1, <1>2 DEF Verdicts
<1> QED
  BY <1>2, <1>3, <1>4, <1>5, <1>6

\* Open preserves it.
LEMMA OpenInv ==
    ASSUME IInv, NEW g \in Downloads, Open(g), UNCHANGED copy
    PROVE  IInv'
<1> USE DEF IInv, Open, Get, storage, upload, history, copy
<1> DEFINE x == [pc |-> IF linked[get[g].item.id] THEN "streaming" ELSE "internal",
               item |-> get[g].item]
<1>1. /\ x \in Download /\ get' = [get EXCEPT ![g] = x] /\ x.item = get[g].item
      /\ x.pc \in {"streaming", "internal"}
  <2>1. get \in [Downloads -> Download]
    BY DEF BackupTypeOK, TypeOK, Download
  <2>2. get[g].item \in [id : Uuids \cup {None}, hash : Nat, data : Nat]
    BY <2>1 DEF Download
  <2> QED
    BY <2>2, GetEffect DEF Download
<1> HIDE DEF x
<1>2. /\ BackupTypeOK'
      /\ get'[g] = x /\ \A y \in Downloads : y # g => get'[y] = get[y]
  <2>1. BackupTypeOK /\ UNCHANGED <<storage, upload, del, history, copy>>
    OBVIOUS
  <2> QED
    BY ONLY <1>1, <2>1, DownloadType
<1>3. Stored' /\ Archived'
  BY DEF Stored, Archived, Whole
<1>4. Counted' /\ Removing' /\ RowHasObject' /\ OrphansExplained'
  BY ServerFrame
<1>5. Downloading'
  <2>1. \A y \in Downloads : get'[y] = IF y = g THEN x ELSE get[y]
    BY <1>2
  <2> QED
    BY <1>1, <2>1 DEF Downloading, Stored, Whole
<1>6. Verdicts'
  BY <1>1, <1>2 DEF Verdicts
<1> QED
  BY <1>2, <1>3, <1>4, <1>5, <1>6

\* Receive preserves it.
LEMMA ReceiveInv ==
    ASSUME IInv, NEW g \in Downloads, Receive(g), UNCHANGED copy
    PROVE  IInv'
<1> USE DEF IInv
<1>0. get[g].pc = "streaming" /\ UNCHANGED <<storage, upload, del, history>>
  BY Zenon DEF Receive
<1> DEFINE x == [pc |-> Received(g),
               item |-> [id |-> get[g].item.id, hash |-> get[g].item.hash,
                         data |-> disk[get[g].item.id]]]
<1>1. /\ x \in Download /\ get' = [get EXCEPT ![g] = x]
      /\ x.pc = Received(g) /\ x.item.data = disk[get[g].item.id]
      /\ x.item.id = get[g].item.id /\ x.item.hash = get[g].item.hash
  <2>1. get \in [Downloads -> Download]
    BY DEF BackupTypeOK, TypeOK, Download
  <2>2. get[g].item \in [id : Uuids \cup {None}, hash : Nat, data : Nat]
    BY <2>1 DEF Download
  <2>3. disk[get[g].item.id] \in Nat
    <3>1. get[g].item.id \in Uuids
      BY <1>0 DEF Downloading
    <3> QED
      BY <3>1, UploadNumbers
  <2>4. x \in Download
    BY <2>2, <2>3 DEF Download, Received
  <2>5. [get[g] EXCEPT !.pc = Received(g), !.item.data = disk[get[g].item.id]] = x
    BY <2>1, <2>3, ReceiveEffect
  <2>6. get' = [get EXCEPT ![g] = x]
    BY <2>5, Zenon DEF Receive
  <2> QED
    BY <2>4, <2>6
<1> HIDE DEF x
<1>2. /\ BackupTypeOK'
      /\ get'[g] = x /\ \A y \in Downloads : y # g => get'[y] = get[y]
  BY <1>0, <1>1, DownloadType
<1>3. Stored' /\ Archived'
  BY <1>0 DEF Stored, Archived, Whole, storage, upload, history, copy
<1>4. Counted' /\ Removing' /\ RowHasObject' /\ OrphansExplained'
  BY <1>0, ServerFrame
<1>5. Downloading'
  <2>1. \A y \in Downloads : get'[y] = IF y = g THEN x ELSE get[y]
    BY <1>2
  <2>2. /\ get[g].item.id \in Uuids /\ up[get[g].item.id] = "stored"
        /\ get[g].item.hash = hash[get[g].item.id]
    BY <1>0 DEF Downloading
  <2>3. x.pc \notin {"opening", "streaming"}
    BY <1>1 DEF Received
  <2> QED
    BY <1>0, <1>1, <2>1, <2>2, <2>3 DEF Downloading, Whole, storage, upload
<1>6. Verdicts'
  <2> DEFINE f == get[g].item.id
  <2>1. f \in Uuids /\ Whole(f) /\ get[g].item.hash = hash[f]
    BY <1>0 DEF Downloading
  <2>2. /\ disk[f] \in Nat /\ body[f] \in Nat /\ hash[f] \in Nat
        /\ last[f] \in Nat /\ hash[f] <= disk[f] /\ disk[f] <= body[f]
        /\ body[f] <= disk[f] + last[f]
    BY <2>1, UploadNumbers DEF Counted, Whole
  <2>3. x.pc = IF disk[f] = hash[f] THEN "saved" ELSE "crypto"
    BY <1>1, <2>1 DEF Received
  <2>4. /\ x.pc = "saved" => disk[f] = hash[f] /\ disk[f] + last[f] >= body[f]
        /\ x.pc = "crypto" => hash[f] < disk[f] /\ disk[f] <= body[f]
    BY <2>2, <2>3
  <2>5. \A y \in Downloads : get'[y] = IF y = g THEN x ELSE get[y]
    BY <1>2
  <2> QED
    BY <1>0, <1>1, <2>4, <2>5 DEF Verdicts, storage, upload
<1> QED
  BY <1>2, <1>3, <1>4, <1>5, <1>6

\* When the server stops its handlers are gone, and nothing else.
Stops ==
    /\ up' = [f \in Uuids |-> IF Uploading(f) THEN "failed" ELSE up[f]]
    /\ del' = [d \in Removals |->
                 IF del[d].pc = "new" THEN del[d] ELSE [del[d] EXCEPT !.pc = "over"]]
    /\ get' = [g \in Downloads |->
                 IF get[g].pc \in {"opening", "streaming"}
                 THEN [get[g] EXCEPT !.pc = "internal"] ELSE get[g]]

LEMMA StopsEffect ==
    ASSUME BackupTypeOK, Stops
    PROVE  /\ up' \in [Uuids -> {"new", "receiving", "digesting", "hashed", "stored", "failed"}]
           /\ del' \in [Removals -> Removal]
           /\ get' \in [Downloads -> Download]
           /\ \A d \in Removals :
                 /\ del'[d].pc = IF del[d].pc = "new" THEN "new" ELSE "over"
                 /\ del'[d].id = del[d].id
           /\ \A g \in Downloads :
                 /\ get'[g].item = get[g].item
                 /\ get'[g].pc = IF get[g].pc \in {"opening", "streaming"}
                                 THEN "internal" ELSE get[g].pc
<1>1. /\ del \in [Removals -> Removal] /\ get \in [Downloads -> Download]
      /\ up \in [Uuids -> {"new", "receiving", "digesting", "hashed", "stored", "failed"}]
  BY DEF BackupTypeOK, TypeOK, Removal, Download
<1>2. up' \in [Uuids -> {"new", "receiving", "digesting", "hashed", "stored", "failed"}]
  BY <1>1 DEF Stops
<1>3. ASSUME NEW d \in Removals
      PROVE  /\ del'[d] \in Removal /\ del'[d].id = del[d].id
             /\ del'[d].pc = IF del[d].pc = "new" THEN "new" ELSE "over"
  <2>1. del'[d] = IF del[d].pc = "new" THEN del[d] ELSE [del[d] EXCEPT !.pc = "over"]
    BY DEF Stops
  <2> QED
    BY <1>1, <2>1 DEF Removal
<1>4. ASSUME NEW g \in Downloads
      PROVE  /\ get'[g] \in Download /\ get'[g].item = get[g].item
             /\ get'[g].pc = IF get[g].pc \in {"opening", "streaming"}
                             THEN "internal" ELSE get[g].pc
  <2>1. get'[g] = IF get[g].pc \in {"opening", "streaming"}
                  THEN [get[g] EXCEPT !.pc = "internal"] ELSE get[g]
    BY DEF Stops
  <2> QED
    BY <1>1, <2>1 DEF Download
<1>5. del' \in [Removals -> Removal]
  BY <1>3, Zenon DEF Stops
<1>6. get' \in [Downloads -> Download]
  BY <1>4, Zenon DEF Stops
<1> QED
  BY <1>2, <1>3, <1>4, <1>5, <1>6

\* So no removal and no download is left half way.
LEMMA StopsInv ==
    ASSUME IInv, Stops, UNCHANGED <<body, last, hash>>
    PROVE  /\ Removing' /\ Downloading' /\ Verdicts'
           /\ \A f \in Uuids : /\ up'[f] = "new" <=> up[f] = "new"
                               /\ up'[f] = "stored" <=> up[f] = "stored"
                               /\ up'[f] \notin {"receiving", "digesting", "hashed"}
<1>1. BackupTypeOK /\ Removing /\ Downloading /\ Verdicts
  BY DEF IInv
<1>2. \A f \in Uuids : /\ up'[f] = "new" <=> up[f] = "new"
                       /\ up'[f] = "stored" <=> up[f] = "stored"
                       /\ up'[f] \notin {"receiving", "digesting", "hashed"}
  BY DEF Stops, Uploading
<1>3. Removing'
  <2>1. \A d \in Removals : /\ del'[d].pc = IF del[d].pc = "new" THEN "new" ELSE "over"
                            /\ del'[d].id = del[d].id
    BY <1>1, StopsEffect
  <2> QED
    BY <1>1, <1>2, <2>1 DEF Removing
<1>4. Downloading'
  <2>1. \A g \in Downloads : /\ get'[g].item = get[g].item
                             /\ get'[g].pc = IF get[g].pc \in {"opening", "streaming"}
                                             THEN "internal" ELSE get[g].pc
    BY <1>1, StopsEffect
  <2> QED
    BY <1>1, <1>2, <2>1 DEF Downloading
<1>5. Verdicts'
  BY <1>1, StopsEffect DEF Verdicts
<1> QED
  BY <1>2, <1>3, <1>4, <1>5

\* Restart preserves it.
LEMMA RestartInv ==
    ASSUME IInv, Restart, UNCHANGED copy
    PROVE  IInv'
<1>1. Stops /\ UNCHANGED <<row, linked, disk, ailing, body, written, last, hash, spoiled>>
  BY DEF Restart, Stops
<1>2. /\ flying' = [f \in Uuids |-> FALSE]
      /\ \A f \in Uuids : f \in leaked \/ Uploading(f) => f \in leaked'
      /\ \A d \in Removals : del[d].pc = "unlinking" => del[d].id \in leaked'
  BY DEF Restart
<1>3. leaked' \subseteq Uuids
  BY DEF Restart, IInv, BackupTypeOK, TypeOK, Removing
<1>4. BackupTypeOK'
  BY <1>1, <1>2, <1>3, StopsEffect DEF IInv, BackupTypeOK, TypeOK, Removal, Download, copy
<1>5. /\ Removing' /\ Downloading' /\ Verdicts'
      /\ \A f \in Uuids : /\ up'[f] = "new" <=> up[f] = "new"
                          /\ up'[f] = "stored" <=> up[f] = "stored"
                          /\ up'[f] \notin {"receiving", "digesting", "hashed"}
  BY <1>1, StopsInv
<1>6. Counted'
  BY <1>1, <1>2, <1>5 DEF IInv, Counted, Uploading
<1>7. Stored'
  BY <1>1, <1>5 DEF IInv, Stored, Whole, copy
<1>8. Archived'
  BY <1>1, <1>5 DEF IInv, Archived, NoRows, copy
<1>9. RowHasObject'
  BY <1>1 DEF IInv, RowHasObject
<1>10. OrphansExplained'
  BY <1>1, <1>2 DEF IInv, OrphansExplained
<1> QED
  BY <1>4, <1>5, <1>6, <1>7, <1>8, <1>9, <1>10 DEF IInv

\* CopyRows preserves it.
LEMMA CopyRowsInv ==
    ASSUME IInv, CopyRows
    PROVE  IInv'
<1> USE DEF IInv, CopyRows, vars, storage, upload, history
<1>1. BackupTypeOK'
  BY DEF BackupTypeOK, TypeOK
<1>2. Stored'
  BY DEF Stored, Counted, Whole, BackupTypeOK, TypeOK
<1>3. Counted' /\ Removing' /\ RowHasObject' /\ OrphansExplained'
  BY ServerFrame
<1>4. Downloading' /\ Verdicts'
  BY DEF Downloading, Verdicts, Whole
<1>5. Archived'
  BY DEF Archived, Stored, Whole, Counted, RowHasObject, NoRows, BackupTypeOK,
         TypeOK
<1> QED
  BY <1>1, <1>2, <1>3, <1>4, <1>5

\* ListObjects preserves it.
LEMMA ListObjectsInv ==
    ASSUME IInv, ListObjects
    PROVE  IInv'
<1> USE DEF IInv, ListObjects, vars, storage, upload, history
<1>1. BackupTypeOK'
  BY DEF BackupTypeOK, TypeOK
<1>2. Stored'
  BY DEF Stored, Counted, Whole, BackupTypeOK, TypeOK
<1>3. Counted' /\ Removing' /\ RowHasObject' /\ OrphansExplained'
  BY ServerFrame
<1>4. Downloading' /\ Verdicts'
  BY DEF Downloading, Verdicts, Whole
<1>5. Archived'
  BY DEF Archived, Stored, Whole, Counted, RowHasObject, NoRows, BackupTypeOK,
         TypeOK
<1> QED
  BY <1>1, <1>2, <1>3, <1>4, <1>5

\* PullDone preserves it.
LEMMA PullDoneInv ==
    ASSUME IInv, PullDone
    PROVE  IInv'
<1> USE DEF IInv, PullDone, vars, storage, upload, history
<1>1. BackupTypeOK'
  BY DEF BackupTypeOK, TypeOK
<1>2. Stored'
  BY DEF Stored, Counted, Whole, BackupTypeOK, TypeOK
<1>3. Counted' /\ Removing' /\ RowHasObject' /\ OrphansExplained'
  BY ServerFrame
<1>4. Downloading' /\ Verdicts'
  BY DEF Downloading, Verdicts, Whole
<1>5. Archived'
  BY DEF Archived, Stored, Whole, Counted, RowHasObject, NoRows, BackupTypeOK,
         TypeOK
<1> QED
  BY <1>1, <1>2, <1>3, <1>4, <1>5

\* PullFails preserves it.
LEMMA PullFailsInv ==
    ASSUME IInv, PullFails
    PROVE  IInv'
<1> USE DEF IInv, PullFails, vars, storage, upload, history
<1>1. BackupTypeOK'
  <2>1. /\ rows' \in [Uuids -> [size : Nat, hash : Nat] \cup {None}]
        /\ objects' \in [Uuids -> Nat \cup {None}]
    BY DEF NoRows
  <2> QED
    BY <2>1 DEF BackupTypeOK, TypeOK
<1>2. Stored'
  <2>1. \A f \in Uuids : rows'[f] = None
    BY DEF NoRows
  <2>2. pull # "done"
    OBVIOUS
  <2> QED
    BY <2>1, <2>2 DEF Stored, Whole
<1>3. Counted' /\ Removing' /\ RowHasObject' /\ OrphansExplained'
  BY ServerFrame
<1>4. Downloading' /\ Verdicts'
  BY DEF Downloading, Verdicts, Whole
<1>5. Archived'
  BY DEF Archived, Stored, Whole, Counted, RowHasObject, NoRows, BackupTypeOK,
         TypeOK
<1> QED
  BY <1>1, <1>2, <1>3, <1>4, <1>5

\* PackObject preserves it.
LEMMA PackObjectInv ==
    ASSUME IInv, NEW f \in Uuids, PackObject(f)
    PROVE  IInv'
<1> USE DEF IInv, PackObject, vars, storage, upload, history
<1>1. BackupTypeOK'
  BY DEF BackupTypeOK, TypeOK
<1>2. Stored'
  BY DEF Stored, Counted, Whole, BackupTypeOK, TypeOK
<1>3. Counted' /\ Removing' /\ RowHasObject' /\ OrphansExplained'
  BY ServerFrame
<1>4. Downloading' /\ Verdicts'
  BY DEF Downloading, Verdicts, Whole
<1>5. Archived'
  <2>1. pull = "packing" /\ up[f] # "new"
    BY DEF Archived, Counted, BackupTypeOK
  <2>2. /\ disk[f] # None /\ disk[f] <= written[f]
        /\ rows[f] # None => hash[f] <= disk[f] /\ body[f] <= disk[f] + last[f]
    BY NoneAssumption, UploadNumbers DEF Counted, Stored, Whole
  <2>3. objects'[f] = disk[f] /\ \A e \in Uuids : e # f => objects'[e] = objects[e]
    BY DEF BackupTypeOK
  <2> QED
    BY <2>1, <2>2, <2>3 DEF Archived
<1> QED
  BY <1>1, <1>2, <1>3, <1>4, <1>5

\* Restore preserves it.
LEMMA RestoreInv ==
    ASSUME IInv, Restore
    PROVE  IInv'
<1>1. Stops /\ UNCHANGED <<ailing, body, written, last, hash, copy>>
  BY DEF Restore, Stops
<1>2. /\ row' = rows /\ flying' = [f \in Uuids |-> FALSE] /\ pull' = "done"
      /\ leaked' = Strays /\ spoiled' = Gone
      /\ \A f \in Uuids : /\ linked'[f] <=> objects[f] # None
                          /\ disk'[f] = IF objects[f] = None THEN disk[f] ELSE objects[f]
  BY DEF Restore, copy
<1>3. BackupTypeOK'
  <2>1. linked' \in [Uuids -> BOOLEAN]
    BY DEF Restore
  <2>2. disk' \in [Uuids -> Nat]
    <3>1. disk' = [f \in Uuids |-> IF objects[f] = None THEN disk[f] ELSE objects[f]]
      BY DEF Restore
    <3>2. disk \in [Uuids -> Nat] /\ objects \in [Uuids -> Nat \cup {None}]
      BY DEF IInv, BackupTypeOK, TypeOK
    <3> QED
      BY <3>1, <3>2
  <2>3. leaked' \subseteq Uuids /\ spoiled' \subseteq Uuids
    BY <1>2 DEF Strays, Gone
  <2> QED
    BY <1>1, <1>2, <2>1, <2>2, <2>3, StopsEffect
    DEF IInv, BackupTypeOK, TypeOK, Removal, Download, copy
<1>4. /\ Removing' /\ Downloading' /\ Verdicts'
      /\ \A f \in Uuids : /\ up'[f] = "new" <=> up[f] = "new"
                          /\ up'[f] = "stored" <=> up[f] = "stored"
                          /\ up'[f] \notin {"receiving", "digesting", "hashed"}
  BY <1>1, StopsInv
<1>5. Counted'
  <2>1. \A f \in Uuids : disk'[f] <= written[f] /\ (up[f] = "new" => ~linked'[f])
    BY <1>2 DEF IInv, Counted, Archived
  <2> QED
    BY <1>1, <1>2, <1>4, <2>1 DEF IInv, Counted, Uploading
<1>6. Stored'
  <2> SUFFICES ASSUME NEW f \in Uuids, rows[f] # None
               PROVE  /\ up'[f] = "stored" /\ hash[f] <= disk'[f] /\ body[f] <= disk'[f] + last[f]
                      /\ rows[f] = [size |-> written[f], hash |-> hash[f]]
    BY <1>1, <1>2 DEF Stored, Whole, copy
  <2>1. Whole(f) /\ rows[f] = [size |-> written[f], hash |-> hash[f]]
    BY DEF IInv, Stored
  <2>2. objects[f] # None => hash[f] <= objects[f] /\ body[f] <= objects[f] + last[f]
    BY DEF IInv, Archived
  <2> QED
    BY <1>2, <1>4, <2>1, <2>2 DEF Whole
<1>7. Archived'
  BY <1>1, <1>2, <1>4 DEF IInv, Archived, Gone, copy
<1>8. RowHasObject'
  BY <1>2 DEF RowHasObject, Gone
<1>9. OrphansExplained'
  BY <1>2 DEF OrphansExplained, Strays
<1> QED
  BY <1>3, <1>4, <1>5, <1>6, <1>7, <1>8, <1>9 DEF IInv

\* Every step preserves it.
LEMMA InvNext == IInv /\ [BackupNext]_backupVars => IInv'
<1> SUFFICES ASSUME IInv, [BackupNext]_backupVars PROVE IInv'
  OBVIOUS
<1>1. ASSUME NEW f \in Uuids, UploadNext(f), UNCHANGED copy PROVE IInv'
  BY <1>1, CreateInv, ChunkInv, ChunkFailsInv, TooLargeInv, LandInv, StreamEndsInv,
     DigestInv, InsertInv, UploadFailsInv DEF UploadNext
<1>2. ASSUME NEW d \in Removals, RemovalNext(d), UNCHANGED copy PROVE IInv'
  BY <1>2, RemoveFindInv, RemoveRowInv, RemoveRowFailsInv, RemoveObjectInv, RemoveAbortsInv
  DEF RemovalNext
<1>3. ASSUME NEW g \in Downloads, DownloadNext(g), UNCHANGED copy PROVE IInv'
  BY <1>3, MetaInv, ContentInv, OpenInv, ReceiveInv DEF DownloadNext
<1>4. CASE Pull
  BY <1>4, CopyRowsInv, ListObjectsInv, PullDoneInv, PullFailsInv, PackObjectInv, RestoreInv
  DEF Pull
<1>5. CASE UNCHANGED backupVars
  <2>1. UNCHANGED <<storage, upload, del, get, history, copy>>
    BY <1>5 DEF backupVars, vars
  <2>2. BackupTypeOK'
    BY <2>1 DEF IInv, BackupTypeOK, TypeOK, storage, upload, history, copy
  <2>3. Stored' /\ Archived' /\ Downloading' /\ Verdicts'
    BY <2>1 DEF IInv, Stored, Archived, Downloading, Verdicts, Whole, storage, upload,
                history, copy
  <2>4. Counted' /\ Removing' /\ RowHasObject' /\ OrphansExplained'
    BY <2>1, ServerFrame
  <2> QED
    BY <2>2, <2>3, <2>4 DEF IInv
<1> QED
  BY <1>1, <1>2, <1>3, <1>4, <1>5, RestartInv DEF BackupNext, Next

LEMMA InvAlways == BackupSpec => []IInv
BY InvInit, InvNext, PTL DEF BackupSpec

(***************************************************************************)
(* The theorems.                                                           *)
(***************************************************************************)

\* The table, the storage directory, the requests and the snapshot stay within
\* their types, through restarts and restores (file.rs, web.rs web_file,
\* pull-backup.sh).
THEOREM TypeCorrect == BackupSpec => []BackupTypeOK
<1>1. IInv => BackupTypeOK
  BY DEF IInv
<1> QED
  BY <1>1, InvAlways, PTL

\* A listed file can be opened, also after a restore, unless the dashboard
\* removed its object after it had failed to delete the row (file.rs remove,
\* web.rs web_file).
THEOREM RowHasObjectAlways == BackupSpec => []RowHasObject
<1>1. IInv => RowHasObject
  BY DEF IInv
<1> QED
  BY <1>1, InvAlways, PTL

\* Every object without a row is being uploaded or unlinked, or its clean-up
\* failed or was cut off: none is forgotten otherwise (file.rs upload, remove).
THEOREM OrphansExplainedAlways == BackupSpec => []OrphansExplained
<1>1. IInv => OrphansExplained
  BY DEF IInv
<1> QED
  BY <1>1, InvAlways, PTL

\* A row is of a whole body within the limit, of which the object and the
\* digest miss no more than the last chunk, although the last write is not
\* waited for (file.rs upload).
THEOREM AlmostWholeAlways == BackupSpec => []AlmostWhole
<1>1. IInv => AlmostWhole
  <2> SUFFICES ASSUME IInv, NEW f \in Uuids, row[f] # None
               PROVE  /\ row[f].size = body[f] /\ body[f] <= Limit
                      /\ row[f].hash + last[f] >= body[f]
                      /\ disk[f] + last[f] >= body[f]
    BY DEF AlmostWhole
  <2>1. Whole(f) /\ row[f] = [size |-> written[f], hash |-> hash[f]]
    BY DEF IInv, Stored
  <2>2. written[f] = body[f] /\ written[f] <= hash[f] + last[f]
    BY <2>1 DEF IInv, Counted, Whole
  <2>3. row[f].size = written[f] /\ row[f].hash = hash[f]
    BY <2>1
  <2>4. /\ disk[f] \in Nat /\ written[f] \in Nat /\ hash[f] \in Nat /\ last[f] \in Nat
        /\ written[f] <= Limit
    BY UploadNumbers DEF IInv
  <2> QED
    BY <2>1, <2>2, <2>3, <2>4 DEF Whole
<1> QED
  BY <1>1, InvAlways, PTL

\* A download the client saves misses no more than what the digest had missed of
\* the last chunk, and one it rejects has more of the body than the digest had
\* seen (client file.rs download, file.rs upload).
THEOREM VerdictsAlways == BackupSpec => []Verdicts
<1>1. IInv => Verdicts
  BY DEF IInv
<1> QED
  BY <1>1, InvAlways, PTL

\* A snapshot pulled from the running server has the object of every row in it
\* that the server still has a row of, as far as its digest goes at least
\* (pull-backup.sh, file.rs remove).
THEOREM SnapshotHoldsUpAlways == BackupSpec => []SnapshotHoldsUp
<1>1. IInv => SnapshotHoldsUp
  <2> SUFFICES ASSUME IInv, pull = "done", NEW f \in Uuids,
                      rows[f] # None, row[f] # None, f \notin spoiled
               PROVE  /\ objects[f] # None
                      /\ rows[f].hash <= objects[f] /\ objects[f] <= body[f]
    BY DEF SnapshotHoldsUp
  <2>1. rows[f] = [size |-> written[f], hash |-> hash[f]] /\ up[f] = "stored"
    BY DEF IInv, Stored, Whole
  <2>2. objects[f] # None
    BY DEF IInv, Archived
  <2>3. objects[f] <= written[f] /\ hash[f] <= objects[f]
    BY <2>2 DEF IInv, Archived
  <2>4. written[f] = body[f]
    BY <2>1 DEF IInv, Counted
  <2>5. rows[f].hash = hash[f]
    BY <2>1
  <2> QED
    BY <2>2, <2>3, <2>4, <2>5
<1> QED
  BY <1>1, InvAlways, PTL
=============================================================================
