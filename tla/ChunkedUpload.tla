--------------------------- MODULE ChunkedUpload ---------------------------
(***************************************************************************)
(* The chunked upload of apps/server/src/api/files.rs together with the    *)
(* hourly purge of apps/server/src/main.rs.  Every SQL statement and every *)
(* call of the storage plugin is a step of its own: the handlers run them  *)
(* one after the other on a shared pool, outside any transaction, so other *)
(* requests and the purge may run between any two of them.                 *)
(*                                                                         *)
(* A request that is refused (404, 400, 413) changes nothing and is not an *)
(* action.  A request that fails half way (a statement errors, the client  *)
(* disconnects and axum drops the handler) is Abandon; a server crash is   *)
(* Crash.                                                                  *)
(***************************************************************************)
EXTENDS Naturals, FiniteSets

CONSTANTS
  Users,       \* claims.sub of the callers
  UploadIds,   \* the values Uuid::new_v4() returns
  Handlers,    \* slots for requests the server is working on
  MaxChunks,   \* bound: the largest total_chunks
  MaxSends,    \* bound: how often a client sends one chunk (CLI 1, web 3)
  Overlap,     \* TRUE: a chunk may be sent again while a send is in progress
  Failures,    \* TRUE: requests, statements and the server may fail
  Day,         \* clock ticks in the 24 hours of the purge
  MaxTime      \* bound: the last tick of the clock

ASSUME BoundsAssumption ==
  /\ MaxChunks \in Nat \ {0}
  /\ MaxSends \in Nat
  /\ Day \in Nat
  /\ MaxTime \in Nat
  /\ Overlap \in BOOLEAN
  /\ Failures \in BOOLEAN

VARIABLES
  up,       \* the server process runs
  now,      \* NOW() of the database
  uploads,  \* ids that have a row in table uploads
  row,      \* the columns of the upload, by id; kept after the row is deleted
  files,    \* table files
  blobs,    \* keys chunks/<id>/<index> present in the storage, whatever the bytes
  req,      \* what each handler is doing
  purge,    \* what the purge is doing
  sends,    \* how often each chunk was sent
  acked,    \* history: chunks the server answered with 204
  counted   \* history: chunks some UPDATE of chunks_received stands for

vars == <<up, now, uploads, row, files, blobs, req, purge, sends, acked, counted>>

Index == 0 .. MaxChunks - 1
Idle == [pc |-> "idle"]

Row == [user : Users, total : 1 .. MaxChunks, received : Nat, created : Nat]
File == [id : UploadIds, user : Users, total : 1 .. MaxChunks]
PutRequest == [pc : {"exists", "store", "count"}, id : UploadIds, user : Users,
               idx : Index, already : BOOLEAN]
CompleteRequest == [pc : {"insert", "delete"}, id : UploadIds, user : Users,
                    total : 1 .. MaxChunks]
PurgeState == [pc : {"list"}, batch : SUBSET UploadIds]
              \cup [pc : {"blobs"}, batch : SUBSET UploadIds, id : UploadIds,
                    keys : SUBSET (UploadIds \X Index)]

known == DOMAIN row
PutPcs == {"exists", "store", "count"}
FileIds == {f.id : f \in files}
ChunksOf(u) == {i \in Index : <<u, i>> \in blobs}

\* created_at < NOW() - INTERVAL '24 hours' does not hold yet
Fresh(u) == now <= row[u].created + Day

Init ==
  /\ up = TRUE
  /\ now = 0
  /\ uploads = {}
  /\ row = [u \in {} |-> <<>>]
  /\ files = {}
  /\ blobs = {}
  /\ req = [h \in Handlers |-> Idle]
  /\ purge = Idle
  /\ sends = [k \in UploadIds \X Index |-> 0]
  /\ acked = [u \in UploadIds |-> {}]
  /\ counted = [u \in UploadIds |-> {}]

\* Mutant: an off-by-one in the announced number of chunks.
BugUploadInit(u, w, n) ==
  /\ up
  /\ u \notin known
  /\ uploads' = uploads \cup {u}
  /\ row' = [x \in known \cup {u} |->
               IF x = u THEN [user |-> w, total |-> n - 1, received |-> 0, created |-> now]
                        ELSE row[x]]
  /\ UNCHANGED <<up, now, files, blobs, req, purge, sends, acked, counted>>

\* INSERT INTO uploads.  The table's CHECK refuses total_chunks <= 0.
UploadInit(u, w, n) ==
  /\ up
  /\ u \notin known
  /\ uploads' = uploads \cup {u}
  /\ row' = [x \in known \cup {u} |->
               IF x = u THEN [user |-> w, total |-> n, received |-> 0, created |-> now]
                        ELSE row[x]]
  /\ UNCHANGED <<up, now, files, blobs, req, purge, sends, acked, counted>>

---------------------------------------------------------------------------
(* PUT /files/upload/:id *)

PutInFlight(u, i) ==
  \E h \in Handlers : req[h].pc \in PutPcs /\ req[h].id = u /\ req[h].idx = i

\* Mutant: the SELECT forgets AND user_id = $2.
BugPutSelect(h, w, u, i) ==
  /\ up
  /\ req[h] = Idle
  /\ u \in uploads
  /\ i < row[u].total
  /\ sends[<<u, i>>] < MaxSends
  /\ Overlap \/ ~PutInFlight(u, i)
  /\ sends' = [sends EXCEPT ![<<u, i>>] = @ + 1]
  /\ req' = [req EXCEPT ![h] = [pc |-> "exists", id |-> u, user |-> w, idx |-> i,
                                already |-> FALSE]]
  /\ UNCHANGED <<up, now, uploads, row, files, blobs, purge, acked, counted>>

\* SELECT the upload of this user and check the index.
PutSelect(h, w, u, i) ==
  /\ up
  /\ req[h] = Idle
  /\ u \in uploads
  /\ row[u].user = w
  /\ i < row[u].total
  /\ sends[<<u, i>>] < MaxSends
  /\ Overlap \/ ~PutInFlight(u, i)
  /\ sends' = [sends EXCEPT ![<<u, i>>] = @ + 1]
  /\ req' = [req EXCEPT ![h] = [pc |-> "exists", id |-> u, user |-> w, idx |-> i,
                                already |-> FALSE]]
  /\ UNCHANGED <<up, now, uploads, row, files, blobs, purge, acked, counted>>

\* Mutants: every chunk counts as new; the test looks for any chunk of the upload.
BugPutExistsNever(h) ==
  /\ req[h].pc = "exists"
  /\ req' = [req EXCEPT ![h].pc = "store", ![h].already = FALSE]
  /\ UNCHANGED <<up, now, uploads, row, files, blobs, purge, sends, acked, counted>>

BugPutExistsAny(h) ==
  /\ req[h].pc = "exists"
  /\ req' = [req EXCEPT ![h].pc = "store", ![h].already = ChunksOf(req[h].id) # {}]
  /\ UNCHANGED <<up, now, uploads, row, files, blobs, purge, sends, acked, counted>>

\* let already_received = storage.exists(key)
PutExists(h) ==
  LET r == req[h] IN
  /\ r.pc = "exists"
  /\ req' = [req EXCEPT ![h] = [pc |-> "store", id |-> r.id, user |-> r.user, idx |-> r.idx,
                                already |-> <<r.id, r.idx>> \in blobs]]
  /\ UNCHANGED <<up, now, uploads, row, files, blobs, purge, sends, acked, counted>>

Acknowledge(u, i) == acked' = [acked EXCEPT ![u] = @ \cup {i}]

\* storage.put(key, body); a chunk that was there before is answered at once.
\* The key is there from the moment storage-local creates the file, and stays
\* there while the file is written again in place (storage-local/lib.rs:131).
PutStore(h) ==
  LET r == req[h] IN
  /\ r.pc = "store"
  /\ blobs' = blobs \cup {<<r.id, r.idx>>}
  /\ \/ /\ r.already
        /\ Acknowledge(r.id, r.idx)
        /\ req' = [req EXCEPT ![h] = Idle]
     \/ /\ ~r.already
        /\ req' = [req EXCEPT ![h].pc = "count"]
        /\ UNCHANGED acked
  /\ UNCHANGED <<up, now, uploads, row, files, purge, sends, counted>>

\* UPDATE uploads SET chunks_received = chunks_received + 1 WHERE id = $1;
\* it is no error when the row is gone.
PutCount(h) ==
  LET r == req[h] IN
  /\ r.pc = "count"
  /\ \/ /\ r.id \in uploads
        /\ row' = [row EXCEPT ![r.id].received = @ + 1]
        /\ counted' = [counted EXCEPT ![r.id] = @ \cup {r.idx}]
     \/ /\ r.id \notin uploads
        /\ UNCHANGED <<row, counted>>
  /\ Acknowledge(r.id, r.idx)
  /\ req' = [req EXCEPT ![h] = Idle]
  /\ UNCHANGED <<up, now, uploads, files, blobs, purge, sends>>

---------------------------------------------------------------------------
(* POST /files/upload/:id/complete *)

\* Mutant: an off-by-one in the check for missing chunks.
BugCompleteSelect(h, w, u) ==
  /\ up
  /\ req[h] = Idle
  /\ u \in uploads
  /\ row[u].user = w
  /\ row[u].received + 1 >= row[u].total
  /\ req' = [req EXCEPT ![h] = [pc |-> "insert", id |-> u, user |-> w,
                                total |-> row[u].total]]
  /\ UNCHANGED <<up, now, uploads, row, files, blobs, purge, sends, acked, counted>>

\* SELECT the upload of this user; chunks_received < total_chunks is refused.
CompleteSelect(h, w, u) ==
  /\ up
  /\ req[h] = Idle
  /\ u \in uploads
  /\ row[u].user = w
  /\ row[u].received >= row[u].total
  /\ req' = [req EXCEPT ![h] = [pc |-> "insert", id |-> u, user |-> w,
                                total |-> row[u].total]]
  /\ UNCHANGED <<up, now, uploads, row, files, blobs, purge, sends, acked, counted>>

\* Mutant: the INSERT is tried again and again after a conflict.
BugCompleteInsert(h) ==
  LET r == req[h] IN
  /\ r.pc = "insert"
  /\ r.id \notin FileIds
  /\ files' = files \cup {[id |-> r.id, user |-> r.user, total |-> r.total]}
  /\ req' = [req EXCEPT ![h].pc = "delete"]
  /\ UNCHANGED <<up, now, uploads, row, blobs, purge, sends, acked, counted>>

\* INSERT INTO files; a second INSERT of the same id breaks the primary key
\* and the request ends with 500.
CompleteInsert(h) ==
  LET r == req[h] IN
  /\ r.pc = "insert"
  /\ \/ /\ r.id \notin FileIds
        /\ files' = files \cup {[id |-> r.id, user |-> r.user, total |-> r.total]}
        /\ req' = [req EXCEPT ![h].pc = "delete"]
     \/ /\ r.id \in FileIds
        /\ req' = [req EXCEPT ![h] = Idle]
        /\ UNCHANGED files
  /\ UNCHANGED <<up, now, uploads, row, blobs, purge, sends, acked, counted>>

\* DELETE FROM uploads, best effort: its error is dropped by .ok().
CompleteDelete(h) ==
  /\ req[h].pc = "delete"
  /\ \/ uploads' = uploads \ {req[h].id}
     \/ Failures /\ UNCHANGED uploads
  /\ req' = [req EXCEPT ![h] = Idle]
  /\ UNCHANGED <<up, now, row, files, blobs, purge, sends, acked, counted>>

---------------------------------------------------------------------------
(* purge_orphaned_uploads *)

\* Mutant: the SELECT forgets WHERE created_at < NOW() - INTERVAL '24 hours'.
BugPurgeSelect ==
  /\ up
  /\ purge = Idle
  /\ uploads # {}
  /\ purge' = [pc |-> "list", batch |-> uploads]
  /\ UNCHANGED <<up, now, uploads, row, files, blobs, req, sends, acked, counted>>

\* SELECT the uploads created more than 24 hours ago.
PurgeSelect ==
  LET old == {u \in uploads : ~Fresh(u)} IN
  /\ up
  /\ purge = Idle
  /\ old # {}
  /\ purge' = [pc |-> "list", batch |-> old]
  /\ UNCHANGED <<up, now, uploads, row, files, blobs, req, sends, acked, counted>>

\* Mutant: the prefix is "chunks/".
BugPurgeList(u) ==
  /\ purge.pc = "list"
  /\ u \in purge.batch
  /\ purge' = [pc |-> "blobs", batch |-> purge.batch, id |-> u, keys |-> blobs]
  /\ UNCHANGED <<up, now, uploads, row, files, blobs, req, sends, acked, counted>>

\* storage.list("chunks/<id>/"); an error of list skips the blobs.
PurgeList(u) ==
  /\ purge.pc = "list"
  /\ u \in purge.batch
  /\ \E keys \in {{k \in blobs : k[1] = u}} \cup (IF Failures THEN {{}} ELSE {}) :
       purge' = [pc |-> "blobs", batch |-> purge.batch, id |-> u, keys |-> keys]
  /\ UNCHANGED <<up, now, uploads, row, files, blobs, req, sends, acked, counted>>

\* storage.delete(key); an error is logged and the loop goes on.
PurgeBlob(k) ==
  /\ purge.pc = "blobs"
  /\ k \in purge.keys
  /\ purge' = [purge EXCEPT !.keys = @ \ {k}]
  /\ \/ blobs' = blobs \ {k}
     \/ Failures /\ UNCHANGED blobs
  /\ UNCHANGED <<up, now, uploads, row, files, req, sends, acked, counted>>

\* Mutant: only uploads that are short of chunks are deleted.
BugPurgeRow ==
  LET rest == purge.batch \ {purge.id} IN
  /\ purge.pc = "blobs"
  /\ purge.keys = {}
  /\ uploads' = IF row[purge.id].received < row[purge.id].total
                  THEN uploads \ {purge.id} ELSE uploads
  /\ purge' = IF rest = {} THEN Idle ELSE [pc |-> "list", batch |-> rest]
  /\ UNCHANGED <<up, now, row, files, blobs, req, sends, acked, counted>>

\* DELETE FROM uploads, whether or not the blobs went; an error is logged.
PurgeRow ==
  LET rest == purge.batch \ {purge.id} IN
  /\ purge.pc = "blobs"
  /\ purge.keys = {}
  /\ \/ uploads' = uploads \ {purge.id}
     \/ Failures /\ UNCHANGED uploads
  /\ purge' = IF rest = {} THEN Idle ELSE [pc |-> "list", batch |-> rest]
  /\ UNCHANGED <<up, now, row, files, blobs, req, sends, acked, counted>>

---------------------------------------------------------------------------
(* The surroundings *)

\* A statement or storage call fails and the handler returns early, or the
\* client disconnects and the handler is dropped at an await.
Abandon(h) ==
  /\ Failures
  /\ req[h] # Idle
  /\ req' = [req EXCEPT ![h] = Idle]
  /\ UNCHANGED <<up, now, uploads, row, files, blobs, purge, sends, acked, counted>>

\* The server process dies: requests and the purge are lost, tables and
\* blobs stay.
Crash ==
  /\ Failures
  /\ up
  /\ up' = FALSE
  /\ req' = [h \in Handlers |-> Idle]
  /\ purge' = Idle
  /\ UNCHANGED <<now, uploads, row, files, blobs, sends, acked, counted>>

Restart ==
  /\ ~up
  /\ up' = TRUE
  /\ UNCHANGED <<now, uploads, row, files, blobs, req, purge, sends, acked, counted>>

Tick ==
  /\ now < MaxTime
  /\ now' = now + 1
  /\ UNCHANGED <<up, uploads, row, files, blobs, req, purge, sends, acked, counted>>

HandlerStep(h) ==
  \/ PutExists(h)
  \/ PutStore(h)
  \/ PutCount(h)
  \/ CompleteInsert(h)
  \/ CompleteDelete(h)

PurgeStep ==
  \/ PurgeSelect
  \/ \E u \in UploadIds : PurgeList(u)
  \/ \E k \in UploadIds \X Index : PurgeBlob(k)
  \/ PurgeRow

Next ==
  \/ \E u \in UploadIds, w \in Users, n \in 1 .. MaxChunks : UploadInit(u, w, n)
  \/ \E h \in Handlers, w \in Users, u \in UploadIds, i \in Index : PutSelect(h, w, u, i)
  \/ \E h \in Handlers, w \in Users, u \in UploadIds : CompleteSelect(h, w, u)
  \/ \E h \in Handlers : HandlerStep(h)
  \/ \E h \in Handlers : Abandon(h)
  \/ PurgeStep
  \/ Crash
  \/ Restart
  \/ Tick

Spec == Init /\ [][Next]_vars

\* The DELETE of the row of u succeeds.
PurgeRowGoes(u) == PurgeRow /\ purge.id = u /\ u \notin uploads'

\* tokio runs every handler and the purge loop, and clients owe nothing.  The
\* server is started again after a crash and does not crash for ever, and a
\* DELETE that the hourly purge repeats again and again succeeds some time.
Fairness ==
  /\ \A h \in Handlers : WF_vars(HandlerStep(h))
  /\ WF_vars(PurgeStep)
  /\ WF_vars(Restart)
  /\ <>[]up
  /\ \A u \in UploadIds : SF_vars(PurgeRowGoes(u))

FairSpec == Spec /\ Fairness

---------------------------------------------------------------------------
(* Properties *)

\* Every variable has the shape the code gives it; a request or purge in
\* progress is about an upload that was initialised.
TypeOK ==
  /\ up \in BOOLEAN
  /\ now \in Nat
  /\ uploads \subseteq known
  /\ known \subseteq UploadIds
  /\ row \in [known -> Row]
  /\ files \subseteq {f \in File : f.id \in known}
  /\ blobs \subseteq known \X Index
  /\ req \in [Handlers -> {Idle} \cup PutRequest \cup CompleteRequest]
  /\ \A h \in Handlers : req[h] # Idle => req[h].id \in known
  /\ purge \in {Idle} \cup PurgeState
  /\ sends \in [UploadIds \X Index -> Nat]
  /\ acked \in [UploadIds -> SUBSET Index]
  /\ counted \in [UploadIds -> SUBSET Index]
  /\ \A u \in UploadIds \ known : acked[u] = {} /\ counted[u] = {}

\* A file the server created holds every one of its chunks, at least until
\* its upload is 24 hours old: what upload_complete's check of
\* chunks_received is there to guarantee (files.rs:296).
FilesAreWhole ==
  \A f \in files : Fresh(f.id) => \A i \in 0 .. f.total - 1 : <<f.id, i>> \in blobs

\* "Re-sending a chunk ... should not make the upload look more complete than
\* it is" (files.rs:228): chunks_received never exceeds the chunks stored.
NotMoreCompleteThanItIs ==
  \A u \in uploads : Fresh(u) => row[u].received <= Cardinality(ChunksOf(u))

\* The storage has the key of every chunk answered with 204 (files.rs:244),
\* through retries, crashes and other requests, until the upload is 24 hours old.
AckedIsStored ==
  \A u \in known : Fresh(u) => acked[u] \subseteq ChunksOf(u)

\* "Can resume if interrupted -- just re-send missing chunks" (files.rs:15): once
\* every chunk was answered with 204 and no PUT is in progress, /complete is not
\* refused for missing chunks.  The code keeps this only while nothing fails: if
\* the UPDATE of files.rs:231 fails after the chunk was stored, every re-send
\* finds the chunk and is answered without being counted.
AckedIsCounted ==
  \A u \in uploads :
    (acked[u] = 0 .. row[u].total - 1 /\ \A i \in Index : ~PutInFlight(u, i))
      => row[u].received >= row[u].total

\* A file belongs to the user who initialised its upload and has the size
\* announced then; a request in progress works on an upload of its caller.
OwnerOnly ==
  /\ \A f \in files : f.user = row[f.id].user /\ f.total = row[f.id].total
  /\ \A h \in Handlers : req[h] # Idle => req[h].user = row[req[h].id].user
\* No chunk of an upload younger than 24 hours is ever removed, whatever the
\* purge had read before it was suspended.
YoungChunksStay ==
  [][\A k \in blobs \ blobs' : ~Fresh(k[1])]_vars

\* Every request gets its answer, whatever other requests, the purge and
\* failures do meanwhile: the loser of two /complete requests ends as well.
RequestsAreAnswered ==
  \A h \in Handlers : req[h] # Idle ~> req[h] = Idle

\* The purge gets to every upload that is older than 24 hours, through batches
\* of several uploads, blobs it cannot delete, rows it fails to delete and
\* crashes in the middle of a batch (main.rs:235-286).
OldUploadsGo ==
  \A u \in UploadIds : (u \in uploads /\ ~Fresh(u)) ~> u \notin uploads

---------------------------------------------------------------------------
(* Why the safety properties hold: the inductive invariants *)

\* What the purge works on is older than 24 hours, however long ago it read it.
PurgeTakesOld ==
  /\ purge # Idle => \A u \in purge.batch : u \in known /\ ~Fresh(u)
  /\ purge.pc = "blobs" => /\ purge.id \in known /\ ~Fresh(purge.id)
                           /\ \A k \in purge.keys : k[1] = purge.id

\* A handler about to count a chunk has stored it.
CountsWhatIsStored ==
  \A h \in Handlers : (req[h].pc = "count" /\ Fresh(req[h].id))
                        => <<req[h].id, req[h].idx>> \in blobs

\* Whatever clients do, acknowledged chunks of young uploads stay stored.
StorageInv == PurgeTakesOld /\ CountsWhatIsStored /\ AckedIsStored

\* Each unit of chunks_received stands for a stored chunk of its own.
ReceivedIsCounted ==
  \A u \in known :
    /\ counted[u] \subseteq 0 .. row[u].total - 1
    /\ Fresh(u) => /\ row[u].received = Cardinality(counted[u])
                   /\ counted[u] \subseteq ChunksOf(u)

\* A handler that will count a chunk is the first to do so.
CountsNewChunk ==
  \A h \in Handlers : req[h].pc \in PutPcs =>
    /\ req[h].idx < row[req[h].id].total
    /\ req[h].pc = "count" => ~req[h].already
    /\ (req[h].pc # "exists" /\ ~req[h].already /\ Fresh(req[h].id))
         => req[h].idx \notin counted[req[h].id]

\* No two handlers are at work on the same chunk.
AloneOnChunk ==
  \A g, h \in Handlers :
    (/\ req[g].pc \in PutPcs /\ req[h].pc \in PutPcs
     /\ req[g].id = req[h].id /\ req[g].idx = req[h].idx) => g = h

AllCounted(u, n) == n = row[u].total /\ (Fresh(u) => counted[u] = 0 .. n - 1)

\* Files, and requests about to create one, have all their chunks counted.
CompletesWhole ==
  /\ \A h \in Handlers :
       req[h].pc \in {"insert", "delete"} => AllCounted(req[h].id, req[h].total)
  /\ \A f \in files : AllCounted(f.id, f.total)

\* Unless a chunk is sent again while a send is in progress, chunks_received
\* counts the chunks stored, each once.
CountingInv ==
  PurgeTakesOld /\ CountsWhatIsStored /\ ReceivedIsCounted /\ CountsNewChunk
    /\ AloneOnChunk /\ CompletesWhole

---------------------------------------------------------------------------
(* Refinement of UploadPromise *)

Phase(u) ==
  CASE u \in FileIds -> "done"
    [] u \notin FileIds /\ u \in uploads -> "open"
    [] u \in known \ (uploads \cup FileIds) -> "gone"
    [] u \notin known -> "none"

Promise == INSTANCE UploadPromise WITH
  phase <- [u \in UploadIds |-> Phase(u)],
  size <- [u \in UploadIds |-> IF u \in known THEN row[u].total ELSE 0],
  stored <- [u \in UploadIds |-> ChunksOf(u)],
  old <- {u \in known : ~Fresh(u)}

\* The handlers and the purge, statement by statement, keep the promise.
KeepsPromise == Promise!Spec
=============================================================================
