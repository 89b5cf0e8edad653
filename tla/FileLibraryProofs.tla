-------------------------- MODULE FileLibraryProofs --------------------------
(***************************************************************************)
(* Proofs about FileLibrary, for any files, clients and bounds: what is    *)
(* gone stays gone, an upload that is done is whole, a download is the     *)
(* file that was uploaded, and a walk through the pages of a list misses   *)
(* and repeats no more than the list's changes account for.                *)
(***************************************************************************)
EXTENDS FileLibrary, FiniteSetTheorems, SequenceTheorems, TLAPS

\* Rows never leave the table, and only an upload that has not ended adds one.
Library ==
  /\ now \in Nat /\ DOMAIN files \subseteq Files /\ files \in [DOMAIN files -> File]
  /\ \A f \in Files: f \in DOMAIN files => f \in Range(Old) \/ upload[f].pc \in {"done", "error"}

\* An uploaded chunk is the ciphertext of its place.
Sending(f) == \E tries: upload[f] \in [pc: {"no", "sending", "error", "done"},
                                       sent: SUBSET Indices(f), tries: {tries}]
Storage ==
  /\ DOMAIN upload = Files /\ DOMAIN blobs = Files
  /\ \A f \in Files:
       /\ Sending(f)
       /\ DOMAIN blobs[f] \subseteq Indices(f)
       /\ blobs[f] = [i \in DOMAIN blobs[f] |-> EncryptChunk(f, i)]
       /\ upload[f].sent \subseteq DOMAIN blobs[f]
       /\ f \in Range(Old) => upload[f].pc = "no"
       /\ upload[f].pc = "done" => f \in DOMAIN files /\ upload[f].sent = Indices(f)

\* What a download has so far are the first chunks of its file.
Started(c) ==
  job[c] \in [pc: {"loading", "saved"}, file: Files, got: Seq(Ciphertext)]
Downloads ==
  /\ DOMAIN job = Clients
  /\ \A c \in Clients:
       \/ job[c] = NoJob
       \/ /\ Started(c)
          /\ \A k \in DOMAIN job[c].got: InPlace(job[c].file, k - 1, job[c].got[k])
          /\ job[c].pc = "saved" => Len(job[c].got) = Chunks[job[c].file]

LibraryInv == Library /\ Storage /\ Downloads

-----------------------------------------------------------------------------
(* Chunks. *)

LEMMA ObjectIsCiphertext ==
  ASSUME NEW f \in Files, NEW i \in Nat, NEW n \in Nat
  PROVE  [index |-> i, nonce |-> n, sealed |-> [key |-> f, nonce |-> n, part |-> <<f, n>>]]
           \in Ciphertext
<1> DEFINE sealed == [key |-> f, nonce |-> n, part |-> <<f, n>>]
<1>1. sealed \in Sealed
  BY DEF Sealed
<1> HIDE DEF sealed
<1>2. [index |-> i, nonce |-> n, sealed |-> sealed] \in Ciphertext
  BY <1>1 DEF Ciphertext
<1> QED
  BY <1>2 DEF sealed

LEMMA ChunksOfFile ==
  ASSUME NEW f \in Files
  PROVE  /\ Chunks[f] \in Nat \ {0}
         /\ \A i \in Indices(f): i \in Nat /\ EncryptChunk(f, i) \in Ciphertext
                                 /\ EncryptChunk(f, i).sealed.part = <<f, i>>
BY LibraryAssumption, ObjectIsCiphertext DEF Indices, EncryptChunk

\* Storing a chunk again changes nothing else.
LEMMA StoringKeeps ==
  ASSUME Storage, NEW f \in Files, NEW i \in Indices(f), NEW more,
         more = Storing(f, i)
  PROVE  /\ DOMAIN more = Files
         /\ DOMAIN more[f] = DOMAIN blobs[f] \cup {i}
         /\ more[f] = [j \in DOMAIN more[f] |-> EncryptChunk(f, j)]
         /\ \A g \in Files \ {f}: more[g] = blobs[g]
<1> DEFINE new == Put(blobs[f], i, EncryptChunk(f, i))
<1>1. more = [blobs EXCEPT ![f] = new]
  BY DEF Storing
<1>2. /\ DOMAIN new = DOMAIN blobs[f] \cup {i}
      /\ \A j \in DOMAIN new: new[j] = IF j = i THEN EncryptChunk(f, i) ELSE blobs[f][j]
      /\ new = [j \in DOMAIN new |-> new[j]]
  BY DEF Put
<1> HIDE DEF new
<1>3. \A j \in DOMAIN blobs[f]: blobs[f][j] = EncryptChunk(f, j)
  BY DEF Storage
<1>4. new = [j \in DOMAIN new |-> EncryptChunk(f, j)]
  <2>1. \A j \in DOMAIN new: new[j] = EncryptChunk(f, j)
    BY <1>2, <1>3
  <2> QED
    BY <1>2, <2>1
<1> QED
  BY <1>1, <1>2, <1>4 DEF Storage

-----------------------------------------------------------------------------
(* The handlers that change a row. *)

AName == CHOOSE n \in Names: TRUE
LEMMA NameIsName == AName \in Names
BY LibraryAssumption DEF AName

LEMMA RowStays ==
  ASSUME Library, NEW f \in DOMAIN files, NEW field \in {"name", "deleted_at"}, NEW value,
         field = "name" => value \in Names, field = "deleted_at" => value \in Nat,
         files' = [files EXCEPT ![f] = [files[f] EXCEPT ![field] = value]]
  PROVE  /\ DOMAIN files' = DOMAIN files /\ files' \in [DOMAIN files -> File]
         /\ files'[f][field] = value
         /\ field = "name" => files'[f].deleted_at = files[f].deleted_at
         /\ \A g \in DOMAIN files: g # f => files'[g] = files[g]
<1> DEFINE row == [files[f] EXCEPT ![field] = value]
<1>1. files[f] \in File
  BY DEF Library
<1>2. CASE field = "name"
  <2>1. row \in File /\ row[field] = value /\ row.deleted_at = files[f].deleted_at
    BY <1>1, <1>2 DEF File
  <2> HIDE DEF row
  <2> QED
    BY <1>2, <2>1 DEF Library, row
<1>3. CASE field = "deleted_at"
  <2>1. row \in File /\ row[field] = value
    BY <1>1, <1>3 DEF File
  <2> HIDE DEF row
  <2> QED
    BY <1>3, <2>1 DEF Library, row
<1> QED
  BY <1>2, <1>3

LEMMA RowStepsKeep ==
  ASSUME LibraryInv, DOMAIN files' = DOMAIN files, files' \in [DOMAIN files -> File], now' \in Nat,
         UNCHANGED <<blobs, upload, job>>
  PROVE  LibraryInv'
BY DEF LibraryInv, Library, Storage, Downloads, Sending, Started

\* A step leaves what is gone alone.
Gone == \A f \in Files: Expired(f) => Expired(f)'

LEMMA LaterIsGone ==
  ASSUME Library, now' \in Nat, now' >= now, NEW f \in Files, Expired(f),
         f \in DOMAIN files', files'[f] = files[f]
  PROVE  Expired(f)'
<1>1. /\ f \in DOMAIN files /\ files[f].deleted_at # Never
      /\ ~(now < files[f].deleted_at + RETENTION)
  BY DEF Expired, IsLive, InTrash
<1>2. files[f].deleted_at \in Nat /\ RETENTION \in Nat /\ now \in Nat
  BY <1>1, LibraryAssumption DEF Library, File
<1>3. ~(now' < files[f].deleted_at + RETENTION)
  BY <1>1, <1>2
<1> QED
  BY <1>1, <1>3 DEF Expired, IsLive, InTrash

LEMMA DeleteKeeps ==
  ASSUME LibraryInv, NEW f \in Files, DeleteFile(f)
  PROVE  LibraryInv' /\ Gone
<1>1. /\ f \in DOMAIN files /\ files[f].deleted_at = Never
      /\ files' = [files EXCEPT ![f] = [files[f] EXCEPT !["deleted_at"] = now]]
      /\ now' = now + 1 /\ now \in Nat /\ UNCHANGED <<blobs, upload, job>>
  BY DEF DeleteFile, IsLive, Stamp, LibraryInv, Library
<1>2. /\ DOMAIN files' = DOMAIN files /\ files' \in [DOMAIN files -> File]
      /\ \A g \in DOMAIN files: g # f => files'[g] = files[g]
  BY <1>1, RowStays DEF LibraryInv
<1>3. LibraryInv'
  BY <1>1, <1>2, RowStepsKeep
<1>4. ASSUME NEW g \in Files, Expired(g) PROVE Expired(g)'
  <2>1. g # f /\ g \in DOMAIN files
    BY <1>1, <1>4 DEF Expired, IsLive
  <2> QED
    BY <1>1, <1>2, <1>4, <2>1, LaterIsGone DEF LibraryInv
<1> QED
  BY <1>3, <1>4 DEF Gone

LEMMA RestoreKeeps ==
  ASSUME LibraryInv, NEW f \in Files, RestoreFile(f)
  PROVE  LibraryInv' /\ Gone
<1>1. /\ f \in DOMAIN files /\ InTrash(files, now, f)
      /\ files' = [files EXCEPT ![f] = [files[f] EXCEPT !["deleted_at"] = Never]]
      /\ now' = now /\ now \in Nat /\ UNCHANGED <<blobs, upload, job>> /\ Never \in Nat
  BY DEF RestoreFile, InTrash, LibraryInv, Library, Never
<1>2. /\ DOMAIN files' = DOMAIN files /\ files' \in [DOMAIN files -> File]
      /\ \A g \in DOMAIN files: g # f => files'[g] = files[g]
  BY <1>1, RowStays DEF LibraryInv
<1>3. LibraryInv'
  BY <1>1, <1>2, RowStepsKeep
<1>4. ASSUME NEW g \in Files, Expired(g) PROVE Expired(g)'
  <2>1. g # f /\ g \in DOMAIN files
    BY <1>1, <1>4 DEF Expired
  <2> QED
    BY <1>1, <1>2, <1>4, <2>1, LaterIsGone DEF LibraryInv
<1> QED
  BY <1>3, <1>4 DEF Gone

LEMMA RenameKeeps ==
  ASSUME LibraryInv, NEW f \in Files, NEW name \in Names, RenameFile(f, name)
  PROVE  LibraryInv' /\ Gone
<1>1. /\ f \in DOMAIN files /\ IsLive(files, f)
      /\ files' = [files EXCEPT ![f] = [files[f] EXCEPT !["name"] = name]]
      /\ now' = now /\ now \in Nat /\ UNCHANGED <<blobs, upload, job>>
  BY DEF RenameFile, IsLive, LibraryInv, Library
<1>2. /\ DOMAIN files' = DOMAIN files /\ files' \in [DOMAIN files -> File]
      /\ \A g \in DOMAIN files: g # f => files'[g] = files[g]
  BY <1>1, RowStays DEF LibraryInv
<1>3. LibraryInv'
  BY <1>1, <1>2, RowStepsKeep
<1>4. ASSUME NEW g \in Files, Expired(g) PROVE Expired(g)'
  <2>1. g # f /\ g \in DOMAIN files
    BY <1>1, <1>4 DEF Expired
  <2> QED
    BY <1>1, <1>2, <1>4, <2>1, LaterIsGone DEF LibraryInv
<1> QED
  BY <1>3, <1>4 DEF Gone

\* Steps that touch neither rows nor chunks nor downloads.
LEMMA OtherKeeps ==
  ASSUME LibraryInv, UNCHANGED <<files, blobs, upload, job>>, now' \in Nat, now' >= now
  PROVE  LibraryInv' /\ Gone
<1>1. LibraryInv'
  BY RowStepsKeep DEF LibraryInv, Library
<1>2. Gone
  BY LaterIsGone DEF Gone, Expired, LibraryInv
<1> QED
  BY <1>1, <1>2

-----------------------------------------------------------------------------
(* Uploads. *)

\* f's sending client moves; the row it may add is that of Complete.
LEMMA UploadMoves ==
  ASSUME LibraryInv, NEW f \in Files, f \notin Range(Old),
         NEW u, upload' = [upload EXCEPT ![f] = u],
         NEW tries, u \in [pc: {"sending", "error", "done"}, sent: SUBSET Indices(f), tries: {tries}],
         blobs' \in {blobs} \cup {Storing(f, i): i \in Indices(f)}, u.sent \subseteq DOMAIN blobs'[f],
         upload[f].pc \in {"done", "error"} => u.pc \in {"done", "error"},
         files' = files \/ (files' = Put(files, f, [name |-> AName, created_at |-> now, deleted_at |-> Never])
                           /\ u.pc \in {"done", "error"}),
         u.pc = "done" => f \in DOMAIN files' /\ u.sent = Indices(f),
         now' \in Nat, job' = job
  PROVE  LibraryInv'
<1>1. /\ DOMAIN upload' = Files /\ upload'[f] = u /\ \A g \in Files \ {f}: upload'[g] = upload[g]
  BY DEF LibraryInv, Storage
<1>2. /\ DOMAIN blobs' = Files /\ \A g \in Files \ {f}: blobs'[g] = blobs[g]
      /\ DOMAIN blobs'[f] \subseteq Indices(f)
      /\ blobs'[f] = [i \in DOMAIN blobs'[f] |-> EncryptChunk(f, i)]
  <2>1. CASE blobs' = blobs
    BY <2>1 DEF LibraryInv, Storage
  <2>2. ASSUME NEW i \in Indices(f), blobs' = Storing(f, i)
        PROVE  /\ DOMAIN blobs' = Files /\ \A g \in Files \ {f}: blobs'[g] = blobs[g]
               /\ DOMAIN blobs'[f] = DOMAIN blobs[f] \cup {i}
               /\ blobs'[f] = [j \in DOMAIN blobs'[f] |-> EncryptChunk(f, j)]
    BY <2>2, StoringKeeps DEF LibraryInv
  <2>3. DOMAIN blobs[f] \subseteq Indices(f)
    BY DEF LibraryInv, Storage
  <2> QED
    BY <2>1, <2>2, <2>3
<1>3. /\ DOMAIN files' \subseteq Files /\ files' \in [DOMAIN files' -> File]
      /\ DOMAIN files \subseteq DOMAIN files'
      /\ \A g \in DOMAIN files': g \in DOMAIN files \/ (g = f /\ u.pc \in {"done", "error"})
  <2>1. CASE files' = files
    BY <2>1 DEF LibraryInv, Library
  <2>2. CASE files' = Put(files, f, [name |-> AName, created_at |-> now, deleted_at |-> Never])
             /\ u.pc \in {"done", "error"}
    <3>1. [name |-> AName, created_at |-> now, deleted_at |-> Never] \in File
      BY NameIsName DEF File, Never, LibraryInv, Library
    <3> QED
      BY <2>2, <3>1 DEF Put, LibraryInv, Library
  <2> QED
    BY <2>1, <2>2
<1>4. Library'
  <2>1. ASSUME NEW g \in Files, g \in DOMAIN files'
        PROVE  g \in Range(Old) \/ upload'[g].pc \in {"done", "error"}
    BY <1>1, <1>3, <2>1 DEF LibraryInv, Library
  <2> QED
    BY <1>3, <2>1 DEF Library
<1>5. Storage'
  <2>1. ASSUME NEW g \in Files \ {f}
        PROVE  /\ Sending(g)'
               /\ DOMAIN blobs'[g] \subseteq Indices(g)
               /\ blobs'[g] = [i \in DOMAIN blobs'[g] |-> EncryptChunk(g, i)]
               /\ upload'[g].sent \subseteq DOMAIN blobs'[g]
               /\ g \in Range(Old) => upload'[g].pc = "no"
               /\ upload'[g].pc = "done" => g \in DOMAIN files' /\ upload'[g].sent = Indices(g)
    BY <1>1, <1>2, <1>3 DEF LibraryInv, Storage, Sending
  <2>2. Sending(f)'
    BY <1>1 DEF Sending
  <2> QED
    BY <1>1, <1>2, <2>1, <2>2 DEF Storage
<1>6. Downloads'
  BY DEF LibraryInv, Downloads, Started
<1> QED
  BY <1>4, <1>5, <1>6 DEF LibraryInv

\* No client sends a file that is in the table.
LEMMA SenderHasNoRow ==
  ASSUME LibraryInv, NEW f \in Files, upload[f].pc = "sending"
  PROVE  f \notin DOMAIN files /\ f \notin Range(Old)
BY DEF LibraryInv, Library, Storage

LEMMA SameRowsGone ==
  ASSUME LibraryInv, files' = files, now' = now
  PROVE  Gone
BY DEF Gone, Expired, IsLive, InTrash

LEMMA PrepareKeeps ==
  ASSUME LibraryInv, NEW f \in Files, Prepare(f)
  PROVE  LibraryInv' /\ Gone
<1> DEFINE tries == [i \in Indices(f) |-> 0]
           u == [pc |-> "sending", sent |-> {}, tries |-> tries]
<1>1. /\ f \notin Range(Old) /\ upload[f].pc = "no" /\ upload' = [upload EXCEPT ![f] = u]
      /\ files' = files /\ blobs' = blobs /\ job' = job /\ now' = now /\ now \in Nat
  BY DEF Prepare, LibraryInv, Library
<1> HIDE DEF tries
<1>2. u \in [pc: {"sending", "error", "done"}, sent: SUBSET Indices(f), tries: {tries}]
      /\ u.sent = {} /\ u.pc = "sending"
  OBVIOUS
<1> HIDE DEF u
<1> QED
  BY <1>1, <1>2, UploadMoves, SameRowsGone

LEMMA PutChunkKeeps ==
  ASSUME LibraryInv, NEW f \in Files, NEW i \in Indices(f), PutChunk(f, i)
  PROVE  LibraryInv' /\ Gone
<1>1. /\ upload[f].pc \in {"sending", "error"} /\ blobs' \in {blobs, Storing(f, i)}
      /\ files' = files /\ job' = job /\ now' = now /\ now \in Nat
  BY DEF PutChunk, LibraryInv, Library
<1>2. PICK tries: upload[f] \in [pc: {"no", "sending", "error", "done"},
                                sent: SUBSET Indices(f), tries: {tries}]
  BY DEF LibraryInv, Storage, Sending
<1>3. f \notin Range(Old) /\ upload[f].sent \subseteq DOMAIN blobs[f] /\ DOMAIN upload = Files
  BY <1>1 DEF LibraryInv, Storage
<1>4. DOMAIN blobs[f] \subseteq DOMAIN blobs'[f] /\ (blobs' = Storing(f, i) => i \in DOMAIN blobs'[f])
  <2>1. ASSUME blobs' = Storing(f, i) PROVE DOMAIN blobs'[f] = DOMAIN blobs[f] \cup {i}
    BY <2>1, StoringKeeps DEF LibraryInv
  <2> QED
    BY <1>1, <2>1
<1>5. PICK u, more: /\ upload' = [upload EXCEPT ![f] = u]
                    /\ u \in [pc: {"sending", "error"}, sent: SUBSET Indices(f), tries: {more}]
                    /\ u.sent \subseteq DOMAIN blobs'[f]
                    /\ upload[f].pc = "error" => u.pc = "error"
  <2>1. CASE blobs' = Storing(f, i) /\ upload' = [upload EXCEPT ![f].sent = @ \cup {i}]
    <3> DEFINE v == [upload[f] EXCEPT !.sent = @ \cup {i}]
    <3>1. /\ v \in [pc: {"sending", "error"}, sent: SUBSET Indices(f), tries: {tries}]
          /\ v.sent = upload[f].sent \cup {i} /\ v.pc = upload[f].pc
      BY <1>1, <1>2
    <3>2. upload' = [upload EXCEPT ![f] = v]
      BY <2>1
    <3> HIDE DEF v
    <3>3. v.sent \subseteq DOMAIN blobs'[f]
      BY <1>3, <1>4, <2>1, <3>1
    <3> QED
      BY <3>1, <3>2, <3>3
  <2>2. CASE upload' = [upload EXCEPT ![f].tries[i] = @ + 1,
                                     ![f].pc = IF upload[f].tries[i] + 1 = TRIES THEN "error" ELSE @]
    <3> DEFINE more == [tries EXCEPT ![i] = @ + 1]
               v == [upload[f] EXCEPT !.tries = more]
               pc == IF upload[f].tries[i] + 1 = TRIES THEN "error" ELSE v.pc
               w == [v EXCEPT !.pc = pc]
    <3>1. upload[f].tries = tries
      BY <1>2
    <3>2. upload' = [upload EXCEPT ![f] = w]
      BY <1>3, <2>2, <3>1
    <3> HIDE DEF more
    <3>3. /\ v \in [pc: {"sending", "error"}, sent: SUBSET Indices(f), tries: {more}]
          /\ v.sent = upload[f].sent /\ v.pc = upload[f].pc
      BY <1>1, <1>2
    <3> HIDE DEF v
    <3>4. /\ w \in [pc: {"sending", "error"}, sent: SUBSET Indices(f), tries: {more}]
          /\ w.sent = upload[f].sent /\ (upload[f].pc = "error" => w.pc = "error")
      BY <3>3
    <3> HIDE DEF w
    <3> QED
      BY <1>3, <1>4, <3>2, <3>4
  <2> QED
    BY <2>1, <2>2 DEF PutChunk
<1>6. LibraryInv'
  <2>1. u \in [pc: {"sending", "error", "done"}, sent: SUBSET Indices(f), tries: {more}]
        /\ u.pc # "done"
    BY <1>5
  <2> QED
    BY <1>1, <1>3, <1>5, <2>1, UploadMoves
<1> QED
  BY <1>1, <1>6, SameRowsGone

\* /complete does its work.
Completes(f, pc) ==
  /\ upload[f].pc = "sending" /\ upload[f].sent = Indices(f)
  /\ files' = Put(files, f, [name |-> AName, created_at |-> now, deleted_at |-> Never])
  /\ upload' = [upload EXCEPT ![f] = [upload[f] EXCEPT !.pc = pc]]
  /\ now' = now + 1 /\ blobs' = blobs /\ job' = job /\ walk' = Noted

\* /complete is refused, or does not arrive.
NotCompleted(f) ==
  /\ upload[f].pc = "sending"
  /\ upload' = [upload EXCEPT ![f] = [upload[f] EXCEPT !.pc = "error"]]
  /\ UNCHANGED <<now, files, blobs, job, walk>>

LEMMA CompleteIs ==
  ASSUME LibraryInv, NEW f \in Files, Complete(f)
  PROVE  NotCompleted(f) \/ \E pc \in {"done", "error"}: Completes(f, pc)
BY DEF Complete, Stamp, AName, NotCompleted, Completes

LEMMA NotCompletedKeeps ==
  ASSUME LibraryInv, NEW f \in Files, NotCompleted(f)
  PROVE  LibraryInv' /\ Gone
<1> DEFINE u == [upload[f] EXCEPT !.pc = "error"]
<1>1. PICK tries: upload[f] \in [pc: {"no", "sending", "error", "done"},
                                sent: SUBSET Indices(f), tries: {tries}]
  BY DEF LibraryInv, Storage, Sending
<1>2. /\ u \in [pc: {"sending", "error", "done"}, sent: SUBSET Indices(f), tries: {tries}]
      /\ u.pc = "error" /\ u.sent = upload[f].sent
  BY <1>1
<1>3. upload' = [upload EXCEPT ![f] = u] /\ UNCHANGED <<now, files, blobs, job>> /\ upload[f].pc = "sending"
  BY DEF NotCompleted
<1> HIDE DEF u
<1>4. f \notin Range(Old) /\ now \in Nat /\ upload[f].sent \subseteq DOMAIN blobs[f]
  BY <1>3, SenderHasNoRow DEF LibraryInv, Library, Storage
<1>5. /\ blobs' \in {blobs} \cup {Storing(f, i): i \in Indices(f)} /\ u.sent \subseteq DOMAIN blobs'[f]
      /\ now' \in Nat /\ u.pc # "done" /\ upload[f].pc \notin {"done", "error"}
  BY <1>2, <1>3, <1>4
<1>6. LibraryInv'
  BY <1>2, <1>3, <1>4, <1>5, UploadMoves
<1> QED
  BY <1>3, <1>6, SameRowsGone

LEMMA CompleteKeeps ==
  ASSUME LibraryInv, NEW f \in Files, Complete(f)
  PROVE  LibraryInv' /\ Gone
<1>0. CASE NotCompleted(f)
  BY <1>0, NotCompletedKeeps
<1> SUFFICES ASSUME NEW pc \in {"done", "error"}, Completes(f, pc) PROVE LibraryInv' /\ Gone
  BY <1>0, CompleteIs
<1>1. /\ upload[f].pc = "sending" /\ upload[f].sent = Indices(f)
      /\ files' = Put(files, f, [name |-> AName, created_at |-> now, deleted_at |-> Never])
      /\ upload' = [upload EXCEPT ![f] = [upload[f] EXCEPT !.pc = pc]]
      /\ now' = now + 1 /\ now \in Nat /\ blobs' = blobs /\ job' = job
  BY DEF Completes, LibraryInv, Library
<1>2. f \notin DOMAIN files /\ f \notin Range(Old)
  BY <1>1, SenderHasNoRow
<1> DEFINE u == [upload[f] EXCEPT !.pc = pc]
<1>3. PICK tries: upload[f] \in [pc: {"no", "sending", "error", "done"},
                                sent: SUBSET Indices(f), tries: {tries}]
  BY DEF LibraryInv, Storage, Sending
<1>4. /\ u \in [pc: {"sending", "error", "done"}, sent: SUBSET Indices(f), tries: {tries}]
      /\ u.pc = pc /\ u.sent = Indices(f)
  BY <1>1, <1>3
<1>5. u.sent \subseteq DOMAIN blobs[f]
  BY <1>1, <1>4 DEF LibraryInv, Storage
<1>6. /\ DOMAIN files' = DOMAIN files \cup {f}
      /\ \A g \in DOMAIN files: files'[g] = files[g]
  BY <1>1, <1>2 DEF Put
<1> HIDE DEF u
<1>7. LibraryInv'
  <2>1. upload' = [upload EXCEPT ![f] = u]
    BY <1>1 DEF u
  <2>2. u.sent \subseteq DOMAIN blobs'[f] /\ now' \in Nat /\ upload[f].pc = "sending"
    BY <1>1, <1>5
  <2>3. u.pc = "done" => f \in DOMAIN files' /\ u.sent = Indices(f)
    BY <1>4, <1>6
  <2>4. u.pc \in {"done", "error"}
    BY <1>4
  <2> QED
    BY <1>1, <1>2, <1>4, <2>1, <2>2, <2>3, <2>4, UploadMoves
<1>8. ASSUME NEW g \in Files, Expired(g) PROVE Expired(g)'
  <2>1. g \in DOMAIN files
    BY <1>8 DEF Expired
  <2> QED
    BY <1>1, <1>6, <1>8, <2>1, LaterIsGone DEF LibraryInv
<1> QED
  BY <1>7, <1>8 DEF Gone

-----------------------------------------------------------------------------
(* Downloads. *)

LEMMA DownloadMoves ==
  ASSUME LibraryInv, NEW c \in Clients, NEW j, job' = [job EXCEPT ![c] = j],
         \/ j = NoJob
         \/ /\ j \in [pc: {"loading", "saved"}, file: Files, got: Seq(Ciphertext)]
            /\ \A k \in DOMAIN j.got: InPlace(j.file, k - 1, j.got[k])
            /\ j.pc = "saved" => Len(j.got) = Chunks[j.file],
         UNCHANGED <<now, files, blobs, upload>>
  PROVE  LibraryInv' /\ Gone
<1>1. DOMAIN job' = Clients /\ job'[c] = j /\ \A d \in Clients \ {c}: job'[d] = job[d]
  BY DEF LibraryInv, Downloads
<1>2. Downloads'
  <2>1. ASSUME NEW d \in Clients \ {c}
        PROVE  \/ job'[d] = NoJob
               \/ /\ Started(d)'
                  /\ \A k \in DOMAIN job'[d].got: InPlace(job'[d].file, k - 1, job'[d].got[k])
                  /\ job'[d].pc = "saved" => Len(job'[d].got) = Chunks[job'[d].file]
    BY <1>1 DEF LibraryInv, Downloads, Started
  <2> QED
    BY <1>1, <2>1 DEF Downloads, Started
<1>3. Library' /\ Storage'
  BY DEF LibraryInv, Library, Storage, Sending
<1> QED
  BY <1>2, <1>3, SameRowsGone DEF LibraryInv

LEMMA GetFileMetaKeeps ==
  ASSUME LibraryInv, NEW c \in Clients, NEW f \in Files, GetFileMeta(c, f)
  PROVE  LibraryInv' /\ Gone
<1> DEFINE j == [pc |-> "loading", file |-> f, got |-> << >>]
<1>1. /\ j \in [pc: {"loading", "saved"}, file: Files, got: Seq(Ciphertext)]
      /\ DOMAIN j.got = {} /\ j.pc = "loading"
  OBVIOUS
<1>2. job' = [job EXCEPT ![c] = j] /\ UNCHANGED <<now, files, blobs, upload>>
  BY DEF GetFileMeta
<1> HIDE DEF j
<1> QED
  BY <1>1, <1>2, DownloadMoves

\* Only a chunk of that file decrypts, and unaltered only that of the place.
LEMMA WhatDecrypts ==
  ASSUME NEW f \in Files, NEW i \in Indices(f), NEW g \in Files, NEW n \in Indices(g),
         NEW index \in Indices(f), NEW chunk, chunk = [EncryptChunk(g, n) EXCEPT !.index = index],
         Decrypts(f, i, chunk)
  PROVE  chunk \in Ciphertext /\ InPlace(f, i, chunk)
<1>0. index \in Nat /\ n \in Nat
  BY DEF Indices
<1>1. /\ chunk = [index |-> index, nonce |-> n, sealed |-> [key |-> g, nonce |-> n, part |-> <<g, n>>]]
      /\ chunk.index = index /\ chunk.nonce = n /\ chunk.sealed = [key |-> g, nonce |-> n, part |-> <<g, n>>]
      /\ index \in Nat /\ n \in Nat
  BY <1>0 DEF EncryptChunk
<1>2. g = f /\ index = i
  BY <1>1 DEF Decrypts, Opens
<1>3. chunk \in Ciphertext
  <2>1. [index |-> index, nonce |-> n, sealed |-> [key |-> g, nonce |-> n, part |-> <<g, n>>]]
           \in Ciphertext
    BY <1>0, ObjectIsCiphertext
  <2> QED
    BY <1>1, <2>1, Zenon
<1>4. ASSUME NEW h \in Files, NEW m \in Indices(h), chunk = EncryptChunk(h, m)
      PROVE  chunk.sealed.part = <<f, i>>
  <2>1. chunk.index = m /\ chunk.nonce = m
    BY <1>4 DEF EncryptChunk
  <2> QED
    BY <1>1, <1>2, <2>1
<1> QED
  BY <1>1, <1>2, <1>3, <1>4 DEF InPlace

LEMMA DownloadChunkKeeps ==
  ASSUME LibraryInv, NEW c \in Clients, DownloadChunk(c)
  PROVE  LibraryInv' /\ Gone
<1> DEFINE f == job[c].file
           i == Len(job[c].got)
<1>1. job[c].pc = "loading" /\ i < Chunks[f] /\ UNCHANGED <<now, files, blobs, upload>>
  BY DEF DownloadChunk
<1>2. /\ job[c] \in [pc: {"loading", "saved"}, file: Files, got: Seq(Ciphertext)]
      /\ \A k \in DOMAIN job[c].got: InPlace(job[c].file, k - 1, job[c].got[k])
  BY <1>1 DEF LibraryInv, Downloads, Started, NoJob
<1>3. CASE job' = [job EXCEPT ![c] = NoJob]
  BY <1>1, <1>3, DownloadMoves
<1>4. ASSUME NEW at \in Stored, NEW index \in Indices(f), NEW chunk,
             chunk = [blobs[at[1]][at[2]] EXCEPT !.index = index],
             Decrypts(f, i, chunk), job' = [job EXCEPT ![c].got = Append(@, chunk)]
      PROVE  LibraryInv' /\ Gone
  <2> DEFINE j == [job[c] EXCEPT !.got = Append(job[c].got, chunk)]
  <2>0. PICK g \in Files: \E n \in DOMAIN blobs[g]: at = <<g, n>>
    BY <1>4 DEF Stored
  <2>1. PICK n \in DOMAIN blobs[g]: at = <<g, n>>
    BY <2>0
  <2>2. blobs[at[1]][at[2]] = EncryptChunk(g, n) /\ n \in Indices(g)
    BY <2>1 DEF LibraryInv, Storage
  <2>3. chunk \in Ciphertext /\ InPlace(f, i, chunk)
    <3>1. f \in Files /\ i \in Nat
      BY <1>2
    <3>2. i \in Indices(f)
      BY <1>1, <3>1, ChunksOfFile DEF Indices
    <3>3. chunk = [EncryptChunk(g, n) EXCEPT !.index = index]
      BY <1>4, <2>2
    <3> HIDE DEF f, i
    <3> QED
      BY <1>4, <2>2, <3>1, <3>2, <3>3, WhatDecrypts
  <2>4. /\ j \in [pc: {"loading", "saved"}, file: Files, got: Seq(Ciphertext)]
        /\ j.pc = "loading" /\ j.file = f /\ j.got = Append(job[c].got, chunk)
    <3>1. Append(job[c].got, chunk) \in Seq(Ciphertext)
      BY <1>2, <2>3
    <3> DEFINE longer == Append(job[c].got, chunk)
    <3>2. longer \in Seq(Ciphertext)
      BY <3>1
    <3> HIDE DEF longer
    <3>3. j = [job[c] EXCEPT !.got = longer]
      BY DEF longer
    <3> HIDE DEF j
    <3>4. /\ j \in [pc: {"loading", "saved"}, file: Files, got: Seq(Ciphertext)]
          /\ j.pc = job[c].pc /\ j.file = job[c].file /\ j.got = longer
      BY <1>2, <3>2, <3>3
    <3> QED
      BY <1>1, <3>4 DEF longer
  <2>5. \A k \in DOMAIN j.got: InPlace(j.file, k - 1, j.got[k])
    <3> DEFINE was == job[c].got
    <3>1. was \in Seq(Ciphertext) /\ Len(was) \in Nat /\ DOMAIN was = 1..Len(was)
      BY <1>2
    <3>2. /\ DOMAIN Append(was, chunk) = 1..(Len(was) + 1)
          /\ \A k \in 1..Len(was): Append(was, chunk)[k] = was[k]
          /\ Append(was, chunk)[Len(was) + 1] = chunk
      BY <2>3, <3>1
    <3>3. Len(was) + 1 - 1 = i
      BY <3>1
    <3>4. \A k \in 1..(Len(was) + 1): k \in 1..Len(was) \/ k = Len(was) + 1
      BY <3>1
    <3>5. \A k \in DOMAIN was: InPlace(f, k - 1, was[k])
      BY <1>2
    <3> HIDE DEF was, f, i, j
    <3> QED
      BY <2>3, <2>4, <3>1, <3>2, <3>3, <3>4, <3>5 DEF was
  <2>6. job' = [job EXCEPT ![c] = j]
    BY <1>4
  <2> HIDE DEF j
  <2> QED
    BY <1>1, <2>4, <2>5, <2>6, DownloadMoves
<1>5. \/ \E at \in Stored, index \in Indices(f): \E chunk \in {[blobs[at[1]][at[2]] EXCEPT !.index = index]}:
           Decrypts(f, i, chunk) /\ job' = [job EXCEPT ![c].got = Append(@, chunk)]
      \/ job' = [job EXCEPT ![c] = NoJob]
  BY DEF DownloadChunk
<1> HIDE DEF f, i
<1> QED
  BY <1>3, <1>4, <1>5

LEMMA SaveKeeps ==
  ASSUME LibraryInv, NEW c \in Clients, Save(c)
  PROVE  LibraryInv' /\ Gone
<1> DEFINE j == [job[c] EXCEPT !.pc = "saved"]
<1>1. /\ job[c].pc = "loading" /\ Len(job[c].got) = Chunks[job[c].file]
      /\ job' = [job EXCEPT ![c] = j] /\ UNCHANGED <<now, files, blobs, upload>>
  BY DEF Save
<1>2. /\ job[c] \in [pc: {"loading", "saved"}, file: Files, got: Seq(Ciphertext)]
      /\ \A k \in DOMAIN job[c].got: InPlace(job[c].file, k - 1, job[c].got[k])
  BY <1>1 DEF LibraryInv, Downloads, Started, NoJob
<1>3. /\ j \in [pc: {"loading", "saved"}, file: Files, got: Seq(Ciphertext)]
      /\ j.got = job[c].got /\ j.file = job[c].file
  BY <1>2
<1> HIDE DEF j
<1> QED
  BY <1>1, <1>2, <1>3, DownloadMoves

-----------------------------------------------------------------------------
LEMMA LibraryInit == Init => LibraryInv
<1> SUFFICES ASSUME Init PROVE LibraryInv
  OBVIOUS
<1>1. Old \in Seq(Files) /\ Len(Old) \in Nat /\ DOMAIN Old = 1..Len(Old) /\ Range(Old) \subseteq Files
  BY LibraryAssumption DEF Range
<1>2. \A f \in Range(Old): (CHOOSE k \in DOMAIN Old: Old[k] = f) \in Nat
  <2> SUFFICES ASSUME NEW f \in Range(Old) PROVE (CHOOSE k \in DOMAIN Old: Old[k] = f) \in Nat
    OBVIOUS
  <2>1. \E k \in DOMAIN Old: Old[k] = f
    BY DEF Range
  <2>2. (CHOOSE k \in DOMAIN Old: Old[k] = f) \in DOMAIN Old
    BY <2>1
  <2> QED
    BY <1>1, <2>2
<1>3. /\ DOMAIN files = Range(Old)
      /\ \A f \in Range(Old): files[f] = [name |-> AName,
                created_at |-> CHOOSE k \in DOMAIN Old: Old[k] = f, deleted_at |-> Never]
      /\ files = [f \in DOMAIN files |-> files[f]]
  BY DEF Init, AName
<1>4. \A f \in DOMAIN files: files[f] \in File
  BY <1>2, <1>3, NameIsName DEF File, Never
<1>5. files \in [DOMAIN files -> File]
  BY <1>3, <1>4
<1>6. Library
  BY <1>1, <1>3, <1>5 DEF Library, Init
<1>7. \A f \in Files: upload[f] = NotSending
  BY DEF Init
<1>8. \A f \in Files: /\ Sending(f) /\ upload[f].pc = "no" /\ upload[f].sent = {}
  BY <1>7 DEF Sending, NotSending
<1>9. \A f \in Files: /\ DOMAIN blobs[f] \subseteq Indices(f)
                      /\ blobs[f] = [i \in DOMAIN blobs[f] |-> EncryptChunk(f, i)]
  <2> SUFFICES ASSUME NEW f \in Files
               PROVE  /\ DOMAIN blobs[f] \subseteq Indices(f)
                      /\ blobs[f] = [i \in DOMAIN blobs[f] |-> EncryptChunk(f, i)]
    OBVIOUS
  <2>1. CASE f \in Range(Old)
    <3>1. blobs[f] = [i \in Indices(f) |-> EncryptChunk(f, i)]
      BY <2>1 DEF Init
    <3> QED
      BY <3>1
  <2>2. CASE f \notin Range(Old)
    <3>1. blobs[f] = << >> /\ DOMAIN blobs[f] = {}
      BY <2>2 DEF Init
    <3> QED
      BY <3>1
  <2> QED
    BY <2>1, <2>2
<1>10. Storage
  BY <1>8, <1>9 DEF Storage, Init
<1>11. Downloads
  BY DEF Downloads, Init
<1> QED
  BY <1>6, <1>10, <1>11 DEF LibraryInv

LEMMA LibraryStep == LibraryInv /\ [Next]_vars => LibraryInv' /\ Gone
<1> SUFFICES ASSUME LibraryInv, [Next]_vars PROVE LibraryInv' /\ Gone
  OBVIOUS
<1>1. now \in Nat
  BY DEF LibraryInv, Library
<1>2. CASE UNCHANGED vars \/ Elapse \/ ListPage \/ \E list \in {"files", "trash"}: Open(list)
  BY <1>1, <1>2, OtherKeeps DEF vars, Elapse, Stamp, ListPage, Open
<1>3. ASSUME NEW f \in Files,
             \/ DeleteFile(f) \/ RestoreFile(f) \/ Prepare(f) \/ Complete(f)
             \/ \E name \in Names: RenameFile(f, name)
             \/ \E i \in Indices(f): PutChunk(f, i)
             \/ \E c \in Clients: GetFileMeta(c, f)
      PROVE  LibraryInv' /\ Gone
  BY <1>3, DeleteKeeps, RestoreKeeps, RenameKeeps, PrepareKeeps, CompleteKeeps, PutChunkKeeps,
     GetFileMetaKeeps
<1>4. ASSUME NEW c \in Clients, DownloadChunk(c) \/ Save(c) PROVE LibraryInv' /\ Gone
  BY <1>4, DownloadChunkKeeps, SaveKeeps
<1> QED
  BY <1>2, <1>3, <1>4 DEF Next

LEMMA LibraryInvariant == Spec => []LibraryInv
BY LibraryInit, LibraryStep, PTL DEF Spec

\* What the trash no longer shows can neither be restored nor stamped again by
\* another delete or /complete (delete_file and restore_file, files.rs:482, 518).
THEOREM WhatIsGoneStaysGone == Spec => GoneIsGone
<1>1. LibraryInv /\ [Next]_vars => [Gone]_vars
  BY LibraryStep
<1> QED
  BY <1>1, LibraryInvariant, PTL DEF Spec, GoneIsGone, Gone

\* When the client of an upload says done, the row and every chunk are there
\* (uploadFile, UploadModal.tsx:96).
THEOREM DoneIsWhole == Spec => []DoneMeansWhole
<1>1. LibraryInv => DoneMeansWhole
  <2> SUFFICES ASSUME LibraryInv, NEW f \in Files, upload[f].pc = "done"
               PROVE  f \in DOMAIN files /\ blobs[f] = [i \in Indices(f) |-> EncryptChunk(f, i)]
    BY DEF DoneMeansWhole
  <2>1. DOMAIN blobs[f] = Indices(f) /\ f \in DOMAIN files
    BY DEF LibraryInv, Storage
  <2> QED
    BY <2>1 DEF LibraryInv, Storage
<1> QED
  BY <1>1, LibraryInvariant, PTL

\* A saved download has as many chunks as the file, all of them parts of it, and
\* those that came as they were uploaded in their place, whatever object the
\* storage answered with (decrypt_chunk, encryption.rs:156).
THEOREM EveryDownloadIsTheFile == Spec => []DownloadIsTheFile
<1>1. LibraryInv => DownloadIsTheFile
  <2> SUFFICES ASSUME LibraryInv, NEW c \in Clients, job[c].pc = "saved"
               PROVE  /\ Len(job[c].got) = Chunks[job[c].file]
                      /\ \A k \in DOMAIN job[c].got: InPlace(job[c].file, k - 1, job[c].got[k])
    BY DEF DownloadIsTheFile
  <2>1. job[c] # NoJob
    BY DEF NoJob
  <2> QED
    BY <2>1 DEF LibraryInv, Downloads
<1> QED
  BY <1>1, LibraryInvariant, PTL

-----------------------------------------------------------------------------
(* Lists ordered by distinct numbers. *)

\* What orders a list: no two rows have one stamp.
IsStamping(s) == IsFiniteSet(DOMAIN s) /\ s \in [DOMAIN s -> Nat] /\ IsInjective(s)

\* All of s, newest first.
Orders(rows, s) ==
  /\ rows \in Bijection(1..Cardinality(DOMAIN s), DOMAIN s)
  /\ \A i, j \in DOMAIN rows: i < j => s[rows[i]] > s[rows[j]]

\* The rows that are at least as new as f.
NotOlder(s, f) == {g \in DOMAIN s: s[g] >= s[f]}

LEMMA NotOlderCounts ==
  ASSUME NEW s, IsStamping(s), NEW f \in DOMAIN s
  PROVE  /\ Cardinality(NotOlder(s, f)) \in 1..Cardinality(DOMAIN s)
         /\ \A g \in DOMAIN s: s[f] > s[g] => Cardinality(NotOlder(s, f)) < Cardinality(NotOlder(s, g))
<1>1. NotOlder(s, f) \subseteq DOMAIN s /\ f \in NotOlder(s, f) /\ IsFiniteSet(DOMAIN s)
  BY DEF NotOlder, IsStamping
<1>2. \A g \in DOMAIN s: /\ IsFiniteSet(NotOlder(s, g)) /\ Cardinality(NotOlder(s, g)) \in Nat
                         /\ Cardinality(NotOlder(s, g)) <= Cardinality(DOMAIN s)
  <2>1. \A g \in DOMAIN s: NotOlder(s, g) \subseteq DOMAIN s
    BY DEF NotOlder
  <2> QED
    BY <1>1, <2>1, FS_Subset, FS_CardinalityType
<1>3. Cardinality(NotOlder(s, f)) # 0
  BY <1>1, <1>2, FS_EmptySet
<1>4. Cardinality(DOMAIN s) \in Nat
  BY <1>1, FS_CardinalityType
<1>5. ASSUME NEW g \in DOMAIN s, s[f] > s[g]
      PROVE  Cardinality(NotOlder(s, f)) < Cardinality(NotOlder(s, g))
  <2>1. NotOlder(s, f) \subseteq NotOlder(s, g) /\ g \in NotOlder(s, g) /\ g \notin NotOlder(s, f)
    BY <1>5 DEF NotOlder, IsStamping
  <2>2. /\ Cardinality(NotOlder(s, f)) <= Cardinality(NotOlder(s, g))
        /\ Cardinality(NotOlder(s, g)) # Cardinality(NotOlder(s, f))
    BY <1>2, <2>1, FS_Subset
  <2> QED
    BY <1>2, <2>2
<1> QED
  BY <1>2, <1>3, <1>4, <1>5

\* There is such a list, so NewestFirst is one.
LEMMA NewestFirstOrders ==
  ASSUME NEW s, IsStamping(s)
  PROVE  Orders(NewestFirst(s), s)
<1> DEFINE D == DOMAIN s
           N == Cardinality(D)
           place == [f \in D |-> Cardinality(NotOlder(s, f))]
           Descends(rows) == \A i, j \in DOMAIN rows: i < j => s[rows[i]] > s[rows[j]]
<1>1. IsFiniteSet(D) /\ N \in Nat /\ IsFiniteSet(1..N) /\ Cardinality(1..N) = N
      /\ \A f \in D: s[f] \in Nat
  <2>1. IsFiniteSet(D) /\ N \in Nat
    BY FS_CardinalityType DEF IsStamping
  <2>2. IsFiniteSet(1..N) /\ Cardinality(1..N) = IF 1 > N THEN 0 ELSE N - 1 + 1
    BY <2>1, FS_Interval
  <2> QED
    BY <2>1, <2>2 DEF IsStamping
<1>2. \E rows \in [1..N -> D]: Descends(rows)
  <2>1. place \in Injection(D, 1..N)
    <3>1. place \in [D -> 1..N]
      BY NotOlderCounts
    <3>2. ASSUME NEW f \in D, NEW g \in D, place[f] = place[g] PROVE f = g
      <4>1. place[f] \in Nat /\ place[g] \in Nat
        BY <3>1
      <4>2. ~(s[f] > s[g]) /\ ~(s[g] > s[f])
        BY <3>2, <4>1, NotOlderCounts
      <4>3. s[f] = s[g]
        BY <1>1, <4>2
      <4> QED
        BY <4>3 DEF IsStamping, IsInjective
    <3> HIDE DEF place, N
    <3> QED
      BY <3>1, <3>2 DEF Injection, IsInjective
  <2>2. place \in Surjection(D, 1..N)
    <3> HIDE DEF place
    <3> QED
      BY <1>1, <2>1, FS_Injection
  <2>3. \A i \in 1..N: \E f \in D: place[f] = i
    <3> HIDE DEF place
    <3> QED
      BY <2>2 DEF Surjection
  <2> DEFINE at == [i \in 1..N |-> CHOOSE f \in D: place[f] = i]
  <2>4. \A i \in 1..N: at[i] \in D /\ place[at[i]] = i
    BY <2>3
  <2>5. ASSUME NEW i \in 1..N, NEW j \in 1..N, i < j PROVE s[at[i]] > s[at[j]]
    <3>1. place[at[i]] = i /\ place[at[j]] = j /\ at[i] \in D /\ at[j] \in D
      BY <2>4
    <3>2. ~(s[at[j]] > s[at[i]])
      BY <2>5, <3>1, NotOlderCounts, <1>1
    <3>3. s[at[i]] # s[at[j]]
      <4>1. at[i] # at[j]
        BY <2>5, <3>1
      <4> QED
        BY <3>1, <4>1 DEF IsStamping, IsInjective
    <3> HIDE DEF at
    <3> QED
      BY <1>1, <3>1, <3>2, <3>3
  <2>6. at \in [1..N -> D] /\ DOMAIN at = 1..N
    BY <2>4
  <2> HIDE DEF at
  <2> QED
    BY <2>5, <2>6
<1> DEFINE rows == NewestFirst(s)
<1>3. rows \in [1..N -> D] /\ Descends(rows)
  BY <1>2 DEF NewestFirst
<1>4. IsInjective(rows)
  <2> HIDE DEF rows, D, N
  <2> SUFFICES ASSUME NEW i \in 1..N, NEW j \in 1..N, rows[i] = rows[j], i < j PROVE FALSE
    BY <1>1, <1>3 DEF IsInjective
  <2> QED
    BY <1>1, <1>3
<1>5. rows \in Injection(1..N, D)
  <2> HIDE DEF rows, D, N
  <2> QED
    BY <1>3, <1>4 DEF Injection
<1>6. rows \in Surjection(1..N, D)
  <2> HIDE DEF rows
  <2> QED
    BY <1>1, <1>5, FS_Injection
<1> QED
  <2> HIDE DEF rows, D, N
  <2>1. rows \in Bijection(1..N, D)
    BY <1>5, <1>6 DEF Bijection
  <2> QED
    BY <1>3, <2>1 DEF Orders, rows, D, N

\* The rows of the pages up to the n-th row.
First(rows, n) == {rows[i]: i \in {k \in DOMAIN rows: k <= n}}

\* They are the newest, and n of them unless the list is shorter.
LEMMA FirstAreNewest ==
  ASSUME NEW s, IsStamping(s), NEW rows, Orders(rows, s), NEW n \in Nat
  PROVE  /\ First(rows, n) \subseteq DOMAIN s
         /\ Cardinality(First(rows, n)) <= n
         /\ First(rows, n) = DOMAIN s \/ Cardinality(First(rows, n)) = n
         /\ \A f \in First(rows, n), g \in DOMAIN s: s[g] > s[f] => g \in First(rows, n)
<1> DEFINE D == DOMAIN s
           N == Cardinality(D)
           T == First(rows, n)
           m == IF n <= N THEN n ELSE N
<1>1. N \in Nat /\ IsFiniteSet(D) /\ \A f \in D: s[f] \in Nat
  BY FS_CardinalityType DEF IsStamping
<1>2. /\ rows \in [1..N -> D]
      /\ \A i, j \in 1..N: rows[i] = rows[j] => i = j
      /\ \A f \in D: \E i \in 1..N: rows[i] = f
      /\ \A i, j \in 1..N: i < j => s[rows[i]] > s[rows[j]]
  <2>1. rows \in Bijection(1..N, D)
    BY DEF Orders
  <2> HIDE DEF N, D
  <2>2. rows \in [1..N -> D] /\ IsInjective(rows) /\ \A f \in D: \E i \in 1..N: rows[i] = f
    BY <2>1 DEF Bijection, Injection, Surjection
  <2> QED
    BY <2>2 DEF IsInjective, Orders
<1> HIDE DEF D, N
<1>3. m \in Nat /\ m <= n /\ m <= N /\ (m = n \/ m = N)
  BY <1>1
<1>4. T = {rows[i]: i \in 1..m} /\ T \subseteq D
  BY <1>1, <1>2 DEF First
<1> HIDE DEF T
<1>5. Cardinality(T) = m
  <2> DEFINE part == [i \in 1..m |-> rows[i]]
  <2>1. part \in Bijection(1..m, T)
    BY <1>1, <1>2, <1>3, <1>4 DEF Bijection, Injection, Surjection, IsInjective
  <2> QED
    BY <1>3, <2>1, FS_CountingElements DEF ExistsBijection
<1>6. m = N => T = D
  BY <1>2, <1>4
<1>7. ASSUME NEW f \in T, NEW g \in D, s[g] > s[f] PROVE g \in T
  <2>1. PICK i \in 1..m: f = rows[i]
    BY <1>4
  <2>2. PICK j \in 1..N: g = rows[j]
    BY <1>2
  <2>3. i \in 1..N /\ f \in D
    BY <1>1, <1>2, <1>3, <2>1
  <2>4. ~(s[f] > s[g])
    BY <1>1, <1>7, <2>3
  <2>5. ~(i < j)
    BY <1>2, <2>1, <2>2, <2>3, <2>4
  <2>6. j \in 1..m
    BY <1>1, <1>3, <2>2, <2>5
  <2> QED
    BY <1>4, <2>2, <2>6
<1>8. T = D \/ Cardinality(T) = n
  BY <1>3, <1>5, <1>6
<1>9. Cardinality(T) <= n
  BY <1>3, <1>5
<1> QED
  BY <1>4, <1>7, <1>8, <1>9 DEF T, D

\* The newest n of s: what the walk has turned past.
IsNewest(T, s, n) ==
  /\ T \subseteq DOMAIN s
  /\ Cardinality(T) <= n
  /\ T = DOMAIN s \/ Cardinality(T) = n
  /\ \A f \in T, g \in DOMAIN s: s[g] > s[f] => g \in T

\* When a list changes, the rows it keeps move past the n-th place only as far
\* as others left the places before it.
LEMMA Crossing ==
  ASSUME NEW s, IsStamping(s), NEW t, IsStamping(t), NEW n \in Nat,
         \A f \in DOMAIN s \cap DOMAIN t: s[f] = t[f],
         NEW S, IsNewest(S, s, n), NEW T, IsNewest(T, t, n)
  PROVE  Cardinality((T \cap DOMAIN s) \ S) <= Cardinality(S \ DOMAIN t)
<1> DEFINE C == DOMAIN s \cap DOMAIN t
           X == (T \cap DOMAIN s) \ S
           G == S \ DOMAIN t
<1>1. /\ IsFiniteSet(S) /\ IsFiniteSet(T) /\ S \subseteq DOMAIN s /\ T \subseteq DOMAIN t
      /\ Cardinality(S) \in Nat /\ Cardinality(T) \in Nat /\ Cardinality(T) <= n
  <2>1. IsFiniteSet(DOMAIN s) /\ IsFiniteSet(DOMAIN t)
    BY DEF IsStamping
  <2>2. S \subseteq DOMAIN s /\ T \subseteq DOMAIN t /\ Cardinality(T) <= n
    BY DEF IsNewest
  <2>3. IsFiniteSet(S) /\ IsFiniteSet(T)
    BY <2>1, <2>2, FS_Subset
  <2> QED
    BY <2>2, <2>3, FS_CardinalityType
<1>2. IsFiniteSet(X) /\ IsFiniteSet(G) /\ Cardinality(X) \in Nat /\ Cardinality(G) \in Nat
  <2>1. X \subseteq T /\ G \subseteq S
    OBVIOUS
  <2> HIDE DEF X, G
  <2> QED
    BY <1>1, <2>1, FS_Subset, FS_CardinalityType
<1>3. CASE X = {}
  BY <1>2, <1>3, FS_EmptySet
<1>4. CASE X # {}
  <2>1. PICK x \in X: TRUE
    BY <1>4
  <2>2. x \in T /\ x \in C /\ x \notin S
    BY <1>1, <2>1
  <2>3. Cardinality(S) = n
    BY <2>2 DEF IsNewest
  <2>4. S \cap C \subseteq T
    <3> SUFFICES ASSUME NEW f \in S \cap C PROVE f \in T
      OBVIOUS
    <3>1. s[x] \in Nat /\ s[f] \in Nat /\ s[x] = t[x] /\ s[f] = t[f]
      BY <2>2 DEF IsStamping
    <3>2. ~(s[x] > s[f])
      BY <2>2 DEF IsNewest
    <3>3. s[x] # s[f]
      <4>1. x # f
        BY <2>2
      <4> QED
        BY <2>2, <4>1 DEF IsStamping, IsInjective
    <3>4. t[f] > t[x]
      BY <3>1, <3>2, <3>3
    <3> QED
      BY <2>2, <3>4 DEF IsNewest
  <2> DEFINE K == S \cap C
  <2>5. IsFiniteSet(K) /\ Cardinality(K) \in Nat /\ Cardinality(G) = Cardinality(S) - Cardinality(K)
    <3>1. K = S \cap DOMAIN t
      BY <1>1
    <3>2. Cardinality(G) = Cardinality(S) - Cardinality(S \cap DOMAIN t)
      BY <1>1, FS_Difference
    <3>3. K \subseteq S
      OBVIOUS
    <3> HIDE DEF K
    <3> QED
      BY <1>1, <3>1, <3>2, <3>3, FS_Subset, FS_CardinalityType
  <2>6. K \cup X \subseteq T /\ K \cap X = {}
    BY <2>4
  <2> HIDE DEF K, X, G
  <2>7. Cardinality(K \cup X) = Cardinality(K) + Cardinality(X)
    <3>1. Cardinality(K \cup X) = Cardinality(K) + Cardinality(X) - Cardinality(K \cap X)
      BY <1>2, <2>5, FS_Union
    <3>2. Cardinality(K \cap X) = 0
      BY <2>6, FS_EmptySet
    <3> QED
      BY <1>2, <2>5, <3>1, <3>2
  <2>8. Cardinality(K \cup X) <= Cardinality(T)
    BY <1>1, <2>6, FS_Subset
  <2> QED
    BY <1>1, <1>2, <2>3, <2>5, <2>7, <2>8 DEF X, G
<1> QED
  BY <1>3, <1>4

-----------------------------------------------------------------------------
(* The pages of a list that changes. *)

\* NOW() stamps no two rows alike.
Dated ==
  /\ now >= 1
  /\ \A f \in DOMAIN files:
       /\ files[f].created_at < now /\ files[f].deleted_at < now
       /\ \A g \in DOMAIN files \ {f}:
            /\ files[f].created_at # files[g].created_at
            /\ files[f].deleted_at = files[g].deleted_at => files[f].deleted_at = Never

Walk == [pc: {"walking", "end"}, list: {"files", "trash"}, offset: Nat, seen: Seq(Files),
         stayed: SUBSET Files, gone: Nat, come: Nat]
WalkTypes == walk = NoWalk \/ walk \in Walk

\* The rows that a walk with these stamps and rows has turned past and those
\* still before it: of what stayed, it has missed at most what went, and what it
\* has shown too often is at most what came, a row it will show again included.
Bounded(w, s, T) ==
  /\ w.stayed \subseteq DOMAIN s
  /\ Cardinality((w.stayed \cap T) \ Range(w.seen)) <= w.gone
  /\ Len(w.seen) <= Cardinality(Range(w.seen) \ (DOMAIN s \ T)) + w.come
Turned == First(Rows(walk.list), walk.offset)
WalkInv ==
  /\ WalkTypes
  /\ walk.pc = "walking" => Bounded(walk, Stamps(walk.list), Turned)
  /\ WalkIsBounded

PagesInv == LibraryInv /\ Dated /\ WalkInv

LEMMA StampsAreStamping ==
  ASSUME Library, Dated, NEW list \in {"files", "trash"}
  PROVE  /\ IsStamping(Stamps(list))
         /\ DOMAIN Stamps(list) = Shown(list, files, now)
         /\ DOMAIN Stamps(list) \subseteq DOMAIN files
         /\ Orders(Rows(list), Stamps(list))
<1> DEFINE s == Stamps(list)
<1>1. DOMAIN s = Shown(list, files, now) /\ DOMAIN s \subseteq DOMAIN files
  BY DEF Stamps, Shown
<1>2. IsFiniteSet(DOMAIN s)
  BY <1>1, FS_Subset, LibraryAssumption DEF Library
<1>3. \A f \in DOMAIN s: /\ s[f] = IF list = "files" THEN files[f].created_at ELSE files[f].deleted_at
                         /\ list # "files" => files[f].deleted_at # Never
  BY DEF Stamps, Shown, InTrash
<1>4. s \in [DOMAIN s -> Nat]
  <2>1. \A f \in DOMAIN s: s[f] \in Nat
    BY <1>1, <1>3 DEF Library, File
  <2>2. s = [f \in DOMAIN s |-> s[f]]
    BY DEF Stamps
  <2> HIDE DEF s
  <2> QED
    BY <2>1, <2>2
<1>5. IsInjective(s)
  <2> HIDE DEF s
  <2> QED
    BY <1>1, <1>3 DEF IsInjective, Dated
<1>6. IsStamping(s)
  BY <1>2, <1>4, <1>5 DEF IsStamping
<1> QED
  BY <1>1, <1>6, NewestFirstOrders DEF Rows

\* What a walk has turned past are the newest of the list.
LEMMA TurnedAreNewest ==
  ASSUME Library, Dated, NEW list \in {"files", "trash"}, NEW n \in Nat
  PROVE  IsNewest(First(Rows(list), n), Stamps(list), n)
BY StampsAreStamping, FirstAreNewest DEF IsNewest

LEMMA RangeOfConcat ==
  ASSUME NEW S, NEW q \in Seq(S), NEW r \in Seq(S)
  PROVE  /\ Range(q) \subseteq S /\ q \o r \in Seq(S)
         /\ Len(q) \in Nat /\ Len(r) \in Nat /\ Len(q \o r) = Len(q) + Len(r)
         /\ Range(q \o r) = Range(q) \cup Range(r)
<1>1. Range(q) \subseteq S /\ Len(q) \in Nat /\ Len(r) \in Nat
  BY DEF Range
<1>2. /\ Len(q \o r) = Len(q) + Len(r) /\ q \o r \in Seq(S)
      /\ \A i \in 1..Len(q) + Len(r): (q \o r)[i] = IF i <= Len(q) THEN q[i] ELSE r[i - Len(q)]
  BY ConcatProperties
<1>3. \A i \in 1..Len(r): i + Len(q) \in 1..Len(q) + Len(r) /\ i + Len(q) - Len(q) = i /\ ~(i + Len(q) <= Len(q))
  BY <1>1
<1>4. \A i \in 1..Len(r): (q \o r)[i + Len(q)] = r[i]
  BY <1>2, <1>3
<1>5. \A i \in 1..Len(q): i \in 1..Len(q) + Len(r) /\ (q \o r)[i] = q[i]
  BY <1>1, <1>2
<1>6. \A i \in 1..Len(q) + Len(r):
        i \in 1..Len(q) \/ (i - Len(q) \in 1..Len(r) /\ (q \o r)[i] = r[i - Len(q)])
  BY <1>1, <1>2
<1>7. DOMAIN (q \o r) = 1..Len(q) + Len(r) /\ DOMAIN q = 1..Len(q) /\ DOMAIN r = 1..Len(r)
  BY <1>2
<1>8. Range(q \o r) = Range(q) \cup Range(r)
  BY <1>3, <1>4, <1>5, <1>6, <1>7 DEF Range
<1> QED
  BY <1>1, <1>2, <1>8

\* A page holds each of its rows once, and the last one ends with the list.
LEMMA PageHolds ==
  ASSUME Library, Dated, NEW list \in {"files", "trash"}, NEW o \in Nat
  PROVE  /\ PageOf(list, o) \in Seq(Files)
         /\ Range(PageOf(list, o)) = First(Rows(list), o + LIMIT) \ First(Rows(list), o)
         /\ Len(PageOf(list, o)) = Cardinality(Range(PageOf(list, o)))
         /\ First(Rows(list), o) \subseteq First(Rows(list), o + LIMIT)
         /\ o + LIMIT >= TotalOf(list, o) =>
              First(Rows(list), o + LIMIT) = DOMAIN Stamps(list)
<1> DEFINE D == DOMAIN Stamps(list)
           N == Cardinality(D)
           rows == Rows(list)
           k == Min({o + LIMIT, Len(rows)})
           page == SubSeq(rows, o + 1, k)
<1>1. LIMIT \in Nat /\ LIMIT > 0
  BY LibraryAssumption
<1>2. /\ N \in Nat /\ D \subseteq Files
      /\ rows \in [1..N -> D]
      /\ \A i, j \in 1..N: rows[i] = rows[j] => i = j
      /\ \A f \in D: \E i \in 1..N: rows[i] = f
  <2>1. rows \in Bijection(1..N, D) /\ IsFiniteSet(D) /\ D \subseteq Files
    BY StampsAreStamping DEF Orders, IsStamping, Library
  <2>2. N \in Nat
    BY <2>1, FS_CardinalityType
  <2> HIDE DEF N, D, rows
  <2> QED
    BY <2>1, <2>2 DEF Bijection, Injection, Surjection, IsInjective
<1> HIDE DEF D, N, rows
<1>3. rows \in Seq(D) /\ Len(rows) = N
  BY <1>2
<1>4. k \in Nat /\ k <= o + LIMIT /\ k <= N /\ (k = o + LIMIT \/ k = N)
  <2> DEFINE both == {o + LIMIT, N}
  <2>1. \E x \in both: \A y \in both: x <= y
    BY <1>1, <1>2
  <2>2. k \in both /\ \A y \in both: k <= y
    BY <1>3, <2>1 DEF Min
  <2> HIDE DEF k
  <2> QED
    BY <1>1, <1>2, <2>2
<1> HIDE DEF k
<1>5. \A i \in o + 1..k: rows[i] \in Files
  BY <1>2, <1>4
<1>6. /\ page \in Seq(Files)
      /\ Len(page) = IF o + 1 <= k THEN k - (o + 1) + 1 ELSE 0
      /\ \A i \in 1..k - (o + 1) + 1: page[i] = rows[o + 1 + i - 1]
  <2>1. o + 1 \in Int /\ k \in Int
    BY <1>4
  <2> QED
    BY <1>5, <2>1, SubSeqProperties
<1> HIDE DEF page
<1>7. \A i \in 1..Len(page): o + i \in o + 1..k /\ page[i] = rows[o + i]
  <2> SUFFICES ASSUME NEW i \in 1..Len(page) PROVE o + i \in o + 1..k /\ page[i] = rows[o + i]
    OBVIOUS
  <2>1. i \in 1..k - (o + 1) + 1 /\ o + i \in o + 1..k /\ o + 1 + i - 1 = o + i
    BY <1>4, <1>6
  <2> QED
    BY <1>6, <2>1
<1>8. \A j \in o + 1..k: j - o \in 1..Len(page) /\ page[j - o] = rows[j]
  <2> SUFFICES ASSUME NEW j \in o + 1..k PROVE j - o \in 1..Len(page) /\ page[j - o] = rows[j]
    OBVIOUS
  <2>1. j - o \in 1..Len(page) /\ o + (j - o) = j
    BY <1>4, <1>6
  <2> QED
    BY <1>7, <2>1
<1>9. Len(page) \in Nat /\ DOMAIN page = 1..Len(page) /\ page \in [1..Len(page) -> Range(page)]
  BY <1>6 DEF Range
<1>10. Range(page) = {rows[j]: j \in o + 1..k}
  <2>1. \A f \in Range(page): \E i \in 1..Len(page): f = page[i]
    BY <1>9 DEF Range
  <2>2. \A i \in 1..Len(page): page[i] \in Range(page)
    BY <1>9
  <2> QED
    BY <1>7, <1>8, <2>1, <2>2
<1>11. Range(page) = First(rows, o + LIMIT) \ First(rows, o)
  <2>1. First(rows, o + LIMIT) = {rows[j]: j \in 1..k}
    BY <1>1, <1>2, <1>4 DEF First
  <2>2. \A j \in 1..k: rows[j] \in First(rows, o) <=> j <= o
    BY <1>2, <1>4 DEF First
  <2> QED
    BY <1>4, <1>10, <2>1, <2>2
<1>12. Len(page) = Cardinality(Range(page))
  <2>1. ASSUME NEW i \in 1..Len(page), NEW j \in 1..Len(page), page[i] = page[j] PROVE i = j
    <3>1. o + i \in 1..N /\ o + j \in 1..N /\ rows[o + i] = rows[o + j]
      BY <1>2, <1>4, <1>7, <2>1
    <3>2. o + i = o + j
      BY <1>2, <3>1
    <3> QED
      BY <3>2
  <2>2. page \in Bijection(1..Len(page), Range(page))
    BY <1>9, <2>1 DEF Bijection, Injection, Surjection, IsInjective, Range
  <2> QED
    BY <1>9, <2>2, FS_CountingElements DEF ExistsBijection
<1>13. PageOf(list, o) = page
  BY DEF PageOf, page, k, rows
<1>14. ASSUME o + LIMIT >= TotalOf(list, o) PROVE First(rows, o + LIMIT) = D
  <2>1. o + LIMIT >= N
    <3>1. CASE page = << >>
      <4>1. ~(o + 1 <= k)
        BY <1>4, <1>6, <3>1
      <4> QED
        BY <1>1, <1>2, <1>4, <4>1
    <3>2. CASE page # << >>
      <4>1. TotalOf(list, o) = N
        BY <1>3, <1>13, <3>2 DEF TotalOf, rows
      <4> QED
        BY <1>14, <4>1
    <3> QED
      BY <3>1, <3>2
  <2> QED
    BY <1>1, <1>2, <2>1 DEF First
<1>15. First(rows, o) \subseteq First(rows, o + LIMIT)
  BY <1>1, <1>2 DEF First
<1> QED
  BY <1>6, <1>11, <1>12, <1>13, <1>14, <1>15 DEF rows, D

LEMMA WalkIsFinite ==
  ASSUME NEW w \in Walk
  PROVE  /\ IsFiniteSet(Range(w.seen)) /\ IsFiniteSet(w.stayed)
         /\ w.gone \in Nat /\ w.come \in Nat /\ w.offset \in Nat /\ Len(w.seen) \in Nat
         /\ w.list \in {"files", "trash"} /\ w.seen \in Seq(Files)
<1>1. /\ w.seen \in Seq(Files) /\ w.stayed \subseteq Files
      /\ w.gone \in Nat /\ w.come \in Nat /\ w.offset \in Nat /\ w.list \in {"files", "trash"}
  BY DEF Walk
<1>2. Range(w.seen) \subseteq Files /\ Len(w.seen) \in Nat
  BY <1>1 DEF Range
<1> QED
  BY <1>1, <1>2, FS_Subset, LibraryAssumption

LEMMA Counts ==
  ASSUME NEW S, IsFiniteSet(S), NEW T \in SUBSET S
  PROVE  /\ IsFiniteSet(T) /\ Cardinality(S) \in Nat /\ Cardinality(T) \in Nat
         /\ Cardinality(T) <= Cardinality(S)
BY FS_Subset, FS_CardinalityType

\* Sets add up to no less than what they cover.
LEMMA CoverCounts ==
  ASSUME NEW S, IsFiniteSet(S), NEW T, IsFiniteSet(T), NEW R \in SUBSET (S \cup T)
  PROVE  /\ IsFiniteSet(R)
         /\ Cardinality(R) \in Nat /\ Cardinality(S) \in Nat /\ Cardinality(T) \in Nat
         /\ Cardinality(R) <= Cardinality(S) + Cardinality(T)
<1>1. /\ IsFiniteSet(S \cup T)
      /\ Cardinality(S \cup T) = Cardinality(S) + Cardinality(T) - Cardinality(S \cap T)
  BY FS_Union
<1>2. Cardinality(S \cap T) \in Nat /\ Cardinality(S) \in Nat /\ Cardinality(T) \in Nat
  BY FS_Intersection, FS_CardinalityType
<1>3. IsFiniteSet(R) /\ Cardinality(R) \in Nat /\ Cardinality(R) <= Cardinality(S \cup T)
  BY <1>1, Counts
<1>4. Cardinality(S \cup T) \in Nat
  BY <1>1, FS_CardinalityType
<1> QED
  BY <1>1, <1>2, <1>3, <1>4

\* Turning a page.
LEMMA TurningKeeps ==
  ASSUME NEW s, IsStamping(s), NEW S, NEW T, S \subseteq T, T \subseteq DOMAIN s,
         NEW w \in Walk, NEW v \in Walk, Bounded(w, s, S),
         v.stayed = w.stayed, v.gone = w.gone, v.come = w.come,
         Range(v.seen) = Range(w.seen) \cup (T \ S), Len(v.seen) = Len(w.seen) + Cardinality(T \ S)
  PROVE  Bounded(v, s, T)
<1> DEFINE missed == (w.stayed \cap S) \ Range(w.seen)
           missing == (v.stayed \cap T) \ Range(v.seen)
           past == Range(w.seen) \ (DOMAIN s \ S)
           passed == Range(v.seen) \ (DOMAIN s \ T)
<1>1. /\ IsFiniteSet(Range(w.seen)) /\ IsFiniteSet(Range(v.seen)) /\ IsFiniteSet(w.stayed)
      /\ w.gone \in Nat /\ w.come \in Nat /\ Len(w.seen) \in Nat
  BY WalkIsFinite
<1>2. Cardinality(missing) <= w.gone
  <2>1. missing \subseteq missed /\ missed \subseteq w.stayed
    OBVIOUS
  <2>2. Cardinality(missed) <= w.gone
    BY DEF Bounded
  <2> HIDE DEF missing, missed
  <2>3. IsFiniteSet(missed) /\ Cardinality(missed) \in Nat
    BY <1>1, <2>1, Counts
  <2>4. Cardinality(missing) \in Nat /\ Cardinality(missing) <= Cardinality(missed)
    BY <2>1, <2>3, Counts
  <2>5. Cardinality(missing) <= w.gone
    BY <1>1, <2>2, <2>3, <2>4
  <2> QED
    BY <2>5 DEF missing
<1>3. Len(v.seen) <= Cardinality(passed) + w.come
  <2> DEFINE page == T \ S
  <2>1. past \subseteq Range(w.seen) /\ passed \subseteq Range(v.seen) /\ page \subseteq Range(v.seen)
    OBVIOUS
  <2>2. past \cup page \subseteq passed /\ past \cap page = {}
    OBVIOUS
  <2>3. Len(w.seen) <= Cardinality(past) + w.come /\ Len(v.seen) = Len(w.seen) + Cardinality(page)
    BY DEF Bounded
  <2> HIDE DEF past, passed, page
  <2>4. IsFiniteSet(past) /\ IsFiniteSet(page) /\ IsFiniteSet(passed)
        /\ Cardinality(past) \in Nat /\ Cardinality(page) \in Nat /\ Cardinality(passed) \in Nat
    BY <1>1, <2>1, Counts
  <2>5. Cardinality(past \cup page) = Cardinality(past) + Cardinality(page) - Cardinality(past \cap page)
    BY <2>4, FS_Union
  <2>6. Cardinality(past \cap page) = 0
    BY <2>2, FS_EmptySet
  <2>7. Cardinality(past \cup page) <= Cardinality(passed)
    BY <2>2, <2>4, Counts
  <2> QED
    BY <1>1, <2>3, <2>4, <2>5, <2>6, <2>7
<1>4. v.stayed \subseteq DOMAIN s
  BY DEF Bounded
<1> QED
  BY <1>2, <1>3, <1>4 DEF Bounded

\* At the end of the list a walk is what was promised.
LEMMA AtTheEnd ==
  ASSUME NEW s, NEW w \in Walk, Bounded(w, s, DOMAIN s)
  PROVE  /\ Cardinality(w.stayed \ Range(w.seen)) <= w.gone
         /\ Len(w.seen) <= Cardinality(Range(w.seen)) + w.come
<1>1. w.stayed \cap DOMAIN s = w.stayed /\ Range(w.seen) \ (DOMAIN s \ DOMAIN s) = Range(w.seen)
  BY DEF Bounded
<1> QED
  BY <1>1 DEF Bounded

\* The list changes under the walk.
LEMMA ChangingKeeps ==
  ASSUME NEW s, IsStamping(s), NEW t, IsStamping(t), NEW n \in Nat,
         \A f \in DOMAIN s \cap DOMAIN t: s[f] = t[f],
         NEW S, IsNewest(S, s, n), NEW T, IsNewest(T, t, n),
         NEW w \in Walk, NEW v \in Walk, Bounded(w, s, S),
         v.stayed = w.stayed \cap DOMAIN t, v.seen = w.seen,
         v.gone = w.gone + Cardinality(DOMAIN s \ DOMAIN t),
         v.come = w.come + Cardinality(DOMAIN t \ DOMAIN s)
  PROVE  Bounded(v, t, T)
<1> DEFINE went == DOMAIN s \ DOMAIN t
           came == DOMAIN t \ DOMAIN s
<1>1. /\ IsFiniteSet(Range(w.seen)) /\ IsFiniteSet(w.stayed)
      /\ w.gone \in Nat /\ w.come \in Nat /\ Len(w.seen) \in Nat
  BY WalkIsFinite
<1>2. /\ S \subseteq DOMAIN s /\ T \subseteq DOMAIN t
      /\ IsFiniteSet(DOMAIN s) /\ IsFiniteSet(DOMAIN t)
  BY DEF IsNewest, IsStamping
<1>3. /\ IsFiniteSet(went) /\ IsFiniteSet(came)
      /\ Cardinality(went) \in Nat /\ Cardinality(came) \in Nat
  BY <1>2, Counts
<1>4. Cardinality((v.stayed \cap T) \ Range(v.seen)) <= v.gone
  <2> DEFINE missed == (w.stayed \cap S) \ Range(w.seen)
             missing == (v.stayed \cap T) \ Range(v.seen)
             up == (T \cap DOMAIN s) \ S
             left == S \ DOMAIN t
  <2>1. /\ missed \subseteq w.stayed /\ up \subseteq DOMAIN s /\ left \subseteq went
        /\ Cardinality(missed) <= w.gone
    BY <1>2 DEF Bounded
  <2>2. Cardinality(up) <= Cardinality(left)
    BY Crossing
  <2>3. missing \subseteq missed \cup up
    BY DEF Bounded
  <2> HIDE DEF missed, missing, up, left, went, came
  <2>4. /\ IsFiniteSet(missed) /\ IsFiniteSet(up) /\ Cardinality(left) <= Cardinality(went)
        /\ Cardinality(left) \in Nat
    BY <1>1, <1>2, <1>3, <2>1, Counts
  <2>5. /\ Cardinality(missing) <= Cardinality(missed) + Cardinality(up)
        /\ Cardinality(missing) \in Nat /\ Cardinality(missed) \in Nat /\ Cardinality(up) \in Nat
    BY <2>3, <2>4, CoverCounts
  <2> QED
    BY <1>1, <1>3, <2>1, <2>2, <2>4, <2>5 DEF missing, went
<1>5. Len(v.seen) <= Cardinality(Range(v.seen) \ (DOMAIN t \ T)) + v.come
  <2> DEFINE past == Range(w.seen) \ (DOMAIN s \ S)
             passed == Range(v.seen) \ (DOMAIN t \ T)
             down == (S \cap DOMAIN t) \ T
             above == T \ DOMAIN s
             below == came \ T
  <2>1. /\ past \subseteq Range(w.seen) /\ passed \subseteq Range(w.seen)
        /\ down \subseteq DOMAIN t /\ above \subseteq came /\ below \subseteq came
        /\ Len(w.seen) <= Cardinality(past) + w.come
    BY <1>2 DEF Bounded
  <2>2. Cardinality(down) <= Cardinality(above)
    BY Crossing
  <2>3. past \subseteq passed \cup (down \cup below)
    OBVIOUS
  <2>4. above \cup below = came /\ above \cap below = {}
    BY <1>2
  <2> HIDE DEF past, passed, down, above, below, went, came
  <2>5. /\ IsFiniteSet(passed) /\ IsFiniteSet(down) /\ IsFiniteSet(above) /\ IsFiniteSet(below)
        /\ Cardinality(above) \in Nat /\ Cardinality(below) \in Nat /\ Cardinality(down) \in Nat
    BY <1>1, <1>2, <1>3, <2>1, Counts
  <2>6. Cardinality(came) = Cardinality(above) + Cardinality(below)
    <3>1. Cardinality(above \cup below)
            = Cardinality(above) + Cardinality(below) - Cardinality(above \cap below)
      BY <2>5, FS_Union
    <3>2. Cardinality(above \cap below) = 0
      BY <2>4, FS_EmptySet
    <3>3. Cardinality(above \cup below) = Cardinality(came)
      BY <2>4
    <3> QED
      BY <2>5, <3>1, <3>2, <3>3
  <2>7. /\ IsFiniteSet(down \cup below)
        /\ Cardinality(down \cup below) <= Cardinality(down) + Cardinality(below)
        /\ Cardinality(down \cup below) \in Nat
    BY <2>5, CoverCounts
  <2>8. /\ Cardinality(past) <= Cardinality(passed) + Cardinality(down \cup below)
        /\ Cardinality(past) \in Nat /\ Cardinality(passed) \in Nat
    BY <2>3, <2>5, <2>7, CoverCounts
  <2>9. Len(w.seen) <= Cardinality(passed) + (w.come + Cardinality(came))
    <3>1. Cardinality(down \cup below) <= Cardinality(came)
      BY <2>2, <2>5, <2>6, <2>7
    <3>2. Cardinality(past) <= Cardinality(passed) + Cardinality(came)
      BY <1>3, <2>7, <2>8, <3>1
    <3> QED
      BY <1>1, <1>3, <2>1, <2>8, <3>2
  <2> QED
    BY <2>9 DEF passed, came
<1> QED
  BY <1>4, <1>5 DEF Bounded

-----------------------------------------------------------------------------
(* The steps of the library under a walk. *)

\* Steps that touch no stamp change no list.
LEMMA SameStamps ==
  ASSUME now' = now, DOMAIN files' = DOMAIN files,
         \A f \in DOMAIN files: /\ files'[f].created_at = files[f].created_at
                                /\ files'[f].deleted_at = files[f].deleted_at
  PROVE  \A list \in {"files", "trash"}:
           /\ Shown(list, files', now') = Shown(list, files, now)
           /\ Stamps(list)' = Stamps(list) /\ Rows(list)' = Rows(list)
<1> TAKE list \in {"files", "trash"}
<1>1. Shown(list, files', now') = Shown(list, files, now)
  BY DEF Shown, IsLive, InTrash
<1>2. \A f \in Shown(list, files, now): f \in DOMAIN files
  BY DEF Shown
<1>3. Stamps(list)' = Stamps(list)
  BY <1>1, <1>2 DEF Stamps
<1> QED
  BY <1>1, <1>3 DEF Rows

LEMMA SameKeeps ==
  ASSUME WalkInv, Dated, now' = now, walk' = walk, DOMAIN files' = DOMAIN files,
         \A f \in DOMAIN files: /\ files'[f].created_at = files[f].created_at
                                /\ files'[f].deleted_at = files[f].deleted_at
  PROVE  Dated' /\ WalkInv'
<1>1. Dated'
  BY DEF Dated
<1>2. walk.pc = "walking" => walk.list \in {"files", "trash"}
  BY DEF WalkInv, WalkTypes, Walk, NoWalk
<1>3. walk.pc = "walking" => Stamps(walk.list)' = Stamps(walk.list) /\ Turned' = Turned
  BY <1>2, SameStamps DEF Turned
<1> QED
  BY <1>1, <1>3 DEF WalkInv, WalkTypes, WalkIsBounded, Bounded

\* Two tables agree on the stamps of what both show.
Agree == \A f \in DOMAIN files \cap DOMAIN files':
           /\ files'[f].created_at = files[f].created_at
           /\ \/ files'[f].deleted_at = files[f].deleted_at
              \/ files'[f].deleted_at = Never
              \/ files[f].deleted_at = Never

\* What a page shows is the newest of the list, in any state and the next.
Lists ==
  \A list \in {"files", "trash"}:
    /\ IsStamping(Stamps(list)) /\ DOMAIN Stamps(list) = Shown(list, files, now)
    /\ \A n \in Nat: IsNewest(First(Rows(list), n), Stamps(list), n)
LEMMA ListsHold == Library /\ Dated => Lists
BY StampsAreStamping, TurnedAreNewest DEF Lists
LEMMA ListsHoldAfter == Library' /\ Dated' => Lists'
BY ListsHold, PTL

LEMMA NotedKeeps ==
  ASSUME PagesInv, LibraryInv', Dated', Agree, walk' = Noted
  PROVE  WalkInv'
<1>1. CASE walk.pc # "walking"
  BY <1>1 DEF Noted, PagesInv, WalkInv, WalkTypes, WalkIsBounded
<1>2. CASE walk.pc = "walking"
  <2>1. /\ walk \in Walk /\ walk.list \in {"files", "trash"} /\ walk.offset \in Nat
        /\ Bounded(walk, Stamps(walk.list), Turned)
    BY <1>2, WalkIsFinite DEF PagesInv, WalkInv, WalkTypes, NoWalk
  <2> PICK list \in {"files", "trash"}, n \in Nat: list = walk.list /\ n = walk.offset
    BY <2>1
  <2> DEFINE s == Stamps(list)
             t == Stamps(list)'
             T == First(Rows(list)', n)
             went == DOMAIN s \ DOMAIN t
             came == DOMAIN t \ DOMAIN s
  <2>2. /\ IsStamping(s) /\ DOMAIN s = Shown(list, files, now) /\ IsNewest(Turned, s, n)
    BY ListsHold DEF PagesInv, LibraryInv, Lists, Turned
  <2>3. /\ IsStamping(t) /\ DOMAIN t = Shown(list, files', now') /\ IsNewest(T, t, n)
    BY ListsHoldAfter DEF LibraryInv, Lists
  <2>4. \A f \in DOMAIN s \cap DOMAIN t: s[f] = t[f]
    <3> SUFFICES ASSUME NEW f \in DOMAIN s \cap DOMAIN t PROVE s[f] = t[f]
      OBVIOUS
    <3>1. /\ f \in DOMAIN files \cap DOMAIN files'
          /\ list # "files" => files[f].deleted_at # Never /\ files'[f].deleted_at # Never
      BY <2>2, <2>3 DEF Shown, InTrash
    <3>2. /\ s[f] = IF list = "files" THEN files[f].created_at ELSE files[f].deleted_at
          /\ t[f] = IF list = "files" THEN files'[f].created_at ELSE files'[f].deleted_at
      BY <2>2, <2>3 DEF Stamps
    <3> QED
      BY <3>1, <3>2 DEF Agree
  <2>5. /\ walk' = [walk EXCEPT !.stayed = @ \cap DOMAIN t,
                                !.gone = @ + Cardinality(went), !.come = @ + Cardinality(came)]
    BY <1>2, <2>2, <2>3 DEF Noted
  <2>6. Cardinality(went) \in Nat /\ Cardinality(came) \in Nat
    <3>1. IsFiniteSet(DOMAIN s) /\ IsFiniteSet(DOMAIN t)
      BY <2>2, <2>3 DEF IsStamping
    <3> HIDE DEF s, t
    <3> QED
      BY <3>1, Counts
  <2>7. /\ walk' \in Walk /\ walk'.pc = "walking" /\ walk'.list = list /\ walk'.offset = n
        /\ walk'.seen = walk.seen /\ walk'.stayed = walk.stayed \cap DOMAIN t
        /\ walk'.gone = walk.gone + Cardinality(went) /\ walk'.come = walk.come + Cardinality(came)
    <3> DEFINE stayed == walk.stayed \cap DOMAIN t
               gone == walk.gone + Cardinality(went)
               come == walk.come + Cardinality(came)
    <3>1. walk' = [walk EXCEPT !.stayed = stayed, !.gone = gone, !.come = come]
      BY <2>5
    <3>2. stayed \in SUBSET Files /\ gone \in Nat /\ come \in Nat
      <4>1. walk.stayed \in SUBSET Files /\ walk.gone \in Nat /\ walk.come \in Nat
        BY <2>1 DEF Walk
      <4> HIDE DEF t
      <4> QED
        BY <2>6, <4>1
    <3> HIDE DEF stayed, gone, come
    <3>3. /\ walk' \in Walk /\ walk'.pc = "walking" /\ walk'.list = list /\ walk'.offset = n
          /\ walk'.seen = walk.seen /\ walk'.stayed = stayed
          /\ walk'.gone = gone /\ walk'.come = come
      BY <1>2, <2>1, <3>1, <3>2 DEF Walk
    <3> QED
      BY <3>3 DEF stayed, gone, come
  <2>8. Stamps(walk.list)' = t /\ Turned' = T
    BY <2>7 DEF Turned
  <2>9. Bounded(walk', t, T)
    <3> DEFINE v == walk'
    <3>1. /\ v \in Walk /\ v.seen = walk.seen /\ v.stayed = walk.stayed \cap DOMAIN t
          /\ v.gone = walk.gone + Cardinality(DOMAIN s \ DOMAIN t)
          /\ v.come = walk.come + Cardinality(DOMAIN t \ DOMAIN s)
      BY <2>7
    <3>2. Bounded(walk, s, Turned)
      BY <2>1
    <3> HIDE DEF v, T, s, t
    <3>3. Bounded(v, t, T)
      BY <2>1, <2>2, <2>3, <2>4, <3>1, <3>2, ChangingKeeps
    <3> QED
      BY <3>3 DEF v
  <2>10. Bounded(walk, Stamps(walk.list), Turned)'
    <3> HIDE DEF t, T
    <3>1. Bounded(walk', Stamps(walk.list)', Turned')
      BY <2>8, <2>9
    <3> QED
      BY <3>1 DEF Bounded
  <2> QED
    BY <2>7, <2>10 DEF WalkInv, WalkTypes, WalkIsBounded
<1> QED
  BY <1>1, <1>2

LEMMA OpenKeeps ==
  ASSUME PagesInv, NEW list \in {"files", "trash"}, Open(list)
  PROVE  Dated' /\ WalkInv'
<1>1. Dated'
  BY DEF PagesInv, Dated, Open
<1>2. /\ now' = now /\ files' = files
      /\ walk' = [pc |-> "walking", list |-> list, offset |-> 0, seen |-> << >>,
                  stayed |-> Shown(list, files, now), gone |-> 0, come |-> 0]
  BY DEF Open
<1>3. /\ DOMAIN Stamps(list) = Shown(list, files, now) /\ Stamps(list)' = Stamps(list)
      /\ Shown(list, files, now) \subseteq Files /\ Rows(list)' = Rows(list)
      /\ Rows(list) \in [1..Cardinality(DOMAIN Stamps(list)) -> DOMAIN Stamps(list)]
      /\ Cardinality(DOMAIN Stamps(list)) \in Nat
  <2>1. /\ Stamps(list)' = Stamps(list) /\ Rows(list)' = Rows(list)
    BY <1>2, SameStamps
  <2>2. /\ DOMAIN Stamps(list) = Shown(list, files, now) /\ Shown(list, files, now) \subseteq Files
        /\ IsStamping(Stamps(list)) /\ Orders(Rows(list), Stamps(list))
    BY StampsAreStamping DEF PagesInv, LibraryInv, Library
  <2> QED
    BY <2>1, <2>2, FS_CardinalityType DEF Orders, IsStamping, Bijection, Injection
<1>4. walk' \in Walk /\ walk'.pc = "walking" /\ walk'.list = list /\ walk'.offset = 0
      /\ walk'.seen = << >> /\ walk'.stayed = DOMAIN Stamps(list) /\ walk'.gone = 0 /\ walk'.come = 0
  BY <1>2, <1>3 DEF Walk
<1>5. First(Rows(list), 0) = {}
  BY <1>3 DEF First
<1>6. Bounded(walk', Stamps(list), {})
  <2>1. Range(walk'.seen) = {} /\ Len(walk'.seen) = 0
    BY <1>4 DEF Range
  <2>2. (walk'.stayed \cap {}) \ Range(walk'.seen) = {}
    OBVIOUS
  <2>3. Range(walk'.seen) \ (DOMAIN Stamps(list) \ {}) = {}
    BY <2>1
  <2>4. /\ Cardinality((walk'.stayed \cap {}) \ Range(walk'.seen)) = 0
        /\ Cardinality(Range(walk'.seen) \ (DOMAIN Stamps(list) \ {})) = 0
    BY <2>2, <2>3, FS_EmptySet
  <2> QED
    BY <1>4, <2>1, <2>4 DEF Bounded
<1>7. Stamps(walk.list)' = Stamps(list) /\ Turned' = {}
  BY <1>3, <1>4, <1>5 DEF Turned
<1>8. Bounded(walk, Stamps(walk.list), Turned)'
  <2>1. Bounded(walk', Stamps(walk.list)', Turned')
    BY <1>6, <1>7
  <2> QED
    BY <2>1 DEF Bounded
<1>9. WalkTypes' /\ WalkIsBounded'
  BY <1>4 DEF WalkTypes, WalkIsBounded
<1> QED
  BY <1>1, <1>8, <1>9 DEF WalkInv

LEMMA ListPageKeeps ==
  ASSUME PagesInv, ListPage
  PROVE  Dated' /\ WalkInv'
<1>1. Dated'
  BY DEF PagesInv, Dated, ListPage
<1>2. /\ walk.pc = "walking" /\ now' = now /\ files' = files
      /\ walk \in Walk /\ walk.list \in {"files", "trash"} /\ walk.offset \in Nat
      /\ walk.seen \in Seq(Files) /\ Bounded(walk, Stamps(walk.list), Turned)
  BY WalkIsFinite DEF ListPage, PagesInv, WalkInv, WalkTypes, NoWalk
<1> PICK list \in {"files", "trash"}, o \in Nat: list = walk.list /\ o = walk.offset
  BY <1>2
<1> DEFINE s == Stamps(list)
           S == First(Rows(list), o)
           T == First(Rows(list), o + LIMIT)
           page == PageOf(list, o)
           pc == IF o + LIMIT >= TotalOf(list, o) THEN "end" ELSE "walking"
           seen == walk.seen \o page
           next == o + LIMIT
<1>3. /\ IsStamping(s) /\ Stamps(list)' = s /\ Rows(list)' = Rows(list)
      /\ T \subseteq DOMAIN s /\ next \in Nat
  <2>1. next \in Nat
    BY LibraryAssumption
  <2> HIDE DEF next
  <2>2. \A n \in Nat: First(Rows(list), n) \subseteq DOMAIN s
    BY ListsHold DEF PagesInv, LibraryInv, Lists, IsNewest
  <2>3. IsStamping(s)
    BY ListsHold DEF PagesInv, LibraryInv, Lists
  <2> QED
    BY <1>2, <2>1, <2>2, <2>3, SameStamps DEF next
<1>4. /\ page \in Seq(Files) /\ Range(page) = T \ S /\ Len(page) = Cardinality(T \ S) /\ S \subseteq T
      /\ pc = "end" => T = DOMAIN s
  <2>1. Library /\ Dated
    BY DEF PagesInv, LibraryInv
  <2>2. /\ page \in Seq(Files) /\ Range(page) = T \ S /\ Len(page) = Cardinality(Range(page))
        /\ S \subseteq T
        /\ o + LIMIT >= TotalOf(list, o) => T = DOMAIN s
    <3> HIDE DEF pc, seen, next
    <3> QED
      BY <2>1, PageHolds
  <2> HIDE DEF page, S, T, s
  <2> QED
    BY <2>2
<1>5. /\ seen \in Seq(Files) /\ Range(seen) = Range(walk.seen) \cup (T \ S)
      /\ Len(seen) = Len(walk.seen) + Cardinality(T \ S)
  <2> HIDE DEF page, S, T
  <2> QED
    BY <1>2, <1>4, RangeOfConcat
<1>6. walk' = [walk EXCEPT !.seen = seen, !.offset = next, !.pc = pc]
  BY DEF ListPage, NextOffset
<1>7. pc \in {"walking", "end"}
  OBVIOUS
<1> HIDE DEF pc, next, seen, page
<1>8. /\ walk' \in Walk /\ walk'.pc = pc /\ walk'.list = list /\ walk'.offset = next /\ walk'.seen = seen
      /\ walk'.stayed = walk.stayed /\ walk'.gone = walk.gone /\ walk'.come = walk.come
  BY <1>2, <1>3, <1>5, <1>6, <1>7 DEF Walk
<1>9. Bounded(walk', s, T)
  <2> DEFINE v == walk'
  <2>1. Bounded(walk, s, S)
    BY <1>2 DEF Turned
  <2>2. /\ v \in Walk /\ v.stayed = walk.stayed /\ v.gone = walk.gone /\ v.come = walk.come
        /\ Range(v.seen) = Range(walk.seen) \cup (T \ S)
        /\ Len(v.seen) = Len(walk.seen) + Cardinality(T \ S)
    BY <1>5, <1>8
  <2> HIDE DEF v, s, S, T
  <2>3. Bounded(v, s, T)
    BY <1>2, <1>3, <1>4, <2>1, <2>2, TurningKeeps
  <2> QED
    BY <2>3 DEF v
<1>10. Bounded(walk, Stamps(walk.list), Turned)'
  <2>1. Stamps(walk.list)' = s /\ Turned' = T
    BY <1>3, <1>8 DEF Turned, next
  <2> HIDE DEF s, T
  <2>2. Bounded(walk', Stamps(walk.list)', Turned')
    BY <1>9, <2>1
  <2> QED
    BY <2>2 DEF Bounded
<1>11. WalkIsBounded'
  <2> SUFFICES ASSUME walk'.pc = "end" PROVE WalkIsBounded'
    BY DEF WalkIsBounded
  <2>1. Bounded(walk', s, DOMAIN s)
    BY <1>4, <1>8, <1>9
  <2> DEFINE v == walk'
  <2>2. v \in Walk /\ Bounded(v, s, DOMAIN s)
    BY <1>8, <2>1
  <2> HIDE DEF v, s
  <2>3. /\ Cardinality(v.stayed \ Range(v.seen)) <= v.gone
        /\ Len(v.seen) <= Cardinality(Range(v.seen)) + v.come
    BY <2>2, AtTheEnd
  <2> QED
    BY <2>3 DEF WalkIsBounded, v
<1> QED
  BY <1>1, <1>8, <1>10, <1>11 DEF WalkInv, WalkTypes

\* A new stamp is none of those there.
LEMMA DeleteNotes ==
  ASSUME PagesInv, NEW f \in Files, DeleteFile(f)
  PROVE  Dated' /\ WalkInv'
<1>1. /\ f \in DOMAIN files /\ files[f].deleted_at = Never
      /\ files' = [files EXCEPT ![f] = [files[f] EXCEPT !["deleted_at"] = now]]
      /\ now' = now + 1 /\ now \in Nat /\ walk' = Noted
  BY DEF DeleteFile, IsLive, Stamp, PagesInv, LibraryInv, Library
<1>2. /\ DOMAIN files' = DOMAIN files /\ files'[f].deleted_at = now
      /\ files'[f].created_at = files[f].created_at
      /\ \A g \in DOMAIN files: g # f => files'[g] = files[g]
  <2>1. files[f] \in File
    BY <1>1 DEF PagesInv, LibraryInv, Library
  <2> QED
    BY <1>1, <2>1 DEF PagesInv, LibraryInv, Library, File
<1>3. \A g \in DOMAIN files: files[g].created_at \in Nat /\ files[g].deleted_at \in Nat
  BY DEF PagesInv, LibraryInv, Library, File
<1>4. Dated'
  BY <1>1, <1>2, <1>3 DEF PagesInv, Dated
<1>5. Agree
  BY <1>1, <1>2 DEF Agree
<1>6. LibraryInv'
  BY DeleteKeeps DEF PagesInv
<1> QED
  BY <1>1, <1>4, <1>5, <1>6, NotedKeeps

LEMMA RestoreNotes ==
  ASSUME PagesInv, NEW f \in Files, RestoreFile(f)
  PROVE  Dated' /\ WalkInv'
<1>1. /\ f \in DOMAIN files
      /\ files' = [files EXCEPT ![f] = [files[f] EXCEPT !["deleted_at"] = Never]]
      /\ now' = now /\ now \in Nat /\ walk' = Noted
  BY DEF RestoreFile, InTrash, PagesInv, LibraryInv, Library
<1>2. /\ DOMAIN files' = DOMAIN files /\ files'[f].deleted_at = Never
      /\ files'[f].created_at = files[f].created_at
      /\ \A g \in DOMAIN files: g # f => files'[g] = files[g]
  <2>1. files[f] \in File
    BY <1>1 DEF PagesInv, LibraryInv, Library
  <2> QED
    BY <1>1, <2>1 DEF PagesInv, LibraryInv, Library, File
<1>3. Dated'
  BY <1>1, <1>2 DEF PagesInv, Dated, Never
<1>4. Agree
  BY <1>1, <1>2 DEF Agree
<1>5. LibraryInv'
  BY RestoreKeeps DEF PagesInv
<1> QED
  BY <1>1, <1>3, <1>4, <1>5, NotedKeeps

LEMMA ElapseNotes ==
  ASSUME PagesInv, Elapse
  PROVE  Dated' /\ WalkInv'
<1>1. files' = files /\ now' = now + 1 /\ now \in Nat /\ walk' = Noted
  BY DEF Elapse, Stamp, PagesInv, LibraryInv, Library
<1>2. \A g \in DOMAIN files: files[g].created_at \in Nat /\ files[g].deleted_at \in Nat
  BY DEF PagesInv, LibraryInv, Library, File
<1>3. Dated' /\ Agree
  BY <1>1, <1>2 DEF PagesInv, Dated, Agree
<1>4. LibraryInv'
  BY <1>1, OtherKeeps DEF PagesInv, Elapse
<1> QED
  BY <1>1, <1>3, <1>4, NotedKeeps

LEMMA CompleteNotes ==
  ASSUME PagesInv, NEW f \in Files, Complete(f)
  PROVE  Dated' /\ WalkInv'
<1>0. CASE NotCompleted(f)
  BY <1>0, SameKeeps DEF NotCompleted, PagesInv
<1> SUFFICES ASSUME NEW pc \in {"done", "error"}, Completes(f, pc) PROVE Dated' /\ WalkInv'
  BY <1>0, CompleteIs DEF PagesInv
<1>1. /\ upload[f].pc = "sending"
      /\ files' = Put(files, f, [name |-> AName, created_at |-> now, deleted_at |-> Never])
      /\ now' = now + 1 /\ now \in Nat /\ walk' = Noted
  BY DEF Completes, PagesInv, LibraryInv, Library
<1>2. f \notin DOMAIN files
  BY <1>1, SenderHasNoRow DEF PagesInv
<1>3. /\ DOMAIN files' = DOMAIN files \cup {f}
      /\ files'[f].created_at = now /\ files'[f].deleted_at = Never
      /\ \A g \in DOMAIN files: files'[g] = files[g]
  BY <1>1, <1>2 DEF Put
<1>4. \A g \in DOMAIN files: files[g].created_at \in Nat /\ files[g].deleted_at \in Nat
  BY DEF PagesInv, LibraryInv, Library, File
<1>5. Dated'
  <2>1. ASSUME NEW g \in DOMAIN files'
        PROVE  files'[g].created_at < now' /\ files'[g].deleted_at < now'
    BY <1>1, <1>3, <1>4 DEF PagesInv, Dated, Never
  <2>2. ASSUME NEW g \in DOMAIN files', NEW h \in DOMAIN files' \ {g}
        PROVE  /\ files'[g].created_at # files'[h].created_at
               /\ files'[g].deleted_at = files'[h].deleted_at => files'[g].deleted_at = Never
    <3>1. CASE g = f
      BY <1>1, <1>3, <1>4, <3>1 DEF PagesInv, Dated
    <3>2. CASE h = f
      BY <1>1, <1>3, <1>4, <3>2 DEF PagesInv, Dated
    <3>3. CASE g # f /\ h # f
      BY <1>3, <3>3 DEF PagesInv, Dated
    <3> QED
      BY <3>1, <3>2, <3>3
  <2> QED
    BY <1>1, <2>1, <2>2 DEF PagesInv, Dated
<1>6. Agree
  BY <1>3 DEF Agree
<1>7. LibraryInv'
  BY CompleteKeeps DEF PagesInv
<1> QED
  BY <1>1, <1>5, <1>6, <1>7, NotedKeeps

LEMMA RenameNotes ==
  ASSUME PagesInv, NEW f \in Files, NEW name \in Names, RenameFile(f, name)
  PROVE  Dated' /\ WalkInv'
<1>1. /\ f \in DOMAIN files /\ files' = [files EXCEPT ![f] = [files[f] EXCEPT !["name"] = name]]
      /\ now' = now /\ walk' = walk
  BY DEF RenameFile, IsLive
<1>2. files[f] \in File
  BY <1>1 DEF PagesInv, LibraryInv, Library
<1>3. /\ DOMAIN files' = DOMAIN files
      /\ \A g \in DOMAIN files: /\ files'[g].created_at = files[g].created_at
                                /\ files'[g].deleted_at = files[g].deleted_at
  BY <1>1, <1>2 DEF PagesInv, LibraryInv, Library, File
<1> QED
  BY <1>1, <1>3, SameKeeps DEF PagesInv

-----------------------------------------------------------------------------
LEMMA PagesInit == Init => PagesInv
<1> SUFFICES ASSUME Init PROVE PagesInv
  OBVIOUS
<1> DEFINE Place(f) == CHOOSE k \in DOMAIN Old: Old[k] = f
<1>1. Old \in Seq(Files) /\ Len(Old) \in Nat /\ DOMAIN Old = 1..Len(Old)
  BY LibraryAssumption
<1>2. \A f \in Range(Old): Place(f) \in DOMAIN Old /\ Old[Place(f)] = f
  <2> SUFFICES ASSUME NEW f \in Range(Old) PROVE Place(f) \in DOMAIN Old /\ Old[Place(f)] = f
    OBVIOUS
  <2>1. \E k \in DOMAIN Old: Old[k] = f
    BY DEF Range
  <2> QED
    BY <2>1
<1>3. /\ DOMAIN files = Range(Old) /\ now = Len(Old) + 1 /\ walk = NoWalk
      /\ \A f \in Range(Old): files[f].created_at = Place(f) /\ files[f].deleted_at = Never
  BY DEF Init
<1> HIDE DEF Place
<1>4. Dated
  <2>1. \A f \in Range(Old), g \in Range(Old): Place(f) = Place(g) => f = g
    BY <1>2
  <2> QED
    BY <1>1, <1>2, <1>3, <2>1 DEF Dated, Never
<1>5. WalkInv
  BY <1>3 DEF WalkInv, WalkTypes, WalkIsBounded, NoWalk
<1> QED
  BY <1>4, <1>5, LibraryInit DEF PagesInv

LEMMA PagesStep == PagesInv /\ [Next]_vars => PagesInv'
<1> SUFFICES ASSUME PagesInv, [Next]_vars PROVE Dated' /\ WalkInv'
  BY LibraryStep DEF PagesInv
<1>1. CASE now' = now /\ files' = files /\ walk' = walk
  BY <1>1, SameKeeps DEF PagesInv
<1>2. CASE Elapse \/ ListPage \/ \E list \in {"files", "trash"}: Open(list)
  BY <1>2, ElapseNotes, ListPageKeeps, OpenKeeps
<1>3. ASSUME NEW f \in Files,
             \/ DeleteFile(f) \/ RestoreFile(f) \/ Complete(f)
             \/ \E name \in Names: RenameFile(f, name)
      PROVE  Dated' /\ WalkInv'
  BY <1>3, DeleteNotes, RestoreNotes, CompleteNotes, RenameNotes
<1>4. ASSUME NEW f \in Files,
             \/ Prepare(f) \/ \E i \in Indices(f): PutChunk(f, i)
             \/ \E c \in Clients: GetFileMeta(c, f)
      PROVE  now' = now /\ files' = files /\ walk' = walk
  BY <1>4 DEF Prepare, PutChunk, GetFileMeta
<1>5. ASSUME NEW c \in Clients, DownloadChunk(c) \/ Save(c)
      PROVE  now' = now /\ files' = files /\ walk' = walk
  BY <1>5 DEF DownloadChunk, Save
<1>6. CASE UNCHANGED vars
  BY <1>1, <1>6 DEF vars
<1> QED
  BY <1>1, <1>2, <1>3, <1>4, <1>5, <1>6 DEF Next

\* A reader who pages through a list that changes misses no more of the rows
\* that stayed than left the list meanwhile, and sees no more rows twice than
\* joined it (list_files and list_trash, files.rs:345 and 496).
THEOREM EveryWalkIsBounded == Spec => []WalkIsBounded
<1>1. PagesInv => WalkIsBounded
  BY DEF PagesInv, WalkInv
<1> QED
  BY <1>1, PagesInit, PagesStep, PTL DEF Spec
=============================================================================
