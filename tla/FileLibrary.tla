----------------------------- MODULE FileLibrary -----------------------------
(***************************************************************************)
(* The library of one user after a file's upload: the handlers over the    *)
(* files table (files.rs from line 343 on), and the clients that fill it,  *)
(* page through it and download from it (UploadModal.tsx, FilesPage.tsx,   *)
(* crypto.ts, and upload.rs and download.rs of the command line client).   *)
(*                                                                         *)
(* The server's side of an upload is that of UploadPromise: a PUT stores a *)
(* chunk once, /complete inserts the row. NOW() grows with every statement *)
(* that stamps a row, so no two rows have one created_at or deleted_at.    *)
(* A chunk is sealed under the key of its file with its index as nonce and *)
(* opens under no other key and nonce; the stored object carries an index  *)
(* and a nonce beside it, which the seal does not cover.                   *)
(***************************************************************************)
EXTENDS Naturals, Sequences, FiniteSets, SequencesExt

CONSTANTS Files,        \* files the user uploads, in this or an earlier behaviour
          Old,          \* those that were in the library from the start, oldest first
          Chunks,       \* Chunks[f]: the number of 4 MiB pieces of f
          Clients,      \* windows and processes that download
          Names,        \* encrypted names
          LIMIT,        \* rows of a page (50)
          RETENTION,    \* how long the trash keeps a file (30 days)
          TRIES,        \* how often a chunk is sent (3)
          MaxTime       \* bound of the clock

ASSUME LibraryAssumption ==
  /\ IsFiniteSet(Files) /\ Old \in Seq(Files) /\ IsInjective(Old)
  /\ Chunks \in [Files -> Nat \ {0}] /\ Names # {}
  /\ LIMIT \in Nat \ {0} /\ RETENTION \in Nat \ {0} /\ TRIES \in Nat \ {0} /\ MaxTime \in Nat

VARIABLES now,       \* NOW() of the database
          files,     \* the rows of the table files, by id
          blobs,     \* blobs[f][i]: what the storage holds under chunks/f/i
          upload,    \* upload[f]: where the client that sends f is
          job,       \* job[c]: the download c is in, or has ended
          walk       \* one client's way through the pages of a list

vars == <<now, files, blobs, upload, job, walk>>

\* One more entry, or another value for the one there is.
Put(table, key, value) == [k \in DOMAIN table \cup {key} |-> IF k = key THEN value ELSE table[k]]

Never == 0      \* deleted_at IS NULL
File == [name: Names, created_at: Nat, deleted_at: Nat]
Indices(f) == 0..(Chunks[f] - 1)

\* encrypt_chunk: FileKey::generate makes one key per file.
Sealed == [key: Files, nonce: Nat, part: Files \X Nat]
Ciphertext == [index: Nat, nonce: Nat, sealed: Sealed]
EncryptChunk(f, i) ==
  [index |-> i, nonce |-> i, sealed |-> [key |-> f, nonce |-> i, part |-> <<f, i>>]]

\* decrypt_chunk: the caller says which index it wants; the nonce is taken as it
\* comes, and is not compared with the index.
Opens(f, chunk) == chunk.sealed.key = f /\ chunk.sealed.nonce = chunk.nonce
BugDecrypts(f, i, chunk) == Opens(f, chunk)
Decrypts(f, i, chunk) == chunk.index = i /\ Opens(f, chunk)

Stored == UNION {{<<f, i>>: i \in DOMAIN blobs[f]}: f \in Files}
NotSending == [pc |-> "no", sent |-> {}, tries |-> << >>]
NoJob == [pc |-> "no"]
NoWalk == [pc |-> "no"]

Init ==
  /\ now = Len(Old) + 1
  /\ files = [f \in Range(Old) |->
                [name |-> CHOOSE n \in Names: TRUE,
                 created_at |-> CHOOSE k \in DOMAIN Old: Old[k] = f, deleted_at |-> Never]]
  /\ blobs = [f \in Files |-> IF f \in Range(Old) THEN [i \in Indices(f) |-> EncryptChunk(f, i)] ELSE << >>]
  /\ upload = [f \in Files |-> NotSending]
  /\ job = [c \in Clients |-> NoJob]
  /\ walk = NoWalk

Stamp == now < MaxTime /\ now' = now + 1

-----------------------------------------------------------------------------
(* The rows a list shows, newest first, and what a walk through them must not lose. *)

\* deleted_at > NOW() - INTERVAL '30 days'
IsLive(rows, f) == f \in DOMAIN rows /\ rows[f].deleted_at = Never
InTrash(rows, t, f) == /\ f \in DOMAIN rows /\ rows[f].deleted_at # Never
                       /\ t < rows[f].deleted_at + RETENTION
Expired(f) == f \in DOMAIN files /\ ~IsLive(files, f) /\ ~InTrash(files, now, f)

Shown(list, rows, t) ==
  {f \in DOMAIN rows: IF list = "files" THEN IsLive(rows, f) ELSE InTrash(rows, t, f)}
Stamps(list) ==
  [f \in Shown(list, files, now) |-> IF list = "files" THEN files[f].created_at ELSE files[f].deleted_at]

\* ORDER BY created_at DESC, or deleted_at DESC.
NewestFirst(stamps) ==
  CHOOSE rows \in [1..Cardinality(DOMAIN stamps) -> DOMAIN stamps]:
    \A i, j \in DOMAIN rows: i < j => stamps[rows[i]] > stamps[rows[j]]
Rows(list) == NewestFirst(Stamps(list))

\* The table changes under a walk: which rows stayed, how many went and came.
Noted ==
  LET before == Shown(walk.list, files, now)
      after == Shown(walk.list, files', now')
  IN  IF walk.pc # "walking" THEN walk
      ELSE [walk EXCEPT !.stayed = @ \cap after,
                        !.gone = @ + Cardinality(before \ after),
                        !.come = @ + Cardinality(after \ before)]

\* FilesPage and TrashPage from their first page on.
Open(list) ==
  /\ walk = NoWalk
  /\ walk' = [pc |-> "walking", list |-> list, offset |-> 0, seen |-> << >>,
              stayed |-> Shown(list, files, now), gone |-> 0, come |-> 0]
  /\ UNCHANGED <<now, files, blobs, upload, job>>

\* list_files and list_trash: the page, and the total that the first row of the
\* page carries; there is no Next button when offset + LIMIT >= total.
PageOf(list, offset) == LET rows == Rows(list) IN SubSeq(rows, offset + 1, Min({offset + LIMIT, Len(rows)}))
TotalOf(list, offset) == IF PageOf(list, offset) = << >> THEN 0 ELSE Len(Rows(list))
BugNextOffset(w) == w.offset + LIMIT + 1
NextOffset(w) == w.offset + LIMIT
ListPage ==
  /\ walk.pc = "walking"
  /\ walk' = [walk EXCEPT !.seen = @ \o PageOf(walk.list, walk.offset),
                          !.offset = NextOffset(walk),
                          !.pc = IF walk.offset + LIMIT >= TotalOf(walk.list, walk.offset)
                                 THEN "end" ELSE "walking"]
  /\ UNCHANGED <<now, files, blobs, upload, job>>

-----------------------------------------------------------------------------
(* The handlers that change a row. *)

BugDeleteFile(f) ==   \* stamps a file again that is in the trash
  /\ f \in DOMAIN files
  /\ files' = [files EXCEPT ![f].deleted_at = now]
  /\ Stamp
  /\ walk' = Noted
  /\ UNCHANGED <<blobs, upload, job>>
DeleteFile(f) ==
  /\ IsLive(files, f)
  /\ files' = [files EXCEPT ![f].deleted_at = now]
  /\ Stamp
  /\ walk' = Noted
  /\ UNCHANGED <<blobs, upload, job>>

RestoreFile(f) ==
  /\ InTrash(files, now, f)
  /\ files' = [files EXCEPT ![f].deleted_at = Never]
  /\ UNCHANGED <<now, blobs, upload, job>>
  /\ walk' = Noted

RenameFile(f, name) ==
  /\ IsLive(files, f)
  /\ files' = [files EXCEPT ![f].name = name]
  /\ UNCHANGED <<now, blobs, upload, job, walk>>

\* Time passes: the trash forgets what is older than RETENTION.
Elapse == Stamp /\ UNCHANGED <<files, blobs, upload, job>> /\ walk' = Noted

-----------------------------------------------------------------------------
(* A client uploads: uploadFile of UploadModal, upload_files of the CLI. *)

\* prepareUpload and upload_init.
Prepare(f) ==
  /\ upload[f].pc = "no" /\ f \notin Range(Old)
  /\ upload' = [upload EXCEPT ![f] = [pc |-> "sending", sent |-> {}, tries |-> [i \in Indices(f) |-> 0]]]
  /\ UNCHANGED <<now, files, blobs, job, walk>>

\* A worker sends a chunk. The request may fail before or after the server has
\* stored it; after TRIES failures the upload is an error, while the workers of
\* its other chunks go on.
Storing(f, i) == [blobs EXCEPT ![f] = Put(@, i, EncryptChunk(f, i))]
PutChunk(f, i) ==
  /\ upload[f].pc \in {"sending", "error"}
  /\ i \notin upload[f].sent /\ upload[f].tries[i] < TRIES
  /\ \/ /\ blobs' = Storing(f, i)
        /\ upload' = [upload EXCEPT ![f].sent = @ \cup {i}]
     \/ /\ blobs' \in {blobs, Storing(f, i)}
        /\ upload' = [upload EXCEPT ![f].tries[i] = @ + 1,
                                    ![f].pc = IF upload[f].tries[i] + 1 = TRIES THEN "error" ELSE @]
  /\ UNCHANGED <<now, files, job, walk>>

\* uploadComplete, once Promise.all has every chunk; it may be refused or not
\* arrive, and its answer may get lost.
BugComplete(f) ==   \* no longer waits for the chunks that are on their way
  /\ upload[f].pc = "sending"
  /\ files' = Put(files, f, [name |-> CHOOSE n \in Names: TRUE, created_at |-> now, deleted_at |-> Never])
  /\ Stamp
  /\ upload' = [upload EXCEPT ![f].pc = "done"]
  /\ walk' = Noted
  /\ UNCHANGED <<blobs, job>>
Complete(f) ==
  /\ upload[f].pc = "sending" /\ upload[f].sent = Indices(f)
  /\ \/ /\ files' = Put(files, f, [name |-> CHOOSE n \in Names: TRUE, created_at |-> now, deleted_at |-> Never])
        /\ Stamp
        /\ \E pc \in {"done", "error"}: upload' = [upload EXCEPT ![f].pc = pc]
        /\ walk' = Noted
     \/ /\ upload' = [upload EXCEPT ![f].pc = "error"]
        /\ UNCHANGED <<now, files, walk>>
  /\ UNCHANGED <<blobs, job>>

-----------------------------------------------------------------------------
(* A client downloads: downloadAndDecrypt and download_file. *)

\* get_file_meta, or the row of a list that was fetched earlier; the number of
\* chunks and the key envelope never change, so a stale row serves as well.
GetFileMeta(c, f) ==
  /\ job[c].pc \in {"no", "saved"}
  /\ IsLive(files, f)
  /\ job' = [job EXCEPT ![c] = [pc |-> "loading", file |-> f, got |-> << >>]]
  /\ UNCHANGED <<now, files, blobs, upload, walk>>

\* download_chunk looks at the row again, then asks the storage, which may
\* answer with nothing, with another object than the one under the key, or with
\* one whose index was changed (a changed nonce or seal does not open); a chunk
\* that does not decrypt ends the download.
DownloadChunk(c) ==
  LET f == job[c].file
      i == Len(job[c].got)
  IN  /\ job[c].pc = "loading" /\ i < Chunks[f]
      /\ \/ /\ IsLive(files, f)
            /\ \E at \in Stored, index \in Indices(f):
                 LET chunk == [blobs[at[1]][at[2]] EXCEPT !.index = index]
                 IN  /\ Decrypts(f, i, chunk)
                     /\ job' = [job EXCEPT ![c].got = Append(@, chunk)]
         \/ job' = [job EXCEPT ![c] = NoJob]
      /\ UNCHANGED <<now, files, blobs, upload, walk>>

\* Only then is anything written.
Save(c) ==
  /\ job[c].pc = "loading" /\ Len(job[c].got) = Chunks[job[c].file]
  /\ job' = [job EXCEPT ![c].pc = "saved"]
  /\ UNCHANGED <<now, files, blobs, upload, walk>>

Next ==
  \/ Elapse
  \/ \E list \in {"files", "trash"}: Open(list)
  \/ ListPage
  \/ \E f \in Files: \/ DeleteFile(f) \/ RestoreFile(f) \/ Prepare(f) \/ Complete(f)
                     \/ \E name \in Names: RenameFile(f, name)
                     \/ \E i \in Indices(f): PutChunk(f, i)
                     \/ \E c \in Clients: GetFileMeta(c, f)
  \/ \E c \in Clients: DownloadChunk(c) \/ Save(c)

Spec == Init /\ [][Next]_vars

TypeOK == /\ now \in 1..MaxTime
          /\ DOMAIN files \subseteq Files /\ files \in [DOMAIN files -> File]
          /\ \A f \in Files: /\ DOMAIN blobs[f] \subseteq Indices(f)
                             /\ blobs[f] \in [DOMAIN blobs[f] -> Ciphertext]
                             /\ upload[f].sent \subseteq Indices(f)
          /\ \A c \in Clients: job[c] # NoJob => job[c].got \in Seq(Ciphertext)

-----------------------------------------------------------------------------
\* A part of f, and if it came as some client uploaded it, the part with index i.
InPlace(f, i, chunk) ==
  /\ chunk.sealed.part[1] = f
  /\ (\E g \in Files: \E j \in Indices(g): chunk = EncryptChunk(g, j)) => chunk.sealed.part = <<f, i>>

\* What a download writes is made of as many parts as the file has, all of them
\* its own, and every object that came as it was uploaded stands in its place,
\* even if the storage answers with another object than the one asked for, and
\* whatever happens to the row between two chunks (encryption.rs:156,
\* download.rs:111).  Nothing is said of an object whose index was changed: the
\* code opens it in the wrong place, since decrypt_chunk compares chunk.index and
\* not, as encryption.rs:149 has it, the embedded nonce.
DownloadIsTheFile ==
  \A c \in Clients: job[c].pc = "saved" =>
    /\ Len(job[c].got) = Chunks[job[c].file]
    /\ \A k \in DOMAIN job[c].got: InPlace(job[c].file, k - 1, job[c].got[k])

\* An upload the client calls done can be downloaded by everyone: the row is
\* there and every chunk, although chunks were sent in parallel, failed and
\* were sent again (UploadModal.tsx:96).
DoneMeansWhole ==
  \A f \in Files: upload[f].pc = "done" =>
    f \in DOMAIN files /\ blobs[f] = [i \in Indices(f) |-> EncryptChunk(f, i)]

\* Pages are cut from a list that changes under the reader. Of the rows that
\* were there all along the walk misses no more than left the list meanwhile,
\* and it shows no more rows twice than joined it (files.rs:361).
WalkIsBounded ==
  walk.pc = "end" =>
    /\ Cardinality(walk.stayed \ Range(walk.seen)) <= walk.gone
    /\ Len(walk.seen) <= Cardinality(Range(walk.seen)) + walk.come

\* A file whose time in the trash is over never comes back, not even by way of
\* another delete (files.rs:545).
GoneIsGone == [][\A f \in Files: Expired(f) => Expired(f)']_vars
=============================================================================
