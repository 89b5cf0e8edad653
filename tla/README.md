# FreeBox: models, model checking and proofs

FreeBox stores end-to-end encrypted files.  A Rust server (axum, PostgreSQL)
keeps metadata and gives the ciphertext, chunk by chunk, to a storage plugin; a
web client (TypeScript) and a command line client (`fbx`) encrypt, upload and
download.  The modules here model the parts of that program whose correctness
depends on the order in which things happen.  Paths below are relative to the
repository.

Part 1 is the inventory, part 2 the plan, part 3 the models, part 4 the runs,
part 5 the proofs, part 6 what the models showed about the code, part 7 what is
left out.

## 1. Inventory

The server is `apps/server`, the clients `apps/web` and `apps/cli`, the shared
crates `packages/core` (plugin traits) and `packages/crypto`, the storage
backends `plugins/storage-local` and `plugins/storage-s3`.  Clients talk to the
server over HTTP only.  The server's handlers run concurrently on tokio and
share nothing but the PostgreSQL pool, the storage plugin and one rate limiter.
With one exception (`find_or_create_user`) the SQL statements of a handler are
not in a transaction, and a handler is dropped at its next await when its client
disconnects.  This is where most of the hard behaviour comes from.

| Component | State | Operations | What is hard | Correct when |
|---|---|---|---|---|
| Chunked upload and purge (`api/files.rs` upload handlers, `main.rs` purge) | tables `uploads`, `files`; blobs `chunks/<id>/<i>` | init, put chunk, complete; hourly purge of uploads over 24 h | handlers overlap with each other and with the purge; errors and crashes between statements; retries | a file has all its chunks, an acknowledged chunk is kept and counted, the purge takes only what was abandoned and all of it |
| Login sessions (`api/auth.rs`, web `lib/api/client.ts`, `AppLayout.tsx`) | table `refresh_tokens`; JWTs; `localStorage` shared by tabs; `refreshing`, `refreshFailedAt` of a tab | login, refresh with rotation, logout, authenticated calls, the two interceptors | calls and tabs refresh at once; lost answers; a refresh crossing a logout | one live refresh token per login, no needless loss of a session |
| OAuth accounts (`api/oauth.rs`) | tables `users`, `oauth_accounts`, `oauth_states`, `account_audit_events` | initiate, link, callback, find or create, reactivate, unlink | racing callbacks decide by unique keys and a transaction; checks made long before their use | nobody loses the last way in, nobody gets another's account, reactivation is in the window and audited |
| File library (`api/files.rs`, the rest; `UploadModal`, `FilesPage`, `TrashPage`, `crypto.ts`, `commands/upload.rs`, `download.rs`) | table `files`, blobs; what a client has sent, shown and downloaded | list, metadata, download, trash, restore, rename; the clients' parallel upload, pager and download | chunks sent in parallel and again; pages of a list that changes; a download of a file that is being deleted, from a storage that may answer with another object | done means downloadable, a saved download is the file, nothing comes back after 30 days, a pager loses nothing without cause |
| Rate limiter (`rate_limit.rs`) | one bucket of instants per client, behind a mutex | `enforce`, `allow` | the clock is read before the lock is taken; eviction at the bucket limit | a client gets `max_requests` in a window and no more, a pause ends every refusal, the table is bounded |
| Prekey directory (`api/keys.rs`, `keys.rs` of the crypto crate) | `prekey_bundles` (JSONB) | get, replenish, the bundle that comes with register | one-time keys handed out to several peers; no limit, no check for repeated ids | both sides of a conversation mean the same key |
| Key agreement and ratchet (`packages/crypto/src/signal.rs`) | two chains with counters per conversation | `x3dh_initiate`, `x3dh_respond`, seal, open | lost, reordered, repeated, reflected messages move the chains apart | both ends derive one secret, two conversations never do; a key seals one message; what opens is in order |
| Storage providers (`build_storage_provider`, `plugins/storage-local`, `plugins/storage-s3`, `api/storage.rs`) | buckets, objects, staging files of multipart uploads | start-up with creation of the bucket, create bucket, list data sources, put, delete, multipart | servers start at once; joining parts fails half-way and is tried again | a server starts unless something failed, a serving one lists its own bucket, a joined object has its parts in order |
| Command line client (`apps/cli`) | `session.json`, `config.toml` | register, login, logout, commands with one refresh and one retry, data sources | processes share two files that are emptied before they are written | the tokens on disk are those of the name on disk, nobody has to log in again because two processes refreshed, every command ends |
| File encryption (`packages/crypto/src/encryption.rs`, `keys.rs`) | none | encrypt, decrypt by chunks | truncation, chunk order | part of the file library |
| Plugin registry and event bus (`packages/core`) | list of plugins | register, load, unload, lookup | | has no caller |
| Server frame, deployment, rendering | none that changes | | | |

Interaction: the clients' refresh and retry loops drive the server's handlers;
the upload handlers, the purge and the library meet in the tables and in the
storage provider; OAuth callbacks, `login` and `register` all end in
`issue_token_pair`, where a session begins; the prekey directory feeds the key
agreement, which starts the two ends of a ratchet.

`PROJECT.json` lists every component with its status, and under `hazards` what
is hard to test in this code, at its line, with the property that covers it or
the reason why none does.

## 2. Plan

The order was: what loses data or locks people out first, then what protects
the server, then the cryptographic protocol, then the client.

| | Module | Proofs | Abstract specification |
|---|---|---|---|
| 1 | `ChunkedUpload` | `ChunkedUploadProofs` | `UploadPromise`, by `KeepsPromise`, which is proved |
| 2 | `WebSession` | `WebSessionProofs` | |
| 3 | `OAuthAccounts` | `OAuthAccountsProofs` | |
| 4 | `FileLibrary` | `FileLibraryProofs` | takes the server's side of an upload from `UploadPromise` |
| 5 | `RateLimiter` | `RateLimiterProofs` | |
| 6 | `KeyAgreement` | `KeyAgreementProofs`, which begins with the proofs about `Ratchet` | `Ratchet`, by `ImplementsRatchet`, which is proved |
| 7 | `StorageHost` | `StorageHostProofs` | |
| 8 | `Fbx` | `FbxProofs` | takes the server's side of a refresh from `WebSession` |

Each has an `MC` module and a configuration per run.  Every invariant,
action property and refinement that a run checks is now a theorem, under the conditions
part 5 names; only liveness is left to TLC.

## 3. The models

### Upload

`ChunkedUpload.tla` has one action for each SQL statement and each storage call:

| Action | Code |
|---|---|
| `UploadInit` | `upload_init`, `files.rs:147` |
| `PutSelect`, `PutExists`, `PutStore`, `PutCount` | `upload_chunk`: SELECT (197), `exists` (224), `put` (226), UPDATE (231) |
| `CompleteSelect`, `CompleteInsert`, `CompleteDelete` | `upload_complete`: SELECT (280), INSERT (310), best-effort DELETE (333) |
| `PurgeSelect`, `PurgeList`, `PurgeBlob`, `PurgeRow` | `purge_orphaned_uploads`, `main.rs:194` |
| `Abandon`, `Crash`, `Tick` | an early return or dropped handler, the death of the server, the clock |

A handler is a slot in `req` with a program counter; `purge` is the state of the
purge loop.  `uploads` is the set of rows, `row` their columns (kept after the
row is gone, so that properties can speak of it), `blobs` the keys in storage.
`acked`, `counted` and `sends` are history variables: no guard of the
code reads them, apart from the bound on `sends`.  A request the server refuses
changes nothing and is no action.  `blobs` has the keys that exist, whatever bytes are in
them: the local plugin creates the file when `put` begins and writes it in place, so
a send that is interrupted can tear the bytes of a chunk (part 6), but not remove its key.

`Overlap` says how clients behave.  FALSE: a chunk is not sent again while an
earlier send of it is in progress at the server, which is true of the command
line client (each chunk is sent once) and of the web client while its
connections are orderly.  TRUE: a client whose connection broke may resend (up
to three tries, `UploadModal.tsx`) while the server still works on the first.

`UploadPromise.tla` is the abstract specification, what a client may rely on, in
atomic steps: in 24 hours an upload only gathers chunks and becomes a file when
all are stored; later its chunks may go.  `KeepsPromise` says `ChunkedUpload`
implements it, with `phase`, `size`, `stored`, `old` as the refinement mapping.

### Session

`WebSession.tla` is one user in one browser against the server.  Token pairs are
numbered as the server issues them; `family` names the login a pair descends
from.  JavaScript runs from one await to the next without interruption, so an
action is such a stretch: `Begin` (a call starts; `logout` reads its refresh
token now), `Intercept` (request interceptor), `Unauthorized` (response
interceptor after a 401), `Refreshed` and `RefreshFailed` (the promise shared by
all waiting calls settles), `Succeed`, `NoAnswer`, `RefreshLost`.  `CircuitCloses`
is the end of the 10 s after a failed refresh.  On the server: `Serve`
(`require_auth`, then the handler; of the handlers only `logout` matters),
`RotateDelete` and `RotateInsert` (the two statements of `refresh`), `Lapse`.
`Older` ages a JWT to "near" (under 60 s) and to "expired".  A refresh that fails
makes `doRefresh` reject; whether the calls that wait read `localStorage` before
or after another of them cleared it depends on the order of their continuations,
so `RefreshFailed` allows both.  `used` (the tabs that made calls), `failed` (something
was lost or lapsed) and `revoked` are history: with them a property says under which
circumstances it promises what it does, and one run explores all of them.

### OAuth

`OAuthAccounts.tla`: an action is a SQL statement or the writes of a transaction
up to COMMIT.  Under READ COMMITTED, and with a unique index making a second
INSERT wait for the first transaction, that is what other requests can see.
`Callback` consumes the state token; a login goes `Lookup`, `LookupEmail`,
`Touch`/`Attach`/`Create`, `FetchLinked` after a conflict, `Issue`; a link goes
`LinkCheck`, `LinkInsert`, `Issue`; `UnlinkCount`, `UnlinkDelete` are
`unlink_provider`.  `EmailOf` gives the address of an identity, `Padded` the
identities whose address comes with blanks around it (the INSERT trims, the
SELECT does not).  `linked` is the history of links, `doubtful` that of users of whom
two unlink requests overlapped or one took two identities.  `UnlinkCount` takes the
SELECT of the password and the COUNT in one step: nothing sets or removes a
password, so the first commutes with everything in between.

### Library

`FileLibrary.tla` is the files table from the moment `/complete` has filled it, and
the clients around it.  `DeleteFile`, `RestoreFile`, `RenameFile` are the handlers
(one UPDATE each, whose WHERE clause is the guard); `Elapse` lets the 30 days pass.
`Prepare`, `PutChunk`, `Complete` are `uploadFile` of the web client, whose workers
send chunks in parallel and each up to `TRIES` times, and `upload_files` of the
command line client, which is the case of one worker; a request that fails may have stored the
chunk.  `GetFileMeta`, `DownloadChunk`, `Save` are a download: for each chunk the
row is looked up again, the storage answers with any object it holds or with an
error, and nothing is written before the last chunk has decrypted.  An `EncryptedChunk`
has an index, a nonce and a seal over key, nonce and part; `Decrypts` compares the
index with the one asked for and opens the seal with the nonce that came, as the code
does, and the storage may answer with another object or another index.  `Open`,
`ListPage` are a reader who pages through `list_files` or `list_trash`; `Noted`
records (history) what left and joined the list meanwhile.  The total comes with the rows
of the page and is 0 for an empty one, as in the code.

### Rate limiter

`RateLimiter.tla`: `Enforce` makes the key and reads the clock, `Allow` is everything
under the lock: pruning of all buckets by the reading of the call that holds it,
eviction of the least recently admitted key when the table is full, and the
decision.  `Tick` comes in between, so readings reach the lock out of order.
`admitted` and `evicted` are history.

### Key agreement and ratchet

`Ratchet.tla` is a `RatchetSession` at either end of a conversation: `Start`, `Seal`,
`Open`, `OpenDamaged`.  `wire` only grows: any message can be delivered to any end
at any time, which is loss, repetition, reordering, reflection and misdelivery.
A message key is the triple of secret, chain and position.  Its `Next` says what a
key agreement has to ensure: no end of another conversation has the secret.

`KeyAgreement.tla` makes those secrets.  `Register` and `ReplenishOneTime` fill the
bundle of one owner (the second appends without looking at what is there, and does
nothing for an account without a bundle), `GetBundle` downloads it, possibly with the
signed prekey of a stranger, and removes nothing.  `X3dhInitiate` verifies, takes the
first one-time key and derives, `X3dhRespond` derives from the id in the first message,
with any secret of that id.  A Diffie-Hellman output is the set of the two key pairs; the
verifying key with which the initiator multiplies is no key pair of the responder
(part 6).  `StartGiven` starts a session from a secret the ends have from elsewhere,
which is how a ratchet gets two ends that talk.  `ImplementsRatchet` is `R!Spec` of the
instance `R`.

### Storage

`StorageHost.tla`: `Boot`, `ListRoot`, `EnsureBucketExists`, `Verify` are `on_load` of the two plugins,
one request to the backend each, so that two servers interleave between them;
`Stop` ends a process and any joining it does.  `keyed`, `endpoint` and `granted` are the
configuration: a key pair, an endpoint, access to a bucket of another account;
`foreign` are the names others have, and `Taken` adds one.  `CreateBucket` and
`ListDatasources` are the bucket API, which needs the key and the endpoint (`Manageable`).
`Put`, `Delete` and the multipart actions are
the trait's methods: the local plugin joins staging files one by one (`ReadPart`,
`DropPart`, `PutJoined`), the S3 plugin's parts overwrite the object and its
completion does nothing.  Multipart methods have no caller in the repository; the
module says in its head what kind of caller it assumes.

### Command line client

`Fbx.tla`: a process runs a command, step by step.  `Login`, `LoginAnswer`;
`Logout`, `LogoutAnswer`, `Clear`; `Start`, `Request`, `Took`, `Refused`, `Renewed`, `Again` are
a command over `send_with_refresh` (upload goes without); `AddSource`, `RemoveSource`
change `config.toml`.  Saving a file is two steps (`Empty`, `Write` and
`EmptyConfig`, `WriteConfig`), since `std::fs::write` truncates first; two writers may leave a torn
file (`Written`).  `home` says whether `--server` points to the server of the session.
`Expire` ends a JWT at any moment; `Die` is a lost answer or a killed process.

## 4. The runs

Each passing run's properties have a mutant, a change of one mapped definition
as a plausible bug would make it (`Bug...` before the definition it changes),
with which TLC finds the property violated under the same bounds.

| Run | Properties | What it shows |
|---|---|---|
| `upload_retry` | `TypeOK`, `FilesAreWhole`, `NotMoreCompleteThanItIs`, `OwnerOnly`, `KeepsPromise`, `RequestsAreAnswered` | clients that do not overlap the sends of a chunk, any failures and crashes, the purge at work: a file is whole, the count is right, the handlers implement the promise, every request is answered |
| `upload_purge` | `AckedIsStored`, `YoungChunksStay`, `OldUploadsGo` | two uploads, overlapping sends, failing deletions and crashes: the purge spares what is younger than 24 hours and gets to all that is older |
| `web_session` | `TypeOK`, `NoTokenUsedTwice`, `OneLiveToken`, `SessionSurvives`, `CallsEnd` | two tabs, two logins, failures: one live token per login, every call ends; with one tab and no failure the shared refresh works as its comment says |
| `oauth_accounts` | `TypeOK`, `NobodyIsLockedOut`, `LoginsAreLinked`, `IdentitiesStay`, `FoundReactivations` | racing logins, links and unlinks, with accounts that are deleted and come back |
| `file_library` | `DownloadIsTheFile`, `DoneMeansWhole`, `WalkIsBounded`, `GoneIsGone` | an upload with parallel, failing and repeated sends beside deletes, restores, renames, a download and a reader who pages one row at a time |
| `rate_limiter` | `TypeOK`, `WindowLimit`, `RefusedOnlyWhenBusy`, `EvictsTheStalest` | readings that overtake each other on the way to the lock, a full table, all three kinds of key |
| `key_agreement` | `TypeOK`, `PartsAgree`, `KeySealsOnce`, `OpensInOrder`, `ImplementsRatchet` | two conversations with one owner over a supply that grows meanwhile, bundles that do not verify, and a network that does anything but forge |
| `storage_host` | `StartTogether`, `ActiveIsListed`, `ObjectsAreWhole` | two servers that start, stop and fail against one storage whose names others may take; two multipart uploads of one key |
| `fbx` | `TypeOK`, `SessionIsOfOne`, `NeverStranded`, `CommandsEnd` | two processes of two users over the same two files |

Three runs expect a violation; they are the findings of `PROJECT.json`:

| Run | Property | What breaks it |
|---|---|---|
| `upload_resent_twice` | `FilesAreWhole` | two overlapping sends of one chunk are counted twice |
| `upload_resume` | `AckedIsCounted` | the UPDATE fails once after the chunk is stored; no re-send is ever counted |
| `oauth_reactivation` | `ReactivationsAreInOrder` | the INSERT of a user revives a deleted account without window and audit event |

### Bounds

- Upload.  `MaxChunks`: two chunks tell "this chunk" from "another chunk"; one where
  only the purge or a single count is looked at.  `MaxSends` 2: a second send is a retry,
  a third repeats it.  Three handlers in `upload_retry`, so that two sends and a
  `/complete`, or sends of both chunks and a retry, run together.  There `Day` is 1 and
  `MaxTime` 2: the upload made at time 0 passes the 24 hours while requests are in
  progress.  In `upload_purge` `Day` is 0 and `MaxTime` 1: of two uploads both, one or none are
  past their day, so the batch has two rows or one, and one row of a batch may fail
  while the other goes.  `MaxTime` 0 in the two runs that expect a violation says that
  age plays no part in it; one handler and one chunk are enough in `upload_resume`.
- Session.  `MaxPairs` 5: two logins and three refreshes, which the two calls (`MaxCalls` 2)
  cannot exceed, so a refresh never waits at the bound; if it did, `CallsEnd` would
  fail.  `MaxAging` 1: the first pair may be near its end, which makes the client
  refresh before a call, or expired, which earns a 401.  Two slots: the calls overlap,
  in one tab or in two.
- OAuth.  Three identities, two at one provider and with one address, of which one comes
  with blanks, and one elsewhere without any; three users (for the address, for the
  identity without one, and one that a race could leave behind); three state tokens; two
  requests at a time, unlinks of one user included.  `CloseWindow` happens only while
  no request is in progress: a request goes by what it has read, one statement before
  its use.
- Library.  Two old files and a new one, `LIMIT` 1: a walk of three pages, with a row
  before, at and behind the reader's place.  Two of the files have two chunks:
  enough to mix them up in order and between files.  `TRIES` 2: a failure and a
  last one.  `RETENTION` 2, `MaxTime` 6: two stamps of earlier rows and three more steps of
  the clock, so that a file is trashed, restored, trashed again and runs out.  One
  downloading client: downloads share nothing.  One name: a rename changes the row, and
  no property speaks of what it says.
- Rate limiter.  Two calls in flight; a token, an address and the anonymous key, over
  a table of `MAX_BUCKETS` 2, so that the third evicts; `MAX_REQUESTS` 2 in a `WINDOW` 2;
  `MaxTime` 3: a window and one more tick.  `MaxAdmitted` 5: a bucket filled, pruned
  and filled again.
- Key agreement.  Two conversations, which may share a one-time key; batches of none
  and of two keys, `MaxUploads` 2 with `MAX_ONE_TIME_PREKEYS` 2: a replenished batch repeats
  ids and exceeds the limit of a bundle.  `MaxSealed` 2 and `MAX_CHAIN_LENGTH` 2: two
  messages of one chain, which is then exhausted, or of two.
- Storage.  Two servers; the configured bucket and another, each of which may be missing,
  the account's own or another's; one key, two uploads of
  it, two parts; `Failures` 2: one thing fails and so does its retry.
- `fbx`.  Two processes, two users, one data source, four commands: two logins and two
  commands that refresh.  `MaxPairs` 7: two logins, and a refresh per command in
  progress, with room to spare, so that no answer waits at the bound.  `MaxAging` 2: the first two pairs expire.
  `MaxRequests` 2: a request after one that was repeated.  `Failures` 1.

Symmetry is used over ids that nothing orders or names, and in no run with a
liveness property.  Deadlock is not checked: users may stop asking, or a bounded
clock or supply is used up, and then nothing is left to do.  That every request
and command ends is stated as liveness instead.

### Fairness

`upload_retry` and `upload_purge`: weak fairness of each handler's own steps and of the
purge loop: tokio polls a task that is ready, and the loop in `main.rs` ticks every
hour for as long as the server runs.  The server is started again after a crash
(`WF(Restart)`) and some day stays up (`<>[]up`), and a row that the purge tries to delete again and
again is deleted some time (`SF` of `PurgeRowGoes`): a database that fails every hour for
ever is no matter of the code.  Deletions of blobs may fail for ever: the loop goes on
to the row regardless.  Clients are not fair.

`web_session`: weak fairness of each call's and each tab's refresh steps: the
browser runs the continuations of settled promises, and the server answers or
the request is lost.  New calls, logins, the aging of JWTs, failures and the closing of
the circuit breaker are not fair.

`fbx`: weak fairness of each process's own steps (`Step`).  A process that runs goes
on, and a request is answered, with whatever status, or its failure ends the
command (`Die`).  Users, the expiry of JWTs and failures are not fair.

## 5. The proofs

TLAPS checks these for every value of the constants, from the named assumptions
on the constants only; a theorem that needs more says so in its statement.

| Module | Theorem | Says | Argument |
|---|---|---|---|
| `ChunkedUploadProofs` | `TypeCorrect` | `Spec => []TypeOK` | inductive as it stands |
| | `AcknowledgedStaysStored` | `Spec => []AckedIsStored` | `StorageInv`: what the purge holds is older than 24 hours (`PurgeTakesOld`), a handler about to count has stored (`CountsWhatIsStored`) |
| | `PurgeSparesYoungChunks` | `Spec => YoungChunksStay` | from `PurgeTakesOld` |
| | `SequentialClientsGetWholeFiles` | `~Overlap /\ Spec => []FilesAreWhole` | `CountingInv` |
| | `SequentialClientsCountRight` | the same for `NotMoreCompleteThanItIs` | `CountingInv` |
| | `HandlersKeepPromise` | `~Overlap /\ Spec => KeepsPromise` | `PromiseInv`, with `CountingInv` |
| | `UploadsHaveOneOwner` | `Spec => []OwnerOnly` | `OwnerInv` |
| | `AcknowledgedIsCounted` | `~Failures /\ Spec => []AckedIsCounted`, with overlapping sends | `OnTheWayInv` |
| `WebSessionProofs` | `SessionTypeCorrect` | `Spec => []TypeOK` | inductive as it stands |
| | `OneTokenPerLogin` | `Spec => []OneLiveToken` for any number of tabs and calls | `OneChain` |
| | `SingleTabUsesTokensOnce` | `Spec => []NoTokenUsedTwice`, with any number of tabs, logins, logouts and calls; the property speaks of the states up to which one tab made the calls and nothing failed | `ActiveTabs`, `UsedOnce`, with `OneChain` |
| | `SingleTabSessionSurvives` | `Spec => SessionSurvives`, likewise, while there is one login | `HoldsTheToken`, `IdleBeforeLogin`, with `OneChain` |
| `OAuthAccountsProofs` | `AccountsTypeCorrect` | `Spec => []TypeOK` | with `AccountsInv` |
| | `LoginsGetTheirOwnUser` | `Spec => []LoginsAreLinked`, with overlapping unlinks, deletions and any addresses | `AccountsInv` |
| | `IdentitiesAreNotTaken` | `Spec => IdentitiesStay`, likewise | from `TypeOK` |
| | `EveryUserCanLogIn` | `Spec => []NobodyIsLockedOut`, for all users but the `doubtful` | `LoginMethodsInv` |
| | `EveryFoundReactivationIsRecorded` | `Spec => FoundReactivations`, for every reactivation but by the INSERT | step by step, from `TypeOK` |
| `FileLibraryProofs` | `WhatIsGoneStaysGone` | `Spec => GoneIsGone` | `LibraryInv` |
| | `DoneIsWhole` | `Spec => []DoneMeansWhole` | `LibraryInv` |
| | `EveryDownloadIsTheFile` | `Spec => []DownloadIsTheFile` | `LibraryInv` |
| | `EveryWalkIsBounded` | `Spec => []WalkIsBounded`, for lists and pages of any length | `PagesInv` |
| `RateLimiterProofs` | `TableIsBounded` | `Spec => []TypeOK` | `LimiterInv` |
| | `PausesEndRefusal` | `Spec => RefusedOnlyWhenBusy` | `LimiterInv` |
| | `EvictionIsFair` | `Spec => EvictsTheStalest` | `LimiterInv` |
| | `LimitInAnyWindow` | `Spec => []WindowLimit`, for any number of calls in flight | `WindowInv`, with `LimiterInv` |
| `KeyAgreementProofs` | `RatchetTypeCorrect`, `EveryKeySealsOnce`, `EveryEndOpensInOrder` | the three invariants of `Ratchet`, for any conversations with distinct secrets | `RatchetInv` |
| | `AgreementImplementsRatchet` | `Spec => ImplementsRatchet` | `AgreementInv` |
| | `SidesAgreeInParts` | `Spec => []PartsAgree` | `AgreementInv` |
| | `EveryAgreedKeySealsOnce`, `EveryAgreedEndOpensInOrder`, `AgreementTypeCorrect` | what the run checks of the ratchet's promises, and `TypeOK` | the refinement, and the theorems about `Ratchet` |
| `StorageHostProofs` | `ServersStartTogether` | `Spec => []StartTogether` for any number of servers | `HostInv` |
| | `ActiveBucketIsListed` | `Spec => []ActiveIsListed` | `HostInv` |
| | `JoinedObjectsAreWhole` | `Spec => []ObjectsAreWhole`, for any uploads, keys, parts and failures | `ObjectsInv` |
| | `StorageTypeCorrect` | `Spec => []TypeOK` | `HostInv`, `ObjectsInv` |
| `FbxProofs` | `EverySessionIsOfOne` | `Spec => []SessionIsOfOne` | `FbxInv` |
| | `NobodyIsStranded` | `Spec => []NeverStranded` | `FbxInv` |
| | `FilesAreTyped` | `Spec => []TypeOK`, with it that `config.toml` has no source twice | `FbxInv`, `DetailsInv` |

`FilesAreWhole` is not inductive: that a file is whole when it is made follows
from `chunks_received`, so the invariant must say what that number counts.
`CountingInv` does: it equals the size of `counted`, a set of stored chunks
(`ReceivedIsCounted`); a handler that will count a chunk is the first
(`CountsNewChunk`) because it is alone on it (`AloneOnChunk`, the only place where
`~Overlap` is used); and a request past the check of `/complete`, like a file, has
all its chunks counted (`CompletesWhole`).  The last step, from "as many as the
total" to "all of them", is the lemma `AllOfThem` about finite sets of indices.
All parts speak of uploads younger than 24 hours, for the purge may take the
others; age only grows, and the columns of a row but the count do not change
(`RowsStay`).

The refinement of `UploadPromise` adds `PromiseInv`: an upload younger than 24 hours
still has its row or is a file, so the mapping never takes one for lost, and a
stored chunk is one of its upload.  Then `PutStore` is the promise's `Store`,
`CompleteInsert` its `Finish` (there `CountingInv` gives that all chunks are
stored), the purge its loss of old chunks and `Tick` its ageing; every other step
stutters (`StepKeepsPromise`).  `AckedIsCounted` allows overlapping sends, where
`CountingInv` fails, because two handlers may count one chunk.  Too high a count
does no harm to this property; what matters is that none is missing.
`OnTheWayInv` says so: a chunk that is stored or acknowledged is counted, or a
handler is about to count it, which without failures it will.

`OneLiveToken` is not inductive either: between its DELETE and its INSERT a refresh
holds no row but will make one.  `OneChain` adds that such a refresh stands for the
one token of its login.

While one tab makes the calls and nothing fails (`SingleTab`), the pair that tab presents
is accounted for (`Accounted`): the server accepts its refresh token, or a logout used
it up.  `UsedOnce` says the same of the pair a refresh was given and of the one in
`localStorage`, except for the pair that the refresh in flight is replacing; that it is
one pair is where `doRefresh` being shared counts, and `ActiveTabs` that no other tab has
a call or refresh under way.  `HoldsTheToken` says that what the tab holds is the one token
the server accepts, and that a refusal or an open circuit breaker comes only after the
server accepts none; `IdleBeforeLogin` that nothing happens before the first login.
Both conditions once false stay false (`StillSingle`, `StillOneLogin`), so the invariants need
say nothing after that.  Each is needed: two tabs hand in one token twice, a lost answer
leaves the old token in `localStorage`, and after a second login a late 401 of a call from
before it clears the new tokens.

The types of `OAuthAccounts` are not inductive alone: `oauth_accounts` may only
name users who exist, so a request about to link must act for one
(`UsersAreKnown`).  `LoginsAreLinked` needs that every row of `oauth_accounts`, and
the user that a login has found by its identity, are in the history of links
(`LinksAreRecorded`).  `AccountsInv` is both.

That nobody is locked out rests on what an unlink has counted being still there
when its DELETE runs.  `LoginMethodsInv` says that such a request finds a password
or an identity at another provider (`UnlinksLeaveOne`); nothing can take it away,
for only an unlink of the same user takes identities and another one makes the user
`doubtful` (`UnlinksAreApart`).  Part 6 has what happens to those.  A reactivation is the
step `Touch` or `Attach` of a login that finds the account not out of its window and writes
the event in the same transaction, or it is the INSERT of `Create`; that no other step
touches `deleted` is the proof of `FoundReactivations`.

`LibraryInv` says where things are: every stored object is the ciphertext of its
place, a chunk the client counts as sent is stored, and what a download has so far
are parts of its file, in their place if they came unchanged (`InPlace`).
`GoneIsGone` needs one more fact, that an upload
about to be completed has no row yet (the last part of `Library`); otherwise
`Complete` could put a live row in the place of one that has run out.

`PagesInv` is about a reader in the middle of a list.  The reader's place is an
offset: a row before it that leaves the list moves one row past the reader
unseen, and one that joins before it brings a row back.  `Bounded` says so of the
list as it is now: of the rows before the offset that stayed, the reader has missed
at most as many as left, and it has shown a row too often, or will because the row is again
ahead, at most as often as one joined.  It needs that no two rows have one stamp and
none is in the future (`Dated`), so that `ORDER BY` has one answer, and that there
are finitely many files.

`LimiterInv` ties the table to the history: every entry of a bucket is a reading
its key was admitted with.  The lemma `PrunedIsEnd`, that what pruning leaves is the end of
a bucket and begins with a reading in the window, carries all three theorems: a
refused call sees a bucket that was not empty after pruning.

`WindowLimit` counts admissions by their readings, which come to the lock out of
order: a call that waited can be admitted with an old reading when a newer call has
pruned the entries it should have counted with.  `WindowInv` follows this for each
beginning of a window.  Either all that was admitted in the window is still in
the bucket, hence at most `MAX_REQUESTS`; or some of it was pruned, then the window is
over, no further call can read it, and the admitted together with the calls that
still wait with a reading in it (`Late`) are within the limit.  The call that pruned is not one of
those that wait, hence `Calls` less one.  `CallsAssumption` says that the
connections are finitely many.

`RatchetInv` adds to `KeySealsOnce` that both ends use opposite chains, that secrets of
two conversations differ, and that everything on the wire was sealed below its
sender's count.  `AgreementInv` follows the one-time key from the bundle through
the download and the first message to the responder: the supply only grows, so the
key an initiator took is still a candidate at the owner, and the only one when ids
do not repeat; a conversation from a given secret has no other (`SidesDerive`).
That two conversations never get one secret, although nothing stops
them from using one one-time key, is the lemma `SecretsApart`: the first of the four outputs names
the initiator's key pair.  The refinement follows from it, and with it the
theorems about `Ratchet`, which are stated of the instance `R`, hold of the agreement.

`HostInv` says that a server that lists, creates or verifies has the S3 plugin, that
one which is ready reaches its bucket, and that one gives up only after a failure,
without keys or when the bucket is another account's; nothing removes a bucket.  `ObjectsInv` follows a
multipart upload of the local plugin: a part handed over is in its staging file or
has been removed (`Staged`), what `complete_multipart` has read are the first parts in the
order of their numbers and what is left are the others (`Joins`), an object that begins
with a part of an upload that met no other is that upload, joined and whole
(`WholeIfAlone`), and two uploads of a key that are under way have met (`Apart`).  It rests on the
assumption that no key is named like a staging file, which nothing in the plugin checks.

`NeverStranded` is not inductive: when a process writes `session.json`, nothing in
the property says that the pair it writes is still good.  `Private` does: a pair
about to be written is live, and no other process nor the disk has it, so nobody
can hand it in first.  `DetailsInv` adds what the type of `config.toml` needs: whatever a
process is about to write has no source twice (`Saves`), since `add` first drops the
source of that name (lemmas `WithoutIsList`, `AddedIsList`).

Only model-checked: liveness (`RequestsAreAnswered`, `OldUploadsGo`, `CallsEnd`,
`CommandsEnd`), which is beyond the prover.

## 6. What the models showed

Three runs show the program against what its documents say (the findings of
`PROJECT.json`):

- A chunk sent twice at once is counted twice, and `/complete` accepts a file that
  lacks another chunk (`upload_resent_twice`).
- A chunk stored but not counted (a failure between `put` and the UPDATE) can never be
  counted, since the retry finds it and is answered 204; `/complete` refuses the upload for
  good, although `files.rs:15` has "Can resume if interrupted" (`upload_resume`).
- A login whose profile gives an address with blanks, or whose account was deleted after it
  looked, comes to the INSERT, whose `ON CONFLICT` revives the account without a look at
  the window and without an audit event, although `docs/architecture.md:182` has "All
  reactivations are recorded" (`oauth_reactivation`).

The models also allow the following; the properties of the passing runs hold where
the circumstance that leads to it is absent, and that is how far each goes.

Uploads and files:

- The local storage plugin writes a chunk in place (`storage-local/lib.rs:131`): a send of
  a chunk that is there already and is interrupted leaves fewer or other bytes under a key that was
  acknowledged.  `AckedIsStored` speaks of the key, not of the bytes.
- A file whose upload row outlived the best-effort DELETE loses its chunks to the
  purge a day later.  A blob written after the purge listed its prefix stays for
  good.  A `/complete` just over 24 hours after its init races with the purge
  (`FinishOld` and `Lose` of `UploadPromise`).
- No job removes what is in the trash: after 30 days a file is only no longer shown,
  although `files.rs:494` and `547` and `remove.rs:16` of the command line client speak of
  a deletion.
- `decrypt_chunk` (and `crypto.ts`) compares the index asked for with the `index` field of
  the stored object, which nothing authenticates, and decrypts with the nonce that
  came, though `encryption.rs:10` and `149` say that the nonce embeds and binds the position: an
  object whose index is changed opens in another place of its file.  `DownloadIsTheFile`
  excepts objects that did not come as some client uploaded them.
- `list_files` reports a total of 0 for a page past the end (`files.rs:372`).  The
  `ls` of the command line client shows the newest 50 only.

Sessions and accounts:

- Two tabs log each other out, for each rotates the token the other holds; a logout
  with an aging JWT revokes the token that the rotation before it has already
  replaced, and the new one stays valid; a tab without a network, or a late 401 of a call
  from before a login, clears tokens that are still good; a refresh in flight during a
  logout writes its tokens after it.  `SessionSurvives` and `NoTokenUsedTwice` except them by
  `SingleTab` and `SingleLogin`.
- `refresh` deletes the old token and inserts the new one in two statements
  (`auth.rs:345`); a failure between them ends the session on every device that has it.
- `unlink_provider` says it "prevents unlinking the last authentication method"
  (`oauth.rs:1426`), but two unlinks at once lock a user out, and so does one that removes two
  identities at one provider: it counts rows and deletes by provider.  `NobodyIsLockedOut`
  excepts these users (`doubtful`), and says that nothing else locks anyone out.
- The command line client's `logout` posts to the server of the flag or the default, not to the session's,
  and with an expired JWT it gets a 401 it does not look at: the refresh token
  stays valid.  A refresh that ends after another process logged out writes
  `session.json` again.  A command that loads `session.json` while another process
  saves finds it empty.  Two processes that save at once may leave a file that cannot be
  parsed, and the user has to log in again; `NeverStranded` speaks of sessions that can
  be read.  `upload` does not refresh on a 401.
- `config.toml` is emptied and then written, and a file that cannot be parsed counts as the default: a
  process that adds a source meanwhile drops all others, and two that add at once
  keep one.

Keys and storage:

- `get_bundle` removes no one-time key, though `keys.rs:12` says so; `KeySealsOnce` holds
  all the same, since the ephemeral keys differ.  Replenishing does not look at the
  ids that are there; with a repeated id the two sides may take different one-time keys, which
  `PartsAgree` excepts.
- `x3dh_initiate` multiplies with the Ed25519 bytes of the bundle, `x3dh_respond` with an
  X25519 identity secret (`signal.rs:137`, and the note at `405`), so that for no bundle that
  verifies do the two sides derive the "identical shared secret" of `signal.rs:185`.
  `PartsAgree` says so: the second output never agrees, the others do.
- The bucket API signs with the configured key and endpoint only, without the defaults of the
  plugin: a server whose plugin found its key elsewhere serves, but lists its data sources with a
  500 (`storage.rs:69`).  `create_bucket` answers that a bucket is created when the name is
  another account's (`bucket.rs:56` takes every 409 for success).
- The S3 plugin's `upload_part` overwrites the object with each part and its
  `complete_multipart` does nothing, where `storage.rs:152` of the core crate
  promises to commit all parts.  In the local plugin two uploads of one key share their staging files,
  `abort_multipart` leaves them, and a `complete_multipart` that failed after it
  removed one cannot succeed when tried again.  Nothing calls these methods yet.

## 7. Not modelled

- The plugin registry and the event bus of `packages/core`: nothing in the repository
  builds a registry (`main.rs:106` loads the provider itself) or publishes an event.
  Read alone, `storage_provider` would return a plugin whose `on_load` failed.
- Configuration, error mapping, routing, health: no state that changes.
- Ciphers, key derivation, password hashing, JWT signatures, SigV4, the XML of bucket
  lists: data; where it matters, seals and Diffie-Hellman outputs are symbolic.
- `validate`, sizes and name checks: a refused request changes nothing.
- `head`, `get_range`, `presign_get` and the capability flags of the storage trait: they read,
  and have no caller.
- `sync`, `msg`, `mail` and `plugin` of the command line client: stubs.
- The web pages' rendering, the login forms, the command line's parsing and output.
- Read replicas, several server processes over one database: several processes
  behave like more handlers, except for the rate limiter, of which each has its own.
