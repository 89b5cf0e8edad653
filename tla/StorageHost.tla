----------------------------- MODULE StorageHost -----------------------------
(***************************************************************************)
(* The storage behind the servers: how a server loads the configured       *)
(* provider (build_storage_provider, on_load of the two plugins), the      *)
(* buckets it creates and lists, and the objects it keeps, with the        *)
(* multipart uploads of the StorageProvider trait.                         *)
(*                                                                         *)
(* All servers run with one configuration.  The plugins forward to OpenDAL *)
(* and to the S3 API, where one request reads or changes one object or one *)
(* bucket.  Nothing in the repository deletes a bucket.  Multipart uploads *)
(* have no caller in it either: an upload here has one caller, who awaits  *)
(* each operation, hands over the parts that were acknowledged in the      *)
(* order they were, and may try an operation that failed again.            *)
(***************************************************************************)
EXTENDS Naturals, Sequences, Functions

CONSTANTS Servers,
          Buckets,      \* names of buckets
          Active,       \* STORAGE_S3_BUCKET
          Keys,         \* names of objects
          Uploads,      \* multipart uploads
          Parts,        \* part numbers
          Failures      \* bound: requests to the backend that fail

\* No object has the name of a staging file.
ASSUME StorageAssumption ==
  /\ Active \in Buckets /\ Parts \subseteq Nat \ {0} /\ Failures \in Nat
  /\ Keys \cap (Keys \X Parts) = {}

VARIABLES kind,      \* STORAGE_PROVIDER
          keyed,     \* an access key is configured
          endpoint,  \* an endpoint is configured
          buckets,   \* buckets of the servers' account
          foreign,   \* buckets of other accounts, which share the name space
          granted,   \* the other accounts let this one into their buckets
          host,      \* host[s]: how far server s has come with its provider
          store,     \* objects and staging files, by name
          mp,        \* mp[u]: the multipart upload u
          failed     \* history: how many requests failed

config == <<kind, keyed, endpoint, granted>>
vars == <<config, buckets, foreign, host, store, mp, failed>>

\* Contents are sequences of pieces: one of a put, or parts of uploads.
Chunk == <<"chunk", 0>>
Piece == {Chunk} \cup (Uploads \X Parts)
Staging(k, n) == <<k, n>>
NotBegun == [pc |-> "no"]
Upload == [pc: {"open", "reading", "dropping", "broken", "aborted", "done"}, key: Keys, parts: Seq(Parts),
           todo: Seq(Parts), data: Seq(Piece), at: Servers \cup {"none"}, met: BOOLEAN]

Init ==
  /\ \/ kind = "local" /\ keyed = FALSE /\ endpoint = FALSE /\ granted = FALSE
        /\ buckets = {} /\ foreign = {}
     \/ kind = "s3" /\ keyed \in BOOLEAN /\ endpoint \in BOOLEAN /\ granted \in BOOLEAN
        /\ buckets \in SUBSET Buckets /\ foreign \in SUBSET (Buckets \ buckets)
  /\ host = [s \in Servers |-> "down"]
  /\ store = << >>
  /\ mp = [u \in Uploads |-> NotBegun]
  /\ failed = 0

Fail == failed < Failures /\ failed' = failed + 1

-----------------------------------------------------------------------------
(* A server starts. *)

\* LocalPlugin::on_load creates its root; S3Plugin::on_load lists the bucket.
Boot(s) ==
  /\ host[s] = "down"
  /\ \/ host' = [host EXCEPT ![s] = IF kind = "local" THEN "ready" ELSE "listing"] /\ UNCHANGED failed
     \/ host' = [host EXCEPT ![s] = "failed"] /\ Fail
  /\ UNCHANGED <<config, buckets, foreign, store, mp>>

\* operator.list("/") answers for these buckets; for another account's bucket
\* it is an error, and for a name nobody has it is NoSuchBucket.
Reachable == buckets \cup (IF granted THEN foreign ELSE {})

\* On NoSuchBucket the bucket is made, given a key pair.
ListRoot(s) ==
  /\ host[s] = "listing"
  /\ \/ /\ host' = [host EXCEPT ![s] =
             IF Active \in Reachable THEN "ready"
             ELSE IF Active \notin foreign /\ keyed THEN "creating" ELSE "failed"]
        /\ UNCHANGED failed
     \/ host' = [host EXCEPT ![s] = "failed"] /\ Fail
  /\ UNCHANGED <<config, buckets, foreign, store, mp>>

\* create_bucket of the plugin: 409 is taken for success, whether the bucket
\* is one's own by now (BucketAlreadyOwnedByYou) or another account's
\* (BucketAlreadyExists). A request that fails may have made the bucket. Two
\* bugs: 409 is an error; an error is only logged.
Made(b) == IF b \in foreign THEN buckets ELSE buckets \cup {b}
BugCreateAnswer == IF Active \in buckets THEN "failed" ELSE "verifying"
CreateAnswer == "verifying"
EnsureBucketExists(s) ==
  /\ host[s] = "creating"
  /\ \/ buckets' = Made(Active) /\ host' = [host EXCEPT ![s] = CreateAnswer] /\ UNCHANGED failed
     \/ buckets' \in {buckets, Made(Active)} /\ host' = [host EXCEPT ![s] = "failed"] /\ Fail
  /\ UNCHANGED <<config, foreign, store, mp>>

BugVerify(s) ==   \* takes the bucket for granted, and goes on without an answer
  /\ host[s] \in {"creating", "verifying"}
  /\ host' = [host EXCEPT ![s] = "ready"]
  /\ UNCHANGED <<config, buckets, foreign, store, mp, failed>>
Verify(s) ==
  /\ host[s] = "verifying"
  /\ \/ host' = [host EXCEPT ![s] = IF Active \in Reachable THEN "ready" ELSE "failed"] /\ UNCHANGED failed
     \/ host' = [host EXCEPT ![s] = "failed"] /\ Fail
  /\ UNCHANGED <<config, buckets, foreign, store, mp>>

\* The process ends, and the joining of parts with it; then it is started anew.
Joining(s) == {u \in Uploads: mp[u].pc \in {"reading", "dropping"} /\ mp[u].at = s}
Stop(s) ==
  /\ host[s] # "down"
  /\ Fail
  /\ host' = [host EXCEPT ![s] = "down"]
  /\ mp' = [u \in Uploads |-> IF u \in Joining(s)
                              THEN [mp[u] EXCEPT !.pc = "broken"] ELSE mp[u]]
  /\ UNCHANGED <<config, buckets, foreign, store>>

-----------------------------------------------------------------------------
(* Buckets and data sources of the API. *)

\* The requests of the API are signed with the configured key and go to the
\* configured endpoint, without the defaults of the plugin; lacking one of
\* them they are refused.
Manageable == kind = "s3" /\ keyed /\ endpoint

\* create_bucket: S3 only. A name that another account has answers 409, and
\* the handler answers that the bucket is created.
CreateBucket(s, b) ==
  /\ host[s] = "ready" /\ Manageable /\ Made(b) # buckets
  /\ buckets' = Made(b)
  /\ UNCHANGED <<config, foreign, host, store, mp, failed>>

\* Another account takes a name.
Taken(b) ==
  /\ kind = "s3" /\ b \notin buckets \cup foreign
  /\ foreign' = foreign \cup {b}
  /\ UNCHANGED <<config, buckets, host, store, mp, failed>>

\* list_datasources: the local root, then a row per bucket of the account; 500
\* when the buckets cannot be listed.
Row(b) == [name |-> b, status |-> IF b = Active THEN "configured" ELSE "available"]
CloudRows == IF buckets = {} THEN {[name |-> Active, status |-> "configured"]} ELSE {Row(b): b \in buckets}
ListDatasources ==
  IF kind = "s3" /\ ~Manageable THEN [code |-> 500, rows |-> {}]
  ELSE [code |-> 200, rows |-> {[name |-> "local", status |-> "available"]}
                               \cup (IF kind = "s3" THEN CloudRows ELSE {})]

-----------------------------------------------------------------------------
(* Objects. *)

Serving == \E s \in Servers: host[s] = "ready"
With(k, content) == [j \in DOMAIN store \cup {k} |-> IF j = k THEN content ELSE store[j]]
Without(k) == [j \in DOMAIN store \ {k} |-> store[j]]

Put(k) ==
  /\ Serving
  /\ store' = With(k, <<Chunk>>)
  /\ UNCHANGED <<config, buckets, foreign, host, mp, failed>>

Delete(k) ==
  /\ Serving
  /\ store' = Without(k)
  /\ UNCHANGED <<config, buckets, foreign, host, mp, failed>>

\* create_multipart makes a handle; met: another upload of the key is under way.
UnderWay(k) == {u \in Uploads: mp[u].pc \in {"open", "reading", "dropping", "broken"} /\ mp[u].key = k}
CreateMultipart(u, k) ==
  /\ Serving /\ mp[u].pc = "no"
  /\ mp' = [v \in Uploads |->
       IF v = u THEN [pc |-> "open", key |-> k, parts |-> << >>, todo |-> << >>, data |-> << >>,
                      at |-> "none", met |-> UnderWay(k) # {}]
       ELSE IF v \in UnderWay(k) THEN [mp[v] EXCEPT !.met = TRUE] ELSE mp[v]]
  /\ UNCHANGED <<config, buckets, foreign, host, store, failed>>

\* upload_part: a staging file under the object's name; the S3 plugin writes
\* the object itself.
BugPartAt(u, n) == Staging(mp[u].key, Len(mp[u].parts))   \* counts the parts from 0
PartAt(u, n) == IF kind = "local" THEN Staging(mp[u].key, n) ELSE mp[u].key
UploadPart(u, n) ==
  /\ Serving /\ mp[u].pc = "open" /\ n \notin Range(mp[u].parts)
  /\ \/ /\ store' = With(PartAt(u, n), << <<u, n>> >>)
        /\ mp' = [mp EXCEPT ![u].parts = Append(@, n)]
        /\ UNCHANGED failed
     \/ store' \in {store, With(PartAt(u, n), << <<u, n>> >>)} /\ Fail /\ UNCHANGED mp
  /\ UNCHANGED <<config, buckets, foreign, host>>

\* sort_by_key(part_number): no number comes twice.
Sorted(parts) ==
  CHOOSE s \in [1..Len(parts) -> Range(parts)]: \A i, j \in DOMAIN s: i < j => s[i] < s[j]

\* complete_multipart: nothing to do for the S3 plugin. The local one sorts the
\* parts, and reads and removes one staging file after the other.
BugByNumber(parts) == parts
ByNumber(parts) == Sorted(parts)
CompleteMultipart(s, u) ==
  /\ host[s] = "ready" /\ mp[u].pc \in {"open", "broken"} /\ mp[u].parts # << >>
  /\ mp' = [mp EXCEPT ![u] =
       IF kind = "s3" THEN [@ EXCEPT !.pc = "done"]
       ELSE [@ EXCEPT !.pc = "reading", !.at = s, !.todo = ByNumber(mp[u].parts), !.data = << >>]]
  /\ UNCHANGED <<config, buckets, foreign, host, store, failed>>

\* get: a staging file that is gone, or cannot be read, ends the call; the
\* caller tries to complete again, or aborts.
ReadPart(u) ==
  LET at == Staging(mp[u].key, Head(mp[u].todo)) IN
  /\ mp[u].pc = "reading" /\ mp[u].todo # << >>
  /\ \/ /\ at \in DOMAIN store
        /\ mp' = [mp EXCEPT ![u].data = @ \o store[at], ![u].pc = "dropping"]
        /\ UNCHANGED failed
     \/ at \notin DOMAIN store /\ mp' = [mp EXCEPT ![u].pc = "broken"] /\ UNCHANGED failed
     \/ mp' = [mp EXCEPT ![u].pc = "broken"] /\ Fail
  /\ UNCHANGED <<config, buckets, foreign, host, store>>

\* delete(..).ok(): a failure leaves the staging file.
DropPart(u) ==
  /\ mp[u].pc = "dropping"
  /\ mp' = [mp EXCEPT ![u].todo = Tail(@), ![u].pc = "reading"]
  /\ \/ store' = Without(Staging(mp[u].key, Head(mp[u].todo))) /\ UNCHANGED failed
     \/ UNCHANGED store /\ Fail
  /\ UNCHANGED <<config, buckets, foreign, host>>

\* The final put. It may have stored the object and fail all the same.
PutJoined(u) ==
  /\ mp[u].pc = "reading" /\ mp[u].todo = << >>
  /\ \/ store' = With(mp[u].key, mp[u].data) /\ mp' = [mp EXCEPT ![u].pc = "done"] /\ UNCHANGED failed
     \/ /\ store' \in {store, With(mp[u].key, mp[u].data)}
        /\ mp' = [mp EXCEPT ![u].pc = "broken"]
        /\ Fail
  /\ UNCHANGED <<config, buckets, foreign, host>>

\* abort_multipart deletes the object and leaves the staging files.
AbortMultipart(u) ==
  /\ Serving /\ mp[u].pc \in {"open", "broken"}
  /\ store' = Without(mp[u].key)
  /\ mp' = [mp EXCEPT ![u].pc = "aborted"]
  /\ UNCHANGED <<config, buckets, foreign, host, failed>>

Next ==
  \/ \E s \in Servers: \/ Boot(s) \/ ListRoot(s) \/ EnsureBucketExists(s) \/ Verify(s) \/ Stop(s)
                       \/ \E b \in Buckets: CreateBucket(s, b)
                       \/ \E u \in Uploads: CompleteMultipart(s, u)
  \/ \E b \in Buckets: Taken(b)
  \/ \E k \in Keys: Put(k) \/ Delete(k) \/ \E u \in Uploads: CreateMultipart(u, k)
  \/ \E u \in Uploads: \/ ReadPart(u) \/ DropPart(u) \/ PutJoined(u)
                       \/ AbortMultipart(u) \/ \E n \in Parts: UploadPart(u, n)

Spec == Init /\ [][Next]_vars

-----------------------------------------------------------------------------
TypeOK ==
  /\ kind \in {"local", "s3"} /\ failed \in 0..Failures
  /\ keyed \in BOOLEAN /\ endpoint \in BOOLEAN /\ granted \in BOOLEAN
  /\ buckets \subseteq Buckets /\ foreign \subseteq Buckets \ buckets
  /\ host \in [Servers -> {"down", "listing", "creating", "verifying", "ready", "failed"}]
  /\ DOMAIN store \subseteq Keys \cup (Keys \X Parts)
  /\ store \in [DOMAIN store -> Seq(Piece)]
  /\ mp \in [Uploads -> {NotBegun} \cup Upload]

\* Servers that start together on a cloud account without the bucket do not
\* get into each other's way: a server fails to start only when a request
\* failed, it had no key pair to make the bucket with, or the name is another
\* account's (bucket.rs:58).
StartTogether == \A s \in Servers: host[s] = "failed" => failed > 0 \/ ~keyed \/ Active \in foreign

\* A serving host has a bucket to serve from, and the data sources it answers
\* with have that bucket in them as the one that is configured
\* (storage.rs:187), if it is the account's own.
ActiveIsListed ==
  \A s \in Servers: host[s] = "ready" /\ kind = "s3" =>
    /\ Active \in Reachable
    /\ ListDatasources.code = 200 /\ Active \notin foreign =>
         {row \in ListDatasources.rows: row.status = "configured"} = {[name |-> Active, status |-> "configured"]}

\* An object that a multipart upload made of the local plugin has all its parts
\* in the order of their numbers, whatever order they came in, whatever failed
\* and was tried again and whatever earlier uploads of the key left behind. Two
\* uploads of one key at a time are excepted, as they share their staging files
\* (storage-local/lib.rs:218).
ObjectsAreWhole ==
  \A k \in Keys \cap DOMAIN store: \A u \in Uploads:
    kind = "local" /\ store[k][1] \in {u} \X Parts /\ ~mp[u].met =>
      store[k] = [i \in DOMAIN Sorted(mp[u].parts) |-> <<u, Sorted(mp[u].parts)[i]>>]
=============================================================================
