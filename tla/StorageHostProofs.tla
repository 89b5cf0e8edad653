-------------------------- MODULE StorageHostProofs --------------------------
(***************************************************************************)
(* Proofs about StorageHost, for any servers, buckets, objects, uploads    *)
(* and failures: servers that start together do not hinder each other, a   *)
(* serving host lists its own bucket, and an object that a multipart       *)
(* upload made has all its parts in order.                                 *)
(***************************************************************************)
EXTENDS StorageHost, FiniteSetTheorems, SequenceTheorems, TLAPS

\* How far a server can be: it goes on only with a bucket, and gives up only
\* when a request failed or it has no key pair.
StartInv ==
  /\ failed \in Nat
  /\ \A s \in Servers:
       /\ host[s] \in {"listing", "creating", "verifying"} => kind = "s3"
       /\ host[s] = "failed" => failed > 0 \/ ~keyed \/ Active \in foreign
       /\ host[s] = "verifying" => Active \in buckets \cup foreign
       /\ host[s] = "ready" /\ kind = "s3" => Active \in Reachable

HostStates == {"down", "listing", "creating", "verifying", "ready", "failed"}
HostTypes == /\ kind \in {"local", "s3"}
             /\ keyed \in BOOLEAN /\ endpoint \in BOOLEAN /\ granted \in BOOLEAN
             /\ buckets \subseteq Buckets /\ foreign \subseteq Buckets \ buckets
             /\ host \in [Servers -> HostStates] /\ failed \in 0..Failures
HostInv == HostTypes /\ StartInv

\* A server goes from one state to the next, and a request that fails counts.
LEMMA ServerMoves ==
  ASSUME HostInv, NEW s \in Servers, NEW next \in HostStates,
         host' = [host EXCEPT ![s] = next],
         failed' \in {failed} \/ Fail, buckets' \in {buckets, Made(Active)},
         UNCHANGED <<config, foreign>>,
         next \in {"listing", "creating", "verifying"} => kind = "s3",
         next = "failed" => failed' > 0 \/ ~keyed \/ Active \in foreign,
         next = "verifying" => Active \in buckets' \cup foreign,
         next = "ready" /\ kind = "s3" => Active \in Reachable'
  PROVE  HostInv'
<1>1. /\ failed \in Nat /\ Failures \in Nat /\ Active \in Buckets
      /\ failed' \in 0..Failures /\ failed' >= failed
  BY StorageAssumption DEF HostInv, HostTypes, StartInv, Fail
<1>2. host' \in [Servers -> HostStates] /\ host'[s] = next /\ \A r \in Servers \ {s}: host'[r] = host[r]
  BY DEF HostInv, HostTypes
<1>a. /\ kind' = kind /\ keyed' = keyed /\ endpoint' = endpoint /\ granted' = granted
      /\ foreign' = foreign /\ buckets \subseteq buckets'
      /\ buckets' \subseteq Buckets /\ foreign \subseteq Buckets \ buckets'
  BY <1>1 DEF config, Made, HostInv, HostTypes
<1>3. HostTypes'
  BY <1>1, <1>2, <1>a DEF HostInv, HostTypes
<1>4. ASSUME NEW r \in Servers
      PROVE  /\ host'[r] \in {"listing", "creating", "verifying"} => kind = "s3"
             /\ host'[r] = "failed" => failed' > 0 \/ ~keyed \/ Active \in foreign
             /\ host'[r] = "verifying" => Active \in buckets' \cup foreign
             /\ host'[r] = "ready" /\ kind = "s3" => Active \in Reachable'
  <2>1. CASE r = s
    BY <1>2, <2>1
  <2>2. CASE r # s
    <3>1. /\ host[r] \in {"listing", "creating", "verifying"} => kind = "s3"
          /\ host[r] = "failed" => failed > 0 \/ ~keyed \/ Active \in foreign
          /\ host[r] = "verifying" => Active \in buckets \cup foreign
          /\ host[r] = "ready" /\ kind = "s3" => Active \in Reachable
      BY DEF HostInv, StartInv
    <3>2. Reachable \subseteq Reachable'
      BY <1>a DEF Reachable
    <3> QED
      BY <1>1, <1>2, <1>a, <2>2, <3>1, <3>2
  <2> QED
    BY <2>1, <2>2
<1> QED
  BY <1>1, <1>3, <1>4, <1>a DEF HostInv, StartInv

\* Steps of the objects.
LEMMA ServersStay ==
  ASSUME HostInv, UNCHANGED <<config, buckets, foreign, host>>, failed' = failed \/ Fail
  PROVE  HostInv'
<1>1. failed' \in 0..Failures /\ failed \in Nat /\ failed' \in Nat /\ failed' >= failed
  BY StorageAssumption DEF HostInv, HostTypes, StartInv, Fail
<1> QED
  BY <1>1 DEF config, HostInv, HostTypes, StartInv, Reachable

\* More buckets, of the account or of others, change nothing for the servers.
LEMMA BucketsGrow ==
  ASSUME HostInv, UNCHANGED <<config, host, failed>>,
         buckets \subseteq buckets', foreign \subseteq foreign',
         buckets' \subseteq Buckets, foreign' \subseteq Buckets \ buckets'
  PROVE  HostInv'
<1>1. /\ kind' = kind /\ keyed' = keyed /\ endpoint' = endpoint /\ granted' = granted
  BY DEF config
<1>2. Reachable \subseteq Reachable'
  BY <1>1 DEF Reachable
<1> QED
  BY <1>1, <1>2 DEF HostInv, HostTypes, StartInv

LEMMA StartingKeeps ==
  ASSUME HostInv, NEW s \in Servers,
         Boot(s) \/ ListRoot(s) \/ EnsureBucketExists(s) \/ Verify(s) \/ Stop(s)
  PROVE  HostInv'
<1>1. /\ failed \in Nat /\ Failures \in Nat /\ kind \in {"local", "s3"}
      /\ host[s] \in HostStates /\ UNCHANGED <<config, foreign>>
      /\ Fail => failed' > 0
      /\ host[s] \in {"listing", "creating", "verifying"} => kind = "s3"
      /\ host[s] = "verifying" => Active \in buckets \cup foreign
  BY StorageAssumption DEF HostInv, HostTypes, StartInv, Fail, Boot, ListRoot, EnsureBucketExists, Verify, Stop
<1>2. CASE Boot(s)
  <2>1. PICK next \in {"ready", "listing", "failed"}:
          /\ host' = [host EXCEPT ![s] = next]
          /\ next = "listing" => kind = "s3"
          /\ next = "ready" => kind = "local"
          /\ next = "failed" => Fail
          /\ failed' = failed \/ Fail
          /\ buckets' = buckets
    BY <1>1, <1>2 DEF Boot
  <2> QED
    BY <1>1, <2>1, ServerMoves DEF HostStates
<1>3. CASE ListRoot(s)
  <2>1. PICK next \in {"ready", "creating", "failed"}:
          /\ host' = [host EXCEPT ![s] = next]
          /\ next = "ready" => Active \in Reachable
          /\ next = "failed" => Fail \/ ~keyed \/ Active \in foreign
          /\ failed' = failed \/ Fail
          /\ buckets' = buckets
          /\ kind = "s3"
    BY <1>1, <1>3 DEF ListRoot
  <2>2. Reachable' = Reachable
    BY <1>1, <2>1 DEF Reachable, config
  <2> QED
    BY <1>1, <2>1, <2>2, ServerMoves DEF HostStates
<1>4. CASE EnsureBucketExists(s)
  <2>1. PICK next \in {"verifying", "failed"}:
          /\ host' = [host EXCEPT ![s] = next]
          /\ next = "verifying" => buckets' = Made(Active)
          /\ next = "failed" => Fail
          /\ failed' = failed \/ Fail
          /\ buckets' \in {buckets, Made(Active)}
          /\ kind = "s3"
    BY <1>1, <1>4 DEF EnsureBucketExists, CreateAnswer
  <2>2. Active \in Made(Active) \cup foreign
    BY DEF Made
  <2> QED
    BY <1>1, <2>1, <2>2, ServerMoves DEF HostStates
<1>5. CASE Verify(s)
  <2>1. PICK next \in {"ready", "failed"}:
          /\ host' = [host EXCEPT ![s] = next]
          /\ next = "ready" => Active \in Reachable
          /\ next = "failed" => Fail \/ Active \in foreign
          /\ failed' = failed \/ Fail
          /\ buckets' = buckets
    BY <1>1, <1>5 DEF Verify, Reachable
  <2>2. Reachable' = Reachable
    BY <1>1, <2>1 DEF Reachable, config
  <2> QED
    BY <1>1, <2>1, <2>2, ServerMoves DEF HostStates
<1>6. CASE Stop(s)
  <2>1. host' = [host EXCEPT ![s] = "down"] /\ Fail /\ buckets' = buckets
    BY <1>6 DEF Stop
  <2> QED
    BY <1>1, <2>1, ServerMoves DEF HostStates
<1> QED
  BY <1>2, <1>3, <1>4, <1>5, <1>6

LEMMA HostInit == Init => HostInv
<1> SUFFICES ASSUME Init PROVE HostInv
  OBVIOUS
<1>1. failed = 0 /\ 0 \in 0..Failures /\ host = [s \in Servers |-> "down"]
  BY StorageAssumption DEF Init
<1>2. kind \in {"local", "s3"} /\ buckets \subseteq Buckets /\ foreign \subseteq Buckets \ buckets
  BY DEF Init
<1>3. keyed \in BOOLEAN /\ endpoint \in BOOLEAN /\ granted \in BOOLEAN
  BY Zenon DEF Init
<1> QED
  BY <1>1, <1>2, <1>3 DEF HostInv, HostTypes, StartInv, HostStates

LEMMA HostStep == HostInv /\ [Next]_vars => HostInv'
<1> SUFFICES ASSUME HostInv, [Next]_vars PROVE HostInv'
  OBVIOUS
<1>1. CASE UNCHANGED vars
  BY <1>1, ServersStay DEF vars
<1>2. ASSUME NEW s \in Servers,
             Boot(s) \/ ListRoot(s) \/ EnsureBucketExists(s) \/ Verify(s) \/ Stop(s)
      PROVE  HostInv'
  BY <1>2, StartingKeeps
<1>3. ASSUME NEW s \in Servers, NEW b \in Buckets, CreateBucket(s, b)
      PROVE  HostInv'
  BY <1>3, BucketsGrow DEF CreateBucket, Made, HostInv, HostTypes
<1>a. ASSUME NEW b \in Buckets, Taken(b)
      PROVE  HostInv'
  BY <1>a, BucketsGrow DEF Taken, HostInv, HostTypes
<1>4. ASSUME NEW s \in Servers, NEW u \in Uploads, CompleteMultipart(s, u)
      PROVE  HostInv'
  BY <1>4, ServersStay DEF CompleteMultipart
<1>5. ASSUME NEW k \in Keys, Put(k) \/ Delete(k) \/ \E u \in Uploads: CreateMultipart(u, k)
      PROVE  HostInv'
  BY <1>5, ServersStay DEF Put, Delete, CreateMultipart
<1>6. ASSUME NEW u \in Uploads,
             \/ ReadPart(u) \/ DropPart(u) \/ PutJoined(u) \/ AbortMultipart(u)
             \/ \E n \in Parts: UploadPart(u, n)
      PROVE  HostInv'
  BY <1>6, ServersStay
     DEF ReadPart, DropPart, PutJoined, AbortMultipart, UploadPart
<1> QED
  BY <1>1, <1>2, <1>3, <1>a, <1>4, <1>5, <1>6 DEF Next

\* Whatever servers start together, restart and create buckets at a time, one
\* gives up only when a request failed, it has no key pair, or its bucket is
\* another account's (ensure_bucket_exists, bucket.rs:58).
THEOREM ServersStartTogether == Spec => []StartTogether
<1>1. HostInv => StartTogether
  BY DEF HostInv, StartInv, StartTogether
<1>2. Init => HostInv
  BY HostInit
<1>3. HostInv /\ [Next]_vars => HostInv'
  BY HostStep
<1> QED
  BY <1>1, <1>2, <1>3, PTL DEF Spec

\* A server that serves from a cloud account reaches its bucket, and when the
\* bucket is the account's own and the data sources can be listed, it lists it,
\* and only that, as the configured one (list_datasources, storage.rs:187).
THEOREM ActiveBucketIsListed == Spec => []ActiveIsListed
<1>1. HostInv => ActiveIsListed
  <2> SUFFICES ASSUME HostInv, NEW s \in Servers, host[s] = "ready", kind = "s3"
               PROVE  /\ Active \in Reachable
                      /\ ListDatasources.code = 200 /\ Active \notin foreign =>
                           {row \in ListDatasources.rows: row.status = "configured"}
                             = {[name |-> Active, status |-> "configured"]}
    BY DEF ActiveIsListed
  <2>1. Active \in Reachable
    BY DEF HostInv, StartInv
  <2>2. ASSUME ListDatasources.code = 200, Active \notin foreign
        PROVE  {row \in ListDatasources.rows: row.status = "configured"}
                 = {[name |-> Active, status |-> "configured"]}
    <3>1. Active \in buckets
      BY <2>1, <2>2 DEF Reachable
    <3>2. ListDatasources.rows
            = {[name |-> "local", status |-> "available"]} \cup {Row(b): b \in buckets}
      BY <2>2, <3>1 DEF ListDatasources, CloudRows
    <3>3. \A b \in buckets: Row(b).status = "configured" <=> b = Active
      BY DEF Row
    <3>4. Row(Active) = [name |-> Active, status |-> "configured"]
      BY DEF Row
    <3> QED
      BY <3>1, <3>2, <3>3, <3>4
  <2> QED
    BY <2>1, <2>2
<1>2. Init => HostInv
  BY HostInit
<1>3. HostInv /\ [Next]_vars => HostInv'
  BY HostStep
<1> QED
  BY <1>1, <1>2, <1>3, PTL DEF Spec

-----------------------------------------------------------------------------
(* Objects that are joined from parts. *)

\* How many of the numbers come up to n.
UpTo(D, n) == Cardinality({m \in D: m <= n})

LEMMA UpToCounts ==
  ASSUME NEW D, D \subseteq Nat, IsFiniteSet(D), NEW n \in D
  PROVE  /\ UpTo(D, n) \in 1..Cardinality(D)
         /\ \A m \in D: n < m => UpTo(D, n) < UpTo(D, m)
<1> DEFINE S(m) == {k \in D: k <= m}
<1>1. \A m \in D: /\ S(m) \subseteq D /\ m \in S(m) /\ IsFiniteSet(S(m)) /\ Cardinality(S(m)) \in Nat
                  /\ Cardinality(S(m)) <= Cardinality(D)
  <2>1. \A m \in D: S(m) \subseteq D /\ m \in S(m)
    OBVIOUS
  <2> HIDE DEF S
  <2> QED
    BY <2>1, FS_Subset, FS_CardinalityType
<1>2. ASSUME NEW m \in D, n < m
      PROVE  S(n) \subseteq S(m) /\ m \notin S(n)
  <2>1. \A k \in D: k <= n => k <= m /\ k # m
    <3>1. \A k \in D: k \in Nat
      OBVIOUS
    <3> QED
      BY <1>2, <3>1
  <2> QED
    BY <2>1
<1> HIDE DEF S
<1>3. Cardinality(S(n)) # 0
  BY <1>1, FS_EmptySet
<1>4. Cardinality(D) \in Nat
  BY FS_CardinalityType
<1>5. ASSUME NEW m \in D, n < m
      PROVE  Cardinality(S(n)) < Cardinality(S(m))
  <2>1. /\ Cardinality(S(n)) <= Cardinality(S(m))
        /\ Cardinality(S(m)) # Cardinality(S(n))
    BY <1>1, <1>2, <1>5, FS_Subset
  <2> QED
    BY <1>1, <2>1
<1> QED
  BY <1>1, <1>3, <1>4, <1>5 DEF UpTo, S

\* A finite set of numbers can be sorted.
LEMMA SortedExists ==
  ASSUME NEW D, D \subseteq Nat, IsFiniteSet(D)
  PROVE  \E s \in [1..Cardinality(D) -> D]: \A i, j \in DOMAIN s: i < j => s[i] < s[j]
<1> DEFINE N == Cardinality(D)
           place == [n \in D |-> UpTo(D, n)]
<1>1. N \in Nat /\ IsFiniteSet(1..N) /\ Cardinality(1..N) = N
  <2>1. N \in Nat
    BY FS_CardinalityType
  <2>2. IsFiniteSet(1..N) /\ Cardinality(1..N) = IF 1 > N THEN 0 ELSE N - 1 + 1
    BY <2>1, FS_Interval
  <2> QED
    BY <2>1, <2>2
<1>2. /\ place \in [D -> 1..N]
      /\ \A n, m \in D: n < m => place[n] < place[m]
  BY UpToCounts
<1> HIDE DEF place
<1>3. place \in Injection(D, 1..N)
  <2>1. ASSUME NEW n \in D, NEW m \in D, place[n] = place[m] PROVE n = m
    <3>1. ~(place[n] < place[m]) /\ ~(place[m] < place[n])
      BY <1>1, <1>2, <2>1
    <3>2. ~(n < m) /\ ~(m < n) /\ n \in Nat /\ m \in Nat
      BY <1>2, <3>1
    <3> QED
      BY <3>2
  <2> HIDE DEF N
  <2> QED
    BY <1>2, <2>1 DEF Injection, IsInjective
<1>4. \A i \in 1..N: \E n \in D: place[n] = i
  <2>1. place \in Surjection(D, 1..N)
    BY <1>1, <1>3, FS_Injection
  <2> QED
    BY <2>1 DEF Surjection
<1> HIDE DEF N
<1> DEFINE at == [i \in 1..N |-> CHOOSE n \in D: place[n] = i]
<1>5. \A i \in 1..N: at[i] \in D /\ place[at[i]] = i
  BY <1>4
<1>6. at \in [1..N -> D] /\ DOMAIN at = 1..N
  BY <1>4
<1> HIDE DEF at
<1>7. ASSUME NEW i \in 1..N, NEW j \in 1..N, i < j PROVE at[i] < at[j]
  <2>1. at[i] \in Nat /\ at[j] \in Nat /\ at[i] \in D /\ at[j] \in D /\ place[at[i]] = i /\ place[at[j]] = j
    BY <1>5
  <2>2. ~(at[j] < at[i])
    <3>1. at[j] < at[i] => place[at[j]] < place[at[i]]
      BY <1>2, <2>1
    <3>2. i \in Nat /\ j \in Nat
      BY <1>1
    <3> QED
      BY <1>7, <2>1, <3>1, <3>2
  <2>3. at[i] # at[j]
    BY <1>1, <1>7, <2>1
  <2> QED
    BY <2>1, <2>2, <2>3
<1> QED
  BY <1>6, <1>7 DEF N

\* A sequence of distinct part numbers can be sorted.
LEMMA SortedHoldsAll ==
  ASSUME NEW parts \in Seq(Parts), IsInjective(parts)
  PROVE  /\ Sorted(parts) \in Seq(Range(parts))
         /\ Len(Sorted(parts)) = Len(parts)
         /\ \A i, j \in 1..Len(parts): i < j => Sorted(parts)[i] < Sorted(parts)[j]
<1> DEFINE D == Range(parts)
           N == Len(parts)
           Ascends(r) == \A i, j \in DOMAIN r: i < j => r[i] < r[j]
<1>1. N \in Nat /\ DOMAIN parts = 1..N /\ D \subseteq Parts /\ D \subseteq Nat
  BY StorageAssumption DEF Range
<1>2. IsFiniteSet(D) /\ Cardinality(D) = N
  <2>1. parts \in Bijection(1..N, D)
    BY <1>1 DEF Range, IsInjective, Bijection, Injection, Surjection
  <2> HIDE DEF D, N
  <2>2. ExistsBijection(1..N, D)
    BY <2>1 DEF ExistsBijection
  <2> QED
    BY <1>1, <2>2, FS_CountingElements, FS_NatBijection
<1> HIDE DEF D, N
<1>3. Sorted(parts) \in [1..N -> D] /\ Ascends(Sorted(parts))
  <2>1. \E r \in [1..N -> D]: Ascends(r)
    BY <1>1, <1>2, SortedExists
  <2>2. Sorted(parts) = CHOOSE r \in [1..N -> D]: Ascends(r)
    BY DEF Sorted, N, D
  <2> HIDE DEF Ascends
  <2> QED
    BY <2>1, <2>2
<1> QED
  BY <1>1, <1>3 DEF D, N

\* The uploads that met another of their key, and those under way.
Met == {u \in Uploads: mp[u].pc # "no" /\ mp[u].met}
BusyStates == {"open", "reading", "dropping", "broken"}
JoinedStates == {"reading", "dropping", "broken", "aborted", "done"}

MpTypes ==
  /\ mp \in [Uploads -> {NotBegun} \cup Upload]
  /\ \A u \in Uploads: mp[u].pc # "no" => IsInjective(mp[u].parts)
  /\ \A u \in Uploads: mp[u].pc = "dropping" => mp[u].todo # << >>
StoreTypes == /\ DOMAIN store \subseteq Keys \cup (Keys \X Parts)
              /\ store \in [DOMAIN store -> Seq(Piece)]

\* Part n of upload u, or, if u met another, perhaps the other's.
PieceOf(met, u, n, piece) ==
  \E x \in Uploads: piece = <<x, n>> /\ (x = u \/ (u \in met /\ x \in met))

\* A part that u has handed over is in its staging file, or has been removed.
Staged(met, r, u, files_) ==
  r.pc \in BusyStates =>
    \A n \in Range(r.parts): <<r.key, n>> \in DOMAIN files_ =>
      \E piece: files_[<<r.key, n>>] = <<piece>> /\ PieceOf(met, u, n, piece)

\* What complete_multipart has read are the first parts, in the order of their
\* numbers, and what it has to do are the others.
Joins(met, r, u) ==
  r.pc \in {"reading", "dropping"} =>
    /\ r.parts # << >>
    /\ \E done \in 0..Len(Sorted(r.parts)):
         /\ r.todo = SubSeq(Sorted(r.parts), done + 1, Len(Sorted(r.parts)))
         /\ r.pc = "dropping" => done < Len(Sorted(r.parts))
         /\ Len(r.data) = IF r.pc = "dropping" THEN done + 1 ELSE done
         /\ \A i \in 1..Len(r.data): PieceOf(met, u, Sorted(r.parts)[i], r.data[i])

\* An object is not empty, and whole if it begins with a part of an upload that
\* met no other.
Whole(r, u) == [i \in DOMAIN Sorted(r.parts) |-> <<u, Sorted(r.parts)[i]>>]
WholeIfAlone(met, uploads, content) ==
  /\ content # << >>
  /\ \A u \in Uploads: content[1] \in {u} \X Parts =>
       u \in met \/ (uploads[u].pc \in JoinedStates /\ content = Whole(uploads[u], u))

\* Two uploads of a key that are under way have met.
Apart == \A u, v \in Uploads:
           u # v /\ mp[u].pc \in BusyStates /\ mp[v].pc \in BusyStates /\ mp[u].key = mp[v].key => u \in Met

ObjectTypes == MpTypes /\ StoreTypes
LocalInv ==
  /\ \A u \in Uploads: Staged(Met, mp[u], u, store) /\ Joins(Met, mp[u], u)
  /\ \A k \in Keys \cap DOMAIN store: WholeIfAlone(Met, mp, store[k])
  /\ Apart
ObjectsInv == ObjectTypes /\ (kind = "local" => LocalInv)

LEMMA Records ==
  ASSUME MpTypes, NEW u \in Uploads, mp[u].pc # "no"
  PROVE  /\ mp[u] \in Upload
         /\ mp[u].pc \in {"open", "reading", "dropping", "broken", "aborted", "done"}
         /\ mp[u].key \in Keys /\ mp[u].parts \in Seq(Parts) /\ mp[u].todo \in Seq(Parts)
         /\ mp[u].data \in Seq(Piece) /\ mp[u].at \in Servers \cup {"none"} /\ mp[u].met \in BOOLEAN
         /\ IsInjective(mp[u].parts)
<1>1. mp[u] # NotBegun
  BY DEF NotBegun
<1>2. mp[u] \in Upload
  BY <1>1 DEF MpTypes
<1> QED
  BY <1>2 DEF MpTypes, Upload

LEMMA PieceStays ==
  ASSUME NEW met, NEW more, met \subseteq more, NEW u, NEW n, NEW piece, PieceOf(met, u, n, piece)
  PROVE  PieceOf(more, u, n, piece)
BY DEF PieceOf

\* An upload that another step leaves alone.
Same(r, q) == q.pc = r.pc /\ q.key = r.key /\ q.parts = r.parts /\ q.todo = r.todo /\ q.data = r.data

LEMMA StagedStays ==
  ASSUME NEW met, NEW more, met \subseteq more, NEW u, NEW r, NEW q, q.key = r.key, q.parts = r.parts,
         q.pc \in BusyStates => r.pc \in BusyStates,
         NEW was, NEW is, Staged(met, r, u, was),
         \A n \in Range(r.parts): <<r.key, n>> \in DOMAIN is =>
            \/ <<r.key, n>> \in DOMAIN was /\ is[<<r.key, n>>] = was[<<r.key, n>>]
            \/ \E piece: is[<<r.key, n>>] = <<piece>> /\ PieceOf(more, u, n, piece)
  PROVE  Staged(more, q, u, is)
<1> SUFFICES ASSUME q.pc \in BusyStates, NEW n \in Range(r.parts), <<r.key, n>> \in DOMAIN is
             PROVE  \E piece: is[<<r.key, n>>] = <<piece>> /\ PieceOf(more, u, n, piece)
  BY DEF Staged
<1>1. CASE <<r.key, n>> \in DOMAIN was /\ is[<<r.key, n>>] = was[<<r.key, n>>]
  <2>1. PICK piece: was[<<r.key, n>>] = <<piece>> /\ PieceOf(met, u, n, piece)
    BY <1>1 DEF Staged
  <2> QED
    BY <1>1, <2>1, PieceStays
<1> QED
  BY <1>1

LEMMA JoiningStays ==
  ASSUME NEW met, NEW more, met \subseteq more, NEW u, NEW r, NEW q, Same(r, q), Joins(met, r, u)
  PROVE  Joins(more, q, u)
BY PieceStays DEF Joins, Same

\* No upload gets rid of having met another, nor of the parts it has joined.
Grows ==
  /\ Met \subseteq Met'
  /\ \A u \in Uploads:
       /\ mp[u].pc \in JoinedStates => mp'[u].pc \in JoinedStates /\ mp'[u].parts = mp[u].parts
       /\ mp'[u].pc \in BusyStates => mp[u].pc \in BusyStates /\ mp'[u].key = mp[u].key

LEMMA WholeStays ==
  ASSUME NEW content, WholeIfAlone(Met, mp, content), Met \subseteq Met',
         \A u \in Uploads: mp[u].pc \in JoinedStates =>
                             mp'[u].pc \in JoinedStates /\ mp'[u].parts = mp[u].parts
  PROVE  WholeIfAlone(Met', mp', content)
BY DEF WholeIfAlone, Whole

LEMMA ObjectsMove ==
  ASSUME ObjectsInv, ObjectTypes', kind' = kind, Grows,
         kind = "local" =>
           /\ \A u \in Uploads: Staged(Met', mp'[u], u, store') /\ Joins(Met', mp'[u], u)
           /\ \A k \in Keys \cap DOMAIN store': \/ k \in DOMAIN store /\ store'[k] = store[k]
                                                \/ WholeIfAlone(Met', mp', store'[k])
  PROVE  ObjectsInv'
<1> SUFFICES ASSUME kind = "local" PROVE LocalInv'
  BY DEF ObjectsInv
<1>1. LocalInv
  BY DEF ObjectsInv
<1>2. ASSUME NEW k \in Keys \cap DOMAIN store' PROVE WholeIfAlone(Met', mp', store'[k])
  BY <1>1, <1>2, WholeStays DEF LocalInv, Grows
<1>3. Apart'
  BY <1>1 DEF LocalInv, Apart, Grows
<1> QED
  BY <1>2, <1>3 DEF LocalInv

-----------------------------------------------------------------------------
(* The steps of the objects. *)

LEMMA OneMoves ==
  ASSUME ObjectTypes, NEW u \in Uploads, mp[u].pc # "no", NEW r \in Upload,
         mp' = [mp EXCEPT ![u] = r],
         r.key = mp[u].key, r.met = mp[u].met, IsInjective(r.parts), r.pc = "dropping" => r.todo # << >>,
         r.pc \in BusyStates => mp[u].pc \in BusyStates,
         mp[u].pc \in JoinedStates => r.pc \in JoinedStates /\ r.parts = mp[u].parts
  PROVE  /\ MpTypes' /\ Grows /\ Met' = Met
         /\ mp'[u] = r /\ \A v \in Uploads \ {u}: mp'[v] = mp[v]
<1>1. /\ mp'[u] = r /\ \A v \in Uploads \ {u}: mp'[v] = mp[v]
      /\ mp' \in [Uploads -> {NotBegun} \cup Upload]
  BY DEF ObjectTypes, MpTypes
<1>2. r.pc # "no"
  BY DEF Upload
<1>3. MpTypes'
  BY <1>1 DEF ObjectTypes, MpTypes
<1>4. Met' = Met
  BY <1>1, <1>2 DEF Met
<1>5. Grows
  BY <1>1, <1>4 DEF Grows
<1> QED
  BY <1>1, <1>3, <1>4, <1>5

\* What the other uploads have is in place after a step of u that leaves their
\* staging files, or removes some.
LEMMA OthersStay ==
  ASSUME LocalInv, ObjectTypes, NEW v \in Uploads, mp'[v] = mp[v], Met' = Met,
         \A n \in Parts: <<mp[v].key, n>> \in DOMAIN store' =>
            <<mp[v].key, n>> \in DOMAIN store /\ store'[<<mp[v].key, n>>] = store[<<mp[v].key, n>>]
  PROVE  Staged(Met', mp'[v], v, store') /\ Joins(Met', mp'[v], v)
<1>1. Staged(Met, mp[v], v, store) /\ Joins(Met, mp[v], v)
  BY DEF LocalInv
<1>2. Joins(Met', mp'[v], v)
  BY <1>1
<1>3. CASE mp[v].pc \in BusyStates
  <2>1. Range(mp[v].parts) \subseteq Parts
    BY <1>3, Records DEF BusyStates, ObjectTypes, Range
  <2> QED
    BY <1>1, <1>2, <2>1, StagedStays
<1>4. CASE mp[v].pc \notin BusyStates
  BY <1>2, <1>4 DEF Staged
<1> QED
  BY <1>3, <1>4

\* Objects are written and deleted beside the staging files.
LEMMA ObjectStep ==
  ASSUME ObjectsInv, NEW k \in Keys,
         \/ Put(k) \/ Delete(k)
  PROVE  ObjectsInv'
<1>1. mp' = mp /\ kind' = kind /\ Met' = Met /\ Grows /\ MpTypes' /\ ObjectTypes
  BY DEF config, Put, Delete, Met, Grows, ObjectsInv, ObjectTypes, MpTypes
<1>2. \A n \in Parts, j \in Keys: <<j, n>> # k
  BY StorageAssumption
<1>3. CASE Put(k)
  <2>1. store' = [j \in DOMAIN store \cup {k} |-> IF j = k THEN <<Chunk>> ELSE store[j]]
    BY <1>3 DEF Put, With
  <2>2. <<Chunk>> \in Seq(Piece)
    BY DEF Piece
  <2>3. StoreTypes'
    BY <1>1, <2>1, <2>2 DEF ObjectTypes, StoreTypes
  <2>4. WholeIfAlone(Met', mp', <<Chunk>>)
    <3>1. \A u \in Uploads: Chunk \notin {u} \X Parts
      BY StorageAssumption DEF Chunk
    <3> QED
      BY <3>1 DEF WholeIfAlone
  <2>5. ASSUME kind = "local"
        PROVE  /\ \A u \in Uploads: Staged(Met', mp'[u], u, store') /\ Joins(Met', mp'[u], u)
               /\ \A j \in Keys \cap DOMAIN store': \/ j \in DOMAIN store /\ store'[j] = store[j]
                                                    \/ WholeIfAlone(Met', mp', store'[j])
    <3>1. LocalInv
      BY <2>5 DEF ObjectsInv
    <3>2. ASSUME NEW u \in Uploads PROVE Staged(Met', mp'[u], u, store') /\ Joins(Met', mp'[u], u)
      <4>1. mp[u].pc \in BusyStates => mp[u].key \in Keys
        BY Records, <1>1 DEF BusyStates, ObjectTypes
      <4>2. Staged(Met, mp[u], u, store) /\ Joins(Met, mp[u], u)
        BY <3>1 DEF LocalInv
      <4>3. CASE mp[u].pc \in BusyStates
        BY <1>1, <1>2, <2>1, <3>1, <4>1, <4>3, OthersStay
      <4>4. CASE mp[u].pc \notin BusyStates
        BY <1>1, <4>2, <4>4 DEF Staged
      <4> QED
        BY <4>3, <4>4
    <3> QED
      BY <2>1, <2>4, <3>2
  <2> QED
    BY <1>1, <2>3, <2>5, ObjectsMove DEF ObjectTypes
<1>4. CASE Delete(k)
  <2>1. store' = [j \in DOMAIN store \ {k} |-> store[j]]
    BY <1>4 DEF Delete, Without
  <2>2. StoreTypes'
    BY <1>1, <2>1 DEF ObjectTypes, StoreTypes
  <2>3. ASSUME kind = "local", NEW u \in Uploads
        PROVE  Staged(Met', mp'[u], u, store') /\ Joins(Met', mp'[u], u)
    BY <1>1, <2>1, <2>3, OthersStay DEF ObjectsInv
  <2> QED
    BY <1>1, <2>1, <2>2, <2>3, ObjectsMove DEF ObjectTypes
<1> QED
  BY <1>3, <1>4

\* The steps of the servers and buckets, and the end of a process.
LEMMA BreakStep ==
  ASSUME ObjectsInv, NEW s \in Servers, Stop(s)
  PROVE  ObjectsInv'
<1> DEFINE J == Joining(s)
<1>1. /\ store' = store /\ kind' = kind
      /\ mp' = [u \in Uploads |-> IF u \in J THEN [mp[u] EXCEPT !.pc = "broken"] ELSE mp[u]]
  BY DEF config, Stop
<1>2. \A u \in J: u \in Uploads /\ mp[u].pc \in {"reading", "dropping"} /\ mp[u] \in Upload
  BY Records DEF Joining, ObjectsInv, ObjectTypes
<1>3. \A u \in Uploads: \/ u \notin J /\ mp'[u] = mp[u]
                        \/ /\ u \in J /\ mp'[u] \in Upload /\ mp'[u].pc = "broken"
                           /\ mp'[u].key = mp[u].key /\ mp'[u].parts = mp[u].parts /\ mp'[u].met = mp[u].met
  <2> HIDE DEF J
  <2> SUFFICES ASSUME NEW u \in Uploads
               PROVE  \/ u \notin J /\ mp'[u] = mp[u]
                      \/ /\ u \in J /\ mp'[u] \in Upload /\ mp'[u].pc = "broken"
                         /\ mp'[u].key = mp[u].key /\ mp'[u].parts = mp[u].parts /\ mp'[u].met = mp[u].met
    OBVIOUS
  <2>1. CASE u \notin J
    BY <1>1, <2>1
  <2>2. CASE u \in J
    <3>1. mp'[u] = [mp[u] EXCEPT !.pc = "broken"]
      BY <1>1, <2>2
    <3>2. mp[u] \in Upload
      BY <1>2, <2>2
    <3> QED
      BY <2>2, <3>1, <3>2 DEF Upload
  <2> QED
    BY <2>1, <2>2
<1> HIDE DEF J
<1>4. ObjectTypes'
  BY <1>1, <1>2, <1>3 DEF ObjectsInv, ObjectTypes, MpTypes, StoreTypes
<1>5. Met' = Met /\ Grows
  BY <1>2, <1>3 DEF Met, Grows, JoinedStates, BusyStates
<1>6. ASSUME kind = "local", NEW u \in Uploads
      PROVE  Staged(Met', mp'[u], u, store') /\ Joins(Met', mp'[u], u)
  <2>1. Staged(Met, mp[u], u, store) /\ Joins(Met, mp[u], u)
    BY <1>6 DEF ObjectsInv, LocalInv
  <2>2. CASE mp'[u] = mp[u]
    BY <1>1, <1>5, <2>1, <2>2
  <2>3. CASE u \in J /\ mp'[u].pc = "broken" /\ mp'[u].key = mp[u].key /\ mp'[u].parts = mp[u].parts
    <3>1. mp[u].pc \in BusyStates
      BY <1>2, <2>3 DEF BusyStates
    <3>2. Staged(Met', mp'[u], u, store')
      BY <1>1, <1>5, <2>1, <2>3, <3>1 DEF Staged
    <3>3. Joins(Met', mp'[u], u)
      BY <2>3 DEF Joins
    <3> QED
      BY <3>2, <3>3
  <2> QED
    BY <1>3, <2>2, <2>3
<1> QED
  BY <1>1, <1>4, <1>5, <1>6, ObjectsMove

\* A step of upload u, with what it does to the store.
LEMMA OneStep ==
  ASSUME ObjectsInv, NEW u \in Uploads, mp[u].pc # "no", NEW r \in Upload,
         mp' = [mp EXCEPT ![u] = r],
         r.key = mp[u].key, r.met = mp[u].met, IsInjective(r.parts), r.pc = "dropping" => r.todo # << >>,
         r.pc \in BusyStates => mp[u].pc \in BusyStates,
         mp[u].pc \in JoinedStates => r.pc \in JoinedStates /\ r.parts = mp[u].parts,
         StoreTypes', kind' = kind,
         kind = "local" =>
           /\ Staged(Met, r, u, store') /\ Joins(Met, r, u)
           /\ \A v \in Uploads \ {u}, n \in Parts:
                mp[v].pc \in BusyStates /\ <<mp[v].key, n>> \in DOMAIN store' =>
                  \/ <<mp[v].key, n>> \in DOMAIN store /\ store'[<<mp[v].key, n>>] = store[<<mp[v].key, n>>]
                  \/ \E piece: store'[<<mp[v].key, n>>] = <<piece>> /\ PieceOf(Met, v, n, piece)
           /\ \A k \in Keys \cap DOMAIN store': \/ k \in DOMAIN store /\ store'[k] = store[k]
                                                \/ WholeIfAlone(Met, mp', store'[k])
  PROVE  ObjectsInv'
<1>1. /\ MpTypes' /\ Grows /\ Met' = Met
      /\ mp'[u] = r /\ \A v \in Uploads \ {u}: mp'[v] = mp[v]
  BY OneMoves DEF ObjectsInv
<1>2. ObjectTypes' /\ ObjectTypes
  BY <1>1 DEF ObjectTypes, ObjectsInv
<1>3. ASSUME kind = "local", NEW v \in Uploads \ {u}
      PROVE  Staged(Met', mp'[v], v, store') /\ Joins(Met', mp'[v], v)
  <2>1. Staged(Met, mp[v], v, store) /\ Joins(Met, mp[v], v) /\ mp'[v] = mp[v]
    BY <1>1, <1>3 DEF LocalInv, ObjectsInv
  <2>2. CASE mp[v].pc \in BusyStates
    <3>1. Range(mp[v].parts) \subseteq Parts
      BY <1>2, <2>2, Records DEF BusyStates, ObjectTypes, Range
    <3>2. Staged(Met, mp[v], v, store')
      BY <1>3, <2>1, <2>2, <3>1, StagedStays
    <3> QED
      BY <1>1, <2>1, <3>2
  <2>3. CASE mp[v].pc \notin BusyStates
    BY <1>1, <2>1, <2>3 DEF Staged
  <2> QED
    BY <2>2, <2>3
<1>4. ASSUME kind = "local", NEW v \in Uploads
      PROVE  Staged(Met', mp'[v], v, store') /\ Joins(Met', mp'[v], v)
  BY <1>1, <1>3, <1>4
<1>5. ASSUME kind = "local", NEW k \in Keys \cap DOMAIN store'
      PROVE  \/ k \in DOMAIN store /\ store'[k] = store[k]
             \/ WholeIfAlone(Met', mp', store'[k])
  BY <1>1, <1>5
<1> QED
  BY <1>2, <1>1, <1>4, <1>5, ObjectsMove

\* A caller begins an upload.
LEMMA BeginStep ==
  ASSUME ObjectsInv, NEW u \in Uploads, NEW k \in Keys, CreateMultipart(u, k)
  PROVE  ObjectsInv'
<1> DEFINE begun == [pc |-> "open", key |-> k, parts |-> << >>, todo |-> << >>, data |-> << >>,
                     at |-> "none", met |-> UnderWay(k) # {}]
<1>1. /\ ObjectTypes /\ MpTypes /\ mp[u].pc = "no" /\ kind' = kind /\ store' = store
      /\ mp' = [v \in Uploads |-> IF v = u THEN begun
                                  ELSE IF v \in UnderWay(k) THEN [mp[v] EXCEPT !.met = TRUE] ELSE mp[v]]
  BY DEF config, CreateMultipart, ObjectsInv, ObjectTypes
<1>2. begun \in Upload /\ IsInjective(<< >>) /\ Range(<< >>) = {}
  <2>1. << >> \in Seq(Parts) /\ << >> \in Seq(Piece) /\ (UnderWay(k) # {}) \in BOOLEAN
    OBVIOUS
  <2>2. begun \in Upload
    BY <2>1, Zenon DEF Upload
  <2> QED
    BY <2>2 DEF IsInjective, Range
<1>3. /\ begun.pc = "open" /\ begun.key = k /\ begun.parts = << >>
      /\ begun.met <=> UnderWay(k) # {}
  OBVIOUS
<1> HIDE DEF begun
<1>4. ASSUME NEW v \in Uploads \ {u}
      PROVE  /\ Same(mp[v], mp'[v]) /\ mp'[v] \in {NotBegun} \cup Upload
             /\ mp[v].pc # "no" /\ mp[v].met => mp'[v].met
             /\ v \in UnderWay(k) => mp'[v].met /\ mp'[v].pc # "no"
  <2>1. CASE v \in UnderWay(k)
    <3>1. mp[v] \in Upload
      BY <1>1, <2>1, Records DEF UnderWay
    <3>2. mp'[v] = [mp[v] EXCEPT !.met = TRUE]
      BY <1>1, <2>1, <1>4
    <3>3. mp'[v] \in Upload /\ mp'[v].met = TRUE /\ Same(mp[v], mp'[v])
      BY <3>1, <3>2 DEF Upload, Same
    <3>4. mp'[v].pc # "no"
      BY <3>3 DEF Upload
    <3> QED
      BY <3>3, <3>4
  <2>2. CASE v \notin UnderWay(k)
    BY <1>1, <2>2, <1>4 DEF Same, MpTypes
  <2> QED
    BY <2>1, <2>2
<1>5. mp'[u] = begun
  BY <1>1
<1>6. ObjectTypes'
  <2>1. mp' \in [Uploads -> {NotBegun} \cup Upload]
    <3>1. mp' = [v \in Uploads |-> mp'[v]]
      BY <1>1
    <3>2. \A v \in Uploads: mp'[v] \in {NotBegun} \cup Upload
      BY <1>2, <1>4, <1>5
    <3> QED
      BY <3>1, <3>2
  <2>2. \A v \in Uploads: /\ mp'[v].pc # "no" => IsInjective(mp'[v].parts)
                          /\ mp'[v].pc = "dropping" => mp'[v].todo # << >>
    BY <1>1, <1>2, <1>3, <1>4, <1>5 DEF Same, MpTypes
  <2> QED
    BY <1>1, <2>1, <2>2 DEF ObjectTypes, MpTypes, StoreTypes
<1>7. Met \subseteq Met' /\ u \notin Met
  BY <1>1, <1>4 DEF Met, Same
<1> SUFFICES ASSUME kind = "local" PROVE LocalInv'
  BY <1>1, <1>6 DEF ObjectsInv
<1>8. LocalInv
  BY DEF ObjectsInv
<1>9. ASSUME NEW v \in Uploads PROVE Staged(Met', mp'[v], v, store') /\ Joins(Met', mp'[v], v)
  <2>1. CASE v = u
    BY <1>2, <1>3, <1>5, <2>1 DEF Staged, Joins
  <2>2. CASE v # u
    <3>1. Staged(Met, mp[v], v, store) /\ Joins(Met, mp[v], v) /\ Same(mp[v], mp'[v])
      BY <1>4, <1>8, <2>2 DEF LocalInv
    <3>2. Joins(Met', mp'[v], v)
      BY <1>7, <3>1, JoiningStays
    <3>3. Staged(Met', mp'[v], v, store')
      <4>1. mp'[v].key = mp[v].key /\ mp'[v].parts = mp[v].parts /\ mp'[v].pc = mp[v].pc
        BY <3>1 DEF Same
      <4>2. Staged(Met', mp'[v], v, store)
        BY <1>7, <3>1, <4>1, StagedStays
      <4> QED
        BY <1>1, <4>2
    <3> QED
      BY <3>2, <3>3
  <2> QED
    BY <2>1, <2>2
<1>10. ASSUME NEW j \in Keys \cap DOMAIN store' PROVE WholeIfAlone(Met', mp', store'[j])
  <2>1. WholeIfAlone(Met, mp, store[j])
    BY <1>1, <1>8 DEF LocalInv
  <2>2. \A v \in Uploads: mp[v].pc \in JoinedStates =>
                            mp'[v].pc \in JoinedStates /\ mp'[v].parts = mp[v].parts
    BY <1>1, <1>4 DEF Same, JoinedStates
  <2> QED
    BY <1>1, <1>7, <2>1, <2>2, WholeStays
<1>11. Apart'
  <2> SUFFICES ASSUME NEW v \in Uploads, NEW w \in Uploads, v # w,
                      mp'[v].pc \in BusyStates, mp'[w].pc \in BusyStates, mp'[v].key = mp'[w].key
               PROVE  v \in Met'
    BY DEF Apart
  <2>1. \A x \in Uploads \ {u}: mp'[x].pc \in BusyStates /\ mp'[x].key = k => x \in UnderWay(k)
    BY <1>4 DEF Same, UnderWay, BusyStates
  <2>2. CASE v = u
    BY <1>3, <1>5, <2>1, <2>2 DEF Met, BusyStates
  <2>3. CASE w = u
    BY <1>3, <1>4, <1>5, <2>1, <2>3 DEF Met
  <2>4. CASE v # u /\ w # u
    BY <1>4, <1>7, <1>8, <2>4 DEF Same, LocalInv, Apart
  <2> QED
    BY <2>2, <2>3, <2>4
<1> QED
  BY <1>9, <1>10, <1>11 DEF LocalInv

\* A part is written: to its staging file, or to the object. Uploads that share
\* the file have met.
LEMMA PartStep ==
  ASSUME ObjectsInv, NEW u \in Uploads, NEW n \in Parts, UploadPart(u, n)
  PROVE  ObjectsInv'
<1> DEFINE at == PartAt(u, n)
           file == <<mp[u].key, n>>
<1>1. /\ ObjectTypes /\ MpTypes /\ mp[u].pc = "open" /\ kind' = kind /\ n \notin Range(mp[u].parts)
      /\ mp[u] \in Upload /\ mp[u].key \in Keys /\ mp[u].parts \in Seq(Parts) /\ IsInjective(mp[u].parts)
  BY Records DEF config, UploadPart, ObjectsInv, ObjectTypes, Range, Range
<1>2. at \in {mp[u].key, file} /\ (kind = "local" => at = file)
  BY DEF PartAt, Staging
<1>3. \/ store' = store
      \/ store' = [j \in DOMAIN store \cup {at} |-> IF j = at THEN << <<u, n>> >> ELSE store[j]]
  BY DEF UploadPart, With
<1> HIDE DEF at
<1>4. StoreTypes'
  <2>1. << <<u, n>> >> \in Seq(Piece)
    BY DEF Piece
  <2>2. at \in Keys \cup (Keys \X Parts)
    BY <1>1, <1>2
  <2>3. DOMAIN store \subseteq Keys \cup (Keys \X Parts) /\ store \in [DOMAIN store -> Seq(Piece)]
    BY <1>1 DEF StoreTypes, ObjectTypes
  <2>4. CASE store' = store
    BY <2>3, <2>4 DEF StoreTypes
  <2>5. CASE store' = [j \in DOMAIN store \cup {at} |-> IF j = at THEN << <<u, n>> >> ELSE store[j]]
    <3>1. DOMAIN store' = DOMAIN store \cup {at}
      BY <2>5
    <3>2. store' \in [DOMAIN store' -> Seq(Piece)]
      BY <2>1, <2>3, <2>5
    <3> QED
      BY <2>2, <2>3, <3>1, <3>2 DEF StoreTypes
  <2> QED
    BY <1>3, <2>4, <2>5
<1> DEFINE r == [mp[u] EXCEPT !.parts = Append(@, n)]
<1>5. /\ r \in Upload /\ r.pc = "open" /\ r.key = mp[u].key /\ r.met = mp[u].met
      /\ r.parts = Append(mp[u].parts, n) /\ IsInjective(r.parts)
      /\ Range(r.parts) = Range(mp[u].parts) \cup {n}
  <2>1. Append(mp[u].parts, n) \in Seq(Parts)
    BY <1>1
  <2>2. r \in Upload /\ r.pc = "open" /\ r.key = mp[u].key /\ r.met = mp[u].met
        /\ r.parts = Append(mp[u].parts, n)
    BY <1>1, <2>1 DEF Upload
  <2>3. /\ IsInjective(Append(mp[u].parts, n))
        /\ Range(Append(mp[u].parts, n)) = Range(mp[u].parts) \cup {n}
    <3>1. /\ Len(mp[u].parts) \in Nat
          /\ DOMAIN mp[u].parts = 1..Len(mp[u].parts)
          /\ DOMAIN Append(mp[u].parts, n) = 1..(Len(mp[u].parts) + 1)
          /\ Append(mp[u].parts, n)[Len(mp[u].parts) + 1] = n
          /\ \A i \in 1..Len(mp[u].parts): Append(mp[u].parts, n)[i] = mp[u].parts[i]
      BY <1>1
    <3> DEFINE p == mp[u].parts
               q == Append(mp[u].parts, n)
               N == Len(mp[u].parts)
    <3> HIDE DEF p, q, N
    <3>2. /\ N \in Nat /\ DOMAIN p = 1..N /\ DOMAIN q = 1..(N + 1) /\ q[N + 1] = n
          /\ \A i \in 1..N: q[i] = p[i]
      BY <3>1 DEF p, q, N
    <3>3. IsInjective(p) /\ n \notin Range(p)
      BY <1>1 DEF p
    <3>4. 1..(N + 1) = (1..N) \cup {N + 1}
      BY <3>2
    <3>5. Range(q) = Range(p) \cup {n}
      BY <3>2, <3>4 DEF Range
    <3>6. IsInjective(q)
      BY <3>2, <3>3, <3>4 DEF IsInjective, Range
    <3> QED
      BY <3>5, <3>6 DEF p, q
  <2> QED
    BY <2>2, <2>3
<1> HIDE DEF r
<1>6. \/ mp' = [mp EXCEPT ![u] = mp[u]]
      \/ /\ mp' = [mp EXCEPT ![u] = r]
         /\ store' = [j \in DOMAIN store \cup {at} |-> IF j = at THEN << <<u, n>> >> ELSE store[j]]
  <2>1. CASE mp' = mp
    BY <1>1, <2>1 DEF MpTypes
  <2>2. CASE mp' # mp
    BY <2>2 DEF UploadPart, With, r, at
  <2> QED
    BY <2>1, <2>2
<1>7. ASSUME kind = "local"
      PROVE  /\ LocalInv /\ Staged(Met, mp[u], u, store)
             /\ \A i \in Parts: <<mp[u].key, i>> \in DOMAIN store' =>
                  \/ i = n /\ store'[<<mp[u].key, i>>] = << <<u, n>> >>
                  \/ <<mp[u].key, i>> \in DOMAIN store /\ store'[<<mp[u].key, i>>] = store[<<mp[u].key, i>>]
             /\ PieceOf(Met, u, n, <<u, n>>)
  BY <1>2, <1>3, <1>7 DEF ObjectsInv, LocalInv, PieceOf
<1>8. ASSUME kind = "local", NEW k \in Keys \cap DOMAIN store' PROVE k \in DOMAIN store /\ store'[k] = store[k]
  <2>1. k # file
    BY <1>1, <1>8, StorageAssumption
  <2> QED
    BY <1>2, <1>3, <1>8, <2>1
<1>9. ASSUME kind = "local", NEW v \in Uploads \ {u}, NEW i \in Parts,
             mp[v].pc \in BusyStates, <<mp[v].key, i>> \in DOMAIN store'
      PROVE  \/ <<mp[v].key, i>> \in DOMAIN store /\ store'[<<mp[v].key, i>>] = store[<<mp[v].key, i>>]
             \/ \E piece: store'[<<mp[v].key, i>>] = <<piece>> /\ PieceOf(Met, v, i, piece)
  <2>1. CASE <<mp[v].key, i>> = file
    <3>1. mp[v].key = mp[u].key /\ i = n
      BY <2>1
    <3>2. u \in Met /\ v \in Met
      BY <1>1, <1>7, <1>9, <3>1 DEF LocalInv, Apart, BusyStates
    <3>3. PieceOf(Met, v, i, <<u, n>>)
      BY <3>1, <3>2 DEF PieceOf
    <3> QED
      BY <1>7, <1>9, <3>1, <3>3
  <2>2. CASE <<mp[v].key, i>> # file
    BY <1>2, <1>3, <1>9, <2>2
  <2> QED
    BY <2>1, <2>2
<1>10. CASE mp' = [mp EXCEPT ![u] = mp[u]]
  <2>1. ASSUME kind = "local" PROVE Staged(Met, mp[u], u, store') /\ Joins(Met, mp[u], u)
    <3>1. Range(mp[u].parts) \subseteq Parts
      BY <1>1 DEF Range
    <3>2. Staged(Met, mp[u], u, store')
      BY <1>1, <1>7, <2>1, <3>1 DEF Staged
    <3> QED
      BY <1>1, <3>2 DEF Joins
  <2> QED
    BY <1>1, <1>4, <1>8, <1>9, <1>10, <2>1, OneStep
<1>11. CASE /\ mp' = [mp EXCEPT ![u] = r]
            /\ store' = [j \in DOMAIN store \cup {at} |-> IF j = at THEN << <<u, n>> >> ELSE store[j]]
  <2>1. ASSUME kind = "local" PROVE Staged(Met, r, u, store') /\ Joins(Met, r, u)
    <3>1. Range(mp[u].parts) \subseteq Parts
      BY <1>1 DEF Range
    <3>2. ASSUME NEW i \in Range(r.parts), <<r.key, i>> \in DOMAIN store'
          PROVE  \E piece: store'[<<r.key, i>>] = <<piece>> /\ PieceOf(Met, u, i, piece)
      <4>1. i \in Parts
        BY <1>5, <3>1, <3>2
      <4>2. CASE i = n
        <5>1. r.key = mp[u].key /\ <<r.key, i>> = at
          BY <1>2, <1>5, <2>1, <4>2
        <5>2. store'[<<r.key, i>>] = << <<u, n>> >>
          BY <1>11, <3>2, <5>1
        <5> QED
          BY <1>7, <2>1, <4>2, <5>2
      <4>3. CASE i # n
        <5>1. i \in Range(mp[u].parts)
          BY <1>5, <3>2, <4>3
        <5> QED
          BY <1>1, <1>5, <1>7, <2>1, <3>2, <4>1, <4>3, <5>1 DEF Staged, BusyStates
      <4> QED
        BY <4>2, <4>3
    <3>3. Staged(Met, r, u, store')
      BY <3>2 DEF Staged
    <3> QED
      BY <1>5, <3>3 DEF Joins
  <2>2. mp[u].pc \notin JoinedStates /\ r.pc # "dropping" /\ mp[u].pc \in BusyStates
    BY <1>1, <1>5 DEF JoinedStates, BusyStates
  <2> QED
    BY <1>1, <1>4, <1>5, <1>8, <1>9, <1>11, <2>1, <2>2, OneStep
<1> QED
  BY <1>6, <1>10, <1>11

\* What is left of a sequence.
LEMMA LeftToDo ==
  ASSUME NEW S, NEW s \in Seq(S), NEW done \in 0..Len(s)
  PROVE  /\ SubSeq(s, 1, Len(s)) = s
         /\ Len(SubSeq(s, done + 1, Len(s))) = Len(s) - done
         /\ done < Len(s) => /\ Head(SubSeq(s, done + 1, Len(s))) = s[done + 1]
                             /\ Tail(SubSeq(s, done + 1, Len(s))) = SubSeq(s, done + 2, Len(s))
<1>1. /\ Len(s) \in Nat /\ done \in Nat /\ done <= Len(s)
      /\ \A i \in 1..Len(s): s[i] \in S
  OBVIOUS
<1>2. SubSeq(s, 1, Len(s)) = s
  BY SubSeqFull
<1>3. Len(SubSeq(s, done + 1, Len(s))) = Len(s) - done
  <2>1. /\ done + 1 \in Int /\ Len(s) \in Int
        /\ \A i \in (done + 1)..Len(s): s[i] \in S
    BY <1>1
  <2>2. Len(SubSeq(s, done + 1, Len(s)))
          = IF done + 1 <= Len(s) THEN Len(s) - (done + 1) + 1 ELSE 0
    BY <2>1, SubSeqProperties
  <2> QED
    BY <1>1, <2>2
<1>4. ASSUME done < Len(s)
      PROVE  /\ Head(SubSeq(s, done + 1, Len(s))) = s[done + 1]
             /\ Tail(SubSeq(s, done + 1, Len(s))) = SubSeq(s, done + 2, Len(s))
  <2>1. done + 1 \in 1..Len(s) /\ Len(s) \in (done + 1)..Len(s) /\ (done + 1) + 1 = done + 2
    BY <1>1, <1>4
  <2> QED
    BY <2>1, HeadTailOfSubSeq
<1> QED
  BY <1>2, <1>3, <1>4

\* A caller has its parts joined.
LEMMA CompleteStep ==
  ASSUME ObjectsInv, NEW s \in Servers, NEW u \in Uploads, CompleteMultipart(s, u)
  PROVE  ObjectsInv'
<1> DEFINE r == IF kind = "s3" THEN [mp[u] EXCEPT !.pc = "done"]
                ELSE [mp[u] EXCEPT !.pc = "reading", !.at = s, !.todo = Sorted(mp[u].parts), !.data = << >>]
<1>1. /\ ObjectTypes /\ MpTypes /\ mp[u].pc \in {"open", "broken"} /\ kind' = kind /\ store' = store
      /\ mp[u].parts # << >> /\ mp' = [mp EXCEPT ![u] = r]
      /\ mp[u] \in Upload /\ mp[u].parts \in Seq(Parts) /\ IsInjective(mp[u].parts)
  BY Records DEF config, CompleteMultipart, ByNumber, ObjectsInv, ObjectTypes
<1>2. Sorted(mp[u].parts) \in Seq(Parts)
  <2>1. Sorted(mp[u].parts) \in Seq(Range(mp[u].parts))
    BY <1>1, SortedHoldsAll
  <2>2. Range(mp[u].parts) \subseteq Parts
    BY <1>1 DEF Range
  <2> QED
    BY <2>1, <2>2
<1>3. /\ r \in Upload /\ r.key = mp[u].key /\ r.met = mp[u].met /\ r.parts = mp[u].parts
      /\ r.pc \in {"reading", "done"}
      /\ kind = "local" => r.pc = "reading" /\ r.todo = Sorted(mp[u].parts) /\ r.data = << >>
  <2>1. CASE kind = "s3"
    <3>1. r = [mp[u] EXCEPT !.pc = "done"]
      BY <2>1
    <3> HIDE DEF r
    <3> QED
      BY <1>1, <2>1, <3>1 DEF Upload
  <2>2. CASE kind # "s3"
    <3>1. r = [mp[u] EXCEPT !.pc = "reading", !.at = s, !.todo = Sorted(mp[u].parts), !.data = << >>]
      BY <2>2
    <3>2. << >> \in Seq(Piece)
      OBVIOUS
    <3> HIDE DEF r
    <3> QED
      BY <1>1, <1>2, <3>1, <3>2 DEF Upload
  <2> QED
    BY <2>1, <2>2
<1>4. mp[u].pc \in BusyStates /\ r.pc \in JoinedStates /\ r.pc # "dropping"
  BY <1>1, <1>3 DEF BusyStates, JoinedStates
<1>5. StoreTypes'
  BY <1>1 DEF ObjectTypes, StoreTypes
<1> HIDE DEF r
<1>6. ASSUME kind = "local"
      PROVE  /\ Staged(Met, r, u, store') /\ Joins(Met, r, u)
             /\ \A v \in Uploads \ {u}, n \in Parts:
                  mp[v].pc \in BusyStates /\ <<mp[v].key, n>> \in DOMAIN store' =>
                    \/ <<mp[v].key, n>> \in DOMAIN store /\ store'[<<mp[v].key, n>>] = store[<<mp[v].key, n>>]
                    \/ \E piece: store'[<<mp[v].key, n>>] = <<piece>> /\ PieceOf(Met, v, n, piece)
             /\ \A k \in Keys \cap DOMAIN store': \/ k \in DOMAIN store /\ store'[k] = store[k]
                                                  \/ WholeIfAlone(Met, mp', store'[k])
  <2>1. Staged(Met, mp[u], u, store)
    BY <1>6 DEF ObjectsInv, LocalInv
  <2>2. Staged(Met, r, u, store')
    BY <1>1, <1>3, <1>4, <2>1 DEF Staged
  <2>3. Joins(Met, r, u)
    <3>1. r.todo = SubSeq(Sorted(r.parts), 0 + 1, Len(Sorted(r.parts)))
      BY <1>2, <1>3, <1>6, LeftToDo
    <3>2. 0 \in 0..Len(Sorted(r.parts)) /\ Len(r.data) = 0 /\ r.pc = "reading" /\ r.parts # << >>
      BY <1>1, <1>2, <1>3, <1>6
    <3> QED
      BY <3>1, <3>2 DEF Joins
  <2> QED
    BY <1>1, <2>2, <2>3
<1> QED
  BY <1>1, <1>3, <1>4, <1>5, <1>6, OneStep

\* A part is read, or cannot be.
LEMMA ReadStep ==
  ASSUME ObjectsInv, NEW u \in Uploads, ReadPart(u)
  PROVE  ObjectsInv'
<1> DEFINE at == <<mp[u].key, Head(mp[u].todo)>>
           read == [mp[u] EXCEPT !.data = mp[u].data \o store[at], !.pc = "dropping"]
           gone == [mp[u] EXCEPT !.pc = "broken"]
<1>1. /\ ObjectTypes /\ MpTypes /\ mp[u].pc = "reading" /\ mp[u].todo # << >>
      /\ kind' = kind /\ store' = store
      /\ mp[u] \in Upload /\ mp[u].parts \in Seq(Parts) /\ IsInjective(mp[u].parts)
      /\ mp[u].todo \in Seq(Parts) /\ mp[u].data \in Seq(Piece)
  BY Records DEF config, ReadPart, ObjectsInv, ObjectTypes
<1>2. \/ mp' = [mp EXCEPT ![u] = read] /\ at \in DOMAIN store
      \/ mp' = [mp EXCEPT ![u] = gone]
  BY DEF ReadPart, Staging
<1>3. /\ mp[u].pc \in BusyStates /\ mp[u].pc \in JoinedStates
      /\ \A pc \in {"dropping", "broken"}: pc \in BusyStates /\ pc \in JoinedStates
      /\ StoreTypes'
  BY <1>1 DEF BusyStates, JoinedStates, ObjectTypes, StoreTypes
<1>4. ASSUME kind = "local"
      PROVE  Staged(Met, mp[u], u, store) /\ Joins(Met, mp[u], u)
  BY <1>4 DEF ObjectsInv, LocalInv
<1>5. ASSUME NEW r, r.parts = mp[u].parts, r.key = mp[u].key, kind = "local"
      PROVE  Staged(Met, r, u, store')
  BY <1>1, <1>3, <1>4, <1>5 DEF Staged
<1>6. CASE mp' = [mp EXCEPT ![u] = gone]
  <2>1. /\ gone \in Upload /\ gone.pc = "broken" /\ gone.key = mp[u].key
        /\ gone.met = mp[u].met /\ gone.parts = mp[u].parts
    BY <1>1 DEF Upload
  <2> HIDE DEF gone
  <2>2. kind = "local" => Staged(Met, gone, u, store') /\ Joins(Met, gone, u)
    BY <1>5, <2>1 DEF Joins
  <2> QED
    BY <1>1, <1>3, <1>6, <2>1, <2>2, OneStep
<1>7. CASE mp' = [mp EXCEPT ![u] = read] /\ at \in DOMAIN store
  <2>1. mp[u].data \o store[at] \in Seq(Piece)
    BY <1>1, <1>7 DEF ObjectTypes, StoreTypes
  <2>2. /\ read \in Upload /\ read.pc = "dropping" /\ read.key = mp[u].key
        /\ read.met = mp[u].met /\ read.parts = mp[u].parts /\ read.todo = mp[u].todo
        /\ read.data = mp[u].data \o store[at]
    BY <1>1, <2>1 DEF Upload
  <2> HIDE DEF read
  <2>3. ASSUME kind = "local" PROVE Joins(Met, read, u)
    <3> DEFINE sorted == Sorted(mp[u].parts)
    <3>1. /\ sorted \in Seq(Range(mp[u].parts)) /\ Len(sorted) \in Nat
          /\ \A i \in 1..Len(sorted): sorted[i] \in Range(mp[u].parts)
      BY <1>1, SortedHoldsAll
    <3> HIDE DEF sorted
    <3>2. PICK done \in 0..Len(sorted):
            /\ mp[u].todo = SubSeq(sorted, done + 1, Len(sorted))
            /\ Len(mp[u].data) = done
            /\ \A i \in 1..Len(mp[u].data): PieceOf(Met, u, sorted[i], mp[u].data[i])
      BY <1>1, <1>4, <2>3 DEF Joins, sorted
    <3>3. Len(mp[u].todo) = Len(sorted) - done
      BY <3>1, <3>2, LeftToDo
    <3>4. done < Len(sorted)
      BY <1>1, <3>1, <3>2, <3>3
    <3>5. Head(mp[u].todo) = sorted[done + 1] /\ done + 1 \in 1..Len(sorted)
      BY <3>1, <3>2, <3>4, LeftToDo
    <3>6. PICK piece: store[at] = <<piece>> /\ PieceOf(Met, u, sorted[done + 1], piece)
      BY <1>3, <1>4, <1>7, <2>3, <3>1, <3>5 DEF Staged
    <3> DEFINE data == read.data
               was == mp[u].data
    <3>7. /\ was \in Seq(Piece) /\ Len(was) = done /\ store[at] \in Seq(Piece)
          /\ data = was \o store[at] /\ store[at] = <<piece>>
      BY <1>1, <1>7, <2>2, <3>2, <3>6 DEF ObjectTypes, StoreTypes
    <3>8. /\ Len(data) = done + 1
          /\ data[done + 1] = piece
          /\ \A i \in 1..done: data[i] = mp[u].data[i]
      <4> SUFFICES /\ Len(data) = done + 1
                   /\ data[done + 1] = piece
                   /\ \A i \in 1..done: data[i] = was[i]
        OBVIOUS
      <4> HIDE DEF data, was, at
      <4>1. done \in Nat /\ Len(<<piece>>) = 1 /\ <<piece>>[1] = piece
        BY <3>1
      <4>2. <<piece>> \in Seq(Piece) /\ data = was \o <<piece>>
        BY <3>7
      <4> QED
        BY <3>7, <4>1, <4>2
    <3>9. \A i \in 1..Len(data): PieceOf(Met, u, sorted[i], data[i])
      <4> SUFFICES ASSUME NEW i \in 1..(done + 1) PROVE PieceOf(Met, u, sorted[i], data[i])
        BY <3>8
      <4>1. CASE i = done + 1
        BY <3>6, <3>8, <4>1
      <4>2. CASE i \in 1..done
        BY <3>2, <3>8, <4>2
      <4> QED
        BY <4>1, <4>2
    <3>10. read.parts # << >>
      BY <1>1, <1>4, <2>2, <2>3 DEF Joins
    <3> QED
      BY <2>2, <3>2, <3>4, <3>8, <3>9, <3>10 DEF Joins, sorted
  <2>4. kind = "local" => Staged(Met, read, u, store') /\ Joins(Met, read, u)
    BY <1>5, <2>2, <2>3
  <2> QED
    BY <1>1, <1>3, <1>7, <2>2, <2>4, OneStep
<1> QED
  BY <1>2, <1>6, <1>7

\* The staging file of a part that was read is removed, or stays.
LEMMA DropStep ==
  ASSUME ObjectsInv, NEW u \in Uploads, DropPart(u)
  PROVE  ObjectsInv'
<1> DEFINE at == <<mp[u].key, Head(mp[u].todo)>>
           r == [mp[u] EXCEPT !.todo = Tail(mp[u].todo), !.pc = "reading"]
<1>1. /\ ObjectTypes /\ MpTypes /\ mp[u].pc = "dropping" /\ mp[u].todo # << >> /\ kind' = kind
      /\ mp' = [mp EXCEPT ![u] = r]
      /\ mp[u] \in Upload /\ mp[u].key \in Keys /\ mp[u].parts \in Seq(Parts) /\ IsInjective(mp[u].parts)
      /\ mp[u].todo \in Seq(Parts)
  BY Records DEF config, DropPart, ObjectsInv, ObjectTypes, MpTypes
<1>2. \A j: j \in DOMAIN store' => j \in DOMAIN store /\ store'[j] = store[j]
  BY DEF DropPart, Without, Staging
<1>3. StoreTypes'
  <2>1. CASE store' = store
    BY <1>1, <2>1 DEF ObjectTypes, StoreTypes
  <2>2. CASE store' = [j \in DOMAIN store \ {at} |-> store[j]]
    <3> HIDE DEF at
    <3> QED
      BY <1>1, <2>2 DEF ObjectTypes, StoreTypes
  <2> QED
    BY <2>1, <2>2 DEF DropPart, Without, Staging
<1>4. /\ r \in Upload /\ r.pc = "reading" /\ r.key = mp[u].key /\ r.met = mp[u].met
      /\ r.parts = mp[u].parts /\ r.todo = Tail(mp[u].todo) /\ r.data = mp[u].data
  <2>1. Tail(mp[u].todo) \in Seq(Parts)
    BY <1>1
  <2> QED
    BY <1>1, <2>1 DEF Upload
<1> HIDE DEF r, at
<1>5. mp[u].pc \in BusyStates /\ r.pc \in JoinedStates /\ r.pc # "dropping"
  BY <1>1, <1>4 DEF BusyStates, JoinedStates
<1>6. ASSUME kind = "local" PROVE Staged(Met, r, u, store')
  <2>1. Staged(Met, mp[u], u, store)
    BY <1>6 DEF ObjectsInv, LocalInv
  <2> QED
    BY <1>2, <1>4, <1>5, <2>1 DEF Staged
<1>7. ASSUME kind = "local" PROVE Joins(Met, r, u)
  <2> DEFINE sorted == Sorted(mp[u].parts)
  <2>1. sorted \in Seq(Range(mp[u].parts)) /\ Len(sorted) \in Nat
    BY <1>1, SortedHoldsAll
  <2>2. Joins(Met, mp[u], u)
    BY <1>7 DEF ObjectsInv, LocalInv
  <2> HIDE DEF sorted
  <2>3. PICK done \in 0..Len(sorted):
          /\ mp[u].todo = SubSeq(sorted, done + 1, Len(sorted))
          /\ done < Len(sorted) /\ Len(mp[u].data) = done + 1
          /\ \A i \in 1..Len(mp[u].data): PieceOf(Met, u, sorted[i], mp[u].data[i])
    BY <1>1, <2>2 DEF Joins, sorted
  <2>4. /\ Tail(mp[u].todo) = SubSeq(sorted, done + 2, Len(sorted))
        /\ done + 1 \in 0..Len(sorted) /\ (done + 1) + 1 = done + 2
    BY <2>1, <2>3, LeftToDo
  <2>5. mp[u].parts # << >>
    BY <1>1, <2>2 DEF Joins
  <2> QED
    BY <1>4, <2>3, <2>4, <2>5 DEF Joins, sorted
<1> QED
  BY <1>1, <1>2, <1>3, <1>4, <1>5, <1>6, <1>7, OneStep

\* What was joined without another upload is whole.
LEMMA JoinedIsWhole ==
  ASSUME MpTypes, NEW u \in Uploads, NEW met, Joins(met, mp[u], u),
         mp[u].pc = "reading", mp[u].todo = << >>,
         NEW uploads, \A v \in Uploads: v = u => uploads[v].pc \in JoinedStates /\ uploads[v].parts = mp[u].parts
  PROVE  WholeIfAlone(met, uploads, mp[u].data)
<1> DEFINE sorted == Sorted(mp[u].parts)
           data == mp[u].data
<1>1. /\ mp[u].parts \in Seq(Parts) /\ IsInjective(mp[u].parts) /\ data \in Seq(Piece)
      /\ mp[u].parts # << >>
  BY Records DEF Joins
<1>2. /\ sorted \in Seq(Range(mp[u].parts)) /\ Len(sorted) = Len(mp[u].parts) /\ Len(sorted) \in Nat
      /\ Len(sorted) > 0 /\ DOMAIN sorted = 1..Len(sorted)
  BY <1>1, SortedHoldsAll
<1>3. DOMAIN data = 1..Len(data) /\ data = [i \in DOMAIN data |-> data[i]]
  BY <1>1
<1> HIDE DEF sorted, data
<1>4. Len(data) = Len(sorted) /\ \A i \in 1..Len(data): PieceOf(met, u, sorted[i], data[i])
  <2>1. PICK done \in 0..Len(sorted):
          /\ mp[u].todo = SubSeq(sorted, done + 1, Len(sorted))
          /\ Len(data) = done
          /\ \A i \in 1..Len(data): PieceOf(met, u, sorted[i], data[i])
    BY DEF Joins, sorted, data
  <2>2. Len(mp[u].todo) = Len(sorted) - done
    BY <1>2, <2>1, LeftToDo
  <2>3. done = Len(sorted)
    BY <1>2, <2>2
  <2> QED
    BY <2>1, <2>3
<1>5. ASSUME NEW v \in Uploads, data[1] \in {v} \X Parts, v \notin met
      PROVE  uploads[v].pc \in JoinedStates /\ data = Whole(uploads[v], v)
  <2>1. 1 \in 1..Len(data)
    BY <1>2, <1>4
  <2>2. PICK x \in Uploads: data[1] = <<x, sorted[1]>> /\ (x = u \/ (u \in met /\ x \in met))
    BY <1>4, <2>1 DEF PieceOf
  <2>3. v = u
    BY <1>5, <2>2
  <2>4. \A i \in 1..Len(data): data[i] = <<u, sorted[i]>>
    BY <1>4, <1>5, <2>3 DEF PieceOf
  <2>5. data = [i \in DOMAIN sorted |-> <<u, sorted[i]>>]
    BY <1>2, <1>3, <1>4, <2>4
  <2> QED
    BY <2>3, <2>5 DEF Whole, sorted
<1>6. data # << >>
  BY <1>2, <1>4
<1> QED
  BY <1>5, <1>6 DEF WholeIfAlone, data

\* The joined object is written.
LEMMA JoinedStep ==
  ASSUME ObjectsInv, NEW u \in Uploads, PutJoined(u)
  PROVE  ObjectsInv'
<1> DEFINE k == mp[u].key
<1>1. /\ ObjectTypes /\ MpTypes /\ mp[u].pc = "reading" /\ mp[u].todo = << >> /\ kind' = kind
      /\ mp[u] \in Upload /\ k \in Keys /\ mp[u].parts \in Seq(Parts) /\ IsInjective(mp[u].parts)
      /\ mp[u].data \in Seq(Piece)
  BY Records DEF config, PutJoined, ObjectsInv, ObjectTypes
<1>2. PICK pc \in {"done", "broken"}: mp' = [mp EXCEPT ![u] = [mp[u] EXCEPT !.pc = pc]]
  BY DEF PutJoined
<1> DEFINE r == [mp[u] EXCEPT !.pc = pc]
<1>3. /\ r \in Upload /\ r.pc = pc /\ r.key = k /\ r.met = mp[u].met /\ r.parts = mp[u].parts
  BY <1>1, <1>2 DEF Upload
<1>4. mp' = [mp EXCEPT ![u] = r] /\ mp'[u] = r
  BY <1>1, <1>2 DEF MpTypes
<1> HIDE DEF r, k
<1>5. mp[u].pc \in BusyStates /\ r.pc \in JoinedStates /\ r.pc # "dropping"
  BY <1>1, <1>3 DEF BusyStates, JoinedStates
<1>6. \/ store' = store
      \/ store' = [j \in DOMAIN store \cup {k} |-> IF j = k THEN mp[u].data ELSE store[j]]
  BY DEF PutJoined, With, k
<1>7. StoreTypes'
  <2>1. CASE store' = store
    BY <1>1, <2>1 DEF ObjectTypes, StoreTypes
  <2>2. CASE store' = [j \in DOMAIN store \cup {k} |-> IF j = k THEN mp[u].data ELSE store[j]]
    BY <1>1, <2>2 DEF ObjectTypes, StoreTypes
  <2> QED
    BY <1>6, <2>1, <2>2
<1>8. \A n \in Parts, j \in Keys: <<j, n>> # k
  BY <1>1, StorageAssumption
<1>9. \A n \in Parts, j \in Keys: <<j, n>> \in DOMAIN store' =>
        <<j, n>> \in DOMAIN store /\ store'[<<j, n>>] = store[<<j, n>>]
  BY <1>6, <1>8
<1>10. ASSUME kind = "local" PROVE Staged(Met, r, u, store') /\ Joins(Met, r, u)
  <2>1. Staged(Met, mp[u], u, store)
    BY <1>10 DEF ObjectsInv, LocalInv
  <2>2. Range(mp[u].parts) \subseteq Parts
    BY <1>1 DEF Range
  <2>3. Staged(Met, r, u, store')
    BY <1>1, <1>3, <1>5, <1>9, <2>1, <2>2 DEF Staged, k
  <2>4. r.pc \notin {"reading", "dropping"}
    BY <1>2, <1>3
  <2> QED
    BY <2>3, <2>4 DEF Joins
<1>11. ASSUME kind = "local", NEW j \in Keys \cap DOMAIN store'
       PROVE  \/ j \in DOMAIN store /\ store'[j] = store[j]
              \/ WholeIfAlone(Met, mp', store'[j])
  <2>1. Joins(Met, mp[u], u)
    BY <1>11 DEF ObjectsInv, LocalInv
  <2>2. WholeIfAlone(Met, mp', mp[u].data)
    BY <1>1, <1>3, <1>4, <1>5, <2>1, JoinedIsWhole
  <2> QED
    BY <1>6, <1>11, <2>2
<1>12. ASSUME NEW v \in Uploads \ {u}, NEW n \in Parts, mp[v].pc \in BusyStates, <<mp[v].key, n>> \in DOMAIN store'
       PROVE  <<mp[v].key, n>> \in DOMAIN store /\ store'[<<mp[v].key, n>>] = store[<<mp[v].key, n>>]
  <2>1. mp[v].key \in Keys
    BY <1>1, <1>12, Records DEF BusyStates
  <2> QED
    BY <1>9, <1>12, <2>1
<1> QED
  BY <1>1, <1>3, <1>4, <1>5, <1>7, <1>10, <1>11, <1>12, OneStep DEF k

\* The caller gives up: the object goes, the staging files stay.
LEMMA AbortStep ==
  ASSUME ObjectsInv, NEW u \in Uploads, AbortMultipart(u)
  PROVE  ObjectsInv'
<1> DEFINE r == [mp[u] EXCEPT !.pc = "aborted"]
<1>1. /\ ObjectTypes /\ MpTypes /\ mp[u].pc \in {"open", "broken"} /\ kind' = kind
      /\ mp' = [mp EXCEPT ![u] = r]
      /\ store' = [j \in DOMAIN store \ {mp[u].key} |-> store[j]]
      /\ mp[u] \in Upload /\ IsInjective(mp[u].parts)
  BY Records DEF config, AbortMultipart, Without, ObjectsInv, ObjectTypes
<1>2. StoreTypes'
  BY <1>1 DEF ObjectTypes, StoreTypes
<1>3. /\ r \in Upload /\ r.pc = "aborted" /\ r.key = mp[u].key /\ r.met = mp[u].met
      /\ r.parts = mp[u].parts
  BY <1>1 DEF Upload
<1> HIDE DEF r
<1>4. r.pc \notin BusyStates /\ r.pc \in JoinedStates /\ r.pc # "dropping"
  BY <1>3 DEF BusyStates, JoinedStates
<1>5. Staged(Met, r, u, store') /\ Joins(Met, r, u)
  BY <1>3, <1>4 DEF Staged, Joins
<1> QED
  BY <1>1, <1>2, <1>3, <1>4, <1>5, OneStep

-----------------------------------------------------------------------------
LEMMA ObjectsInit == Init => ObjectsInv
<1> SUFFICES ASSUME Init PROVE ObjectsInv
  OBVIOUS
<1>1. store = << >> /\ mp = [u \in Uploads |-> NotBegun] /\ \A u \in Uploads: mp[u].pc = "no"
  BY DEF Init, NotBegun
<1>2. DOMAIN store = {}
  BY <1>1
<1>3. ObjectTypes
  BY <1>1, <1>2 DEF ObjectTypes, MpTypes, StoreTypes
<1>4. LocalInv
  BY <1>1, <1>2 DEF LocalInv, Staged, Joins, Apart, BusyStates
<1> QED
  BY <1>3, <1>4 DEF ObjectsInv

LEMMA ObjectsStep == ObjectsInv /\ [Next]_vars => ObjectsInv'
<1> SUFFICES ASSUME ObjectsInv, [Next]_vars PROVE ObjectsInv'
  OBVIOUS
<1>1. ASSUME UNCHANGED <<kind, store, mp>> PROVE ObjectsInv'
  BY <1>1 DEF ObjectsInv, ObjectTypes, MpTypes, StoreTypes, LocalInv, Met, Staged, Joins, WholeIfAlone, Apart
<1>2. CASE UNCHANGED vars
  BY <1>1, <1>2 DEF vars, config
<1>3. ASSUME NEW s \in Servers,
             \/ Boot(s) \/ ListRoot(s) \/ EnsureBucketExists(s) \/ Verify(s)
             \/ \E b \in Buckets: CreateBucket(s, b)
      PROVE  ObjectsInv'
  BY <1>1, <1>3 DEF Boot, ListRoot, EnsureBucketExists, Verify, CreateBucket, config
<1>a. ASSUME NEW b \in Buckets, Taken(b)
      PROVE  ObjectsInv'
  BY <1>1, <1>a DEF Taken, config
<1>4. ASSUME NEW s \in Servers, Stop(s)
      PROVE  ObjectsInv'
  BY <1>4, BreakStep
<1>5. ASSUME NEW s \in Servers, NEW u \in Uploads, CompleteMultipart(s, u)
      PROVE  ObjectsInv'
  BY <1>5, CompleteStep
<1>6. ASSUME NEW k \in Keys, Put(k) \/ Delete(k)
      PROVE  ObjectsInv'
  BY <1>6, ObjectStep
<1>7. ASSUME NEW k \in Keys, NEW u \in Uploads, CreateMultipart(u, k)
      PROVE  ObjectsInv'
  BY <1>7, BeginStep
<1>8. ASSUME NEW u \in Uploads, NEW n \in Parts, UploadPart(u, n)
      PROVE  ObjectsInv'
  BY <1>8, PartStep
<1>9. ASSUME NEW u \in Uploads, ReadPart(u)
      PROVE  ObjectsInv'
  BY <1>9, ReadStep
<1>10. ASSUME NEW u \in Uploads, DropPart(u)
       PROVE  ObjectsInv'
  BY <1>10, DropStep
<1>11. ASSUME NEW u \in Uploads, PutJoined(u)
       PROVE  ObjectsInv'
  BY <1>11, JoinedStep
<1>12. ASSUME NEW u \in Uploads, AbortMultipart(u)
       PROVE  ObjectsInv'
  BY <1>12, AbortStep
<1> QED
  BY <1>2, <1>3, <1>a, <1>4, <1>5, <1>6, <1>7, <1>8, <1>9, <1>10, <1>11, <1>12 DEF Next

\* Every object that a multipart upload made of the local plugin has all its
\* parts in order, unless two uploads of one key were under way at a time:
\* for any numbers of uploads, keys, parts, servers and failures
\* (complete_multipart, storage-local/lib.rs:218).
THEOREM JoinedObjectsAreWhole == Spec => []ObjectsAreWhole
<1>1. ObjectsInv => ObjectsAreWhole
  <2> SUFFICES ASSUME ObjectsInv, kind = "local", NEW k \in Keys \cap DOMAIN store, NEW u \in Uploads,
                      store[k][1] \in {u} \X Parts, ~mp[u].met
               PROVE  store[k] = [i \in DOMAIN Sorted(mp[u].parts) |-> <<u, Sorted(mp[u].parts)[i]>>]
    BY DEF ObjectsAreWhole
  <2>1. WholeIfAlone(Met, mp, store[k])
    BY DEF ObjectsInv, LocalInv
  <2>2. u \notin Met
    BY DEF Met
  <2> QED
    BY <2>1, <2>2 DEF WholeIfAlone, Whole
<1>2. Init => ObjectsInv
  BY ObjectsInit
<1>3. ObjectsInv /\ [Next]_vars => ObjectsInv'
  BY ObjectsStep
<1> QED
  BY <1>1, <1>2, <1>3, PTL DEF Spec

\* Every state has the types that TypeOK gives it: what the servers load, the
\* names and contents of objects and staging files, and the uploads.
THEOREM StorageTypeCorrect == Spec => []TypeOK
<1>1. HostInv /\ ObjectsInv => TypeOK
  BY DEF HostInv, HostTypes, HostStates, ObjectsInv, ObjectTypes, MpTypes, StoreTypes, TypeOK
<1>2. Init => HostInv /\ ObjectsInv
  BY HostInit, ObjectsInit
<1>3. HostInv /\ ObjectsInv /\ [Next]_vars => (HostInv /\ ObjectsInv)'
  BY HostStep, ObjectsStep
<1> QED
  BY <1>1, <1>2, <1>3, PTL DEF Spec
=============================================================================
