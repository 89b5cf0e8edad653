----------------------------- MODULE RateLimiter -----------------------------
(***************************************************************************)
(* apps/server/src/rate_limit.rs: the middleware in front of every route.  *)
(* A call reads the clock, then waits for the lock, then prunes, perhaps   *)
(* evicts, and is counted or refused; several calls are between their      *)
(* reading and the lock at once, so they are counted out of clock order.   *)
(***************************************************************************)
EXTENDS Naturals, Sequences, FiniteSets, FiniteSetsExt

CONSTANTS Calls,        \* requests that can be in flight at once
          Tokens, Addresses,   \* bearer tokens and peer addresses
          Nothing,      \* a request without the one or the other
          MAX_REQUESTS, WINDOW, MAX_BUCKETS,
          MaxTime, MaxAdmitted   \* bounds: the clock, and all admissions

\* with_max_buckets raises both limits to one.
ASSUME LimitsAssumption == /\ MAX_REQUESTS \in Nat \ {0} /\ MAX_BUCKETS \in Nat \ {0}
                           /\ WINDOW \in Nat /\ MaxTime \in Nat /\ MaxAdmitted \in Nat
ASSUME NothingAssumption == Nothing \notin Tokens \cup Addresses
\* The server holds finitely many connections, each with one request at a time.
ASSUME CallsAssumption == IsFiniteSet(Calls) /\ Calls # {}

VARIABLES now,        \* the monotonic clock
          call,       \* call[c]: Idle, or its key and the time it has read
          buckets,    \* one sequence of admission times per key
          admitted,   \* admitted[k]: the readings k was admitted with, in lock order
          evicted     \* keys whose bucket was evicted while it still counted

vars == <<now, call, buckets, admitted, evicted>>

Requests == [token: Tokens \cup {Nothing}, peer: Addresses \cup {Nothing}]
\* request_key: the token, else the address, else one bucket for all.
RequestKey(r) == IF r.token # Nothing THEN <<"bearer", r.token>>
                 ELSE IF r.peer # Nothing THEN <<"ip", r.peer>> ELSE <<"anonymous">>
ClientKeys == {RequestKey(r): r \in Requests}
Idle == [key |-> << >>, at |-> 0]
Waiting == [key: ClientKeys, at: Nat]

\* duration_since saturates at zero for a reading that lies ahead.
Since(t, past) == IF past > t THEN 0 ELSE t - past

Init == /\ now = 0
        /\ call = [c \in Calls |-> Idle]
        /\ buckets = << >>
        /\ admitted = [k \in ClientKeys |-> << >>]
        /\ evicted = {}

Tick == /\ now < MaxTime
        /\ now' = now + 1
        /\ UNCHANGED <<call, buckets, admitted, evicted>>

\* enforce, and the first line of allow.
Enforce(c, r) ==
  /\ call[c] = Idle
  /\ call' = [call EXCEPT ![c] = [key |-> RequestKey(r), at |-> now]]
  /\ UNCHANGED <<now, buckets, admitted, evicted>>

\* prune_expired pops readings off the front while the front is old, and drops
\* the buckets that are then empty.
BugPruned(bucket, t) ==   \* forgets one reading too many
  LET counting == {i \in DOMAIN bucket: Since(t, bucket[i]) < WINDOW}
  IN  IF counting = {} THEN << >> ELSE SubSeq(bucket, Min(counting) + 1, Len(bucket))
BugPrunedNot(bucket, t) == bucket   \* nothing is ever dropped
Pruned(bucket, t) ==
  LET counting == {i \in DOMAIN bucket: Since(t, bucket[i]) < WINDOW}
  IN  IF counting = {} THEN << >> ELSE SubSeq(bucket, Min(counting), Len(bucket))
Pruning(t) ==
  [k \in {j \in DOMAIN buckets: Pruned(buckets[j], t) # << >>} |-> Pruned(buckets[k], t)]

\* evict_oldest_bucket: the least recently admitted key, any of them on a tie.
Latest(bucket) == bucket[Len(bucket)]
BugOldest(table) == {k \in DOMAIN table: \A j \in DOMAIN table: Latest(table[j]) <= Latest(table[k])}
Oldest(table) == {k \in DOMAIN table: \A j \in DOMAIN table: Latest(table[k]) <= Latest(table[j])}
BugNeedsRoom(table, key) == key \notin DOMAIN table /\ Cardinality(DOMAIN table) > MAX_BUCKETS
NeedsRoom(table, key) == key \notin DOMAIN table /\ Cardinality(DOMAIN table) >= MAX_BUCKETS
Room(table, key) == IF NeedsRoom(table, key) THEN {DOMAIN table \ {k}: k \in Oldest(table)}
                    ELSE {DOMAIN table}

Total == Cardinality(UNION {{k} \X DOMAIN admitted[k]: k \in ClientKeys})

\* The part of allow under the lock.
Allow(c) ==
  /\ call[c] # Idle
  /\ LET key == call[c].key
         table == Pruning(call[c].at)
     IN  \E kept \in Room(table, key):
           LET bucket == IF key \in kept THEN table[key] ELSE << >>
               full == Len(bucket) >= MAX_REQUESTS
           IN  /\ full \/ Total < MaxAdmitted
               /\ buckets' = [k \in kept \cup {key} |->
                                IF k # key THEN table[k]
                                ELSE IF full THEN bucket ELSE Append(bucket, call[c].at)]
               /\ admitted' = IF full THEN admitted ELSE [admitted EXCEPT ![key] = Append(@, call[c].at)]
               /\ evicted' = evicted \cup (DOMAIN table \ kept)
  /\ call' = [call EXCEPT ![c] = Idle]
  /\ UNCHANGED now

Next == Tick \/ \E c \in Calls: Allow(c) \/ \E r \in Requests: Enforce(c, r)

Spec == Init /\ [][Next]_vars

\* Whoever asks, with whatever keys: the table holds at most MAX_BUCKETS
\* buckets, none of them empty and none longer than MAX_REQUESTS.
TypeOK == /\ now \in 0..MaxTime
          /\ call \in [Calls -> Waiting \cup {Idle}]
          /\ DOMAIN buckets \subseteq ClientKeys
          /\ buckets \in [DOMAIN buckets -> Seq(Nat)]
          /\ Cardinality(DOMAIN buckets) <= MAX_BUCKETS
          /\ \A k \in DOMAIN buckets: Len(buckets[k]) \in 1..MAX_REQUESTS
          /\ admitted \in [ClientKeys -> Seq(Nat)]
          /\ evicted \subseteq ClientKeys

-----------------------------------------------------------------------------
\* The limit itself. A key that was never evicted is admitted at most
\* MAX_REQUESTS times with clock readings in one window, and once more for
\* each other call that was waiting for the lock when an entry was pruned:
\* pruning goes by the reading of the call that holds the lock (rate_limit.rs:58).
AdmittedIn(k, from) ==
  {i \in DOMAIN admitted[k]: admitted[k][i] \in from..(from + WINDOW - 1)}
WindowLimit ==
  \A k \in ClientKeys \ evicted: \A from \in 0..MaxTime:
    Cardinality(AdmittedIn(k, from)) <= MAX_REQUESTS + (Cardinality(Calls) - 1)

\* No lock-out: a key is refused only when it was admitted within one window
\* before the reading of the call, so a client that pauses for a window gets in.
RefusedOnlyWhenBusy ==
  [][\A c \in Calls:
       call[c] # Idle /\ call'[c] = Idle /\ admitted' = admitted =>
         \E i \in DOMAIN admitted[call[c].key]:
           Since(call[c].at, admitted[call[c].key][i]) < WINDOW]_vars

\* A bucket goes while it still counts only when the table is full of other
\* keys, and none of those was admitted longer ago.
EvictsTheStalest ==
  [][\A k \in DOMAIN buckets \ DOMAIN buckets': \A c \in Calls:
       call[c] # Idle /\ call'[c] = Idle =>
         \/ Since(call[c].at, Latest(buckets[k])) >= WINDOW
         \/ /\ Cardinality(DOMAIN buckets') = MAX_BUCKETS
            /\ \A j \in DOMAIN buckets' \ {call[c].key}:
                 Latest(buckets[k]) <= Latest(buckets'[j])]_vars
=============================================================================
