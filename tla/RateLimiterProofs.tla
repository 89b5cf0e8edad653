-------------------------- MODULE RateLimiterProofs --------------------------
(***************************************************************************)
(* Proofs about RateLimiter, for any calls in flight, keys and limits: the *)
(* table stays bounded, nobody is refused for longer than a window, and    *)
(* eviction takes the stalest bucket.                                      *)
(***************************************************************************)
EXTENDS RateLimiter, FiniteSetTheorems, WellFoundedInduction, TLAPS

\* Every bucket holds readings its key was admitted with, at most MAX_REQUESTS
\* of them and at least one.
LimiterInv == /\ TypeOK
              /\ IsFiniteSet(DOMAIN buckets)
              /\ \A k \in DOMAIN buckets: \A i \in DOMAIN buckets[k]:
                   \E j \in DOMAIN admitted[k]: admitted[k][j] = buckets[k][i]

-----------------------------------------------------------------------------
(* Pruning. *)

LEMMA LeastNatural ==
  ASSUME NEW S \in SUBSET Nat, S # {}
  PROVE  Min(S) \in S /\ \A y \in S: Min(S) <= y
<1> DEFINE R == {p \in Nat \X Nat: p[1] < p[2]}
<1>1. IsWellFoundedOn(R, Nat)
  <2>1. R = OpToRel(<, Nat)
    BY DEF OpToRel
  <2> QED
    BY <2>1, NatLessThanWellFounded
<1>2. PICK x \in S: \A y \in S: ~(<<y, x>> \in R)
  BY <1>1, WFMin
<1>3. ASSUME NEW y \in S PROVE x <= y
  <2>1. x \in Nat /\ y \in Nat /\ ~(<<y, x>> \in R)
    BY <1>2
  <2>2. ~(y < x)
    BY <2>1
  <2> QED
    BY <2>1, <2>2
<1> QED
  BY <1>3 DEF Min

\* What is left of a bucket is its end from the first reading that counts on.
LEMMA PrunedIsEnd ==
  ASSUME NEW b \in Seq(Nat), NEW t \in Nat, Pruned(b, t) # << >>
  PROVE  \E m \in 1..Len(b):
           /\ Pruned(b, t) = SubSeq(b, m, Len(b))
           /\ Since(t, b[m]) < WINDOW
<1> DEFINE counting == {i \in DOMAIN b: Since(t, b[i]) < WINDOW}
<1>1. counting # {} /\ Pruned(b, t) = SubSeq(b, Min(counting), Len(b))
  BY DEF Pruned
<1>2. counting \in SUBSET Nat /\ DOMAIN b = 1..Len(b)
  OBVIOUS
<1>3. Min(counting) \in counting
  BY <1>1, <1>2, LeastNatural
<1> QED
  BY <1>1, <1>2, <1>3

LEMMA PrunedKeeps ==
  ASSUME NEW b \in Seq(Nat), NEW t \in Nat, Pruned(b, t) # << >>
  PROVE  /\ Pruned(b, t) \in Seq(Nat)
         /\ Len(Pruned(b, t)) \in 1..Len(b)
         /\ Since(t, Pruned(b, t)[1]) < WINDOW
         /\ Latest(Pruned(b, t)) = Latest(b)
         /\ \A i \in DOMAIN Pruned(b, t): \E j \in DOMAIN b: Pruned(b, t)[i] = b[j]
<1>1. PICK m \in 1..Len(b): Pruned(b, t) = SubSeq(b, m, Len(b)) /\ Since(t, b[m]) < WINDOW
  BY PrunedIsEnd
<1> DEFINE q == Pruned(b, t)
<1>2. /\ q \in Seq(Nat) /\ Len(q) = Len(b) - m + 1
      /\ \A i \in 1..Len(q): q[i] = b[m + i - 1] /\ m + i - 1 \in 1..Len(b)
      /\ DOMAIN q = 1..Len(q) /\ DOMAIN b = 1..Len(b) /\ Len(b) \in Nat
  BY <1>1
<1> HIDE DEF q
<1>3. Len(q) \in 1..Len(b) /\ q[1] = b[m] /\ q[Len(q)] = b[Len(b)]
  <2>1. Len(q) \in 1..Len(b) /\ 1 \in 1..Len(q) /\ Len(q) \in 1..Len(q)
    BY <1>2
  <2>2. m + 1 - 1 = m /\ m + Len(q) - 1 = Len(b)
    BY <1>2
  <2>3. q[1] = b[m + 1 - 1] /\ q[Len(q)] = b[m + Len(q) - 1]
    BY <1>2, <2>1
  <2> QED
    BY <2>1, <2>2, <2>3
<1>4. \A i \in DOMAIN q: \E j \in DOMAIN b: q[i] = b[j]
  BY <1>2
<1>5. Since(t, q[1]) < WINDOW /\ Latest(q) = Latest(b)
  BY <1>1, <1>3 DEF Latest
<1> QED
  BY <1>2, <1>3, <1>4, <1>5 DEF q

\* A bucket is dropped only when its latest reading is a window old.
LEMMA PrunedAwayIsOld ==
  ASSUME NEW b \in Seq(Nat), Len(b) >= 1, NEW t \in Nat, Pruned(b, t) = << >>
  PROVE  Since(t, Latest(b)) >= WINDOW
<1> DEFINE counting == {i \in DOMAIN b: Since(t, b[i]) < WINDOW}
<1>1. Len(b) \in DOMAIN b /\ b[Len(b)] \in Nat /\ Len(b) \in Nat
  OBVIOUS
<1>2. CASE counting = {}
  <2>1. ~(Since(t, b[Len(b)]) < WINDOW)
    BY <1>1, <1>2
  <2>2. Since(t, b[Len(b)]) \in Nat
    BY <1>1 DEF Since
  <2> QED
    BY <2>1, <2>2, LimitsAssumption DEF Latest
<1>3. CASE counting # {}
  <2>1. Min(counting) \in counting
    <3>1. counting \in SUBSET Nat
      OBVIOUS
    <3> QED
      BY <1>3, <3>1, LeastNatural
  <2>2. Pruned(b, t) = SubSeq(b, Min(counting), Len(b))
    BY <1>3 DEF Pruned
  <2>3. Min(counting) \in 1..Len(b)
    BY <2>1
  <2>4. Len(SubSeq(b, Min(counting), Len(b))) >= 1
    BY <1>1, <2>3
  <2>5. SubSeq(b, Min(counting), Len(b)) = << >>
    BY <2>2
  <2> HIDE DEF counting
  <2>6. Len(SubSeq(b, Min(counting), Len(b))) = 0
    BY <2>5
  <2> QED
    BY <2>4, <2>6
<1> QED
  BY <1>2, <1>3

\* The table a call finds after pruning.
LEMMA TableAfterPruning ==
  ASSUME LimiterInv, NEW t \in Nat
  PROVE  LET table == Pruning(t) IN
           /\ DOMAIN table \subseteq DOMAIN buckets /\ IsFiniteSet(DOMAIN table)
           /\ Cardinality(DOMAIN table) \in Nat /\ Cardinality(DOMAIN table) <= MAX_BUCKETS
           /\ \A k \in DOMAIN table:
                /\ table[k] = Pruned(buckets[k], t) /\ table[k] \in Seq(Nat)
                /\ Len(table[k]) \in 1..MAX_REQUESTS
                /\ Since(t, table[k][1]) < WINDOW
                /\ Latest(table[k]) = Latest(buckets[k])
                /\ \A i \in DOMAIN table[k]: \E j \in DOMAIN admitted[k]: admitted[k][j] = table[k][i]
<1> DEFINE table == Pruning(t)
<1>1. /\ DOMAIN table = {k \in DOMAIN buckets: Pruned(buckets[k], t) # << >>}
      /\ \A k \in DOMAIN table: table[k] = Pruned(buckets[k], t)
  BY DEF Pruning
<1>2. /\ IsFiniteSet(DOMAIN buckets) /\ Cardinality(DOMAIN buckets) <= MAX_BUCKETS
      /\ Cardinality(DOMAIN buckets) \in Nat
      /\ \A k \in DOMAIN buckets: buckets[k] \in Seq(Nat) /\ Len(buckets[k]) \in 1..MAX_REQUESTS
  BY FS_CardinalityType DEF LimiterInv, TypeOK
<1> HIDE DEF table
<1>3. DOMAIN table \subseteq DOMAIN buckets
  BY <1>1
<1>4. /\ IsFiniteSet(DOMAIN table) /\ Cardinality(DOMAIN table) <= Cardinality(DOMAIN buckets)
      /\ Cardinality(DOMAIN table) \in Nat
  BY <1>2, <1>3, FS_Subset, FS_CardinalityType
<1>5. Cardinality(DOMAIN table) <= MAX_BUCKETS
  BY <1>2, <1>4, LimitsAssumption
<1>6. ASSUME NEW k \in DOMAIN table
      PROVE  /\ table[k] \in Seq(Nat)
             /\ Len(table[k]) \in 1..MAX_REQUESTS
             /\ Since(t, table[k][1]) < WINDOW
             /\ Latest(table[k]) = Latest(buckets[k])
             /\ \A i \in DOMAIN table[k]: \E j \in DOMAIN admitted[k]: admitted[k][j] = table[k][i]
  <2>1. /\ k \in DOMAIN buckets /\ Pruned(buckets[k], t) # << >>
        /\ table[k] = Pruned(buckets[k], t)
    BY <1>1
  <2>2. /\ table[k] \in Seq(Nat) /\ Len(table[k]) \in 1..Len(buckets[k])
        /\ Since(t, table[k][1]) < WINDOW
        /\ Latest(table[k]) = Latest(buckets[k])
        /\ \A i \in DOMAIN table[k]: \E j \in DOMAIN buckets[k]: table[k][i] = buckets[k][j]
    BY <1>2, <2>1, PrunedKeeps
  <2>3. \A i \in DOMAIN table[k]: \E j \in DOMAIN admitted[k]: admitted[k][j] = table[k][i]
    BY <2>1, <2>2 DEF LimiterInv
  <2> QED
    BY <1>2, <2>1, <2>2, <2>3, LimitsAssumption
<1> QED
  BY <1>1, <1>3, <1>4, <1>5, <1>6 DEF table

\* After the eviction there is room for the caller's bucket.
LEMMA RoomIsEnough ==
  ASSUME NEW table, IsFiniteSet(DOMAIN table), Cardinality(DOMAIN table) <= MAX_BUCKETS,
         NEW key, NEW kept \in Room(table, key)
  PROVE  /\ kept \subseteq DOMAIN table
         /\ IsFiniteSet(kept \cup {key})
         /\ Cardinality(kept \cup {key}) <= MAX_BUCKETS
         /\ kept # DOMAIN table => Cardinality(kept \cup {key}) = MAX_BUCKETS
         /\ kept # DOMAIN table => \E k \in Oldest(table): kept = DOMAIN table \ {k}
<1> DEFINE D == DOMAIN table
<1>1. Cardinality(D) \in Nat /\ MAX_BUCKETS \in Nat \ {0}
  BY FS_CardinalityType, LimitsAssumption
<1>2. CASE NeedsRoom(table, key)
  <2>1. PICK k \in Oldest(table): kept = D \ {k}
    BY <1>2 DEF Room
  <2>2. k \in D /\ key \notin D /\ Cardinality(D) >= MAX_BUCKETS
    BY <1>2 DEF Oldest, NeedsRoom
  <2>3. IsFiniteSet(D \ {k}) /\ Cardinality(D \ {k}) = Cardinality(D) - 1
    BY <2>2, FS_RemoveElement
  <2>4. IsFiniteSet(kept \cup {key}) /\ Cardinality(kept \cup {key}) = Cardinality(D) - 1 + 1
    <3>1. key \notin kept /\ IsFiniteSet(kept) /\ Cardinality(kept) = Cardinality(D) - 1
      BY <2>1, <2>2, <2>3
    <3> QED
      BY <3>1, FS_AddElement
  <2> QED
    BY <1>1, <2>1, <2>2, <2>4
<1>3. CASE ~NeedsRoom(table, key)
  <2>1. kept = D
    BY <1>3 DEF Room
  <2>2. CASE key \in D
    <3>1. D \cup {key} = D
      BY <2>2
    <3> QED
      BY <2>1, <3>1
  <2>3. CASE key \notin D
    <3>1. ~(Cardinality(D) >= MAX_BUCKETS)
      BY <1>3, <2>3 DEF NeedsRoom
    <3>2. IsFiniteSet(D \cup {key}) /\ Cardinality(D \cup {key}) = Cardinality(D) + 1
      BY <2>3, FS_AddElement
    <3> QED
      BY <1>1, <2>1, <3>1, <3>2
  <2> QED
    BY <2>2, <2>3
<1> QED
  BY <1>2, <1>3

-----------------------------------------------------------------------------
(* One lemma per action. *)

LEMMA KeysAreKeys == \A r \in Requests: RequestKey(r) \in ClientKeys /\ RequestKey(r) # << >>
BY DEF ClientKeys, RequestKey

LEMMA LimiterInit == Init => LimiterInv
<1> SUFFICES ASSUME Init PROVE LimiterInv
  OBVIOUS
<1>1. DOMAIN buckets = {} /\ buckets = << >>
  BY DEF Init
<1>2. IsFiniteSet(DOMAIN buckets) /\ Cardinality(DOMAIN buckets) = 0
  BY <1>1, FS_EmptySet
<1>3. now \in 0..MaxTime /\ call \in [Calls -> Waiting \cup {Idle}]
  BY LimitsAssumption DEF Init
<1>4. admitted \in [ClientKeys -> Seq(Nat)] /\ evicted \subseteq ClientKeys
  BY DEF Init
<1>5. buckets \in [DOMAIN buckets -> Seq(Nat)]
  BY <1>1
<1> QED
  BY <1>1, <1>2, <1>3, <1>4, <1>5, LimitsAssumption DEF LimiterInv, TypeOK

LEMMA TickKeeps == LimiterInv /\ Tick => LimiterInv'
BY LimitsAssumption DEF LimiterInv, TypeOK, Tick

LEMMA EnforceKeeps ==
  ASSUME LimiterInv, NEW c \in Calls, NEW r \in Requests, Enforce(c, r)
  PROVE  LimiterInv'
<1>1. [key |-> RequestKey(r), at |-> now] \in Waiting
  BY KeysAreKeys DEF Waiting, LimiterInv, TypeOK
<1>2. call' \in [Calls -> Waiting \cup {Idle}]
  BY <1>1 DEF Enforce, LimiterInv, TypeOK
<1> QED
  BY <1>2 DEF Enforce, LimiterInv, TypeOK

\* What allow does to the table, the part every property rests on.
LEMMA AllowStep ==
  ASSUME LimiterInv, NEW c \in Calls, Allow(c)
  PROVE  /\ call[c] \in Waiting
         /\ \E kept \in Room(Pruning(call[c].at), call[c].key):
             LET key == call[c].key
                 table == Pruning(call[c].at)
                 bucket == IF key \in kept THEN table[key] ELSE << >>
                 full == Len(bucket) >= MAX_REQUESTS
             IN  /\ buckets' = [k \in kept \cup {key} |->
                                  IF k # key THEN table[k]
                                  ELSE IF full THEN bucket ELSE Append(bucket, call[c].at)]
                 /\ admitted' = IF full THEN admitted
                                ELSE [admitted EXCEPT ![key] = Append(@, call[c].at)]
                 /\ evicted' = evicted \cup (DOMAIN table \ kept)
         /\ call' = [call EXCEPT ![c] = Idle] /\ now' = now
<1>1. call[c] \in Waiting
  BY DEF Allow, LimiterInv, TypeOK
<1> QED
  BY <1>1 DEF Allow

LEMMA AllowKeeps ==
  ASSUME LimiterInv, NEW c \in Calls, Allow(c)
  PROVE  LimiterInv'
<1> DEFINE key == call[c].key
           at == call[c].at
           table == Pruning(at)
<1>1. key \in ClientKeys /\ at \in Nat /\ call' = [call EXCEPT ![c] = Idle] /\ now' = now
  BY AllowStep DEF Waiting
<1>2. /\ DOMAIN table \subseteq DOMAIN buckets /\ IsFiniteSet(DOMAIN table)
      /\ Cardinality(DOMAIN table) <= MAX_BUCKETS
      /\ \A k \in DOMAIN table:
           /\ table[k] \in Seq(Nat) /\ Len(table[k]) \in 1..MAX_REQUESTS
           /\ \A i \in DOMAIN table[k]: \E j \in DOMAIN admitted[k]: admitted[k][j] = table[k][i]
  BY <1>1, TableAfterPruning
<1> HIDE DEF key, at, table
<1>3. PICK kept \in Room(table, key):
        LET bucket == IF key \in kept THEN table[key] ELSE << >>
            full == Len(bucket) >= MAX_REQUESTS
        IN  /\ buckets' = [k \in kept \cup {key} |->
                             IF k # key THEN table[k] ELSE IF full THEN bucket ELSE Append(bucket, at)]
            /\ admitted' = IF full THEN admitted ELSE [admitted EXCEPT ![key] = Append(@, at)]
            /\ evicted' = evicted \cup (DOMAIN table \ kept)
  BY AllowStep DEF key, at, table
<1> DEFINE bucket == IF key \in kept THEN table[key] ELSE << >>
           full == Len(bucket) >= MAX_REQUESTS
<1>4. /\ kept \subseteq DOMAIN table /\ IsFiniteSet(kept \cup {key})
      /\ Cardinality(kept \cup {key}) <= MAX_BUCKETS
  BY <1>2, RoomIsEnough
<1>5. /\ bucket \in Seq(Nat) /\ Len(bucket) \in 0..MAX_REQUESTS
      /\ \A i \in DOMAIN bucket: \E j \in DOMAIN admitted[key]: admitted[key][j] = bucket[i]
  BY <1>2, <1>4, LimitsAssumption
<1> HIDE DEF bucket
<1>6. /\ DOMAIN buckets' = kept \cup {key}
      /\ \A k \in kept: k # key => buckets'[k] = table[k]
      /\ buckets'[key] = IF full THEN bucket ELSE Append(bucket, at)
  BY <1>3 DEF bucket
<1>7. admitted' = IF full THEN admitted ELSE [admitted EXCEPT ![key] = Append(@, at)]
  BY <1>3 DEF bucket
<1>8. /\ buckets'[key] \in Seq(Nat) /\ Len(buckets'[key]) \in 1..MAX_REQUESTS
  BY <1>1, <1>5, <1>6, LimitsAssumption
<1>9. /\ admitted \in [ClientKeys -> Seq(Nat)] /\ admitted' \in [ClientKeys -> Seq(Nat)]
      /\ \A k \in ClientKeys: k # key => admitted'[k] = admitted[k]
      /\ admitted'[key] = IF full THEN admitted[key] ELSE Append(admitted[key], at)
  BY <1>1, <1>7 DEF LimiterInv, TypeOK
<1>10. DOMAIN table \subseteq ClientKeys
  BY <1>2 DEF LimiterInv, TypeOK
<1>11. TypeOK'
  <2>1. \A k \in DOMAIN buckets': buckets'[k] \in Seq(Nat) /\ Len(buckets'[k]) \in 1..MAX_REQUESTS
    BY <1>2, <1>4, <1>6, <1>8
  <2>2. buckets' = [k \in DOMAIN buckets' |-> buckets'[k]]
    BY <1>3
  <2>3. DOMAIN buckets' \subseteq ClientKeys /\ evicted' \subseteq ClientKeys
    BY <1>1, <1>3, <1>4, <1>6, <1>10 DEF LimiterInv, TypeOK
  <2>4. now' \in 0..MaxTime /\ call' \in [Calls -> Waiting \cup {Idle}]
    BY <1>1 DEF LimiterInv, TypeOK
  <2> QED
    BY <1>4, <1>6, <1>9, <2>1, <2>2, <2>3, <2>4 DEF TypeOK
<1>12. IsFiniteSet(DOMAIN buckets')
  BY <1>4, <1>6
<1>13. \A k \in DOMAIN buckets': \A i \in DOMAIN buckets'[k]:
         \E j \in DOMAIN admitted'[k]: admitted'[k][j] = buckets'[k][i]
  <2> SUFFICES ASSUME NEW k \in DOMAIN buckets', NEW i \in DOMAIN buckets'[k]
               PROVE  \E j \in DOMAIN admitted'[k]: admitted'[k][j] = buckets'[k][i]
    OBVIOUS
  <2>1. CASE k # key
    <3>1. k \in kept /\ k \in DOMAIN table /\ k \in ClientKeys
      BY <1>4, <1>6, <1>10, <2>1
    <3> QED
      BY <1>2, <1>6, <1>9, <2>1, <3>1
  <2>2. CASE k = key /\ full
    BY <1>5, <1>6, <1>9, <2>2
  <2>3. CASE k = key /\ ~full
    <3>1. buckets'[key] = Append(bucket, at) /\ admitted'[key] = Append(admitted[key], at)
      BY <1>6, <1>9, <2>3
    <3>2. admitted[key] \in Seq(Nat)
      BY <1>1, <1>9
    <3>3. CASE i = Len(bucket) + 1
      <4>1. buckets'[key][i] = at
        BY <1>5, <3>1, <3>3
      <4>2. /\ Len(admitted[key]) + 1 \in DOMAIN admitted'[key]
            /\ admitted'[key][Len(admitted[key]) + 1] = at
        BY <1>1, <3>1, <3>2
      <4> QED
        BY <2>3, <4>1, <4>2
    <3>4. CASE i \in DOMAIN bucket
      <4>1. buckets'[key][i] = bucket[i]
        BY <1>5, <3>1, <3>4
      <4>2. PICK j \in DOMAIN admitted[key]: admitted[key][j] = bucket[i]
        BY <1>5, <3>4
      <4>3. j \in DOMAIN admitted'[key] /\ admitted'[key][j] = admitted[key][j]
        BY <1>1, <3>1, <3>2
      <4> QED
        BY <2>3, <4>1, <4>2, <4>3
    <3>5. i = Len(bucket) + 1 \/ i \in DOMAIN bucket
      BY <1>5, <2>3, <3>1
    <3> QED
      BY <3>3, <3>4, <3>5
  <2> QED
    BY <2>1, <2>2, <2>3
<1> QED
  BY <1>11, <1>12, <1>13 DEF LimiterInv

-----------------------------------------------------------------------------
LEMMA LimiterStep == LimiterInv /\ [Next]_vars => LimiterInv'
<1> SUFFICES ASSUME LimiterInv, [Next]_vars PROVE LimiterInv'
  OBVIOUS
<1>1. CASE UNCHANGED vars
  BY <1>1 DEF vars, LimiterInv, TypeOK
<1>2. CASE Tick
  BY <1>2, TickKeeps
<1>3. ASSUME NEW c \in Calls, NEW r \in Requests, Enforce(c, r) PROVE LimiterInv'
  BY <1>3, EnforceKeeps
<1>4. ASSUME NEW c \in Calls, Allow(c) PROVE LimiterInv'
  BY <1>4, AllowKeeps
<1> QED
  BY <1>1, <1>2, <1>3, <1>4 DEF Next

LEMMA LimiterInvariant == Spec => []LimiterInv
BY LimiterInit, LimiterStep, PTL DEF Spec

\* Whoever asks, with whatever keys, the table of buckets and every bucket in
\* it stay within their limits (allow, rate_limit.rs:57).
THEOREM TableIsBounded == Spec => []TypeOK
<1>1. LimiterInv => TypeOK
  BY DEF LimiterInv
<1> QED
  BY <1>1, LimiterInvariant, PTL

\* A step that answers a call is that call's turn under the lock.
LEMMA AnswerIsAllow ==
  ASSUME LimiterInv, [Next]_vars, NEW c \in Calls, call[c] # Idle, call'[c] = Idle
  PROVE  Allow(c)
<1>1. call \in [Calls -> Waiting \cup {Idle}]
  BY DEF LimiterInv, TypeOK
<1>2. call' # call
  OBVIOUS
<1>3. CASE Tick \/ UNCHANGED vars
  BY <1>2, <1>3 DEF Tick, vars
<1>4. ASSUME NEW d \in Calls, NEW r \in Requests, Enforce(d, r) PROVE FALSE
  <2>1. d # c /\ call' = [call EXCEPT ![d] = [key |-> RequestKey(r), at |-> now]]
    BY <1>4 DEF Enforce
  <2> QED
    BY <1>1, <2>1
<1>5. ASSUME NEW d \in Calls, Allow(d) PROVE d = c
  <2>1. call' = [call EXCEPT ![d] = Idle]
    BY <1>5 DEF Allow
  <2> QED
    BY <1>1, <2>1
<1> QED
  BY <1>3, <1>4, <1>5 DEF Next

\* A client that pauses for one window is admitted again, whatever else asks
\* and whatever the table holds (allow, rate_limit.rs:57).
THEOREM PausesEndRefusal == Spec => RefusedOnlyWhenBusy
<1> DEFINE Busy(c) == \E i \in DOMAIN admitted[call[c].key]:
                        Since(call[c].at, admitted[call[c].key][i]) < WINDOW
           Prop == \A c \in Calls: call[c] # Idle /\ call'[c] = Idle /\ admitted' = admitted => Busy(c)
<1>1. LimiterInv /\ [Next]_vars => [Prop]_vars
  <2> SUFFICES ASSUME LimiterInv, [Next]_vars,
                      NEW c \in Calls, call[c] # Idle, call'[c] = Idle, admitted' = admitted
               PROVE  Busy(c)
    OBVIOUS
  <2> DEFINE key == call[c].key
             at == call[c].at
             table == Pruning(at)
  <2>1. Allow(c)
    BY AnswerIsAllow
  <2>2. key \in ClientKeys /\ at \in Nat
    BY <2>1, AllowStep DEF Waiting
  <2>3. PICK kept \in Room(table, key):
          LET bucket == IF key \in kept THEN table[key] ELSE << >>
              full == Len(bucket) >= MAX_REQUESTS
          IN  admitted' = IF full THEN admitted ELSE [admitted EXCEPT ![key] = Append(@, at)]
    BY <2>1, AllowStep
  <2> DEFINE bucket == IF key \in kept THEN table[key] ELSE << >>
  <2>4. Len(bucket) >= MAX_REQUESTS
    <3>1. admitted \in [ClientKeys -> Seq(Nat)] /\ admitted[key] \in Seq(Nat)
      BY <2>2 DEF LimiterInv, TypeOK
    <3>2. [admitted EXCEPT ![key] = Append(@, at)][key] = Append(admitted[key], at)
      BY <2>2, <3>1
    <3>3. Append(admitted[key], at) # admitted[key]
      <4>1. Len(Append(admitted[key], at)) = Len(admitted[key]) + 1 /\ Len(admitted[key]) \in Nat
        BY <2>2, <3>1
      <4> QED
        BY <4>1
    <3> QED
      BY <2>3, <3>2, <3>3
  <2>5. key \in kept /\ bucket = table[key]
    <3>1. key \notin kept => Len(bucket) = 0
      OBVIOUS
    <3> QED
      BY <2>4, <3>1, LimitsAssumption
  <2>6. /\ IsFiniteSet(DOMAIN table) /\ Cardinality(DOMAIN table) <= MAX_BUCKETS
        /\ \A k \in DOMAIN table:
             /\ table[k] \in Seq(Nat) /\ Len(table[k]) \in 1..MAX_REQUESTS
             /\ Since(at, table[k][1]) < WINDOW
             /\ \A i \in DOMAIN table[k]: \E j \in DOMAIN admitted[k]: admitted[k][j] = table[k][i]
    BY <2>2, TableAfterPruning
  <2> HIDE DEF key, at, table
  <2>7. key \in DOMAIN table
    BY <2>5, <2>6, RoomIsEnough
  <2>8. 1 \in DOMAIN table[key] /\ Since(at, table[key][1]) < WINDOW
    BY <2>6, <2>7
  <2>9. \E j \in DOMAIN admitted[key]: Since(at, admitted[key][j]) < WINDOW
    BY <2>6, <2>7, <2>8
  <2> QED
    BY <2>9 DEF key, at
<1> QED
  BY <1>1, LimiterInvariant, PTL DEF Spec, RefusedOnlyWhenBusy

\* A bucket that still counts is evicted only from a full table, and none of
\* the other buckets is staler (evict_oldest_bucket, rate_limit.rs:88).
THEOREM EvictionIsFair == Spec => EvictsTheStalest
<1> DEFINE Right(k, c) ==
             \/ Since(call[c].at, Latest(buckets[k])) >= WINDOW
             \/ /\ Cardinality(DOMAIN buckets') = MAX_BUCKETS
                /\ \A j \in DOMAIN buckets' \ {call[c].key}: Latest(buckets[k]) <= Latest(buckets'[j])
           Prop == \A k \in DOMAIN buckets \ DOMAIN buckets': \A c \in Calls:
                     call[c] # Idle /\ call'[c] = Idle => Right(k, c)
<1>1. LimiterInv /\ [Next]_vars => [Prop]_vars
  <2> SUFFICES ASSUME LimiterInv, [Next]_vars, NEW k \in DOMAIN buckets \ DOMAIN buckets',
                      NEW c \in Calls, call[c] # Idle, call'[c] = Idle
               PROVE  Right(k, c)
    OBVIOUS
  <2> DEFINE key == call[c].key
             at == call[c].at
             table == Pruning(at)
  <2>1. Allow(c)
    BY AnswerIsAllow
  <2>2. at \in Nat
    BY <2>1, AllowStep DEF Waiting
  <2>3. PICK kept \in Room(table, key):
          LET bucket == IF key \in kept THEN table[key] ELSE << >>
              full == Len(bucket) >= MAX_REQUESTS
          IN  buckets' = [j \in kept \cup {key} |->
                            IF j # key THEN table[j] ELSE IF full THEN bucket ELSE Append(bucket, at)]
    BY <2>1, AllowStep
  <2>4. /\ DOMAIN buckets' = kept \cup {key}
        /\ \A j \in kept \ {key}: buckets'[j] = table[j]
    BY <2>3
  <2>5. /\ IsFiniteSet(DOMAIN table) /\ Cardinality(DOMAIN table) <= MAX_BUCKETS
        /\ \A j \in DOMAIN table: Latest(table[j]) = Latest(buckets[j])
        /\ DOMAIN table = {j \in DOMAIN buckets: Pruned(buckets[j], at) # << >>}
    <3>1. DOMAIN table = {j \in DOMAIN buckets: Pruned(buckets[j], at) # << >>}
      BY DEF Pruning
    <3> QED
      BY <2>2, <3>1, TableAfterPruning
  <2>6. buckets[k] \in Seq(Nat) /\ Len(buckets[k]) >= 1
    BY LimitsAssumption DEF LimiterInv, TypeOK
  <2>7. CASE k \notin DOMAIN table
    <3>1. Pruned(buckets[k], at) = << >>
      BY <2>5, <2>7
    <3>2. Since(at, Latest(buckets[k])) >= WINDOW
      BY <2>2, <2>6, <3>1, PrunedAwayIsOld
    <3> QED
      BY <3>2
  <2>8. CASE k \in DOMAIN table
    <3> HIDE DEF table
    <3>1. k \notin kept \cup {key}
      BY <2>4
    <3>2. /\ kept \subseteq DOMAIN table /\ kept # DOMAIN table
          /\ Cardinality(kept \cup {key}) = MAX_BUCKETS
          /\ \E old \in Oldest(table): kept = DOMAIN table \ {old}
      <4>1. kept \in Room(table, key) /\ kept # DOMAIN table
        BY <2>3, <2>8, <3>1
      <4>2. IsFiniteSet(DOMAIN table) /\ Cardinality(DOMAIN table) <= MAX_BUCKETS
        BY <2>5
      <4> HIDE DEF key
      <4>3. QED
        BY <4>1, <4>2, RoomIsEnough
    <3>3. k \in Oldest(table)
      BY <2>8, <3>1, <3>2
    <3>4. \A j \in kept \ {key}: Latest(table[k]) <= Latest(table[j])
      BY <3>2, <3>3 DEF Oldest
    <3>5. \A j \in DOMAIN buckets' \ {key}: Latest(buckets[k]) <= Latest(buckets'[j])
      BY <2>4, <2>5, <2>8, <3>4
    <3> QED
      BY <2>4, <3>2, <3>5
  <2> QED
    BY <2>7, <2>8
<1> QED
  BY <1>1, LimiterInvariant, PTL DEF Spec, EvictsTheStalest

-----------------------------------------------------------------------------
(* The limit in a window. *)

\* The bucket of a key, empty when the table has none.
BucketOf(k) == IF k \in DOMAIN buckets THEN buckets[k] ELSE << >>

\* The readings in b are the last of all.
IsEnd(b, all) == /\ Len(b) <= Len(all)
                 /\ \A i \in 1..Len(b): b[i] = all[Len(all) - Len(b) + i]

\* Pruning pops readings that are a window old, from the front.
LEMMA PrunedPops ==
  ASSUME NEW b \in Seq(Nat), NEW t \in Nat
  PROVE  \E m \in 0..Len(b):
           /\ Pruned(b, t) \in Seq(Nat) /\ Len(Pruned(b, t)) = Len(b) - m
           /\ \A i \in 1..Len(b) - m: Pruned(b, t)[i] = b[m + i]
           /\ \A i \in 1..m: ~(Since(t, b[i]) < WINDOW)
<1> DEFINE counting == {i \in DOMAIN b: Since(t, b[i]) < WINDOW}
<1>1. DOMAIN b = 1..Len(b) /\ Len(b) \in Nat /\ counting \in SUBSET Nat
  OBVIOUS
<1>2. CASE counting = {}
  <2>1. Pruned(b, t) = << >>
    BY <1>2 DEF Pruned
  <2>2. \A i \in 1..Len(b): ~(Since(t, b[i]) < WINDOW)
    BY <1>1, <1>2
  <2> WITNESS Len(b) \in 0..Len(b)
  <2> QED
    BY <1>1, <2>1, <2>2
<1>3. CASE counting # {}
  <2> DEFINE f == Min(counting)
  <2>1. f \in counting /\ \A i \in counting: f <= i
    BY <1>1, <1>3, LeastNatural
  <2>2. Pruned(b, t) = SubSeq(b, f, Len(b))
    BY <1>3 DEF Pruned
  <2>3. \A i \in DOMAIN b: i \notin counting => ~(Since(t, b[i]) < WINDOW)
    OBVIOUS
  <2> HIDE DEF counting, f
  <2>4. f \in 1..Len(b)
    BY <1>1, <2>1 DEF counting
  <2>5. \A i \in 1..f - 1: ~(Since(t, b[i]) < WINDOW)
    <3> SUFFICES ASSUME NEW i \in 1..f - 1 PROVE ~(Since(t, b[i]) < WINDOW)
      OBVIOUS
    <3>1. i \in DOMAIN b /\ ~(f <= i)
      BY <1>1, <2>4
    <3> QED
      BY <2>1, <2>3, <3>1
  <2>6. /\ SubSeq(b, f, Len(b)) \in Seq(Nat) /\ Len(SubSeq(b, f, Len(b))) = Len(b) - (f - 1)
        /\ \A i \in 1..Len(b) - (f - 1): SubSeq(b, f, Len(b))[i] = b[(f - 1) + i]
    BY <1>1, <2>4
  <2>7. f - 1 \in 0..Len(b)
    BY <1>1, <2>4
  <2> QED
    BY <2>2, <2>5, <2>6, <2>7
<1> QED
  BY <1>2, <1>3

\* What pruning leaves is an end of the history still, and what it pops is a
\* window old: when windows have no length, nothing lies in one.
LEMMA PrunedIsEndStill ==
  ASSUME NEW all \in Seq(Nat), NEW b \in Seq(Nat), IsEnd(b, all), NEW t \in Nat
  PROVE  LET p == Pruned(b, t) IN
           /\ p \in Seq(Nat) /\ Len(p) <= Len(b)
           /\ IsEnd(p, all) /\ IsEnd(Append(p, t), Append(all, t))
           /\ \A i \in 1..Len(all):
                i > Len(all) - Len(b) /\ i <= Len(all) - Len(p) => WINDOW = 0 \/ all[i] + WINDOW <= t
<1>1. PICK m \in 0..Len(b):
        /\ Pruned(b, t) \in Seq(Nat) /\ Len(Pruned(b, t)) = Len(b) - m
        /\ \A i \in 1..Len(b) - m: Pruned(b, t)[i] = b[m + i]
        /\ \A i \in 1..m: ~(Since(t, b[i]) < WINDOW)
  BY PrunedPops
<1> DEFINE p == Pruned(b, t)
           a == Append(all, t)
           q == Append(p, t)
<1>0. Len(all) \in Nat /\ Len(b) \in Nat
  OBVIOUS
<1>2. /\ Len(all) \in Nat /\ Len(b) \in Nat /\ Len(b) <= Len(all)
      /\ \A i \in 1..Len(b): b[i] = all[Len(all) - Len(b) + i]
  BY <1>0, Zenon DEF IsEnd
<1> HIDE DEF p
<1>3. /\ p \in Seq(Nat) /\ Len(p) = Len(b) - m /\ Len(p) \in Nat
      /\ \A i \in 1..Len(p): p[i] = b[m + i]
  BY <1>1, <1>2 DEF p
<1>4. ASSUME NEW i \in 1..Len(p) PROVE p[i] = all[Len(all) - Len(p) + i]
  <2>1. m + i \in 1..Len(b) /\ Len(all) - Len(b) + (m + i) = Len(all) - Len(p) + i
    BY <1>2, <1>3
  <2>2. p[i] = b[m + i] /\ b[m + i] = all[Len(all) - Len(b) + (m + i)]
    BY <1>2, <1>3, <2>1
  <2> QED
    BY <2>1, <2>2
<1>5. IsEnd(p, all)
  <2>1. Len(p) <= Len(all)
    BY <1>2, <1>3
  <2> QED
    BY <1>4, <2>1, Zenon DEF IsEnd
<1>6. IsEnd(q, a)
  <2>1. /\ Len(a) = Len(all) + 1 /\ Len(q) = Len(p) + 1
        /\ a[Len(all) + 1] = t /\ q[Len(p) + 1] = t
        /\ \A i \in 1..Len(all): a[i] = all[i]
        /\ \A i \in 1..Len(p): q[i] = p[i]
    BY <1>2, <1>3
  <2> HIDE DEF a, q
  <2>2. ASSUME NEW i \in 1..Len(q) PROVE q[i] = a[Len(a) - Len(q) + i]
    <3>1. CASE i = Len(p) + 1
      <4>1. Len(a) - Len(q) + i = Len(all) + 1
        BY <1>2, <1>3, <2>1, <3>1
      <4> QED
        BY <2>1, <3>1, <4>1
    <3>2. CASE i # Len(p) + 1
      <4>1. i \in 1..Len(p)
        BY <1>3, <2>1, <3>2
      <4>2. Len(a) - Len(q) + i = Len(all) - Len(p) + i /\ Len(all) - Len(p) + i \in 1..Len(all)
        <5>1. Len(all) \in Nat /\ Len(p) \in Nat /\ Len(p) <= Len(all) /\ i \in Nat /\ 1 <= i /\ i <= Len(p)
          BY <1>2, <1>3, <4>1
        <5>2. Len(a) = Len(all) + 1 /\ Len(q) = Len(p) + 1
          BY <2>1
        <5> QED
          BY <5>1, <5>2
      <4>3. a[Len(all) - Len(p) + i] = all[Len(all) - Len(p) + i]
        BY <2>1, <4>2
      <4> QED
        BY <1>4, <2>1, <4>1, <4>2, <4>3
    <3> QED
      BY <3>1, <3>2
  <2> QED
    BY <1>2, <1>3, <2>1, <2>2 DEF IsEnd
<1>7. ASSUME NEW i \in 1..Len(all), i > Len(all) - Len(b), i <= Len(all) - Len(p)
      PROVE  WINDOW = 0 \/ all[i] + WINDOW <= t
  <2> DEFINE j == i - (Len(all) - Len(b))
  <2>1. j \in 1..m /\ j \in 1..Len(b) /\ Len(all) - Len(b) + j = i
    BY <1>2, <1>3, <1>7
  <2>2. b[j] = all[i] /\ ~(Since(t, b[j]) < WINDOW)
    BY <1>1, <1>2, <2>1
  <2>3. all[i] \in Nat
    OBVIOUS
  <2> HIDE DEF j
  <2>4. ~(Since(t, all[i]) < WINDOW)
    BY <2>2
  <2> QED
    BY <2>3, <2>4, LimitsAssumption DEF Since
<1> QED
  BY <1>3, <1>5, <1>6, <1>7 DEF p

\* What a call does to the bucket and the history of a key that keeps its
\* bucket: pruning, and for the call's own key perhaps one admission.
LEMMA AllowAdmits ==
  ASSUME LimiterInv, NEW c \in Calls, Allow(c), NEW k \in ClientKeys \ evicted'
  PROVE  LET p == Pruned(BucketOf(k), call[c].at) IN
           \/ BucketOf(k)' = p /\ admitted'[k] = admitted[k]
           \/ /\ k = call[c].key
              /\ BucketOf(k)' = Append(p, call[c].at)
              /\ admitted'[k] = Append(admitted[k], call[c].at)
<1> DEFINE key == call[c].key
           at == call[c].at
           table == Pruning(at)
           p == Pruned(BucketOf(k), at)
<1>1. PICK kept \in Room(table, key):
        LET bucket == IF key \in kept THEN table[key] ELSE << >>
            full == Len(bucket) >= MAX_REQUESTS
        IN  /\ buckets' = [j \in kept \cup {key} |->
                             IF j # key THEN table[j] ELSE IF full THEN bucket ELSE Append(bucket, at)]
            /\ admitted' = IF full THEN admitted ELSE [admitted EXCEPT ![key] = Append(@, at)]
            /\ evicted' = evicted \cup (DOMAIN table \ kept)
  BY AllowStep
<1>2. /\ at \in Nat /\ key \in ClientKeys
      /\ admitted \in [ClientKeys -> Seq(Nat)]
  BY AllowStep DEF Waiting, LimiterInv, TypeOK
<1>3. Pruned(<< >>, at) = << >>
  BY DEF Pruned
<1>4. (k \in DOMAIN table => table[k] = p) /\ (k \notin DOMAIN table => p = << >>)
  <2>1. DOMAIN table = {j \in DOMAIN buckets: Pruned(buckets[j], at) # << >>}
    BY DEF Pruning
  <2>2. k \in DOMAIN table => table[k] = Pruned(buckets[k], at)
    BY DEF Pruning
  <2>3. k \notin DOMAIN table => k \notin DOMAIN buckets \/ Pruned(buckets[k], at) = << >>
    BY <2>1
  <2>4. k \in DOMAIN table => k \in DOMAIN buckets
    BY <2>1
  <2> HIDE DEF table
  <2> QED
    BY <1>3, <2>2, <2>3, <2>4 DEF BucketOf
<1>5. kept \subseteq DOMAIN table /\ (key \in DOMAIN table => key \in kept)
  BY DEF Room, NeedsRoom, Oldest
<1> HIDE DEF table, p, at, key
<1>6. k \in DOMAIN table => k \in kept
  BY <1>1
<1>7. CASE k # key
  <2>1. admitted'[k] = admitted[k]
    BY <1>1, <1>2, <1>7
  <2>2. DOMAIN buckets' = kept \cup {key} /\ (k \in kept => buckets'[k] = table[k])
    BY <1>1, <1>7
  <2>3. BucketOf(k)' = p
    BY <1>4, <1>5, <1>6, <1>7, <2>2 DEF BucketOf
  <2> QED
    BY <2>1, <2>3 DEF p, at
<1>8. CASE k = key
  <2> DEFINE bucket == IF key \in kept THEN table[key] ELSE << >>
             full == Len(bucket) >= MAX_REQUESTS
  <2>1. bucket = p
    BY <1>4, <1>5, <1>6, <1>8
  <2>2. DOMAIN buckets' = kept \cup {key} /\ buckets'[key] = IF full THEN bucket ELSE Append(bucket, at)
    BY <1>1
  <2>3. admitted' = IF full THEN admitted ELSE [admitted EXCEPT ![key] = Append(@, at)]
    BY <1>1
  <2> HIDE DEF bucket
  <2>4. BucketOf(k)' = IF full THEN p ELSE Append(p, at)
    BY <1>8, <2>1, <2>2 DEF BucketOf
  <2>5. admitted'[k] = IF full THEN admitted[k] ELSE Append(admitted[k], at)
    BY <1>2, <1>8, <2>3
  <2> QED
    BY <1>8, <2>4, <2>5 DEF p, at, key
<1> QED
  BY <1>7, <1>8

\* The calls of a key that read the clock in a window and are not answered.
Late(k, from) == {c \in Calls: call[c].key = k /\ call[c].at \in from..(from + WINDOW - 1)}

\* All that was admitted in a window is still in the bucket; or some of it was
\* pruned, hence the window is over, and who waits with a reading in it is few.
WindowHolds(k, from) ==
  \/ \A i \in AdmittedIn(k, from): i > Len(admitted[k]) - Len(BucketOf(k))
  \/ /\ from + WINDOW <= now
     /\ Cardinality(AdmittedIn(k, from)) + Cardinality(Late(k, from))
          <= MAX_REQUESTS + (Cardinality(Calls) - 1)

\* The inductive invariant behind WindowLimit.
WindowInv ==
  /\ \A c \in Calls: call[c].at <= now
  /\ \A k \in ClientKeys \ evicted:
       IsEnd(BucketOf(k), admitted[k]) /\ \A from \in Nat: WindowHolds(k, from)

LEMMA CallsAreFinite ==
  /\ IsFiniteSet(Calls) /\ Cardinality(Calls) \in Nat /\ Cardinality(Calls) >= 1
  /\ \A S \in SUBSET Calls: IsFiniteSet(S) /\ Cardinality(S) \in Nat /\ Cardinality(S) <= Cardinality(Calls)
<1>1. IsFiniteSet(Calls) /\ Cardinality(Calls) \in Nat /\ Cardinality(Calls) # 0
  BY CallsAssumption, FS_CardinalityType, FS_EmptySet
<1>2. \A S \in SUBSET Calls: IsFiniteSet(S) /\ Cardinality(S) \in Nat /\ Cardinality(S) <= Cardinality(Calls)
  BY <1>1, FS_Subset, FS_CardinalityType
<1> QED
  BY <1>1, <1>2

LEMMA AdmittedInIsFinite ==
  ASSUME LimiterInv, NEW k \in ClientKeys, NEW from \in Nat
  PROVE  /\ admitted[k] \in Seq(Nat) /\ Len(admitted[k]) \in Nat
         /\ AdmittedIn(k, from) \subseteq 1..Len(admitted[k])
         /\ IsFiniteSet(AdmittedIn(k, from)) /\ Cardinality(AdmittedIn(k, from)) \in Nat
         /\ BucketOf(k) \in Seq(Nat) /\ Len(BucketOf(k)) \in 0..MAX_REQUESTS
<1>1. admitted[k] \in Seq(Nat)
  BY DEF LimiterInv, TypeOK
<1>2. Len(admitted[k]) \in Nat /\ AdmittedIn(k, from) \subseteq 1..Len(admitted[k])
  BY <1>1 DEF AdmittedIn
<1>3. IsFiniteSet(1..Len(admitted[k]))
  BY <1>2, FS_Interval
<1>4. IsFiniteSet(AdmittedIn(k, from)) /\ Cardinality(AdmittedIn(k, from)) \in Nat
  BY <1>2, <1>3, FS_Subset, FS_CardinalityType
<1>5. BucketOf(k) \in Seq(Nat) /\ Len(BucketOf(k)) \in 0..MAX_REQUESTS
  <2>1. k \in DOMAIN buckets => buckets[k] \in Seq(Nat) /\ Len(buckets[k]) \in 1..MAX_REQUESTS
    BY DEF LimiterInv, TypeOK
  <2> QED
    BY <2>1, LimitsAssumption DEF BucketOf
<1> QED
  BY <1>1, <1>2, <1>4, <1>5

\* What is in the bucket is no more than the bucket holds.
LEMMA InBucketIsFew ==
  ASSUME LimiterInv, NEW k \in ClientKeys, NEW from \in Nat, IsEnd(BucketOf(k), admitted[k]),
         \A i \in AdmittedIn(k, from): i > Len(admitted[k]) - Len(BucketOf(k))
  PROVE  Cardinality(AdmittedIn(k, from)) <= MAX_REQUESTS
<1> DEFINE n == Len(admitted[k])
           b == Len(BucketOf(k))
           A == AdmittedIn(k, from)
<1>1. n \in Nat /\ b \in 0..MAX_REQUESTS /\ A \subseteq 1..n /\ b <= n /\ \A i \in A: i > n - b
  BY AdmittedInIsFinite DEF IsEnd
<1> HIDE DEF n, b, A
<1>2. b \in Nat /\ n - b + 1 \in Int /\ n \in Int /\ b <= MAX_REQUESTS
  BY <1>1, LimitsAssumption
<1>3. A \subseteq (n - b + 1)..n
  BY <1>1, <1>2
<1>4. IsFiniteSet((n - b + 1)..n) /\ Cardinality((n - b + 1)..n) = b
  <2>1. IsFiniteSet((n - b + 1)..n)
        /\ Cardinality((n - b + 1)..n) = IF n - b + 1 > n THEN 0 ELSE n - (n - b + 1) + 1
    BY <1>2, FS_Interval
  <2> QED
    BY <1>1, <1>2, <2>1
<1>5. Cardinality(A) <= b /\ Cardinality(A) \in Nat
  BY <1>3, <1>4, FS_Subset, FS_CardinalityType
<1>6. Cardinality(A) <= MAX_REQUESTS
  BY <1>2, <1>5, LimitsAssumption
<1> QED
  BY <1>6 DEF A

LEMMA WindowInit == Init => WindowInv
<1> SUFFICES ASSUME Init PROVE WindowInv
  OBVIOUS
<1>1. \A c \in Calls: call[c].at <= now
  BY DEF Init, Idle
<1>2. ASSUME NEW k \in ClientKeys PROVE BucketOf(k) = << >> /\ admitted[k] = << >>
  BY DEF Init, BucketOf
<1>3. ASSUME NEW k \in ClientKeys PROVE IsEnd(BucketOf(k), admitted[k])
  BY <1>2 DEF IsEnd
<1>4. ASSUME NEW k \in ClientKeys, NEW from \in Nat PROVE WindowHolds(k, from)
  <2>1. DOMAIN admitted[k] = {}
    BY <1>2
  <2>2. AdmittedIn(k, from) = {}
    BY <2>1 DEF AdmittedIn
  <2> QED
    BY <2>2 DEF WindowHolds
<1> QED
  BY <1>1, <1>3, <1>4 DEF WindowInv

LEMMA TickKeepsWindow ==
  ASSUME LimiterInv, WindowInv, Tick
  PROVE  WindowInv'
<1>1. /\ now \in Nat /\ now' = now + 1 /\ \A c \in Calls: call[c].at \in Nat
      /\ UNCHANGED <<call, buckets, admitted, evicted>>
  BY DEF Tick, LimiterInv, TypeOK, Waiting, Idle
<1>2. \A c \in Calls: call'[c].at <= now'
  BY <1>1 DEF WindowInv
<1>3. ASSUME NEW k \in ClientKeys \ evicted PROVE IsEnd(BucketOf(k), admitted[k])'
  BY <1>1 DEF WindowInv, BucketOf, IsEnd
<1>4. ASSUME NEW k \in ClientKeys \ evicted, NEW from \in Nat PROVE WindowHolds(k, from)'
  <2>1. /\ BucketOf(k)' = BucketOf(k) /\ admitted' = admitted
        /\ AdmittedIn(k, from)' = AdmittedIn(k, from) /\ Late(k, from)' = Late(k, from)
    BY <1>1 DEF BucketOf, AdmittedIn, Late
  <2>2. from + WINDOW <= now => from + WINDOW <= now'
    BY <1>1, LimitsAssumption
  <2>3. WindowHolds(k, from)
    BY DEF WindowInv
  <2> QED
    BY <2>1, <2>2, <2>3 DEF WindowHolds
<1> QED
  BY <1>1, <1>2, <1>3, <1>4 DEF WindowInv

\* A call that arrives reads the clock now, so in no window that is over.
LEMMA EnforceKeepsWindow ==
  ASSUME LimiterInv, WindowInv, NEW c \in Calls, NEW r \in Requests, Enforce(c, r)
  PROVE  WindowInv'
<1>1. /\ now \in Nat /\ now' = now /\ \A d \in Calls: call[d].at \in Nat
      /\ UNCHANGED <<buckets, admitted, evicted>>
      /\ call[c] = Idle
      /\ call'[c].at = now /\ \A d \in Calls \ {c}: call'[d] = call[d]
  BY DEF Enforce, LimiterInv, TypeOK, Waiting, Idle
<1>2. \A d \in Calls: call'[d].at <= now'
  BY <1>1 DEF WindowInv
<1>3. ASSUME NEW k \in ClientKeys \ evicted PROVE IsEnd(BucketOf(k), admitted[k])'
  BY <1>1 DEF WindowInv, BucketOf, IsEnd
<1>4. ASSUME NEW k \in ClientKeys \ evicted, NEW from \in Nat PROVE WindowHolds(k, from)'
  <2>1. /\ BucketOf(k)' = BucketOf(k) /\ admitted' = admitted
        /\ AdmittedIn(k, from)' = AdmittedIn(k, from)
    BY <1>1 DEF BucketOf, AdmittedIn
  <2>2. from + WINDOW <= now => Late(k, from)' \subseteq Late(k, from)
    <3> SUFFICES ASSUME from + WINDOW <= now, NEW d \in Late(k, from)' PROVE d \in Late(k, from)
      OBVIOUS
    <3>1. d \in Calls /\ call'[d].key = k /\ call'[d].at \in from..(from + WINDOW - 1)
      BY DEF Late
    <3>2. d # c
      BY <1>1, <3>1, LimitsAssumption
    <3> QED
      BY <1>1, <3>1, <3>2 DEF Late
  <2>3. WindowHolds(k, from)
    BY DEF WindowInv
  <2>4. CASE \A i \in AdmittedIn(k, from): i > Len(admitted[k]) - Len(BucketOf(k))
    BY <2>1, <2>4 DEF WindowHolds
  <2>5. CASE /\ from + WINDOW <= now
             /\ Cardinality(AdmittedIn(k, from)) + Cardinality(Late(k, from))
                  <= MAX_REQUESTS + (Cardinality(Calls) - 1)
    <3>1. /\ Late(k, from) \in SUBSET Calls /\ Late(k, from)' \subseteq Late(k, from)
      BY <2>2, <2>5 DEF Late
    <3>2. /\ IsFiniteSet(Late(k, from)) /\ Cardinality(Late(k, from)) \in Nat
          /\ Cardinality(Late(k, from)') \in Nat
          /\ Cardinality(Late(k, from)') <= Cardinality(Late(k, from))
      BY <3>1, CallsAreFinite, FS_Subset
    <3>3. Cardinality(AdmittedIn(k, from)) \in Nat /\ Cardinality(Calls) \in Nat
      BY AdmittedInIsFinite, CallsAreFinite
    <3>4. Cardinality(AdmittedIn(k, from)) + Cardinality(Late(k, from)')
            <= MAX_REQUESTS + (Cardinality(Calls) - 1)
      BY <2>5, <3>2, <3>3, LimitsAssumption
    <3> QED
      BY <1>1, <2>1, <2>5, <3>4 DEF WindowHolds
  <2> QED
    BY <2>3, <2>4, <2>5 DEF WindowHolds
<1> QED
  BY <1>1, <1>2, <1>3, <1>4 DEF WindowInv

\* Either the answered call is admitted with a reading in the window, or as many
\* as before were.
LEMMA AllowInWindow ==
  ASSUME LimiterInv, NEW c \in Calls, Allow(c), NEW k \in ClientKeys \ evicted', NEW from \in Nat
  PROVE  LET inWindow == call[c].at \in from..(from + WINDOW - 1)
             last == Len(admitted[k]) + 1
         IN  /\ c \notin Late(k, from)' /\ Late(k, from)' \subseteq Late(k, from)
             /\ \/ AdmittedIn(k, from)' = AdmittedIn(k, from)
                \/ /\ inWindow /\ c \in Late(k, from)
                   /\ AdmittedIn(k, from)' = AdmittedIn(k, from) \cup {last}
                   /\ last \notin AdmittedIn(k, from)
<1> DEFINE at == call[c].at
           key == call[c].key
           L == admitted[k]
<1>1. /\ call[c] \in Waiting /\ at \in Nat /\ call' = [call EXCEPT ![c] = Idle]
      /\ call \in [Calls -> Waiting \cup {Idle}]
  BY AllowStep DEF Waiting, LimiterInv, TypeOK
<1>2. << >> \notin ClientKeys
  BY DEF ClientKeys, RequestKey
<1>3. call'[c] = Idle /\ (\A d \in Calls \ {c}: call'[d] = call[d])
  BY <1>1
<1>4. c \notin Late(k, from)' /\ Late(k, from)' \subseteq Late(k, from)
  BY <1>2, <1>3 DEF Late, Idle
<1>5. CASE admitted'[k] = L
  BY <1>4, <1>5 DEF AdmittedIn
<1>6. CASE k = key /\ admitted'[k] = Append(L, at)
  <2>1. L \in Seq(Nat) /\ Len(L) \in Nat
    BY AdmittedInIsFinite
  <2>2. /\ DOMAIN L = 1..Len(L) /\ DOMAIN Append(L, at) = 1..(Len(L) + 1)
        /\ \A i \in 1..Len(L): Append(L, at)[i] = L[i]
        /\ Append(L, at)[Len(L) + 1] = at
    BY <1>1, <2>1
  <2> HIDE DEF at, L, key
  <2>3. 1..(Len(L) + 1) = (1..Len(L)) \cup {Len(L) + 1} /\ Len(L) + 1 \notin 1..Len(L)
    BY <2>1
  <2> DEFINE W == from..(from + WINDOW - 1)
  <2> HIDE DEF W
  <2>4. /\ AdmittedIn(k, from) = {i \in 1..Len(L): L[i] \in W}
        /\ AdmittedIn(k, from)' = {i \in 1..(Len(L) + 1): Append(L, at)[i] \in W}
    BY <1>6, <2>2 DEF AdmittedIn, W, L
  <2>5. CASE at \in W
    <3>1. AdmittedIn(k, from)' = AdmittedIn(k, from) \cup {Len(L) + 1}
          /\ Len(L) + 1 \notin AdmittedIn(k, from)
      BY <2>2, <2>3, <2>4, <2>5
    <3>2. c \in Late(k, from)
      BY <1>6, <2>5 DEF Late, W, at, key
    <3> QED
      BY <1>4, <2>5, <3>1, <3>2 DEF W, at, L
  <2>6. CASE at \notin W
    <3>1. AdmittedIn(k, from)' = AdmittedIn(k, from)
      BY <2>2, <2>3, <2>4, <2>6
    <3> QED
      BY <1>4, <3>1
  <2> QED
    BY <2>5, <2>6
<1> QED
  BY <1>5, <1>6, AllowAdmits

LEMMA AllowKeepsHolds ==
  ASSUME LimiterInv, WindowInv, NEW c \in Calls, Allow(c),
         NEW k \in ClientKeys \ evicted', NEW from \in Nat
  PROVE  IsEnd(BucketOf(k), admitted[k])' /\ WindowHolds(k, from)'
<1> DEFINE at == call[c].at
           L == admitted[k]
           B == BucketOf(k)
           p == Pruned(B, at)
           A == AdmittedIn(k, from)
           D == Late(k, from)
<1>1. /\ at \in Nat /\ at <= now /\ now \in Nat /\ now' = now /\ k \in ClientKeys \ evicted
      /\ call[c] \in Waiting
  <2>1. call[c] \in Waiting /\ now' = now /\ evicted \subseteq evicted'
    BY AllowStep
  <2>2. now \in Nat /\ at <= now
    BY LimitsAssumption DEF WindowInv, LimiterInv, TypeOK
  <2> QED
    BY <2>1, <2>2 DEF Waiting
<1>2. /\ L \in Seq(Nat) /\ Len(L) \in Nat /\ B \in Seq(Nat) /\ Len(B) \in 0..MAX_REQUESTS
      /\ A \subseteq 1..Len(L) /\ IsFiniteSet(A) /\ Cardinality(A) \in Nat
      /\ \A i \in A: L[i] \in from..(from + WINDOW - 1)
  BY <1>1, AdmittedInIsFinite DEF AdmittedIn
<1>3. IsEnd(B, L) /\ WindowHolds(k, from)
  BY <1>1 DEF WindowInv
<1>4. /\ p \in Seq(Nat) /\ Len(p) <= Len(B) /\ Len(p) \in Nat /\ Len(B) <= Len(L) /\ Len(B) \in Nat
      /\ IsEnd(p, L) /\ IsEnd(Append(p, at), Append(L, at))
      /\ \A i \in 1..Len(L):
           i > Len(L) - Len(B) /\ i <= Len(L) - Len(p) => WINDOW = 0 \/ L[i] + WINDOW <= at
  <2>1. Len(B) <= Len(L)
    BY <1>3 DEF IsEnd
  <2> HIDE DEF B, L, at
  <2> QED
    BY <1>1, <1>2, <1>3, <2>1, PrunedIsEndStill
<1>5. \/ BucketOf(k)' = p /\ admitted'[k] = L
      \/ BucketOf(k)' = Append(p, at) /\ admitted'[k] = Append(L, at)
  BY AllowAdmits
<1> HIDE DEF p, B, L, at
<1>6. IsEnd(BucketOf(k), admitted[k])'
  BY <1>4, <1>5 DEF IsEnd
<1>7. /\ Len(admitted'[k]) - Len(BucketOf(k)') = Len(L) - Len(p)
      /\ Len(admitted'[k]) \in Nat /\ Len(BucketOf(k)') \in Nat
  <2>1. Len(Append(p, at)) = Len(p) + 1 /\ Len(Append(L, at)) = Len(L) + 1
    BY <1>1, <1>2, <1>4
  <2>2. CASE BucketOf(k)' = p /\ admitted'[k] = L
    BY <1>2, <1>4, <2>2
  <2>3. CASE BucketOf(k)' = Append(p, at) /\ admitted'[k] = Append(L, at)
    BY <1>2, <1>4, <2>1, <2>3
  <2> QED
    BY <1>5, <2>2, <2>3
<1>8. /\ c \notin Late(k, from)' /\ Late(k, from)' \subseteq D /\ D \in SUBSET Calls
      /\ \/ AdmittedIn(k, from)' = A
         \/ /\ at \in from..(from + WINDOW - 1) /\ c \in D
            /\ AdmittedIn(k, from)' = A \cup {Len(L) + 1} /\ Len(L) + 1 \notin A
  <2>1. D \in SUBSET Calls
    BY DEF Late
  <2> QED
    BY <2>1, AllowInWindow DEF at, L
<1>9. /\ IsFiniteSet(D) /\ Cardinality(D) \in Nat /\ Cardinality(D) <= Cardinality(Calls)
      /\ IsFiniteSet(Late(k, from)') /\ Cardinality(Late(k, from)') \in Nat
      /\ Cardinality(Late(k, from)') <= Cardinality(D)
      /\ Cardinality(Calls) \in Nat
  BY <1>8, CallsAreFinite, FS_Subset
<1> HIDE DEF A, D
<1>10. CASE \A i \in A: i > Len(L) - Len(p)
  \* Nothing of the window was pruned.
  <2>1. Len(L) + 1 > Len(L) - Len(p)
    BY <1>2, <1>4
  <2>2. \A i \in AdmittedIn(k, from)': i > Len(L) - Len(p)
    BY <1>8, <1>10, <2>1
  <2> QED
    BY <1>6, <1>7, <2>2 DEF WindowHolds
<1>11. CASE (\A i \in A: i > Len(L) - Len(B)) /\ ~(\A i \in A: i > Len(L) - Len(p))
  \* This call prunes an admission of the window: its own reading is behind it.
  <2>1. PICK i \in A: ~(i > Len(L) - Len(p))
    BY <1>11
  <2>2. i \in 1..Len(L) /\ i > Len(L) - Len(B) /\ i <= Len(L) - Len(p)
    BY <1>2, <1>4, <1>11, <2>1
  <2>3. L[i] \in from..(from + WINDOW - 1) /\ L[i] \in Nat /\ WINDOW # 0
    <3>1. L[i] \in from..(from + WINDOW - 1) /\ L[i] \in Nat
      BY <1>2, <2>1, <2>2
    <3> QED
      BY <3>1, LimitsAssumption
  <2>4. L[i] + WINDOW <= at
    BY <1>4, <2>2, <2>3
  <2>5. from + WINDOW <= at /\ from + WINDOW <= now
    BY <1>1, <2>3, <2>4, LimitsAssumption
  <2>6. at \notin from..(from + WINDOW - 1)
    BY <1>1, <2>5, LimitsAssumption
  <2>7. AdmittedIn(k, from)' = A
    BY <1>8, <2>6
  <2>8. Cardinality(A) <= MAX_REQUESTS
    BY <1>1, <1>3, <1>11, InBucketIsFew DEF A, L, B
  <2>9. Cardinality(Late(k, from)') <= Cardinality(Calls) - 1
    <3>1. Late(k, from)' \in SUBSET (Calls \ {c})
      BY <1>8
    <3>2. IsFiniteSet(Calls \ {c}) /\ Cardinality(Calls \ {c}) = Cardinality(Calls) - 1
      BY CallsAreFinite, FS_RemoveElement
    <3> QED
      BY <3>1, <3>2, FS_Subset
  <2>10. Cardinality(A) + Cardinality(Late(k, from)') <= MAX_REQUESTS + (Cardinality(Calls) - 1)
    BY <1>2, <1>9, <2>8, <2>9, LimitsAssumption
  <2> QED
    BY <1>1, <1>6, <2>5, <2>7, <2>10 DEF WindowHolds
<1>12. CASE /\ from + WINDOW <= now
            /\ Cardinality(A) + Cardinality(D) <= MAX_REQUESTS + (Cardinality(Calls) - 1)
  \* The window is over: an admission in it takes one of those who wait.
  <2>1. Cardinality(AdmittedIn(k, from)') + Cardinality(Late(k, from)') <= Cardinality(A) + Cardinality(D)
    <3>1. CASE AdmittedIn(k, from)' = A
      BY <1>2, <1>9, <3>1
    <3>2. CASE /\ c \in D
               /\ AdmittedIn(k, from)' = A \cup {Len(L) + 1} /\ Len(L) + 1 \notin A
      <4>1. Cardinality(AdmittedIn(k, from)') = Cardinality(A) + 1
        BY <1>2, <3>2, FS_AddElement
      <4>2. Late(k, from)' \in SUBSET (D \ {c})
        BY <1>8
      <4>3. IsFiniteSet(D \ {c}) /\ Cardinality(D \ {c}) = Cardinality(D) - 1
        BY <1>9, <3>2, FS_RemoveElement
      <4>4. Cardinality(Late(k, from)') <= Cardinality(D) - 1
        BY <4>2, <4>3, FS_Subset
      <4> QED
        BY <1>2, <1>9, <4>1, <4>4
    <3> QED
      BY <1>8, <3>1, <3>2
  <2>2. Cardinality(AdmittedIn(k, from)') \in Nat
    BY <1>2, <1>8, FS_AddElement, FS_CardinalityType
  <2>3. Cardinality(AdmittedIn(k, from)') + Cardinality(Late(k, from)')
          <= MAX_REQUESTS + (Cardinality(Calls) - 1)
    BY <1>2, <1>9, <1>12, <2>1, <2>2, LimitsAssumption
  <2> QED
    BY <1>1, <1>6, <1>12, <2>3 DEF WindowHolds
<1> QED
  BY <1>3, <1>10, <1>11, <1>12 DEF WindowHolds, A, D, L, B

LEMMA WindowStep == LimiterInv /\ WindowInv /\ [Next]_vars => WindowInv'
<1> SUFFICES ASSUME LimiterInv, WindowInv, [Next]_vars PROVE WindowInv'
  OBVIOUS
<1>1. CASE UNCHANGED vars
  <2>1. \A k: BucketOf(k)' = BucketOf(k)
    BY <1>1 DEF vars, BucketOf
  <2>2. \A k, from: AdmittedIn(k, from)' = AdmittedIn(k, from) /\ Late(k, from)' = Late(k, from)
    BY <1>1 DEF vars, AdmittedIn, Late
  <2> QED
    BY <1>1, <2>1, <2>2 DEF vars, WindowInv, WindowHolds, IsEnd
<1>2. CASE Tick
  BY <1>2, TickKeepsWindow
<1>3. ASSUME NEW c \in Calls, NEW r \in Requests, Enforce(c, r) PROVE WindowInv'
  BY <1>3, EnforceKeepsWindow
<1>4. ASSUME NEW c \in Calls, Allow(c) PROVE WindowInv'
  <2>1. \A d \in Calls: call'[d].at <= now'
    <3>1. call' = [call EXCEPT ![c] = Idle] /\ now' = now /\ now \in Nat
      BY <1>4, AllowStep DEF LimiterInv, TypeOK
    <3>2. \A d \in Calls: call'[d] = Idle \/ call'[d] = call[d]
      BY <3>1 DEF LimiterInv, TypeOK
    <3> QED
      BY <3>1, <3>2 DEF WindowInv, Idle
  <2>2. \A k \in ClientKeys \ evicted': \A from \in Nat:
          IsEnd(BucketOf(k), admitted[k])' /\ WindowHolds(k, from)'
    BY <1>4, AllowKeepsHolds
  <2>3. \A k \in ClientKeys \ evicted': IsEnd(BucketOf(k), admitted[k])'
    <3>1. 0 \in Nat
      OBVIOUS
    <3> QED
      BY <2>2, <3>1
  <2> QED
    BY <2>1, <2>2, <2>3 DEF WindowInv
<1> QED
  BY <1>1, <1>2, <1>3, <1>4 DEF Next

\* A key that keeps its bucket is admitted at most MAX_REQUESTS times with
\* readings in one window, and once more for each other call that can wait for
\* the lock meanwhile (allow, rate_limit.rs:57): however many calls there are,
\* in whatever order they get the lock.
THEOREM LimitInAnyWindow == Spec => []WindowLimit
<1>1. LimiterInv /\ WindowInv => WindowLimit
  <2> SUFFICES ASSUME LimiterInv, WindowInv, NEW k \in ClientKeys \ evicted, NEW from \in 0..MaxTime
               PROVE  Cardinality(AdmittedIn(k, from)) <= MAX_REQUESTS + (Cardinality(Calls) - 1)
    BY DEF WindowLimit
  <2>1. from \in Nat
    BY LimitsAssumption
  <2>2. Cardinality(Calls) \in Nat /\ Cardinality(Calls) >= 1 /\ Cardinality(AdmittedIn(k, from)) \in Nat
    BY <2>1, CallsAreFinite, AdmittedInIsFinite
  <2>3. CASE \A i \in AdmittedIn(k, from): i > Len(admitted[k]) - Len(BucketOf(k))
    <3>1. Cardinality(AdmittedIn(k, from)) <= MAX_REQUESTS
      BY <2>1, <2>3, InBucketIsFew DEF WindowInv
    <3> QED
      BY <2>2, <3>1, LimitsAssumption
  <2>4. CASE Cardinality(AdmittedIn(k, from)) + Cardinality(Late(k, from))
               <= MAX_REQUESTS + (Cardinality(Calls) - 1)
    <3>1. Cardinality(Late(k, from)) \in Nat
      <4>1. Late(k, from) \in SUBSET Calls
        BY DEF Late
      <4> QED
        BY <4>1, CallsAreFinite
    <3> QED
      BY <2>2, <2>4, <3>1, LimitsAssumption
  <2> QED
    BY <2>1, <2>3, <2>4 DEF WindowInv, WindowHolds
<1> QED
  BY <1>1, WindowInit, WindowStep, LimiterInvariant, PTL DEF Spec
=============================================================================
