------------------------ MODULE ChunkedUploadProofs ------------------------
(***************************************************************************)
(* What holds of ChunkedUpload for every set of users, ids and handlers    *)
(* and every bound.                                                        *)
(***************************************************************************)
EXTENDS ChunkedUpload, FiniteSetTheorems, TLAPS

(***************************************************************************)
(* The program counter tells the kind of a request.                        *)
(***************************************************************************)
LEMMA RequestKinds ==
  ASSUME TypeOK, NEW h \in Handlers
  PROVE  /\ req[h] = Idle <=> req[h].pc = "idle"
         /\ req[h].pc \in PutPcs => req[h] \in PutRequest /\ req[h].id \in known
         /\ req[h].pc \in {"insert", "delete"} => req[h] \in CompleteRequest /\ req[h].id \in known
<1>1. req[h] \in {Idle} \cup PutRequest \cup CompleteRequest
  BY DEF TypeOK
<1>2. req[h] # Idle => req[h].id \in known
  BY DEF TypeOK
<1>. QED
  BY <1>1, <1>2 DEF Idle, PutRequest, CompleteRequest, PutPcs

LEMMA PurgeKinds ==
  ASSUME TypeOK
  PROVE  /\ purge = Idle <=> purge.pc = "idle"
         /\ purge.pc = "list" => purge \in [pc : {"list"}, batch : SUBSET UploadIds]
         /\ purge.pc = "blobs" =>
              purge \in [pc : {"blobs"}, batch : SUBSET UploadIds, id : UploadIds,
                         keys : SUBSET (UploadIds \X Index)]
  BY DEF TypeOK, PurgeState, Idle

LEMMA InitTypeOK == Init => TypeOK
  BY DEF Init, TypeOK, FileIds, File, Row, Idle, known

LEMMA StepTypeOK == TypeOK /\ [Next]_vars => TypeOK'
<1>. SUFFICES ASSUME TypeOK, [Next]_vars PROVE TypeOK'
  OBVIOUS
<1>. USE BoundsAssumption
<1>1. ASSUME NEW u \in UploadIds, NEW w \in Users, NEW n \in 1 .. MaxChunks, UploadInit(u, w, n)
      PROVE  TypeOK'
  <2>1. /\ known' = known \cup {u}
        /\ row' \in [known' -> Row]
    BY <1>1 DEF UploadInit, TypeOK, Row, known
  <2>. QED
    BY <2>1, <1>1 DEF UploadInit, TypeOK, File
<1>2. ASSUME NEW h \in Handlers, NEW w \in Users, NEW u \in UploadIds, NEW i \in Index,
             PutSelect(h, w, u, i)
      PROVE  TypeOK'
  <2>1. req' \in [Handlers -> {Idle} \cup PutRequest \cup CompleteRequest]
    BY <1>2 DEF PutSelect, TypeOK, PutRequest
  <2>2. \A g \in Handlers : req'[g] # Idle => req'[g].id \in known
    BY <1>2 DEF PutSelect, TypeOK
  <2>. QED
    BY <2>1, <2>2, <1>2 DEF PutSelect, TypeOK, known
<1>3. ASSUME NEW h \in Handlers, NEW w \in Users, NEW u \in UploadIds, CompleteSelect(h, w, u)
      PROVE  TypeOK'
  <2>1. req' \in [Handlers -> {Idle} \cup PutRequest \cup CompleteRequest]
    BY <1>3 DEF CompleteSelect, TypeOK, CompleteRequest, Row
  <2>2. \A g \in Handlers : req'[g] # Idle => req'[g].id \in known
    BY <1>3 DEF CompleteSelect, TypeOK
  <2>. QED
    BY <2>1, <2>2, <1>3 DEF CompleteSelect, TypeOK, known
<1>4. ASSUME NEW h \in Handlers, PutExists(h) PROVE TypeOK'
  <2>0. req[h] \in PutRequest /\ req[h].id \in known
    BY <1>4, RequestKinds DEF PutExists, PutPcs
  <2>1. req' \in [Handlers -> {Idle} \cup PutRequest \cup CompleteRequest]
    BY <1>4, <2>0 DEF PutExists, TypeOK, PutRequest
  <2>2. \A g \in Handlers : req'[g] # Idle => req'[g].id \in known
    BY <1>4, <2>0 DEF PutExists, TypeOK, PutRequest
  <2>. QED
    BY <2>1, <2>2, <1>4 DEF PutExists, TypeOK, known
<1>5. ASSUME NEW h \in Handlers, PutStore(h) PROVE TypeOK'
  <2>0. req[h] \in PutRequest /\ req[h].id \in known
    BY <1>5, RequestKinds DEF PutStore, PutPcs
  <2>1. req' \in [Handlers -> {Idle} \cup PutRequest \cup CompleteRequest]
    BY <1>5, <2>0 DEF PutStore, TypeOK, PutRequest
  <2>2. \A g \in Handlers : req'[g] # Idle => req'[g].id \in known
    BY <1>5, <2>0 DEF PutStore, TypeOK, PutRequest
  <2>3. req[h].id \in UploadIds /\ req[h].idx \in Index
    BY <2>0 DEF PutRequest
  <2>4. blobs' \subseteq known \X Index
    BY <2>0, <2>3, <1>5 DEF PutStore, TypeOK
  <2>5. acked' \in [UploadIds -> SUBSET Index]
    BY <2>3, <1>5 DEF PutStore, TypeOK, Acknowledge
  <2>6. \A u \in UploadIds \ known : acked'[u] = {}
    BY <2>0, <2>3, <1>5 DEF PutStore, TypeOK, Acknowledge
  <2>7. known' = known
    BY <1>5 DEF PutStore, known
  <2>. QED
    BY <2>1, <2>2, <2>4, <2>6, <2>7, <2>5, <1>5 DEF PutStore, TypeOK
<1>6. ASSUME NEW h \in Handlers, PutCount(h) PROVE TypeOK'
  <2>0. req[h] \in PutRequest /\ req[h].id \in known
    BY <1>6, RequestKinds DEF PutCount, PutPcs
  <2>1. req' \in [Handlers -> {Idle} \cup PutRequest \cup CompleteRequest]
    BY <1>6 DEF PutCount, TypeOK
  <2>2. \A g \in Handlers : req'[g] # Idle => req'[g].id \in known
    BY <1>6 DEF PutCount, TypeOK
  <2>3. req[h].id \in UploadIds /\ req[h].idx \in Index
    BY <2>0 DEF PutRequest
  <2>4. /\ acked' \in [UploadIds -> SUBSET Index]
        /\ counted' \in [UploadIds -> SUBSET Index]
    BY <2>3, <1>6 DEF PutCount, TypeOK, Acknowledge
  <2>5. known' = known /\ row' \in [known -> Row]
    BY <1>6 DEF PutCount, TypeOK, Row, known
  <2>6. \A u \in UploadIds \ known : acked'[u] = {} /\ counted'[u] = {}
    BY <2>0, <2>3, <1>6 DEF PutCount, TypeOK, Acknowledge
  <2>. QED
    BY <2>1, <2>2, <2>4, <2>5, <2>6, <1>6 DEF PutCount, TypeOK
<1>7. ASSUME NEW h \in Handlers, CompleteInsert(h) PROVE TypeOK'
  <2>0. req[h] \in CompleteRequest /\ req[h].id \in known
    BY <1>7, RequestKinds DEF CompleteInsert
  <2>1. req' \in [Handlers -> {Idle} \cup PutRequest \cup CompleteRequest]
    BY <1>7, <2>0 DEF CompleteInsert, TypeOK, CompleteRequest
  <2>2. \A g \in Handlers : req'[g] # Idle => req'[g].id \in known
    BY <1>7, <2>0 DEF CompleteInsert, TypeOK, CompleteRequest
  <2>3. files' \subseteq {f \in File : f.id \in known}
    BY <1>7, <2>0 DEF CompleteInsert, TypeOK, CompleteRequest, File
  <2>. QED
    BY <2>1, <2>2, <2>3, <1>7 DEF CompleteInsert, TypeOK, known
<1>8. ASSUME NEW h \in Handlers, CompleteDelete(h) PROVE TypeOK'
  <2>1. req' \in [Handlers -> {Idle} \cup PutRequest \cup CompleteRequest]
    BY <1>8 DEF CompleteDelete, TypeOK
  <2>2. \A g \in Handlers : req'[g] # Idle => req'[g].id \in known
    BY <1>8 DEF CompleteDelete, TypeOK
  <2>. QED
    BY <2>1, <2>2, <1>8 DEF CompleteDelete, TypeOK, known
<1>9. ASSUME NEW h \in Handlers, Abandon(h) PROVE TypeOK'
  <2>1. req' \in [Handlers -> {Idle} \cup PutRequest \cup CompleteRequest]
    BY <1>9 DEF Abandon, TypeOK
  <2>2. \A g \in Handlers : req'[g] # Idle => req'[g].id \in known
    BY <1>9 DEF Abandon, TypeOK
  <2>. QED
    BY <2>1, <2>2, <1>9 DEF Abandon, TypeOK, known
<1>10. CASE PurgeSelect
  <2>1. purge' \in {Idle} \cup PurgeState
    BY <1>10 DEF PurgeSelect, TypeOK, PurgeState
  <2>. QED
    BY <2>1, <1>10 DEF PurgeSelect, TypeOK, known
<1>11. ASSUME NEW u \in UploadIds, PurgeList(u) PROVE TypeOK'
  <2>1. purge.batch \subseteq UploadIds
    BY <1>11, PurgeKinds DEF PurgeList
  <2>2. PICK keys \in {{k \in blobs : k[1] = u}} \cup (IF Failures THEN {{}} ELSE {}) :
          purge' = [pc |-> "blobs", batch |-> purge.batch, id |-> u, keys |-> keys]
    BY <1>11 DEF PurgeList
  <2>3. keys \subseteq blobs /\ blobs \subseteq UploadIds \X Index
    BY <2>2 DEF TypeOK
  <2>4. purge' \in {Idle} \cup PurgeState
    BY <2>1, <2>2, <2>3 DEF PurgeState
  <2>. QED
    BY <2>4, <1>11 DEF PurgeList, TypeOK, known
<1>12. ASSUME NEW k \in UploadIds \X Index, PurgeBlob(k) PROVE TypeOK'
  <2>1. purge' \in {Idle} \cup PurgeState
    BY <1>12, PurgeKinds DEF PurgeBlob, PurgeState
  <2>2. blobs' \subseteq known \X Index
    BY <1>12 DEF PurgeBlob, TypeOK
  <2>. QED
    BY <2>1, <2>2, <1>12 DEF PurgeBlob, TypeOK, known
<1>13. CASE PurgeRow
  <2>1. purge' \in {Idle} \cup PurgeState
    BY <1>13, PurgeKinds DEF PurgeRow, PurgeState
  <2>2. uploads' \subseteq known
    BY <1>13 DEF PurgeRow, TypeOK
  <2>. QED
    BY <2>1, <2>2, <1>13 DEF PurgeRow, TypeOK, known
<1>14. CASE Crash \/ Restart
  BY <1>14 DEF Crash, Restart, TypeOK, known
<1>15. CASE Tick
  BY <1>15 DEF Tick, TypeOK, known
<1>16. CASE UNCHANGED vars
  BY <1>16 DEF vars, TypeOK, known
<1>. QED
  BY <1>1, <1>2, <1>3, <1>4, <1>5, <1>6, <1>7, <1>8, <1>9, <1>10, <1>11, <1>12, <1>13, <1>14,
     <1>15, <1>16 DEF Next, HandlerStep, PurgeStep

(***************************************************************************)
(* In every reachable state the tables, the storage and the requests in    *)
(* progress are well formed: no request or file is about an unknown upload.*)
(***************************************************************************)
THEOREM TypeCorrect == Spec => []TypeOK
<1>. QED
  BY InitTypeOK, StepTypeOK, PTL DEF Spec

---------------------------------------------------------------------------
(* Acknowledged and young chunks stay stored *)

LEMMA RowSteps ==
  ASSUME [Next]_vars
  PROVE  \/ \E u \in UploadIds, w \in Users, n \in 1 .. MaxChunks : UploadInit(u, w, n)
         \/ \E h \in Handlers : PutCount(h)
         \/ Tick
         \/ UNCHANGED <<now, row, counted>>
  BY DEF Next, HandlerStep, PurgeStep, PutSelect, PutExists, PutStore, CompleteSelect,
         CompleteInsert, CompleteDelete, PurgeSelect, PurgeList, PurgeBlob, PurgeRow, Abandon,
         Crash, Restart, vars

LEMMA RowsStay ==
  ASSUME TypeOK, [Next]_vars
  PROVE  /\ known \subseteq known'
         /\ \A u \in known : /\ row'[u].total = row[u].total
                             /\ row'[u].user = row[u].user
                             /\ Fresh(u)' => Fresh(u)
<1>1. ASSUME NEW u \in UploadIds, NEW w \in Users, NEW n \in 1 .. MaxChunks, UploadInit(u, w, n)
      PROVE  known' = known \cup {u} /\ now' = now /\ \A v \in known : row'[v] = row[v]
  BY <1>1 DEF UploadInit, known
<1>2. ASSUME NEW h \in Handlers, PutCount(h)
      PROVE  /\ known' = known /\ now' = now
             /\ \A u \in known : /\ row'[u].total = row[u].total
                                 /\ row'[u].user = row[u].user
                                 /\ row'[u].created = row[u].created
  BY <1>2 DEF PutCount, known, TypeOK, Row
<1>3. CASE Tick
  BY <1>3, BoundsAssumption DEF Tick, known, Fresh, TypeOK, Row
<1>4. CASE UNCHANGED <<now, row>>
  BY <1>4 DEF known, Fresh
<1>. QED
  BY <1>1, <1>2, <1>3, <1>4, RowSteps DEF Fresh

LEMMA StepPurgeTakesOld ==
  ASSUME TypeOK, PurgeTakesOld, [Next]_vars
  PROVE  PurgeTakesOld'
<1>1. \A u \in known : u \in known' /\ (~Fresh(u) => ~Fresh(u)')
  BY RowsStay DEF Fresh
<1>2. CASE PurgeSelect
  BY <1>1, <1>2 DEF PurgeSelect, PurgeTakesOld, Idle, TypeOK
<1>3. ASSUME NEW u \in UploadIds, PurgeList(u) PROVE PurgeTakesOld'
  <2>1. /\ purge'.pc = "blobs" /\ purge'.batch = purge.batch /\ purge'.id = u
        /\ \A k \in purge'.keys : k[1] = u
    BY <1>3 DEF PurgeList
  <2>2. \A v \in purge.batch : v \in known /\ ~Fresh(v)
    BY <1>3, PurgeKinds DEF PurgeList, PurgeTakesOld, Idle
  <2>3. u \in purge.batch
    BY <1>3 DEF PurgeList
  <2>. QED
    BY <1>1, <2>1, <2>2, <2>3 DEF PurgeTakesOld
<1>4. ASSUME NEW k \in UploadIds \X Index, PurgeBlob(k) PROVE PurgeTakesOld'
  <2>1. /\ purge'.pc = "blobs" /\ purge'.batch = purge.batch /\ purge'.id = purge.id
        /\ purge'.keys \subseteq purge.keys
        /\ purge.pc = "blobs" /\ purge # Idle
    BY <1>4, PurgeKinds DEF PurgeBlob, Idle
  <2>. QED
    BY <1>1, <2>1 DEF PurgeTakesOld
<1>5. CASE PurgeRow
  <2>1. \A v \in purge.batch : v \in known /\ ~Fresh(v)
    BY <1>5, PurgeKinds DEF PurgeRow, PurgeTakesOld, Idle
  <2>2. purge' = Idle \/ purge' = [pc |-> "list", batch |-> purge.batch \ {purge.id}]
    BY <1>5 DEF PurgeRow
  <2>. QED
    BY <1>1, <2>1, <2>2 DEF PurgeTakesOld, Idle
<1>6. CASE purge' = Idle
  BY <1>6 DEF PurgeTakesOld, Idle
<1>7. CASE UNCHANGED purge
  BY <1>1, <1>7 DEF PurgeTakesOld
<1>. QED
  BY <1>2, <1>3, <1>4, <1>5, <1>6, <1>7
  DEF Next, HandlerStep, PurgeStep, UploadInit, PutSelect, PutExists, PutStore, PutCount,
      CompleteSelect, CompleteInsert, CompleteDelete, Abandon, Crash, Restart, Tick, vars

LEMMA StepYoungChunksStay ==
  ASSUME TypeOK, PurgeTakesOld, [Next]_vars
  PROVE  \A k \in blobs \ blobs' : k[1] \in known /\ ~Fresh(k[1])
<1>1. ASSUME NEW k \in UploadIds \X Index, PurgeBlob(k)
      PROVE  \A j \in blobs \ blobs' : j[1] \in known /\ ~Fresh(j[1])
  BY <1>1 DEF PurgeBlob, PurgeTakesOld
<1>2. blobs \subseteq blobs' \/ \E k \in UploadIds \X Index : PurgeBlob(k)
  BY DEF Next, HandlerStep, PurgeStep, UploadInit, PutSelect, PutExists, PutStore, PutCount,
         CompleteSelect, CompleteInsert, CompleteDelete, PurgeSelect, PurgeList, PurgeRow,
         Abandon, Crash, Restart, Tick, vars
<1>. QED
  BY <1>1, <1>2

(***************************************************************************)
(* What a step may do to the request of one handler.                       *)
(***************************************************************************)
LEMMA RequestSteps ==
  ASSUME TypeOK, [Next]_vars, NEW h \in Handlers
  PROVE  \/ req'[h] = req[h]
         \/ req'[h] = Idle
         \/ \E w \in Users, u \in UploadIds, i \in Index : PutSelect(h, w, u, i)
         \/ \E w \in Users, u \in UploadIds : CompleteSelect(h, w, u)
         \/ PutExists(h) \/ PutStore(h) \/ CompleteInsert(h)
<1>. DEFINE Goal ==
         \/ req'[h] = req[h]
         \/ req'[h] = Idle
         \/ \E w \in Users, u \in UploadIds, i \in Index : PutSelect(h, w, u, i)
         \/ \E w \in Users, u \in UploadIds : CompleteSelect(h, w, u)
         \/ PutExists(h) \/ PutStore(h) \/ CompleteInsert(h)
<1>1. ASSUME NEW g \in Handlers, NEW w \in Users, NEW u \in UploadIds, NEW i \in Index,
             PutSelect(g, w, u, i)
      PROVE  Goal
  <2>1. CASE g = h
    BY <1>1, <2>1
  <2>2. CASE g # h
    BY <1>1, <2>2 DEF PutSelect, TypeOK
  <2>. QED
    BY <2>1, <2>2
<1>2. ASSUME NEW g \in Handlers, NEW w \in Users, NEW u \in UploadIds, CompleteSelect(g, w, u)
      PROVE  Goal
  <2>1. CASE g = h
    BY <1>2, <2>1
  <2>2. CASE g # h
    BY <1>2, <2>2 DEF CompleteSelect, TypeOK
  <2>. QED
    BY <2>1, <2>2
<1>3. ASSUME NEW g \in Handlers, HandlerStep(g) \/ Abandon(g) PROVE Goal
  <2>1. CASE g # h
    <3>1. req'[h] = req[h]
      BY <1>3, <2>1 DEF HandlerStep, PutExists, PutStore, PutCount, CompleteInsert,
                        CompleteDelete, Abandon, TypeOK
    <3>. QED
      BY <3>1
  <2>2. CASE g = h /\ (PutCount(h) \/ CompleteDelete(h) \/ Abandon(h))
    <3>1. req'[h] = Idle
      BY <2>2 DEF PutCount, CompleteDelete, Abandon, TypeOK
    <3>. QED
      BY <3>1
  <2>. QED
    BY <1>3, <2>1, <2>2 DEF HandlerStep
<1>4. CASE Crash
  <2>1. req'[h] = Idle
    BY <1>4 DEF Crash
  <2>. QED
    BY <2>1
<1>5. CASE UNCHANGED req
  BY <1>5
<1>6. \/ UNCHANGED req
      \/ \E g \in Handlers, w \in Users, u \in UploadIds, i \in Index : PutSelect(g, w, u, i)
      \/ \E g \in Handlers, w \in Users, u \in UploadIds : CompleteSelect(g, w, u)
      \/ \E g \in Handlers : HandlerStep(g) \/ Abandon(g)
      \/ Crash
  BY DEF Next, PurgeStep, UploadInit, PurgeSelect, PurgeList, PurgeBlob, PurgeRow, Restart,
         Tick, vars
<1>. QED
  BY <1>1, <1>2, <1>3, <1>4, <1>5, <1>6

LEMMA StepCountsWhatIsStored ==
  ASSUME TypeOK, PurgeTakesOld, CountsWhatIsStored, [Next]_vars
  PROVE  CountsWhatIsStored'
<1>. SUFFICES ASSUME NEW h \in Handlers, req'[h].pc = "count", Fresh(req[h].id)'
              PROVE  <<req'[h].id, req'[h].idx>> \in blobs'
  BY DEF CountsWhatIsStored, Fresh
<1>1. CASE req'[h] = req[h]
  <2>1. req[h].id \in known /\ Fresh(req[h].id)
    BY <1>1, RequestKinds, RowsStay DEF PutPcs, Fresh
  <2>2. <<req[h].id, req[h].idx>> \in blobs
    BY <1>1, <2>1 DEF CountsWhatIsStored
  <2>. QED
    BY <1>1, <2>1, <2>2, StepYoungChunksStay
<1>2. CASE PutStore(h)
  BY <1>2, RequestKinds DEF PutStore, PutRequest, PutPcs, TypeOK, Idle
<1>3. req'[h] = req[h] \/ PutStore(h)
  <2>1. CASE PutExists(h)
    BY <2>1 DEF PutExists, TypeOK
  <2>2. CASE CompleteInsert(h)
    BY <2>2, RequestKinds DEF CompleteInsert, CompleteRequest, TypeOK, Idle
  <2>3. ASSUME NEW w \in Users, NEW u \in UploadIds, NEW i \in Index, PutSelect(h, w, u, i)
        PROVE  FALSE
    BY <2>3 DEF PutSelect, TypeOK
  <2>4. ASSUME NEW w \in Users, NEW u \in UploadIds, CompleteSelect(h, w, u)
        PROVE  FALSE
    BY <2>4 DEF CompleteSelect, TypeOK
  <2>. QED
    BY <2>1, <2>2, <2>3, <2>4, RequestSteps DEF Idle
<1>. QED
  BY <1>1, <1>2, <1>3

LEMMA StepAckedIsStored ==
  ASSUME TypeOK, PurgeTakesOld, CountsWhatIsStored, AckedIsStored, [Next]_vars
  PROVE  AckedIsStored'
<1>. SUFFICES ASSUME NEW u \in known', Fresh(u)', NEW i \in acked'[u]
              PROVE  i \in Index /\ <<u, i>> \in blobs'
  BY DEF AckedIsStored, ChunksOf
<1>0. TypeOK'
  BY StepTypeOK
<1>1. u \in UploadIds /\ i \in Index
  BY <1>0 DEF TypeOK
<1>2. CASE u \in known /\ i \in acked[u]
  BY <1>1, <1>2, RowsStay, StepYoungChunksStay DEF AckedIsStored, ChunksOf, Fresh
<1>3. ASSUME NEW h \in Handlers, PutStore(h) PROVE i \in acked[u] \/ <<u, i>> \in blobs'
  BY <1>1, <1>3 DEF PutStore, Acknowledge, TypeOK
<1>4. ASSUME NEW h \in Handlers, PutCount(h)
      PROVE  i \in acked[u] \/ (u = req[h].id /\ i = req[h].idx)
  BY <1>1, <1>4 DEF PutCount, Acknowledge, TypeOK
<1>5. ASSUME NEW h \in Handlers, PutCount(h), u = req[h].id, i = req[h].idx
      PROVE  <<u, i>> \in blobs'
  <2>1. u \in known /\ Fresh(u)
    BY <1>5, RequestKinds, RowsStay DEF PutCount, PutPcs, Fresh
  <2>. QED
    BY <1>5, <2>1 DEF PutCount, CountsWhatIsStored
<1>6. \/ acked' = acked
      \/ \E h \in Handlers : PutStore(h) \/ PutCount(h)
  BY DEF Next, HandlerStep, PurgeStep, UploadInit, PutSelect, PutExists, CompleteSelect,
         CompleteInsert, CompleteDelete, PurgeSelect, PurgeList, PurgeBlob, PurgeRow, Abandon,
         Crash, Restart, Tick, vars
<1>7. u \in known \/ i \notin acked[u]
  BY <1>1 DEF TypeOK
<1>. QED
  BY <1>1, <1>2, <1>3, <1>4, <1>5, <1>6, <1>7

LEMMA StorageInvariant == Spec => [](TypeOK /\ StorageInv)
<1>1. Init => TypeOK /\ StorageInv
  <2>1. Init => StorageInv
    BY DEF Init, StorageInv, PurgeTakesOld, CountsWhatIsStored, AckedIsStored, Idle, known
  <2>. QED
    BY <2>1, InitTypeOK
<1>2. TypeOK /\ StorageInv /\ [Next]_vars => (TypeOK /\ StorageInv)'
  BY StepTypeOK, StepPurgeTakesOld, StepCountsWhatIsStored, StepAckedIsStored DEF StorageInv
<1>. QED
  BY <1>1, <1>2, PTL DEF Spec

(***************************************************************************)
(* A chunk the server acknowledged stays stored while its upload is        *)
(* younger than 24 hours, whatever clients send and whatever fails.        *)
(***************************************************************************)
THEOREM AcknowledgedStaysStored == Spec => []AckedIsStored
<1>. QED
  BY StorageInvariant, PTL DEF StorageInv

(***************************************************************************)
(* Nothing removes a chunk of an upload younger than 24 hours: the purge   *)
(* acts on what it read long ago, but an upload never grows young again.   *)
(***************************************************************************)
THEOREM PurgeSparesYoungChunks == Spec => YoungChunksStay
<1>1. TypeOK /\ StorageInv /\ [Next]_vars => [\A k \in blobs \ blobs' : ~Fresh(k[1])]_vars
  BY StepYoungChunksStay DEF StorageInv
<1>. QED
  BY <1>1, StorageInvariant, PTL DEF Spec, YoungChunksStay

---------------------------------------------------------------------------
(* chunks_received counts the stored chunks *)

LEMMA AllOfThem ==
  ASSUME NEW n \in Nat, NEW S \in SUBSET (0 .. n - 1), Cardinality(S) >= n
  PROVE  S = 0 .. n - 1
<1>1. IsFiniteSet(0 .. n - 1) /\ Cardinality(0 .. n - 1) = n
  <2>1. n - 1 \in Int /\ 0 \in Int
    OBVIOUS
  <2>2. /\ IsFiniteSet(0 .. n - 1)
        /\ Cardinality(0 .. n - 1) = IF 0 > n - 1 THEN 0 ELSE (n - 1) - 0 + 1
    BY <2>1, FS_Interval
  <2>. QED
    BY <2>2
<1>2. /\ Cardinality(S) <= Cardinality(0 .. n - 1)
      /\ Cardinality(0 .. n - 1) = Cardinality(S) => 0 .. n - 1 = S
      /\ IsFiniteSet(S)
  BY <1>1, FS_Subset
<1>3. Cardinality(S) \in Nat
  BY <1>2, FS_CardinalityType
<1>. QED
  BY <1>1, <1>2, <1>3

LEMMA IndexSetsAreFinite ==
  ASSUME NEW S \in SUBSET Index
  PROVE  IsFiniteSet(S) /\ Cardinality(S) \in Nat
<1>1. MaxChunks - 1 \in Int /\ 0 \in Int
  BY BoundsAssumption
<1>2. IsFiniteSet(Index)
  BY <1>1, FS_Interval DEF Index
<1>3. IsFiniteSet(S)
  BY <1>2, FS_Subset
<1>. QED
  BY <1>3, FS_CardinalityType

LEMMA StepReceivedIsCounted ==
  ASSUME TypeOK, PurgeTakesOld, CountsWhatIsStored, ReceivedIsCounted, CountsNewChunk,
         [Next]_vars
  PROVE  ReceivedIsCounted'
<1>. SUFFICES ASSUME NEW u \in known'
              PROVE  /\ counted'[u] \subseteq 0 .. row'[u].total - 1
                     /\ Fresh(u)' => /\ row'[u].received = Cardinality(counted'[u])
                                     /\ counted'[u] \subseteq ChunksOf(u)'
  BY DEF ReceivedIsCounted, ChunksOf, Fresh
<1>1. ASSUME u \in known, counted'[u] = counted[u], row'[u].received = row[u].received
      PROVE  /\ counted'[u] \subseteq 0 .. row'[u].total - 1
             /\ Fresh(u)' => /\ row'[u].received = Cardinality(counted'[u])
                             /\ counted'[u] \subseteq ChunksOf(u)'
  <2>1. row'[u].total = row[u].total /\ (Fresh(u)' => Fresh(u))
    BY <1>1, RowsStay DEF Fresh
  <2>2. ASSUME Fresh(u), NEW i \in ChunksOf(u) PROVE i \in ChunksOf(u)'
    <3>1. i \in Index /\ <<u, i>> \in blobs
      BY <2>2 DEF ChunksOf
    <3>2. <<u, i>> \in blobs'
      BY <2>2, <3>1, StepYoungChunksStay
    <3>. QED
      BY <3>1, <3>2 DEF ChunksOf
  <2>3. Fresh(u) => ChunksOf(u) \subseteq ChunksOf(u)'
    BY <2>2
  <2>4. counted[u] \subseteq 0 .. row[u].total - 1
    BY <1>1 DEF ReceivedIsCounted
  <2>5. Fresh(u) => row[u].received = Cardinality(counted[u]) /\ counted[u] \subseteq ChunksOf(u)
    BY <1>1 DEF ReceivedIsCounted
  <2>6. counted'[u] \subseteq 0 .. row'[u].total - 1
    BY <1>1, <2>1, <2>4
  <2>7. Fresh(u)' => row'[u].received = Cardinality(counted'[u])
    BY <1>1, <2>1, <2>5
  <2>8. Fresh(u)' => counted'[u] \subseteq ChunksOf(u)'
    BY <1>1, <2>1, <2>3, <2>5
  <2>. QED
    BY <2>6, <2>7, <2>8
<1>2. ASSUME u \notin known
      PROVE  /\ counted'[u] = {} /\ row'[u].received = 0
  <2>1. CASE \E h \in Handlers : PutCount(h)
    BY <1>2, <2>1 DEF PutCount, TypeOK, known
  <2>2. CASE Tick \/ UNCHANGED <<now, row, counted>>
    BY <1>2, <2>2 DEF Tick, known
  <2>3. ASSUME NEW v \in UploadIds, NEW w \in Users, NEW n \in 1 .. MaxChunks, UploadInit(v, w, n)
        PROVE  counted'[u] = {} /\ row'[u].received = 0
    <3>1. u = v
      BY <1>2, <2>3 DEF UploadInit, known
    <3>. QED
      BY <3>1, <2>3 DEF UploadInit, TypeOK
  <2>. QED
    BY <2>1, <2>2, <2>3, RowSteps
<1>3. ASSUME NEW h \in Handlers, PutCount(h), u = req[h].id, u \in uploads
      PROVE  /\ counted'[u] \subseteq 0 .. row'[u].total - 1
             /\ Fresh(u)' => /\ row'[u].received = Cardinality(counted'[u])
                             /\ counted'[u] \subseteq ChunksOf(u)'
  <2>. DEFINE i == req[h].idx
  <2>1. /\ req[h].pc = "count" /\ req[h].pc \in PutPcs /\ req[h] \in PutRequest /\ u \in known
    BY <1>3, RequestKinds DEF PutCount, PutPcs
  <2>2. /\ i \in Index /\ i < row[u].total /\ row[u].total \in Nat /\ row[u].received \in Nat
        /\ u \in UploadIds
    BY <1>3, <2>1 DEF PutRequest, CountsNewChunk, TypeOK, Row
  <2>3. /\ counted'[u] = counted[u] \cup {i}
        /\ row'[u].received = row[u].received + 1
        /\ row'[u].total = row[u].total
        /\ ChunksOf(u)' = ChunksOf(u)
    BY <1>3, <2>1, <2>2 DEF PutCount, TypeOK, Row, ChunksOf
  <2>4. i \in 0 .. row[u].total - 1
    BY <2>2 DEF Index
  <2>5. ASSUME Fresh(u)'
        PROVE  Fresh(u) /\ i \notin counted[u] /\ i \in ChunksOf(u)
    <3>1. Fresh(u)
      BY <2>1, <2>5, RowsStay DEF Fresh
    <3>. QED
      BY <3>1, <1>3, <2>1, <2>2 DEF CountsNewChunk, CountsWhatIsStored, ChunksOf
  <2>6. Cardinality(counted[u] \cup {i}) =
          IF i \in counted[u] THEN Cardinality(counted[u]) ELSE Cardinality(counted[u]) + 1
    <3>1. counted[u] \in SUBSET Index
      BY <2>2 DEF TypeOK
    <3>. QED
      BY <3>1, IndexSetsAreFinite, FS_AddElement
  <2>. QED
    BY <2>1, <2>3, <2>4, <2>5, <2>6 DEF ReceivedIsCounted
<1>4. ASSUME u \in known
      PROVE  \/ counted'[u] = counted[u] /\ row'[u].received = row[u].received
             \/ \E h \in Handlers : PutCount(h) /\ u = req[h].id /\ u \in uploads
  <2>1. ASSUME NEW h \in Handlers, PutCount(h), u # req[h].id \/ u \notin uploads
        PROVE  counted'[u] = counted[u] /\ row'[u].received = row[u].received
    BY <1>4, <2>1 DEF PutCount, TypeOK
  <2>2. ASSUME NEW v \in UploadIds, NEW w \in Users, NEW n \in 1 .. MaxChunks, UploadInit(v, w, n)
        PROVE  counted'[u] = counted[u] /\ row'[u].received = row[u].received
    BY <1>4, <2>2 DEF UploadInit, known
  <2>3. CASE Tick \/ UNCHANGED <<now, row, counted>>
    BY <2>3 DEF Tick
  <2>. QED
    BY <2>1, <2>2, <2>3, RowSteps
<1>5. CASE u \notin known
  <2>1. Cardinality(counted'[u]) = 0
    BY <1>2, <1>5, FS_EmptySet
  <2>. QED
    BY <1>2, <1>5, <2>1
<1>. QED
  BY <1>1, <1>3, <1>4, <1>5

LEMMA StepAloneOnChunk ==
  ASSUME TypeOK, AloneOnChunk, ~Overlap, [Next]_vars
  PROVE  AloneOnChunk'
<1>1. ASSUME NEW h \in Handlers, req'[h].pc \in PutPcs
      PROVE  \/ /\ req[h].pc \in PutPcs /\ req'[h].id = req[h].id /\ req'[h].idx = req[h].idx
             \/ \E w \in Users, u \in UploadIds, i \in Index : PutSelect(h, w, u, i)
  <2>1. CASE PutExists(h) \/ PutStore(h)
    BY <2>1, RequestKinds, <1>1 DEF PutExists, PutStore, PutPcs, PutRequest, TypeOK, Idle
  <2>2. ~CompleteInsert(h)
    BY <1>1, RequestKinds DEF CompleteInsert, CompleteRequest, TypeOK, Idle, PutPcs
  <2>3. ASSUME NEW w \in Users, NEW u \in UploadIds PROVE ~CompleteSelect(h, w, u)
    BY <1>1 DEF CompleteSelect, TypeOK, PutPcs
  <2>. QED
    BY <1>1, <2>1, <2>2, <2>3, RequestSteps DEF Idle, PutPcs
<1>2. ASSUME NEW g \in Handlers, NEW h \in Handlers, g # h,
             NEW w \in Users, NEW u \in UploadIds, NEW i \in Index, PutSelect(g, w, u, i),
             req'[h].pc \in PutPcs
      PROVE  req'[g].id # req'[h].id \/ req'[g].idx # req'[h].idx
  <2>1. req'[h] = req[h] /\ req'[g].id = u /\ req'[g].idx = i /\ ~PutInFlight(u, i)
    BY <1>2 DEF PutSelect, TypeOK
  <2>. QED
    BY <1>2, <2>1 DEF PutInFlight
<1>. SUFFICES ASSUME NEW g \in Handlers, NEW h \in Handlers,
                     req'[g].pc \in PutPcs, req'[h].pc \in PutPcs,
                     req'[g].id = req'[h].id, req'[g].idx = req'[h].idx
              PROVE  g = h
  BY DEF AloneOnChunk
<1>. QED
  BY <1>1, <1>2 DEF AloneOnChunk

LEMMA StepCountsNewChunk ==
  ASSUME TypeOK, ReceivedIsCounted, CountsNewChunk, AloneOnChunk, [Next]_vars
  PROVE  CountsNewChunk'
<1>. SUFFICES ASSUME NEW h \in Handlers, req'[h].pc \in PutPcs
              PROVE  /\ req'[h].idx < row'[req'[h].id].total
                     /\ req'[h].pc = "count" => ~req'[h].already
                     /\ (req'[h].pc # "exists" /\ ~req'[h].already /\ Fresh(req[h].id)')
                          => req'[h].idx \notin counted'[req'[h].id]
  BY DEF CountsNewChunk, Fresh
<1>1. ASSUME NEW u \in known, NEW i \in Index, i \notin counted[u],
             \A g \in Handlers : PutCount(g) => req[g].id # u \/ req[g].idx # i
      PROVE  i \notin counted'[u]
  <2>1. ASSUME NEW g \in Handlers, PutCount(g) PROVE i \notin counted'[u]
    <3>1. u \in UploadIds
      BY DEF TypeOK
    <3>2. \/ counted' = counted
          \/ counted' = [counted EXCEPT ![req[g].id] = @ \cup {req[g].idx}]
      BY <2>1 DEF PutCount
    <3>3. req[g].id # u \/ req[g].idx # i
      BY <1>1, <2>1
    <3>. QED
      BY <1>1, <3>1, <3>2, <3>3 DEF TypeOK
  <2>2. counted' = counted \/ \E g \in Handlers : PutCount(g)
    BY RowSteps DEF UploadInit, Tick
  <2>. QED
    BY <1>1, <2>1, <2>2
<1>2. CASE req'[h] = req[h]
  <2>1. /\ req[h].id \in known /\ req[h].idx \in Index
        /\ req[h].idx < row[req[h].id].total
        /\ row'[req[h].id].total = row[req[h].id].total
        /\ Fresh(req[h].id)' => Fresh(req[h].id)
    BY <1>2, RequestKinds, RowsStay DEF CountsNewChunk, PutRequest, Fresh
  <2>2. ASSUME NEW g \in Handlers, PutCount(g), req[g].id = req[h].id, req[g].idx = req[h].idx
        PROVE  FALSE
    <3>1. g = h
      BY <1>2, <2>2 DEF AloneOnChunk, PutCount, PutPcs
    <3>. QED
      BY <1>2, <2>2, <3>1 DEF PutCount, TypeOK, Idle, PutPcs
  <2>. QED
    BY <1>1, <1>2, <2>1, <2>2 DEF CountsNewChunk
<1>3. ASSUME NEW w \in Users, NEW u \in UploadIds, NEW i \in Index, PutSelect(h, w, u, i)
      PROVE  /\ req'[h].idx < row'[req'[h].id].total
             /\ req'[h].pc = "exists"
  BY <1>3 DEF PutSelect, TypeOK
<1>4. CASE PutExists(h)
  <2>1. req[h] \in PutRequest /\ req[h].id \in known /\ req[h].pc \in PutPcs
    BY <1>4, RequestKinds DEF PutExists, PutPcs
  <2>2. /\ req'[h].pc = "store" /\ req'[h].id = req[h].id /\ req'[h].idx = req[h].idx
        /\ req'[h].already <=> <<req[h].id, req[h].idx>> \in blobs
        /\ row' = row /\ now' = now /\ counted' = counted
    BY <1>4 DEF PutExists, TypeOK
  <2>3. ASSUME ~req'[h].already, Fresh(req[h].id)'
        PROVE  req[h].idx \notin counted[req[h].id]
    BY <2>1, <2>2, <2>3 DEF ReceivedIsCounted, ChunksOf, Fresh
  <2>4. req[h].idx < row[req[h].id].total
    BY <2>1 DEF CountsNewChunk
  <2>. QED
    BY <2>2, <2>3, <2>4
<1>5. CASE PutStore(h)
  <2>1. req[h] \in PutRequest /\ req[h].id \in known /\ req[h].pc \in PutPcs /\ req[h].pc # "exists"
    BY <1>5, RequestKinds DEF PutStore, PutPcs
  <2>2. /\ ~req[h].already
        /\ req' = [req EXCEPT ![h].pc = "count"]
        /\ row' = row /\ now' = now /\ counted' = counted
    <3>1. req' # [req EXCEPT ![h] = Idle]
      BY DEF TypeOK, Idle, PutPcs
    <3>. QED
      BY <1>5, <3>1 DEF PutStore
  <2>3. /\ req'[h].id = req[h].id /\ req'[h].idx = req[h].idx
        /\ req'[h].already = req[h].already
    BY <2>1, <2>2 DEF TypeOK, PutRequest
  <2>4. ~req'[h].already
    BY <2>2, <2>3
  <2>. QED
    BY <2>1, <2>2, <2>3, <2>4 DEF CountsNewChunk, Fresh
<1>6. ~CompleteInsert(h)
  BY RequestKinds DEF CompleteInsert, CompleteRequest, TypeOK, Idle, PutPcs
<1>7. ASSUME NEW w \in Users, NEW u \in UploadIds PROVE ~CompleteSelect(h, w, u)
  BY DEF CompleteSelect, TypeOK, PutPcs
<1>. QED
  BY <1>2, <1>3, <1>4, <1>5, <1>6, <1>7, RequestSteps DEF Idle, PutPcs

LEMMA AllCountedStays ==
  ASSUME TypeOK, ReceivedIsCounted, ReceivedIsCounted', [Next]_vars,
         NEW u \in known, NEW n \in Nat, AllCounted(u, n)
  PROVE  AllCounted(u, n)'
<1>1. /\ u \in known' /\ row'[u].total = row[u].total
      /\ Fresh(u)' => Fresh(u)
  BY RowsStay DEF Fresh
<1>2. counted[u] \subseteq counted'[u]
  <2>1. ASSUME NEW h \in Handlers, PutCount(h) PROVE counted[u] \subseteq counted'[u]
    <3>1. u \in UploadIds
      BY DEF TypeOK
    <3>. QED
      BY <2>1, <3>1 DEF PutCount, TypeOK
  <2>2. counted' = counted \/ \E h \in Handlers : PutCount(h)
    BY RowSteps DEF UploadInit, Tick
  <2>. QED
    BY <2>1, <2>2
<1>3. counted'[u] \subseteq 0 .. row'[u].total - 1
  BY <1>1 DEF ReceivedIsCounted
<1>. QED
  BY <1>1, <1>2, <1>3 DEF AllCounted, Fresh

LEMMA StepCompletesWhole ==
  ASSUME TypeOK, ReceivedIsCounted, ReceivedIsCounted', CompletesWhole, [Next]_vars
  PROVE  CompletesWhole'
<1>1. ASSUME NEW h \in Handlers, req'[h].pc \in {"insert", "delete"}
      PROVE  AllCounted(req[h].id, req[h].total)'
  <2>1. ASSUME req[h].pc \in {"insert", "delete"},
               req'[h].id = req[h].id, req'[h].total = req[h].total
        PROVE  AllCounted(req[h].id, req[h].total)'
    <3>1. /\ req[h].id \in known /\ req[h].total \in Nat
          /\ AllCounted(req[h].id, req[h].total)
      BY <2>1, RequestKinds DEF CompletesWhole, CompleteRequest
    <3>2. \A u \in known, n \in Nat : AllCounted(u, n) => AllCounted(u, n)'
      BY AllCountedStays
    <3>. QED
      BY <2>1, <3>1, <3>2 DEF AllCounted, Fresh
  <2>2. ASSUME NEW w \in Users, NEW u \in UploadIds, CompleteSelect(h, w, u)
        PROVE  AllCounted(req[h].id, req[h].total)'
    <3>1. /\ u \in known /\ row[u].total \in Nat /\ row[u].received >= row[u].total
          /\ req'[h].id = u /\ req'[h].total = row[u].total
          /\ row' = row /\ now' = now /\ counted' = counted
      BY <2>2 DEF CompleteSelect, TypeOK, Row
    <3>2. Fresh(u) => counted[u] = 0 .. row[u].total - 1
      BY <3>1, AllOfThem DEF ReceivedIsCounted
    <3>. QED
      BY <3>1, <3>2 DEF AllCounted, Fresh
  <2>3. CASE CompleteInsert(h)
    <3>1. /\ req[h].pc = "insert" /\ req[h] \in CompleteRequest
      BY <2>3, RequestKinds DEF CompleteInsert
    <3>2. req'[h].id = req[h].id /\ req'[h].total = req[h].total
      BY <1>1, <2>3, <3>1 DEF CompleteInsert, TypeOK, CompleteRequest, Idle
    <3>. QED
      BY <2>1, <3>1, <3>2
  <2>4. CASE req'[h] = req[h]
    BY <1>1, <2>1, <2>4
  <2>5. ASSUME NEW w \in Users, NEW u \in UploadIds, NEW i \in Index PROVE ~PutSelect(h, w, u, i)
    BY <1>1 DEF PutSelect, TypeOK
  <2>6. ~PutExists(h) /\ ~PutStore(h)
    BY <1>1, RequestKinds DEF PutExists, PutStore, PutRequest, PutPcs, TypeOK, Idle
  <2>. QED
    BY <1>1, <2>2, <2>3, <2>4, <2>5, <2>6, RequestSteps DEF Idle
<1>2. ASSUME NEW f \in files' PROVE AllCounted(f.id, f.total)'
  <2>1. \/ f \in files
        \/ \E h \in Handlers : /\ CompleteInsert(h)
                               /\ f = [id |-> req[h].id, user |-> req[h].user,
                                       total |-> req[h].total]
    BY DEF Next, HandlerStep, PurgeStep, UploadInit, PutSelect, PutExists, PutStore, PutCount,
           CompleteSelect, CompleteInsert, CompleteDelete, PurgeSelect, PurgeList, PurgeBlob,
           PurgeRow, Abandon, Crash, Restart, Tick, vars
  <2>2. /\ f.id \in known /\ f.total \in Nat
        /\ AllCounted(f.id, f.total)
    <3>1. CASE f \in files
      BY <3>1 DEF CompletesWhole, TypeOK, File
    <3>2. ASSUME NEW h \in Handlers, CompleteInsert(h),
                 f = [id |-> req[h].id, user |-> req[h].user, total |-> req[h].total]
          PROVE  /\ f.id \in known /\ f.total \in Nat
                 /\ AllCounted(f.id, f.total)
      <4>1. /\ req[h].pc = "insert" /\ req[h].id \in known /\ req[h].total \in Nat
        BY <3>2, RequestKinds DEF CompleteInsert, CompleteRequest
      <4>. QED
        BY <3>2, <4>1 DEF CompletesWhole
    <3>. QED
      BY <2>1, <3>1, <3>2
  <2>3. \A u \in known, n \in Nat : AllCounted(u, n) => AllCounted(u, n)'
    BY AllCountedStays
  <2>. QED
    BY <2>2, <2>3 DEF AllCounted, Fresh
<1>. QED
  BY <1>1, <1>2 DEF CompletesWhole, AllCounted, Fresh

LEMMA CountingInvariant ==
  ASSUME ~Overlap
  PROVE  Spec => [](TypeOK /\ CountingInv)
<1>1. Init => TypeOK /\ CountingInv
  <2>1. Init => ReceivedIsCounted /\ PurgeTakesOld
    BY DEF Init, ReceivedIsCounted, PurgeTakesOld, Idle, known
  <2>2. Init => CountsWhatIsStored /\ CountsNewChunk /\ AloneOnChunk /\ CompletesWhole
    BY DEF Init, CountsWhatIsStored, CountsNewChunk, AloneOnChunk, CompletesWhole, Idle, PutPcs
  <2>. QED
    BY <2>1, <2>2, InitTypeOK DEF CountingInv
<1>2. TypeOK /\ CountingInv /\ [Next]_vars => (TypeOK /\ CountingInv)'
  <2>. SUFFICES ASSUME TypeOK, CountingInv, [Next]_vars PROVE (TypeOK /\ CountingInv)'
    OBVIOUS
  <2>1. TypeOK'
    BY StepTypeOK
  <2>2. PurgeTakesOld' /\ CountsWhatIsStored'
    BY StepPurgeTakesOld, StepCountsWhatIsStored DEF CountingInv
  <2>3. ReceivedIsCounted'
    BY StepReceivedIsCounted DEF CountingInv
  <2>4. CountsNewChunk' /\ AloneOnChunk'
    BY StepCountsNewChunk, StepAloneOnChunk DEF CountingInv
  <2>5. CompletesWhole'
    BY <2>3, StepCompletesWhole DEF CountingInv
  <2>. QED
    BY <2>1, <2>2, <2>3, <2>4, <2>5 DEF CountingInv
<1>. QED
  BY <1>1, <1>2, PTL DEF Spec

(***************************************************************************)
(* When no client sends a chunk again while an earlier send of it is still *)
(* being handled, every file is created with all of its chunks and keeps   *)
(* them at least until its upload is 24 hours old.                         *)
(***************************************************************************)
THEOREM SequentialClientsGetWholeFiles ==
  ASSUME ~Overlap
  PROVE  Spec => []FilesAreWhole
<1>1. TypeOK /\ CountingInv => FilesAreWhole
  <2>. SUFFICES ASSUME TypeOK, CountingInv, NEW f \in files, Fresh(f.id),
                       NEW i \in 0 .. f.total - 1
                PROVE  <<f.id, i>> \in blobs
    BY DEF FilesAreWhole
  <2>1. f.id \in known /\ counted[f.id] = 0 .. f.total - 1
    BY DEF CountingInv, CompletesWhole, AllCounted, TypeOK
  <2>2. counted[f.id] \subseteq ChunksOf(f.id)
    BY <2>1 DEF CountingInv, ReceivedIsCounted
  <2>. QED
    BY <2>1, <2>2 DEF ChunksOf
<1>. QED
  BY <1>1, CountingInvariant, PTL

(***************************************************************************)
(* Under the same condition chunks_received never exceeds the number of    *)
(* chunks in the storage: an upload looks no more complete than it is.     *)
(***************************************************************************)
THEOREM SequentialClientsCountRight ==
  ASSUME ~Overlap
  PROVE  Spec => []NotMoreCompleteThanItIs
<1>1. TypeOK /\ CountingInv => NotMoreCompleteThanItIs
  <2>. SUFFICES ASSUME TypeOK, CountingInv, NEW u \in uploads, Fresh(u)
                PROVE  row[u].received <= Cardinality(ChunksOf(u))
    BY DEF NotMoreCompleteThanItIs
  <2>1. row[u].received = Cardinality(counted[u]) /\ counted[u] \subseteq ChunksOf(u)
    BY DEF CountingInv, ReceivedIsCounted, TypeOK
  <2>2. ChunksOf(u) \in SUBSET Index
    BY DEF ChunksOf
  <2>3. IsFiniteSet(ChunksOf(u))
    BY <2>2, IndexSetsAreFinite
  <2>4. Cardinality(counted[u]) <= Cardinality(ChunksOf(u))
    BY <2>1, <2>3, FS_Subset
  <2>. QED
    BY <2>1, <2>4
<1>. QED
  BY <1>1, CountingInvariant, PTL
---------------------------------------------------------------------------
(* The refinement of UploadPromise *)

\* A stored chunk is one of its upload, a young upload has its row or is a
\* file, and a /complete past its INSERT has made one.
PromiseInv ==
  /\ \A k \in blobs : k[2] < row[k[1]].total
  /\ \A u \in known : Fresh(u) => u \in uploads \cup FileIds
  /\ \A h \in Handlers : req[h].pc = "delete" => req[h].id \in FileIds

LEMMA StepPromiseInv ==
  ASSUME TypeOK, PurgeTakesOld, CountsNewChunk, PromiseInv, [Next]_vars
  PROVE  PromiseInv'
<1>1. FileIds \subseteq FileIds'
  <2>1. files \subseteq files'
    BY DEF Next, HandlerStep, PurgeStep, UploadInit, PutSelect, PutExists, PutStore, PutCount,
           CompleteSelect, CompleteInsert, CompleteDelete, PurgeSelect, PurgeList, PurgeBlob,
           PurgeRow, Abandon, Crash, Restart, Tick, vars
  <2>. QED
    BY <2>1 DEF FileIds
<1>2. ASSUME NEW k \in blobs' PROVE k[2] < row'[k[1]].total
  <2>1. k \in blobs \/ \E h \in Handlers : PutStore(h) /\ k = <<req[h].id, req[h].idx>>
    BY DEF Next, HandlerStep, PurgeStep, UploadInit, PutSelect, PutExists, PutStore, PutCount,
           CompleteSelect, CompleteInsert, CompleteDelete, PurgeSelect, PurgeList, PurgeBlob,
           PurgeRow, Abandon, Crash, Restart, Tick, vars
  <2>2. k[1] \in known /\ k[2] < row[k[1]].total
    <3>1. CASE k \in blobs
      BY <3>1 DEF PromiseInv, TypeOK
    <3>2. ASSUME NEW h \in Handlers, PutStore(h), k = <<req[h].id, req[h].idx>>
          PROVE  k[1] \in known /\ k[2] < row[k[1]].total
      BY <3>2, RequestKinds DEF PutStore, PutPcs, CountsNewChunk
    <3>. QED
      BY <2>1, <3>1, <3>2
  <2>. QED
    BY <2>2, RowsStay
<1>3. ASSUME NEW u \in known', Fresh(u)' PROVE u \in uploads' \cup FileIds'
  <2>1. CASE u \notin known
    <3>1. ASSUME NEW v \in UploadIds, NEW w \in Users, NEW n \in 1 .. MaxChunks,
                 UploadInit(v, w, n)
          PROVE  known' = known \cup {v} /\ v \in uploads'
      BY <3>1 DEF UploadInit, known
    <3>2. ASSUME NEW h \in Handlers, PutCount(h) PROVE known' = known
      BY <3>2 DEF PutCount, known
    <3>3. Tick \/ UNCHANGED <<now, row, counted>> => known' = known
      BY DEF Tick, known
    <3>. QED
      BY <2>1, <3>1, <3>2, <3>3, RowSteps
  <2>2. CASE u \in known
    <3>1. Fresh(u) /\ u \in uploads \cup FileIds
      BY <1>3, <2>2, RowsStay DEF PromiseInv, Fresh
    <3>2. ASSUME NEW h \in Handlers, CompleteDelete(h) PROVE u \in uploads' \cup FileIds'
      BY <1>1, <3>1, <3>2 DEF CompleteDelete, PromiseInv
    <3>3. ASSUME PurgeRow PROVE u \in uploads' \cup FileIds'
      BY <1>1, <3>1, <3>3 DEF PurgeRow, PurgeTakesOld
    <3>4. uploads \subseteq uploads' \/ (\E h \in Handlers : CompleteDelete(h)) \/ PurgeRow
      BY DEF Next, HandlerStep, PurgeStep, UploadInit, PutSelect, PutExists, PutStore, PutCount,
             CompleteSelect, CompleteInsert, PurgeSelect, PurgeList, PurgeBlob, Abandon, Crash,
             Restart, Tick, vars
    <3>. QED
      BY <1>1, <3>1, <3>2, <3>3, <3>4
  <2>. QED
    BY <2>1, <2>2
<1>4. ASSUME NEW h \in Handlers, req'[h].pc = "delete" PROVE req'[h].id \in FileIds'
  <2>1. CASE req'[h] = req[h]
    BY <1>1, <1>4, <2>1 DEF PromiseInv
  <2>2. CASE CompleteInsert(h)
    <3>1. req[h] \in CompleteRequest
      BY <2>2, RequestKinds DEF CompleteInsert
    <3>2. /\ req' = [req EXCEPT ![h].pc = "delete"]
          /\ files' = files \cup {[id |-> req[h].id, user |-> req[h].user, total |-> req[h].total]}
      BY <1>4, <2>2 DEF CompleteInsert, TypeOK, Idle
    <3>3. req'[h].id = req[h].id
      BY <3>1, <3>2 DEF TypeOK, CompleteRequest
    <3>. DEFINE f == [id |-> req[h].id, user |-> req[h].user, total |-> req[h].total]
    <3>4. f \in files'
      BY <3>2
    <3>5. f.id = req[h].id
      OBVIOUS
    <3>. HIDE DEF f
    <3>. QED
      BY <3>3, <3>4, <3>5 DEF FileIds
  <2>3. ASSUME NEW w \in Users, NEW u \in UploadIds PROVE ~CompleteSelect(h, w, u)
    BY <1>4 DEF CompleteSelect, TypeOK
  <2>4. ASSUME NEW w \in Users, NEW u \in UploadIds, NEW i \in Index PROVE ~PutSelect(h, w, u, i)
    BY <1>4 DEF PutSelect, TypeOK
  <2>5. ~PutExists(h) /\ ~PutStore(h)
    BY <1>4, RequestKinds DEF PutExists, PutStore, PutRequest, PutPcs, TypeOK, Idle
  <2>. QED
    BY <1>4, <2>1, <2>2, <2>3, <2>4, <2>5, RequestSteps DEF Idle
<1>. QED
  BY <1>2, <1>3, <1>4 DEF PromiseInv, Fresh

\* The state of UploadPromise that a state of ChunkedUpload stands for.
phase == [u \in UploadIds |-> Phase(u)]
size == [u \in UploadIds |-> IF u \in known THEN row[u].total ELSE 0]
stored == [u \in UploadIds |-> ChunksOf(u)]
old == {u \in known : ~Fresh(u)}

LEMMA Phases ==
  ASSUME TypeOK, NEW u \in UploadIds
  PROVE  /\ u \in FileIds => phase[u] = "done"
         /\ u \notin FileIds /\ u \in uploads => phase[u] = "open"
         /\ u \in known \ (uploads \cup FileIds) => phase[u] = "gone"
         /\ u \notin known => phase[u] = "none"
BY DEF phase, Phase, TypeOK, FileIds, File

LEMMA PhasesNext ==
  ASSUME TypeOK', NEW u \in UploadIds
  PROVE  /\ u \in FileIds' => phase'[u] = "done"
         /\ u \notin FileIds' /\ u \in uploads' => phase'[u] = "open"
         /\ u \in known' \ (uploads' \cup FileIds') => phase'[u] = "gone"
         /\ u \notin known' => phase'[u] = "none"
BY DEF phase, Phase, TypeOK, FileIds, File

\* What a step changes of that state is in what it changes of the row, the
\* files, the chunks and the clock.
LEMMA SameSizes ==
  ASSUME TypeOK, known' = known, now' = now,
         \A u \in known : row'[u].total = row[u].total /\ row'[u].created = row[u].created
  PROVE  size' = size /\ old' = old
BY DEF size, old, Fresh

LEMMA SameStored == ASSUME blobs' = blobs PROVE stored' = stored
BY DEF stored, ChunksOf

LEMMA SamePhase ==
  ASSUME TypeOK, TypeOK', NEW u \in UploadIds, u \in known' <=> u \in known,
         u \in FileIds' <=> u \in FileIds, u \in FileIds \/ (u \in uploads' <=> u \in uploads)
  PROVE  phase'[u] = phase[u]
<1>1. u \in FileIds \/ u \in uploads => u \in known
  BY DEF TypeOK, FileIds
<1>. QED
  BY <1>1, Phases, PhasesNext

LEMMA PhaseChanges ==
  ASSUME NEW u \in UploadIds, NEW value, phase'[u] = value,
         \A v \in UploadIds \ {u} : phase'[v] = phase[v]
  PROVE  phase' = [phase EXCEPT ![u] = value]
BY DEF phase

LEMMA SamePhases ==
  ASSUME \A v \in UploadIds : phase'[v] = phase[v]
  PROVE  phase' = phase
BY DEF phase

LEMMA StoredChanges ==
  ASSUME TypeOK, NEW u \in UploadIds, NEW i \in Index
  PROVE  /\ blobs' = blobs \cup {<<u, i>>} => stored' = [stored EXCEPT ![u] = @ \cup {i}]
         /\ blobs' = blobs \ {<<u, i>>} => stored' = [stored EXCEPT ![u] = @ \ {i}]
BY DEF stored, ChunksOf

\* No chunk and no file: the state stays what it was.
LEMMA Stutters ==
  ASSUME TypeOK, TypeOK', known' = known, now' = now, blobs' = blobs,
         \A u \in known : row'[u].total = row[u].total /\ row'[u].created = row[u].created,
         \A u \in UploadIds : u \in FileIds' <=> u \in FileIds,
         \A u \in UploadIds : u \in FileIds \/ (u \in uploads' <=> u \in uploads)
  PROVE  UNCHANGED Promise!vars
<1>1. phase' = phase
  BY SamePhase, SamePhases
<1>2. size' = size /\ old' = old /\ stored' = stored
  BY SameSizes, SameStored
<1>. QED
  BY <1>1, <1>2 DEF Promise!vars, phase, size, old, stored

LEMMA OpenIsOpen ==
  ASSUME TypeOK, TypeOK', NEW u \in UploadIds, NEW w \in Users, NEW n \in 1 .. MaxChunks,
         UploadInit(u, w, n)
  PROVE  Promise!Open(u, n)
<1>1. /\ u \notin known /\ known' = known \cup {u} /\ FileIds' = FileIds
      /\ uploads' = uploads \cup {u} /\ now' = now /\ blobs' = blobs
      /\ row'[u].total = n /\ row'[u].created = now
      /\ \A v \in known : row'[v] = row[v]
  BY DEF UploadInit, known, FileIds
<1>2. phase' = [phase EXCEPT ![u] = "open"]
  <2>1. u \notin FileIds
    BY <1>1 DEF FileIds, TypeOK
  <2>2. phase'[u] = "open"
    BY <1>1, <2>1, PhasesNext
  <2>3. \A v \in UploadIds \ {u} : phase'[v] = phase[v]
    BY <1>1, SamePhase
  <2>. QED
    BY <2>2, <2>3, PhaseChanges
<1>3. size' = [size EXCEPT ![u] = n]
  BY <1>1 DEF size
<1>4. old' = old
  BY <1>1, BoundsAssumption DEF old, Fresh, TypeOK
<1>5. stored' = stored
  BY <1>1, SameStored
<1>6. phase[u] = "none"
  BY <1>1, Phases
<1>. QED
  BY <1>2, <1>3, <1>4, <1>5, <1>6 DEF Promise!Open, phase, size, old, stored

LEMMA PutIsStore ==
  ASSUME TypeOK, TypeOK', CountsNewChunk, NEW h \in Handlers, PutStore(h)
  PROVE  Promise!Store(req[h].id, req[h].idx) /\ req[h].id \in UploadIds /\ req[h].idx \in Index
<1>1. /\ req[h].id \in known /\ req[h].id \in UploadIds /\ req[h].idx \in Index
      /\ req[h].idx < row[req[h].id].total /\ row[req[h].id].total \in Nat
  BY RequestKinds DEF PutStore, PutPcs, CountsNewChunk, PutRequest, TypeOK, Row
<1>2. phase' = phase /\ size' = size /\ old' = old
  <2>1. known' = known /\ FileIds' = FileIds /\ uploads' = uploads /\ now' = now /\ row' = row
    BY DEF PutStore, known, FileIds
  <2>. QED
    BY <2>1, SamePhase, SamePhases, SameSizes
<1>3. stored' = [stored EXCEPT ![req[h].id] = @ \cup {req[h].idx}]
  BY <1>1, StoredChanges DEF PutStore
<1>4. phase[req[h].id] # "none"
  BY <1>1, Phases
<1>5. req[h].idx \in 0 .. size[req[h].id] - 1
  BY <1>1 DEF size, Index
<1>. QED
  BY <1>1, <1>2, <1>3, <1>4, <1>5 DEF Promise!Store, Promise!Whole, phase, size, old, stored

\* A young upload becomes a file when all its chunks are stored; an old one may
\* have lost some.
LEMMA InsertIsFinish ==
  ASSUME TypeOK, TypeOK', CountingInv, PromiseInv, NEW h \in Handlers, CompleteInsert(h),
         req[h].id \notin FileIds
  PROVE  Promise!Finish(req[h].id) \/ Promise!FinishOld(req[h].id)
<1>. DEFINE u == req[h].id
<1>1. u \in known /\ u \in UploadIds /\ req[h].total \in Nat
  BY RequestKinds DEF CompleteInsert, CompleteRequest
<1>2. phase' = [phase EXCEPT ![u] = "done"]
  <2>1. /\ files' = files \cup {[id |-> u, user |-> req[h].user, total |-> req[h].total]}
        /\ known' = known /\ uploads' = uploads
    BY DEF CompleteInsert, known
  <2>2. FileIds' = FileIds \cup {u}
    <3>. DEFINE f == [id |-> u, user |-> req[h].user, total |-> req[h].total]
    <3>1. f.id = u /\ files' = files \cup {f}
      BY <2>1
    <3>. HIDE DEF f, u
    <3>. QED
      BY <3>1 DEF FileIds
  <2>3. phase'[u] = "done"
    BY <1>1, <2>2, PhasesNext
  <2>4. \A v \in UploadIds \ {u} : phase'[v] = phase[v]
    BY <2>1, <2>2, SamePhase
  <2>. QED
    BY <1>1, <2>3, <2>4, PhaseChanges
<1>3. size' = size /\ old' = old /\ stored' = stored
  BY SameSizes, SameStored DEF CompleteInsert, known
<1>4. CASE Fresh(u)
  <2>1. phase[u] = "open"
    BY <1>1, <1>4, Phases DEF PromiseInv
  <2>2. counted[u] = 0 .. row[u].total - 1 /\ counted[u] \subseteq ChunksOf(u)
    BY <1>1, <1>4 DEF CountingInv, CompletesWhole, AllCounted, ReceivedIsCounted, CompleteInsert
  <2>3. ChunksOf(u) \subseteq 0 .. row[u].total - 1
    BY <1>1 DEF ChunksOf, PromiseInv, Index, TypeOK, Row
  <2>4. stored[u] = 0 .. size[u] - 1
    BY <1>1, <2>2, <2>3 DEF stored, size
  <2>. QED
    BY <1>2, <1>3, <2>1, <2>4 DEF Promise!Finish, Promise!Whole, phase, size, old, stored
<1>5. CASE ~Fresh(u)
  <2>1. u \in old /\ phase[u] \in {"open", "gone"}
    BY <1>1, <1>5, Phases DEF old
  <2>. QED
    BY <1>2, <1>3, <2>1 DEF Promise!FinishOld, phase, size, old, stored
<1>. QED
  BY <1>4, <1>5

LEMMA PurgeIsLose ==
  ASSUME TypeOK, TypeOK', PurgeTakesOld, NEW k \in UploadIds \X Index, PurgeBlob(k),
         blobs' = blobs \ {k}
  PROVE  Promise!Lose(k[1], k[2])
<1>1. k[1] \in known /\ ~Fresh(k[1]) /\ k = <<k[1], k[2]>>
  BY DEF PurgeBlob, PurgeTakesOld
<1>2. phase' = phase /\ size' = size /\ old' = old
  <2>1. known' = known /\ FileIds' = FileIds /\ uploads' = uploads /\ now' = now /\ row' = row
    BY DEF PurgeBlob, known, FileIds
  <2>. QED
    BY <2>1, SamePhase, SamePhases, SameSizes
<1>3. stored' = [stored EXCEPT ![k[1]] = @ \ {k[2]}]
  BY <1>1, StoredChanges
<1>4. k[1] \in old
  BY <1>1 DEF old
<1>. QED
  BY <1>2, <1>3, <1>4 DEF Promise!Lose, phase, size, old, stored

LEMMA PurgeIsForget ==
  ASSUME TypeOK, TypeOK', PurgeTakesOld, PurgeRow, uploads' = uploads \ {purge.id},
         purge.id \in uploads \ FileIds
  PROVE  Promise!Forget(purge.id) /\ purge.id \in UploadIds
<1>. DEFINE u == purge.id
<1>1. u \in known /\ u \in UploadIds /\ ~Fresh(u)
  BY DEF PurgeRow, PurgeTakesOld, TypeOK
<1>2. /\ known' = known /\ FileIds' = FileIds /\ now' = now /\ row' = row /\ blobs' = blobs
  BY DEF PurgeRow, known, FileIds
<1>3. phase' = [phase EXCEPT ![u] = "gone"]
  <2>1. phase'[u] = "gone"
    BY <1>1, <1>2, PhasesNext
  <2>2. \A v \in UploadIds \ {u} : phase'[v] = phase[v]
    BY <1>2, SamePhase
  <2>. QED
    BY <1>1, <2>1, <2>2, PhaseChanges
<1>4. size' = size /\ old' = old /\ stored' = stored
  BY <1>2, SameSizes, SameStored
<1>5. u \in old /\ phase[u] = "open"
  BY <1>1, Phases DEF old
<1>. QED
  BY <1>1, <1>3, <1>4, <1>5 DEF Promise!Forget, phase, size, old, stored

LEMMA TickIsAge ==
  ASSUME TypeOK, TypeOK', Tick
  PROVE  \E S \in SUBSET UploadIds : Promise!Age(S)
<1>1. known' = known /\ FileIds' = FileIds /\ uploads' = uploads /\ row' = row /\ blobs' = blobs
  BY DEF Tick, known, FileIds
<1>2. phase' = phase /\ stored' = stored
  BY <1>1, SamePhase, SamePhases, SameStored
<1>3. size' = size
  BY <1>1 DEF size
<1>4. old' \in SUBSET UploadIds /\ \A u \in old' : phase[u] # "none"
  BY <1>1, Phases DEF old, TypeOK
<1>5. old' = old \cup old'
  BY <1>1, BoundsAssumption DEF old, Fresh, Tick, TypeOK, Row
<1>6. Promise!Age(old')
  BY <1>2, <1>3, <1>4, <1>5 DEF Promise!Age, phase, size, old, stored
<1>. QED
  BY <1>4, <1>6

LEMMA StepKeepsPromise ==
  ASSUME TypeOK, TypeOK', CountingInv, PromiseInv, [Next]_vars
  PROVE  [Promise!Next]_Promise!vars
<1>1. ASSUME NEW u \in UploadIds, NEW w \in Users, NEW n \in 1 .. MaxChunks, UploadInit(u, w, n)
      PROVE  Promise!Next
  BY <1>1, OpenIsOpen DEF Promise!Next
<1>2. ASSUME NEW h \in Handlers, PutStore(h) PROVE Promise!Next
  <2>1. Promise!Store(req[h].id, req[h].idx) /\ req[h].id \in UploadIds /\ req[h].idx \in Promise!Index
    BY <1>2, PutIsStore DEF CountingInv, Index, Promise!Index
  <2>. QED
    BY <2>1 DEF Promise!Next
<1>3. ASSUME NEW h \in Handlers, PutCount(h) PROVE UNCHANGED Promise!vars
  <2>1. /\ known' = known /\ now' = now /\ blobs' = blobs /\ FileIds' = FileIds /\ uploads' = uploads
        /\ \A u \in known : row'[u].total = row[u].total /\ row'[u].created = row[u].created
    BY <1>3 DEF PutCount, known, FileIds, TypeOK, Row
  <2>. QED
    BY <2>1, Stutters
<1>4. ASSUME NEW h \in Handlers, CompleteInsert(h) PROVE Promise!Next \/ UNCHANGED Promise!vars
  <2>1. CASE req[h].id \in FileIds
    <3>1. /\ known' = known /\ now' = now /\ blobs' = blobs /\ FileIds' = FileIds
          /\ uploads' = uploads /\ row' = row
      BY <1>4, <2>1 DEF CompleteInsert, known, FileIds
    <3>. QED
      BY <3>1, Stutters
  <2>2. CASE req[h].id \notin FileIds
    <3>1. req[h].id \in UploadIds
      BY <1>4, RequestKinds DEF CompleteInsert, CompleteRequest
    <3>. QED
      BY <1>4, <2>2, <3>1, InsertIsFinish DEF Promise!Next
  <2>. QED
    BY <2>1, <2>2
<1>5. ASSUME NEW h \in Handlers, CompleteDelete(h) PROVE UNCHANGED Promise!vars
  <2>1. /\ known' = known /\ now' = now /\ blobs' = blobs /\ FileIds' = FileIds /\ row' = row
        /\ uploads' = uploads \/ uploads' = uploads \ {req[h].id}
        /\ req[h].id \in FileIds
    BY <1>5 DEF CompleteDelete, known, FileIds, PromiseInv
  <2>. QED
    BY <2>1, Stutters
<1>6. ASSUME NEW k \in UploadIds \X Index, PurgeBlob(k) PROVE Promise!Next \/ UNCHANGED Promise!vars
  <2>1. CASE blobs' = blobs \ {k}
    <3>1. Promise!Lose(k[1], k[2]) /\ k[1] \in UploadIds /\ k[2] \in Promise!Index
      BY <1>6, <2>1, PurgeIsLose DEF CountingInv, Index, Promise!Index
    <3>. QED
      BY <3>1 DEF Promise!Next
  <2>2. CASE blobs' = blobs
    <3>1. known' = known /\ now' = now /\ FileIds' = FileIds /\ uploads' = uploads /\ row' = row
      BY <1>6 DEF PurgeBlob, known, FileIds
    <3>. QED
      BY <2>2, <3>1, Stutters
  <2>. QED
    BY <1>6, <2>1, <2>2 DEF PurgeBlob
<1>7. CASE PurgeRow
  <2>1. CASE uploads' = uploads \ {purge.id} /\ purge.id \in uploads \ FileIds
    BY <1>7, <2>1, PurgeIsForget DEF CountingInv, Promise!Next
  <2>2. CASE ~(uploads' = uploads \ {purge.id} /\ purge.id \in uploads \ FileIds)
    <3>1. /\ known' = known /\ now' = now /\ blobs' = blobs /\ FileIds' = FileIds /\ row' = row
          /\ \A u \in UploadIds : u \in FileIds \/ (u \in uploads' <=> u \in uploads)
      BY <1>7, <2>2 DEF PurgeRow, known, FileIds
    <3>. QED
      BY <3>1, Stutters
  <2>. QED
    BY <2>1, <2>2
<1>8. CASE Tick
  BY <1>8, TickIsAge DEF Promise!Next
<1>9. CASE UNCHANGED <<now, uploads, row, files, blobs>>
  <2>1. known' = known /\ FileIds' = FileIds
    BY <1>9 DEF known, FileIds
  <2>. QED
    BY <1>9, <2>1, Stutters
<1>10. \/ \E u \in UploadIds, w \in Users, n \in 1 .. MaxChunks : UploadInit(u, w, n)
       \/ \E h \in Handlers : PutStore(h) \/ PutCount(h) \/ CompleteInsert(h) \/ CompleteDelete(h)
       \/ \E k \in UploadIds \X Index : PurgeBlob(k)
       \/ PurgeRow \/ Tick
       \/ UNCHANGED <<now, uploads, row, files, blobs>>
  <2>1. ASSUME \/ \E h \in Handlers, w \in Users, u \in UploadIds, i \in Index : PutSelect(h, w, u, i)
               \/ \E h \in Handlers, w \in Users, u \in UploadIds : CompleteSelect(h, w, u)
               \/ \E h \in Handlers : PutExists(h) \/ Abandon(h)
        PROVE  UNCHANGED <<now, uploads, row, files, blobs>>
    BY <2>1 DEF PutSelect, CompleteSelect, PutExists, Abandon
  <2>2. ASSUME \/ PurgeSelect \/ (\E u \in UploadIds : PurgeList(u))
               \/ Crash \/ Restart \/ UNCHANGED vars
        PROVE  UNCHANGED <<now, uploads, row, files, blobs>>
    BY <2>2 DEF PurgeSelect, PurgeList, Crash, Restart, vars
  <2>. QED
    BY <2>1, <2>2 DEF Next, HandlerStep, PurgeStep
<1>. QED
  BY <1>1, <1>2, <1>3, <1>4, <1>5, <1>6, <1>7, <1>8, <1>9, <1>10

(***************************************************************************)
(* The handlers and the purge, statement by statement and with failures    *)
(* anywhere, do to an upload only what UploadPromise allows: in 24 hours   *)
(* it gathers chunks and becomes a file when it has all of them.           *)
(***************************************************************************)
THEOREM HandlersKeepPromise ==
  ASSUME ~Overlap
  PROVE  Spec => KeepsPromise
<1>1. Init => Promise!Init
  <2>. SUFFICES ASSUME Init PROVE Promise!Init
    OBVIOUS
  <2>1. known = {} /\ FileIds = {} /\ uploads = {} /\ blobs = {}
    BY DEF Init, known, FileIds
  <2>2. \A u \in UploadIds : phase[u] = "none"
    BY <2>1, InitTypeOK, Phases
  <2>3. phase = [u \in UploadIds |-> "none"]
    BY <2>2 DEF phase
  <2>4. size = [u \in UploadIds |-> 0] /\ stored = [u \in UploadIds |-> {}] /\ old = {}
    BY <2>1 DEF size, stored, old, ChunksOf
  <2>. QED
    BY <2>3, <2>4 DEF Promise!Init, phase, size, stored, old
<1>2. Init => PromiseInv
  BY DEF Init, PromiseInv, known, Idle
<1>3. TypeOK /\ CountingInv /\ PromiseInv /\ [Next]_vars => PromiseInv'
  BY StepPromiseInv DEF CountingInv
<1>4. TypeOK /\ TypeOK' /\ CountingInv /\ PromiseInv /\ [Next]_vars => [Promise!Next]_Promise!vars
  BY StepKeepsPromise
<1>. QED
  BY <1>1, <1>2, <1>3, <1>4, CountingInvariant, PTL DEF Spec, KeepsPromise, Promise!Spec

---------------------------------------------------------------------------
(* Requests and files belong to the user of the upload *)

\* A /complete past its check carries the number of chunks of its upload.
OwnerInv ==
  /\ OwnerOnly
  /\ \A h \in Handlers :
       req[h].pc \in {"insert", "delete"} => req[h].total = row[req[h].id].total

LEMMA StepOwnerInv ==
  ASSUME TypeOK, OwnerInv, [Next]_vars
  PROVE  OwnerInv'
<1>. DEFINE Owned(r) == /\ r.user = row'[r.id].user
                        /\ r.pc \in {"insert", "delete"} => r.total = row'[r.id].total
            New(h) == [id |-> req[h].id, user |-> req[h].user, total |-> req[h].total]
<1>1. ASSUME NEW h \in Handlers, req'[h] # Idle PROVE Owned(req'[h])
  <2>1. ASSUME req[h] # Idle, req'[h].id = req[h].id, req'[h].user = req[h].user,
               req'[h].pc \in {"insert", "delete"} =>
                 req[h].pc \in {"insert", "delete"} /\ req'[h].total = req[h].total
        PROVE  Owned(req'[h])
    <3>1. req[h].id \in known
      BY <2>1 DEF TypeOK
    <3>2. row'[req[h].id].user = row[req[h].id].user /\ row'[req[h].id].total = row[req[h].id].total
      BY <3>1, RowsStay
    <3>. QED
      BY <2>1, <3>2 DEF OwnerInv, OwnerOnly
  <2>2. CASE req'[h] = req[h]
    BY <1>1, <2>1, <2>2
  <2>3. ASSUME NEW w \in Users, NEW u \in UploadIds, NEW i \in Index, PutSelect(h, w, u, i)
        PROVE  Owned(req'[h])
    BY <2>3 DEF PutSelect, TypeOK
  <2>4. ASSUME NEW w \in Users, NEW u \in UploadIds, CompleteSelect(h, w, u)
        PROVE  Owned(req'[h])
    BY <2>4 DEF CompleteSelect, TypeOK
  <2>5. CASE PutExists(h) \/ PutStore(h)
    <3>1. req[h] \in PutRequest /\ req[h] # Idle
      BY <2>5, RequestKinds DEF PutExists, PutStore, PutPcs, Idle
    <3>2. /\ req'[h].id = req[h].id /\ req'[h].user = req[h].user
          /\ req'[h].pc \notin {"insert", "delete"}
      BY <1>1, <2>5, <3>1 DEF PutExists, PutStore, PutRequest, TypeOK
    <3>. QED
      BY <2>1, <3>1, <3>2
  <2>6. CASE CompleteInsert(h)
    <3>1. req[h] \in CompleteRequest /\ req[h] # Idle /\ req[h].pc = "insert"
      BY <2>6, RequestKinds DEF CompleteInsert, Idle
    <3>2. req'[h].id = req[h].id /\ req'[h].user = req[h].user /\ req'[h].total = req[h].total
      BY <1>1, <2>6, <3>1 DEF CompleteInsert, CompleteRequest, TypeOK
    <3>. QED
      BY <2>1, <3>1, <3>2
  <2>. QED
    BY <1>1, <2>2, <2>3, <2>4, <2>5, <2>6, RequestSteps
<1>2. \/ files' = files
      \/ \E h \in Handlers : /\ req[h].pc = "insert"
                             /\ files' = files \cup {New(h)}
  BY DEF Next, HandlerStep, PurgeStep, UploadInit, PutSelect, PutExists, PutStore, PutCount,
         CompleteSelect, CompleteInsert, CompleteDelete, PurgeSelect, PurgeList, PurgeBlob,
         PurgeRow, Abandon, Crash, Restart, Tick, vars
<1>3. ASSUME NEW f \in files
      PROVE  f.user = row'[f.id].user /\ f.total = row'[f.id].total
  BY RowsStay DEF OwnerInv, OwnerOnly, TypeOK
<1>4. ASSUME NEW h \in Handlers, req[h].pc = "insert", files' = files \cup {New(h)}
      PROVE  \A f \in files' : f.user = row'[f.id].user /\ f.total = row'[f.id].total
  <2>. DEFINE new == New(h)
  <2>1. new.id = req[h].id /\ new.user = req[h].user /\ new.total = req[h].total
    OBVIOUS
  <2>2. files' = files \cup {new}
    BY <1>4
  <2>. HIDE DEF new
  <2>3. new.user = row'[new.id].user /\ new.total = row'[new.id].total
    <3>1. req[h].id \in known /\ req[h] # Idle
      BY <1>4, RequestKinds DEF Idle
    <3>. QED
      BY <1>4, <2>1, <3>1, RowsStay DEF OwnerInv, OwnerOnly
  <2>. QED
    BY <1>3, <2>2, <2>3
<1>5. \A h \in Handlers : req'[h].pc \in {"insert", "delete"} => req'[h] # Idle
  BY DEF Idle
<1>6. \A f \in files' : f.user = row'[f.id].user /\ f.total = row'[f.id].total
  <2>1. CASE files' = files
    BY <1>3, <2>1
  <2>. QED
    BY <1>2, <1>4, <2>1
<1>. QED
  BY <1>1, <1>5, <1>6 DEF OwnerInv, OwnerOnly

(***************************************************************************)
(* No request works on another user's upload, however requests of several  *)
(* users interleave, and a file belongs to the user of its upload.         *)
(***************************************************************************)
THEOREM UploadsHaveOneOwner == Spec => []OwnerOnly
<1>1. Init => OwnerInv
  BY DEF Init, OwnerInv, OwnerOnly, Idle
<1>2. TypeOK /\ OwnerInv /\ [Next]_vars => OwnerInv'
  BY StepOwnerInv
<1>3. OwnerInv => OwnerOnly
  BY DEF OwnerInv
<1>. QED
  BY <1>1, <1>2, <1>3, TypeCorrect, PTL DEF Spec

---------------------------------------------------------------------------
(* What is acknowledged is counted, however sends overlap *)

OnTheWay(u, i) ==
  \/ i \in counted[u]
  \/ \E h \in Handlers : req[h].pc = "count" /\ req[h].id = u /\ req[h].idx = i

\* Every stored or acknowledged chunk, and every chunk a handler takes for
\* received, is counted or has a handler that is about to count it.
OnTheWayInv ==
  /\ \A u \in known : row[u].received >= Cardinality(counted[u])
  /\ \A u \in uploads, i \in Index :
       <<u, i>> \in blobs \/ i \in acked[u] => OnTheWay(u, i)
  /\ \A h \in Handlers :
       (req[h].pc = "store" /\ req[h].already /\ req[h].id \in uploads)
         => OnTheWay(req[h].id, req[h].idx)

LEMMA StepOnTheWay ==
  ASSUME TypeOK, ~Failures, [Next]_vars, NEW u \in uploads, NEW i \in Index, OnTheWay(u, i)
  PROVE  OnTheWay(u, i)'
<1>1. u \in UploadIds
  BY DEF TypeOK
<1>2. CASE i \in counted[u]
  <2>1. ASSUME NEW g \in Handlers, PutCount(g) PROVE i \in counted'[u]
    BY <1>1, <1>2, <2>1 DEF PutCount, TypeOK
  <2>2. counted' = counted \/ \E g \in Handlers : PutCount(g)
    BY RowSteps DEF UploadInit, Tick
  <2>. QED
    BY <1>2, <2>1, <2>2 DEF OnTheWay
<1>3. ASSUME NEW h \in Handlers, req[h].pc = "count", req[h].id = u, req[h].idx = i
      PROVE  OnTheWay(u, i)'
  <2>1. CASE PutCount(h)
    <3>1. i \in counted'[u]
      BY <1>1, <1>3, <2>1 DEF PutCount, TypeOK
    <3>. QED
      BY <3>1 DEF OnTheWay
  <2>2. CASE req'[h] = req[h]
    <3>1. req'[h].pc = "count" /\ req'[h].id = u /\ req'[h].idx = i
      BY <1>3, <2>2
    <3>. QED
      BY <3>1 DEF OnTheWay
  <2>3. PutCount(h) \/ req'[h] = req[h]
    <3>1. ASSUME NEW g \in Handlers, NEW w \in Users, NEW v \in UploadIds, NEW j \in Index,
                 PutSelect(g, w, v, j)
          PROVE  req'[h] = req[h]
      BY <1>3, <3>1 DEF PutSelect, TypeOK, Idle
    <3>2. ASSUME NEW g \in Handlers, NEW w \in Users, NEW v \in UploadIds, CompleteSelect(g, w, v)
          PROVE  req'[h] = req[h]
      BY <1>3, <3>2 DEF CompleteSelect, TypeOK, Idle
    <3>3. ASSUME NEW g \in Handlers, HandlerStep(g) PROVE PutCount(h) \/ req'[h] = req[h]
      BY <1>3, <3>3 DEF HandlerStep, PutExists, PutStore, PutCount, CompleteInsert,
                        CompleteDelete, TypeOK
    <3>. QED
      BY <3>1, <3>2, <3>3 DEF Next, PurgeStep, UploadInit, PurgeSelect, PurgeList, PurgeBlob,
                              PurgeRow, Abandon, Crash, Restart, Tick, vars
  <2>. QED
    BY <2>1, <2>2, <2>3
<1>. QED
  BY <1>2, <1>3 DEF OnTheWay

LEMMA StepReceivedCovers ==
  ASSUME TypeOK, OnTheWayInv, [Next]_vars, NEW u \in known'
  PROVE  row'[u].received >= Cardinality(counted'[u])
<1>1. ASSUME NEW v \in UploadIds, NEW w \in Users, NEW n \in 1 .. MaxChunks, UploadInit(v, w, n)
      PROVE  row'[u].received >= Cardinality(counted'[u])
  <2>1. CASE u = v
    <3>1. counted'[u] = {} /\ row'[u].received = 0
      BY <1>1, <2>1 DEF UploadInit, TypeOK
    <3>. QED
      BY <3>1, FS_EmptySet
  <2>2. CASE u # v
    <3>1. u \in known /\ row'[u] = row[u] /\ counted'[u] = counted[u]
      BY <1>1, <2>2 DEF UploadInit, known
    <3>. QED
      BY <3>1 DEF OnTheWayInv
  <2>. QED
    BY <2>1, <2>2
<1>2. ASSUME NEW h \in Handlers, PutCount(h)
      PROVE  row'[u].received >= Cardinality(counted'[u])
  <2>1. /\ u \in known /\ u \in UploadIds
        /\ req[h].idx \in Index /\ req[h].id \in known
        /\ row[u].received \in Nat /\ row[u].received >= Cardinality(counted[u])
        /\ counted[u] \in SUBSET Index
    BY <1>2, RequestKinds DEF PutCount, PutPcs, PutRequest, known, TypeOK, Row, OnTheWayInv
  <2>2. CASE u = req[h].id /\ u \in uploads
    <3>1. /\ counted'[u] = counted[u] \cup {req[h].idx}
          /\ row'[u].received = row[u].received + 1
      BY <1>2, <2>1, <2>2 DEF PutCount, TypeOK, Row
    <3>2. /\ Cardinality(counted[u] \cup {req[h].idx}) \in
               {Cardinality(counted[u]), Cardinality(counted[u]) + 1}
          /\ Cardinality(counted[u]) \in Nat
      BY <2>1, IndexSetsAreFinite, FS_AddElement, FS_CardinalityType
    <3>. QED
      BY <2>1, <3>1, <3>2
  <2>3. CASE ~(u = req[h].id /\ u \in uploads)
    <3>1. counted'[u] = counted[u] /\ row'[u].received = row[u].received
      BY <1>2, <2>1, <2>3 DEF PutCount, TypeOK, Row
    <3>. QED
      BY <2>1, <3>1
  <2>. QED
    BY <2>2, <2>3
<1>3. CASE row' = row /\ counted' = counted
  BY <1>3 DEF known, OnTheWayInv
<1>. QED
  BY <1>1, <1>2, <1>3, RowSteps DEF Tick

LEMMA StepOnTheWayInv ==
  ASSUME TypeOK, ~Failures, OnTheWayInv, [Next]_vars
  PROVE  OnTheWayInv'
<1>1. ASSUME NEW u \in uploads', NEW i \in Index, <<u, i>> \in blobs' \/ i \in acked'[u]
      PROVE  OnTheWay(u, i)'
  <2>1. CASE u \notin uploads
    <3>1. \E v \in UploadIds, w \in Users, n \in 1 .. MaxChunks : UploadInit(v, w, n) /\ v = u
      BY <2>1 DEF Next, HandlerStep, PurgeStep, UploadInit, PutSelect, PutExists, PutStore,
                  PutCount, CompleteSelect, CompleteInsert, CompleteDelete, PurgeSelect,
                  PurgeList, PurgeBlob, PurgeRow, Abandon, Crash, Restart, Tick, vars
    <3>2. u \in UploadIds /\ u \notin known /\ blobs' = blobs /\ acked' = acked
      BY <3>1 DEF UploadInit
    <3>. QED
      BY <1>1, <3>2 DEF TypeOK
  <2>2. CASE u \in uploads
    <3>1. CASE <<u, i>> \in blobs \/ i \in acked[u]
      BY <2>2, <3>1, StepOnTheWay DEF OnTheWayInv
    <3>2. ASSUME NEW h \in Handlers, PutStore(h), req[h].id = u, req[h].idx = i
          PROVE  OnTheWay(u, i)'
      <4>1. CASE req[h].already
        BY <2>2, <3>2, <4>1, StepOnTheWay DEF PutStore, OnTheWayInv
      <4>2. CASE ~req[h].already
        <5>1. req[h] \in PutRequest
          BY <3>2, RequestKinds DEF PutStore, PutPcs
        <5>2. req'[h].pc = "count" /\ req'[h].id = u /\ req'[h].idx = i
          BY <3>2, <4>2, <5>1 DEF PutStore, TypeOK, PutRequest
        <5>. QED
          BY <5>2 DEF OnTheWay
      <4>. QED
        BY <4>1, <4>2
    <3>3. ASSUME NEW h \in Handlers, PutCount(h), req[h].id = u, req[h].idx = i
          PROVE  OnTheWay(u, i)'
      <4>1. OnTheWay(u, i)
        BY <3>3 DEF PutCount, OnTheWay
      <4>. QED
        BY <2>2, <4>1, StepOnTheWay
    <3>4. \/ <<u, i>> \in blobs \/ i \in acked[u]
          \/ \E h \in Handlers : (PutStore(h) \/ PutCount(h)) /\ req[h].id = u /\ req[h].idx = i
      <4>1. ASSUME NEW h \in Handlers, PutStore(h) \/ PutCount(h)
            PROVE  \/ <<u, i>> \in blobs \/ i \in acked[u]
                   \/ req[h].id = u /\ req[h].idx = i
        <5>1. u \in UploadIds
          BY <2>2 DEF TypeOK
        <5>2. /\ blobs' \subseteq blobs \cup {<<req[h].id, req[h].idx>>}
              /\ \/ acked' = acked
                 \/ acked' = [acked EXCEPT ![req[h].id] = @ \cup {req[h].idx}]
          BY <4>1 DEF PutStore, PutCount, Acknowledge
        <5>. QED
          BY <1>1, <5>1, <5>2 DEF TypeOK
      <4>2. \/ blobs' \subseteq blobs /\ acked' = acked
            \/ \E h \in Handlers : PutStore(h) \/ PutCount(h)
        BY DEF Next, HandlerStep, PurgeStep, UploadInit, PutSelect, PutExists, CompleteSelect,
               CompleteInsert, CompleteDelete, PurgeSelect, PurgeList, PurgeBlob, PurgeRow,
               Abandon, Crash, Restart, Tick, vars
      <4>. QED
        BY <1>1, <4>1, <4>2
    <3>. QED
      BY <3>1, <3>2, <3>3, <3>4
  <2>. QED
    BY <2>1, <2>2
<1>2. ASSUME NEW h \in Handlers, req'[h].pc = "store", req'[h].already, req'[h].id \in uploads'
      PROVE  OnTheWay(req[h].id, req[h].idx)'
  <2>1. CASE req'[h] = req[h]
    <3>1. req[h].id \in known /\ req[h].idx \in Index
      BY <1>2, <2>1, RequestKinds DEF PutPcs, PutRequest
    <3>2. req[h].id \in uploads
      <4>1. \/ uploads' \subseteq uploads
            \/ \E u \in UploadIds : u \notin known /\ uploads' = uploads \cup {u}
        BY DEF Next, HandlerStep, PurgeStep, UploadInit, PutSelect, PutExists, PutStore, PutCount,
               CompleteSelect, CompleteInsert, CompleteDelete, PurgeSelect, PurgeList, PurgeBlob,
               PurgeRow, Abandon, Crash, Restart, Tick, vars
      <4>. QED
        BY <1>2, <2>1, <3>1, <4>1
    <3>3. OnTheWay(req[h].id, req[h].idx)
      BY <1>2, <2>1, <3>2 DEF OnTheWayInv
    <3>4. \A u \in uploads, i \in Index : OnTheWay(u, i) => OnTheWay(u, i)'
      BY StepOnTheWay
    <3>. QED
      BY <2>1, <3>1, <3>2, <3>3, <3>4 DEF OnTheWay
  <2>2. CASE PutExists(h)
    <3>1. req[h] \in PutRequest /\ req[h].idx \in Index
      BY <2>2, RequestKinds DEF PutExists, PutPcs, PutRequest
    <3>2. /\ req'[h].id = req[h].id /\ req'[h].idx = req[h].idx
          /\ <<req[h].id, req[h].idx>> \in blobs /\ blobs' = blobs
      BY <1>2, <2>2 DEF PutExists, TypeOK
    <3>. QED
      BY <1>1, <1>2, <3>1, <3>2 DEF OnTheWay
  <2>3. ~PutStore(h) /\ ~CompleteInsert(h)
    BY <1>2, RequestKinds DEF PutStore, CompleteInsert, PutRequest, CompleteRequest, PutPcs, TypeOK, Idle
  <2>4. ASSUME NEW w \in Users, NEW u \in UploadIds, NEW i \in Index PROVE ~PutSelect(h, w, u, i)
    BY <1>2 DEF PutSelect, TypeOK
  <2>5. ASSUME NEW w \in Users, NEW u \in UploadIds PROVE ~CompleteSelect(h, w, u)
    BY <1>2 DEF CompleteSelect, TypeOK
  <2>. QED
    BY <1>2, <2>1, <2>2, <2>3, <2>4, <2>5, RequestSteps DEF Idle
<1>. QED
  BY <1>1, <1>2, StepReceivedCovers DEF OnTheWayInv, OnTheWay

(***************************************************************************)
(* As long as nothing fails, a client whose chunks were all answered with  *)
(* 204 is not refused for missing chunks, in whatever way it overlapped    *)
(* its sends and whatever the purge did.                                   *)
(***************************************************************************)
THEOREM AcknowledgedIsCounted ==
  ASSUME ~Failures
  PROVE  Spec => []AckedIsCounted
<1>1. Init => OnTheWayInv
  BY DEF Init, OnTheWayInv, known, Idle
<1>2. TypeOK /\ OnTheWayInv /\ [Next]_vars => OnTheWayInv'
  BY StepOnTheWayInv
<1>3. TypeOK /\ OnTheWayInv => AckedIsCounted
  <2>. SUFFICES ASSUME TypeOK, OnTheWayInv, NEW u \in uploads,
                       acked[u] = 0 .. row[u].total - 1, \A i \in Index : ~PutInFlight(u, i)
                PROVE  row[u].received >= row[u].total
    BY DEF AckedIsCounted
  <2>1. /\ u \in known /\ u \in UploadIds /\ counted[u] \in SUBSET Index
        /\ row[u].total \in Nat /\ row[u].received \in Nat /\ acked[u] \subseteq Index
    BY DEF TypeOK, Row
  <2>2. acked[u] \subseteq counted[u]
    <3>. SUFFICES ASSUME NEW i \in acked[u] PROVE i \in counted[u]
      OBVIOUS
    <3>1. i \in Index /\ OnTheWay(u, i)
      BY <2>1 DEF OnTheWayInv
    <3>2. ~PutInFlight(u, i)
      BY <3>1
    <3>. QED
      BY <3>1, <3>2 DEF OnTheWay, PutInFlight, PutPcs
  <2>3. Cardinality(0 .. row[u].total - 1) = row[u].total
    <3>1. \A n \in Nat : Cardinality(0 .. n - 1) = n
      BY FS_Interval
    <3>. QED
      BY <2>1, <3>1
  <2>4. Cardinality(acked[u]) <= Cardinality(counted[u]) /\ Cardinality(counted[u]) \in Nat
    BY <2>1, <2>2, IndexSetsAreFinite, FS_Subset, FS_CardinalityType
  <2>. QED
    BY <2>1, <2>3, <2>4 DEF OnTheWayInv
<1>. QED
  BY <1>1, <1>2, <1>3, TypeCorrect, PTL DEF Spec
=============================================================================
