--------------------------- MODULE UploadPromise ---------------------------
(***************************************************************************)
(* What a client may rely on when it uploads a file in chunks, with one    *)
(* atomic step for each thing that can happen to an upload.  In its first  *)
(* 24 hours an upload only gathers chunks, and it becomes a file at one    *)
(* moment, when all of its chunks are stored.  After 24 hours (old) its    *)
(* chunks may go at any time and it may be forgotten, but a file stays a   *)
(* file and an id is never used for a second upload.                       *)
(***************************************************************************)
EXTENDS Naturals

CONSTANTS UploadIds, MaxChunks

VARIABLES
  phase,   \* "none", "open", "done" (a file) or "gone" (forgotten), by id
  size,    \* number of chunks announced, by id
  stored,  \* chunks held by the storage, by id
  old      \* ids opened more than 24 hours ago

vars == <<phase, size, stored, old>>

Index == 0 .. MaxChunks - 1
Whole(u) == 0 .. size[u] - 1

Init ==
  /\ phase = [u \in UploadIds |-> "none"]
  /\ size = [u \in UploadIds |-> 0]
  /\ stored = [u \in UploadIds |-> {}]
  /\ old = {}

Open(u, n) ==
  /\ phase[u] = "none"
  /\ phase' = [phase EXCEPT ![u] = "open"]
  /\ size' = [size EXCEPT ![u] = n]
  /\ UNCHANGED <<stored, old>>

Store(u, i) ==
  /\ phase[u] # "none"
  /\ i \in Whole(u)
  /\ stored' = [stored EXCEPT ![u] = @ \cup {i}]
  /\ UNCHANGED <<phase, size, old>>

Finish(u) ==
  /\ phase[u] = "open"
  /\ stored[u] = Whole(u)
  /\ phase' = [phase EXCEPT ![u] = "done"]
  /\ UNCHANGED <<size, stored, old>>

\* An upload past its 24 hours may become a file whatever is left of it.
FinishOld(u) ==
  /\ u \in old
  /\ phase[u] \in {"open", "gone"}
  /\ phase' = [phase EXCEPT ![u] = "done"]
  /\ UNCHANGED <<size, stored, old>>

Lose(u, i) ==
  /\ u \in old
  /\ stored' = [stored EXCEPT ![u] = @ \ {i}]
  /\ UNCHANGED <<phase, size, old>>

Forget(u) ==
  /\ u \in old
  /\ phase[u] = "open"
  /\ phase' = [phase EXCEPT ![u] = "gone"]
  /\ UNCHANGED <<size, stored, old>>

Age(S) ==
  /\ \A u \in S : phase[u] # "none"
  /\ old' = old \cup S
  /\ UNCHANGED <<phase, size, stored>>

Next ==
  \/ \E u \in UploadIds, n \in 1 .. MaxChunks : Open(u, n)
  \/ \E u \in UploadIds, i \in Index : Store(u, i) \/ Lose(u, i)
  \/ \E u \in UploadIds : Finish(u) \/ FinishOld(u) \/ Forget(u)
  \/ \E S \in SUBSET UploadIds : Age(S)

Spec == Init /\ [][Next]_vars
=============================================================================
