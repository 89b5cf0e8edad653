------------------------- MODULE WebSessionProofs -------------------------
(***************************************************************************)
(* What holds of WebSession for every number of tabs, calls and tokens,    *)
(* with and without failures.                                              *)
(***************************************************************************)
EXTENDS WebSession, FiniteSetTheorems, TLAPS

(***************************************************************************)
(* The program counter of a refresh tells which fields it has.             *)
(***************************************************************************)
LEMMA RefreshKinds ==
  ASSUME TypeOK, NEW b \in Tabs, refresh[b].pc # "none"
  PROVE  /\ refresh[b] \in Refresh
         /\ refresh[b].pair \in 1 .. issued
         /\ refresh[b].pc = "answered" => refresh[b].new \in 1 .. issued
  BY DEF TypeOK, Refresh, NoRefresh

(***************************************************************************)
(* A call that has begun has all the fields of a call.                     *)
(***************************************************************************)
LEMMA TaskKinds ==
  ASSUME TypeOK, NEW k \in Tasks, task[k].pc # "done"
  PROVE  task[k] \in Task
  BY DEF TypeOK, Done

(***************************************************************************)
(* What a new token pair leaves as it was.                                 *)
(***************************************************************************)
LEMMA Issuing ==
  ASSUME TypeOK, NEW origin \in 1 .. issued + 1, Issue(origin)
  PROVE  /\ issued' = issued + 1
         /\ issued' \in 0 .. MaxPairs
         /\ 1 .. issued' = (1 .. issued) \cup {issued + 1}
         /\ family' \in [1 .. issued' -> 1 .. issued']
         /\ \A n \in 1 .. issued : family'[n] = family[n]
         /\ family'[issued + 1] = origin
         /\ age' \in [1 .. issued' -> {"fresh", "near", "expired"}]
         /\ Refresh \subseteq Refresh'
         /\ Task \subseteq Task'
<1>. USE SessionAssumption
<1>1. issued' = issued + 1 /\ issued' \in 0 .. MaxPairs /\ issued \in Nat
  BY DEF TypeOK, Issue
<1>2. 1 .. issued' = (1 .. issued) \cup {issued + 1} /\ issued + 1 \in 1 .. issued'
      /\ issued + 1 \notin 1 .. issued
  BY <1>1
<1>3. family' = [m \in 1 .. issued' |-> IF m = issued + 1 THEN origin ELSE family[m]]
  BY <1>1 DEF Issue
<1>4. family \in [1 .. issued -> 1 .. issued]
  BY DEF TypeOK
<1>5. family' \in [1 .. issued' -> 1 .. issued']
  <2>1. \A m \in 1 .. issued' : m # issued + 1 => family[m] \in 1 .. issued'
    BY <1>2, <1>4
  <2>2. origin \in 1 .. issued'
    BY <1>1
  <2>. QED
    BY <1>3, <2>1, <2>2
<1>6. (\A n \in 1 .. issued : family'[n] = family[n]) /\ family'[issued + 1] = origin
  BY <1>2, <1>3
<1>7. age' \in [1 .. issued' -> {"fresh", "near", "expired"}]
  <2>1. age' = [m \in 1 .. issued' |-> IF m = issued + 1 THEN "fresh" ELSE age[m]]
    BY <1>1 DEF Issue
  <2>2. \A m \in 1 .. issued' : m # issued + 1 => age[m] \in {"fresh", "near", "expired"}
    BY <1>2 DEF TypeOK
  <2>. QED
    BY <2>1, <2>2
<1>8. Refresh \subseteq Refresh'
  BY <1>2 DEF Refresh
<1>9. Task \subseteq Task'
  <2>1. 0 .. issued \subseteq 0 .. issued'
    BY <1>1
  <2>. QED
    BY <2>1 DEF Task
<1>. QED
  BY <1>1, <1>2, <1>5, <1>6, <1>7, <1>8, <1>9

LEMMA InitTypeOK == Init => TypeOK
<1>. SUFFICES ASSUME Init PROVE TypeOK
  OBVIOUS
<1>1. issued = 0 /\ 0 \in 0 .. MaxPairs /\ 1 .. issued = {}
  BY SessionAssumption DEF Init
<1>2. family \in [1 .. issued -> 1 .. issued] /\ age \in [1 .. issued -> {"fresh", "near", "expired"}]
  BY <1>1 DEF Init
<1>3. live \subseteq 1 .. issued /\ store \in 0 .. issued /\ revoked \subseteq 1 .. issued
  BY <1>1 DEF Init, None
<1>. QED
  BY <1>1, <1>2, <1>3 DEF Init, TypeOK

LEMMA StepTypeOK == TypeOK /\ [Next]_vars => TypeOK'
<1>. SUFFICES ASSUME TypeOK, [Next]_vars PROVE TypeOK'
  OBVIOUS
<1>. USE SessionAssumption DEF history
<1>0. 1 .. issued \subseteq 0 .. issued /\ 0 \in 0 .. issued
  BY DEF TypeOK
<1>1. CASE Login
  <2>1. Issue(issued + 1) /\ issued + 1 \in 1 .. issued + 1
    BY <1>1 DEF Login, TypeOK
  <2>2. live' \subseteq 1 .. issued' /\ store' \in 0 .. issued' /\ revoked' \subseteq 1 .. issued'
    <3>0. issued \in Nat /\ issued + 1 \in 1 .. issued + 1
      BY DEF TypeOK
    <3>1. 1 .. issued' = (1 .. issued) \cup {issued + 1} /\ issued' = issued + 1
      BY <2>1, <3>0, Issuing
    <3>. QED
      BY <1>1, <3>0, <3>1 DEF Login, TypeOK
  <2>3. refresh' \in [Tabs -> {NoRefresh} \cup Refresh']
    BY <1>1, <2>1, Issuing DEF Login, TypeOK
  <2>4. task' \in [Tasks -> {Done} \cup Task']
    BY <1>1, <2>1, Issuing DEF Login, TypeOK
  <2>. QED
    BY <1>1, <2>1, <2>2, <2>3, <2>4, Issuing DEF Login, TypeOK
<1>2. ASSUME NEW k \in Tasks, NEW b \in Tabs, NEW kind \in {"api", "logout"}, Begin(k, b, kind)
      PROVE  TypeOK'
  <2>1. task' \in [Tasks -> {Done} \cup Task]
    BY <1>0, <1>2 DEF Begin, TypeOK, Task, None
  <2>2. calls' \in Nat
    BY <1>2 DEF Begin, TypeOK
  <2>3. Task' = Task /\ Refresh' = Refresh
    BY <1>2 DEF Begin, Task, Refresh
  <2>. QED
    BY <2>1, <2>2, <2>3, <1>2 DEF Begin, TypeOK
<1>3. ASSUME NEW b \in Tabs, JoinRefresh(b)
      PROVE  refresh' \in [Tabs -> {NoRefresh} \cup Refresh]
  BY <1>3 DEF JoinRefresh, TypeOK, Refresh, None
<1>4. ASSUME NEW k \in Tasks, Intercept(k) PROVE TypeOK'
  <2>0. task[k] \in Task /\ task[k].tab \in Tabs
    BY <1>4, TaskKinds DEF Intercept, Task
  <2>1. task' \in [Tasks -> {Done} \cup Task]
    <3>1. CASE task' = [task EXCEPT ![k].pc = "asking"]
      BY <3>1, <2>0 DEF TypeOK, Task
    <3>2. CASE task' = [task EXCEPT ![k] = [@ EXCEPT !.pc = "sent", !.bearer = store]]
      BY <3>2, <2>0 DEF TypeOK, Task
    <3>. QED
      BY <1>4, <3>1, <3>2 DEF Intercept
  <2>2. refresh' \in [Tabs -> {NoRefresh} \cup Refresh]
    BY <1>3, <1>4, <2>0 DEF Intercept, TypeOK
  <2>. QED
    BY <2>1, <2>2, <1>4 DEF Intercept, TypeOK, Task, Refresh
<1>5. ASSUME NEW k \in Tasks, Unauthorized(k) PROVE TypeOK'
  <2>0. task[k] \in Task /\ task[k].tab \in Tabs
    BY <1>5, TaskKinds DEF Unauthorized, Task
  <2>1. task' \in [Tasks -> {Done} \cup Task]
    <3>1. [task[k] EXCEPT !.pc = "refreshing"] \in Task
      BY <2>0 DEF Task
    <3>2. \/ task' = [task EXCEPT ![k] = [task[k] EXCEPT !.pc = "refreshing"]]
          \/ task' = [task EXCEPT ![k] = Done]
      BY <1>5 DEF Unauthorized
    <3>. QED
      BY <3>1, <3>2 DEF TypeOK
  <2>2. refresh' \in [Tabs -> {NoRefresh} \cup Refresh]
    BY <1>3, <1>5, <2>0 DEF Unauthorized, TypeOK
  <2>3. store' \in 0 .. issued /\ broken' \in [Tabs -> BOOLEAN]
    BY <1>0, <1>5 DEF Unauthorized, TypeOK, None
  <2>. QED
    BY <2>1, <2>2, <2>3, <1>5 DEF Unauthorized, TypeOK, Task, Refresh
<1>6. ASSUME NEW b \in Tabs, Refreshed(b) PROVE TypeOK'
  <2>0. refresh[b].new \in 1 .. issued
    BY <1>6, RefreshKinds DEF Refreshed
  <2>1. store' \in 0 .. issued
    BY <1>0, <1>6, <2>0 DEF Refreshed
  <2>2. task' \in [Tasks -> {Done} \cup Task]
    <3>1. ASSUME NEW k \in Tasks PROVE task'[k] \in {Done} \cup Task
      <4>1. CASE k \in Waiting(b, "asking")
        BY <1>6, <2>1, <4>1, TaskKinds DEF Refreshed, Waiting, Task
      <4>2. CASE k \notin Waiting(b, "asking") /\ k \in Waiting(b, "refreshing")
        <5>1. task[k] \in Task
          BY <4>2, TaskKinds DEF Waiting
        <5>2. task'[k] = [task[k] EXCEPT !.pc = "ready", !.retry = TRUE]
          BY <1>6, <4>2 DEF Refreshed
        <5>. QED
          BY <5>1, <5>2 DEF Task
      <4>3. CASE k \notin Waiting(b, "asking") \cup Waiting(b, "refreshing")
        BY <1>6, <4>3 DEF Refreshed, TypeOK
      <4>. QED
        BY <4>1, <4>2, <4>3
    <3>. QED
      BY <1>6, <3>1 DEF Refreshed
  <2>. QED
    BY <2>1, <2>2, <1>6 DEF Refreshed, TypeOK, Task, Refresh
<1>7. ASSUME NEW b \in Tabs, RefreshFailed(b) PROVE TypeOK'
  <2>1. store' \in 0 .. issued
    BY <1>0, <1>7 DEF RefreshFailed, TypeOK, None
  <2>2. task' \in [Tasks -> {Done} \cup Task]
    <3>1. PICK bearer \in {store, store'} :
            task' = [k \in Tasks |->
              IF k \in Waiting(b, "refreshing") THEN Done
              ELSE IF k \in Waiting(b, "asking")
                   THEN [task[k] EXCEPT !.pc = "sent", !.bearer = bearer] ELSE task[k]]
      BY <1>7 DEF RefreshFailed
    <3>2. bearer \in 0 .. issued
      BY <2>1 DEF TypeOK
    <3>3. ASSUME NEW k \in Tasks PROVE task'[k] \in {Done} \cup Task
      <4>1. CASE k \in Waiting(b, "asking")
        BY <3>1, <3>2, <4>1, TaskKinds DEF Waiting, Task
      <4>2. CASE k \notin Waiting(b, "asking")
        BY <3>1, <4>2 DEF TypeOK
      <4>. QED
        BY <4>1, <4>2
    <3>. QED
      BY <3>1, <3>3
  <2>. QED
    BY <2>1, <2>2, <1>7 DEF RefreshFailed, TypeOK, Task, Refresh
<1>8. ASSUME NEW k \in Tasks, Succeed(k) \/ NoAnswer(k) PROVE TypeOK'
  <2>1. store' \in 0 .. issued
    BY <1>0, <1>8 DEF Succeed, NoAnswer, TypeOK, None
  <2>. QED
    BY <2>1, <1>8 DEF Succeed, NoAnswer, TypeOK, Task, Refresh
<1>9. ASSUME NEW b \in Tabs, RefreshLost(b) PROVE TypeOK'
  <2>1. refresh[b].pair \in 1 .. issued
    BY <1>9, RefreshKinds DEF RefreshLost
  <2>2. refresh' \in [Tabs -> {NoRefresh} \cup Refresh]
    BY <1>9, <2>1 DEF RefreshLost, TypeOK, Refresh
  <2>. QED
    BY <2>2, <1>9 DEF RefreshLost, TypeOK, Task, Refresh
<1>10. ASSUME NEW b \in Tabs, CircuitCloses(b) PROVE TypeOK'
  BY <1>10 DEF CircuitCloses, TypeOK, Task, Refresh
<1>11. ASSUME NEW k \in Tasks, Serve(k) PROVE TypeOK'
  <2>0. task[k] \in Task /\ task[k].body \in 0 .. issued
    BY <1>11, TaskKinds DEF Serve, Task
  <2>1. task' \in [Tasks -> {Done} \cup Task]
    <3>1. \A pc \in {"ok", "unauthorized"} :
            [task EXCEPT ![k].pc = pc] \in [Tasks -> {Done} \cup Task]
      BY <2>0 DEF TypeOK, Task
    <3>. QED
      BY <1>11, <3>1 DEF Serve
  <2>2. live' \subseteq 1 .. issued
    BY <1>11 DEF Serve, TypeOK
  <2>3. revoked' \subseteq 1 .. issued
    BY <1>11, <2>0 DEF Serve, TypeOK, None
  <2>. QED
    BY <2>1, <2>2, <2>3, <1>11 DEF Serve, TypeOK, Task, Refresh
<1>12. ASSUME NEW b \in Tabs, RotateDelete(b) PROVE TypeOK'
  <2>1. refresh[b] \in Refresh
    BY <1>12, RefreshKinds DEF RotateDelete
  <2>2. refresh' \in [Tabs -> {NoRefresh} \cup Refresh]
    <3>1. \A pc \in {"deleted", "refused"} : refresh[b].pc = "sent" =>
            [refresh EXCEPT ![b].pc = pc] \in [Tabs -> {NoRefresh} \cup Refresh]
      BY <2>1 DEF TypeOK, Refresh
    <3>. QED
      BY <1>12, <3>1 DEF RotateDelete
  <2>3. live' \subseteq 1 .. issued
    BY <1>12 DEF RotateDelete, TypeOK
  <2>. QED
    BY <2>2, <2>3, <1>12 DEF RotateDelete, TypeOK, Task, Refresh
<1>13. ASSUME NEW b \in Tabs, RotateInsert(b) PROVE TypeOK'
  <2>0. refresh[b].pair \in 1 .. issued /\ refresh[b].pc = "deleted"
    BY <1>13, RefreshKinds DEF RotateInsert
  <2>1. Issue(family[refresh[b].pair]) /\ family[refresh[b].pair] \in 1 .. issued + 1
    BY <1>13, <2>0 DEF RotateInsert, TypeOK
  <2>2. live' \subseteq 1 .. issued' /\ store' \in 0 .. issued' /\ revoked' \subseteq 1 .. issued'
    <3>1. 1 .. issued' = (1 .. issued) \cup {issued + 1} /\ issued' = issued + 1
      BY <2>1, Issuing
    <3>. QED
      BY <1>13, <3>1, SessionAssumption DEF RotateInsert, TypeOK
  <2>3. [pc |-> "answered", pair |-> refresh[b].pair, new |-> issued + 1] \in Refresh'
    BY <2>0, <2>1, Issuing DEF Refresh
  <2>4. refresh' \in [Tabs -> {NoRefresh} \cup Refresh']
    BY <1>13, <2>1, <2>3, Issuing DEF RotateInsert, TypeOK
  <2>5. task' \in [Tasks -> {Done} \cup Task']
    BY <1>13, <2>1, Issuing DEF RotateInsert, TypeOK
  <2>. QED
    BY <1>13, <2>1, <2>2, <2>4, <2>5, Issuing DEF RotateInsert, TypeOK
<1>14. ASSUME NEW n \in Pairs, Older(n) PROVE TypeOK'
  <2>1. age' \in [1 .. issued -> {"fresh", "near", "expired"}]
    BY <1>14 DEF Older, TypeOK
  <2>. QED
    BY <2>1, <1>14 DEF Older, TypeOK, Task, Refresh
<1>15. ASSUME NEW n \in Pairs, Lapse(n) PROVE TypeOK'
  BY <1>15 DEF Lapse, TypeOK, Task, Refresh
<1>16. CASE UNCHANGED vars
  BY <1>16 DEF vars, TypeOK, Task, Refresh
<1>. QED
  BY <1>1, <1>2, <1>4, <1>5, <1>6, <1>7, <1>8, <1>9, <1>10, <1>11, <1>12, <1>13, <1>14, <1>15,
     <1>16 DEF Next, TaskStep, RefreshStep

(***************************************************************************)
(* Every variable keeps the shape the code gives it.                       *)
(***************************************************************************)
THEOREM SessionTypeCorrect == Spec => []TypeOK
<1>. QED
  BY InitTypeOK, StepTypeOK, PTL DEF Spec

(***************************************************************************)
(* A step that issues no pair, adds no live token and starts no rotation   *)
(* keeps the chain.                                                        *)
(***************************************************************************)
LEMMA ChainShrinks ==
  ASSUME OneChain, UNCHANGED family, live' \subseteq live,
         \A b \in Tabs : refresh'[b].pc = "deleted" => refresh'[b] = refresh[b]
  PROVE  OneChain'
  BY DEF OneChain, OneLiveToken

LEMMA StepOneChain == TypeOK /\ OneChain /\ [Next]_vars => OneChain'
<1>. SUFFICES ASSUME TypeOK, OneChain, [Next]_vars PROVE OneChain'
  OBVIOUS
<1>1. CASE Login
  <2>1. Issue(issued + 1) /\ issued + 1 \in 1 .. issued + 1
    BY <1>1 DEF Login, TypeOK
  <2>2. /\ \A n \in 1 .. issued : family'[n] = family[n] /\ family[n] # issued + 1
        /\ family'[issued + 1] = issued + 1
    <3>1. (\A n \in 1 .. issued : family'[n] = family[n]) /\ family'[issued + 1] = issued + 1
      BY <2>1, Issuing
    <3>2. issued \in Nat /\ \A n \in 1 .. issued : family[n] \in 1 .. issued
      BY SessionAssumption DEF TypeOK
    <3>. QED
      BY <3>1, <3>2
  <2>3. live' = live \cup {issued + 1} /\ live \subseteq 1 .. issued /\ refresh' = refresh
    BY <1>1 DEF Login, TypeOK
  <2>4. \A b \in Tabs : refresh[b].pc = "deleted" => refresh[b].pair \in 1 .. issued
    BY RefreshKinds
  <2>5. OneLiveToken'
    BY <2>2, <2>3 DEF OneChain, OneLiveToken
  <2>6. \A b \in Tabs : refresh'[b].pc = "deleted" =>
          \A n \in live' : family'[n] # family'[refresh'[b].pair]
    BY <2>2, <2>3, <2>4 DEF OneChain
  <2>. QED
    BY <2>2, <2>3, <2>4, <2>5, <2>6 DEF OneChain
<1>2. ASSUME NEW k \in Tasks, NEW b \in Tabs, NEW kind \in {"api", "logout"}, Begin(k, b, kind)
      PROVE  OneChain'
  BY <1>2, ChainShrinks DEF Begin
<1>3. ASSUME NEW b \in Tabs, JoinRefresh(b)
      PROVE  \A c \in Tabs : refresh'[c].pc = "deleted" => refresh'[c] = refresh[c]
  BY <1>3 DEF JoinRefresh, TypeOK
<1>4. ASSUME NEW k \in Tasks, Intercept(k) PROVE OneChain'
  <2>1. task[k].tab \in Tabs
    BY <1>4, TaskKinds DEF Intercept, Task
  <2>2. \A c \in Tabs : refresh'[c].pc = "deleted" => refresh'[c] = refresh[c]
    BY <1>3, <1>4, <2>1 DEF Intercept
  <2>. QED
    BY <1>4, <2>2, ChainShrinks DEF Intercept
<1>5. ASSUME NEW k \in Tasks, Unauthorized(k) PROVE OneChain'
  <2>1. task[k].tab \in Tabs
    BY <1>5, TaskKinds DEF Unauthorized, Task
  <2>2. \A c \in Tabs : refresh'[c].pc = "deleted" => refresh'[c] = refresh[c]
    BY <1>3, <1>5, <2>1 DEF Unauthorized
  <2>. QED
    BY <1>5, <2>2, ChainShrinks DEF Unauthorized
<1>6. ASSUME NEW b \in Tabs, Refreshed(b) PROVE OneChain'
  <2>1. \A c \in Tabs : refresh'[c].pc = "deleted" => refresh'[c] = refresh[c]
    BY <1>6 DEF Refreshed, TypeOK, NoRefresh
  <2>. QED
    BY <1>6, <2>1, ChainShrinks DEF Refreshed
<1>7. ASSUME NEW b \in Tabs, RefreshFailed(b) PROVE OneChain'
  <2>1. \A c \in Tabs : refresh'[c].pc = "deleted" => refresh'[c] = refresh[c]
    BY <1>7 DEF RefreshFailed, TypeOK, NoRefresh
  <2>. QED
    BY <1>7, <2>1, ChainShrinks DEF RefreshFailed
<1>8. ASSUME NEW k \in Tasks, Succeed(k) \/ NoAnswer(k) PROVE OneChain'
  BY <1>8, ChainShrinks DEF Succeed, NoAnswer
<1>9. ASSUME NEW b \in Tabs, RefreshLost(b) PROVE OneChain'
  <2>1. \A c \in Tabs : refresh'[c].pc = "deleted" => refresh'[c] = refresh[c]
    BY <1>9 DEF RefreshLost, TypeOK
  <2>. QED
    BY <1>9, <2>1, ChainShrinks DEF RefreshLost
<1>10. ASSUME NEW b \in Tabs, CircuitCloses(b) PROVE OneChain'
  BY <1>10, ChainShrinks DEF CircuitCloses
<1>11. ASSUME NEW k \in Tasks, Serve(k) PROVE OneChain'
  <2>1. live' \subseteq live
    BY <1>11 DEF Serve
  <2>. QED
    BY <1>11, <2>1, ChainShrinks DEF Serve
<1>12. ASSUME NEW b \in Tabs, RotateDelete(b) PROVE OneChain'
  <2>1. CASE refresh[b].pair \in live
    \* The token that is deleted was the one live token of its login.
    <3>0. refresh[b] \in Refresh /\ refresh[b].pc = "sent"
      BY <1>12, RefreshKinds DEF RotateDelete
    <3>1. /\ live' = live \ {refresh[b].pair}
          /\ refresh'[b].pair = refresh[b].pair
          /\ \A c \in Tabs \ {b} : refresh'[c] = refresh[c]
          /\ family' = family
      <4>1. refresh' = [refresh EXCEPT ![b].pc = "deleted"] /\ live' = live \ {refresh[b].pair}
        BY <1>12, <2>1 DEF RotateDelete
      <4>2. refresh'[b].pair = refresh[b].pair
        BY <4>1, <3>0 DEF TypeOK, Refresh
      <4>3. \A c \in Tabs \ {b} : refresh'[c] = refresh[c]
        BY <4>1 DEF TypeOK
      <4>. QED
        BY <4>1, <4>2, <4>3, <1>12 DEF RotateDelete
    <3>2. \A n \in live' : family[n] # family[refresh[b].pair]
      BY <2>1, <3>1 DEF OneChain, OneLiveToken
    <3>3. \A c \in Tabs \ {b} : refresh[c].pc = "deleted" =>
            family[refresh[c].pair] # family[refresh[b].pair]
      BY <2>1 DEF OneChain
    <3>4. OneLiveToken'
      BY <3>1 DEF OneChain, OneLiveToken
    <3>5. \A c \in Tabs : refresh'[c].pc = "deleted" =>
            \A n \in live' : family'[n] # family'[refresh'[c].pair]
      BY <3>1, <3>2 DEF OneChain
    <3>. QED
      BY <3>1, <3>3, <3>4, <3>5 DEF OneChain
  <2>2. CASE refresh[b].pair \notin live
    <3>1. \A c \in Tabs : refresh'[c].pc = "deleted" => refresh'[c] = refresh[c]
      <4>1. refresh' = [refresh EXCEPT ![b].pc = "refused"]
        BY <1>12, <2>2 DEF RotateDelete
      <4>2. refresh'[b].pc = "refused"
        <5>1. refresh[b] \in Refresh /\ refresh[b].pc = "sent"
          BY <1>12, RefreshKinds DEF RotateDelete
        <5>. QED
          BY <4>1, <5>1 DEF TypeOK, Refresh
      <4>3. \A c \in Tabs \ {b} : refresh'[c] = refresh[c]
        BY <4>1 DEF TypeOK
      <4>. QED
        BY <4>2, <4>3
    <3>. QED
      BY <1>12, <2>2, <3>1, ChainShrinks DEF RotateDelete
  <2>. QED
    BY <2>1, <2>2
<1>13. ASSUME NEW b \in Tabs, RotateInsert(b) PROVE OneChain'
  <2>. DEFINE f == family[refresh[b].pair]
  <2>0. refresh[b].pair \in 1 .. issued /\ refresh[b].pc = "deleted"
    BY <1>13, RefreshKinds DEF RotateInsert
  <2>1. Issue(f) /\ f \in 1 .. issued + 1
    BY <1>13, <2>0 DEF RotateInsert, TypeOK
  <2>2. (\A n \in 1 .. issued : family'[n] = family[n]) /\ family'[issued + 1] = f
    BY <2>1, Issuing
  <2>3. /\ live' = live \cup {issued + 1} /\ live \subseteq 1 .. issued
        /\ refresh'[b].pc # "deleted" /\ \A c \in Tabs \ {b} : refresh'[c] = refresh[c]
    BY <1>13 DEF RotateInsert, TypeOK
  <2>4. \A c \in Tabs : refresh[c].pc = "deleted" => refresh[c].pair \in 1 .. issued
    BY RefreshKinds
  <2>5. /\ \A n \in live : family[n] # f
        /\ \A c \in Tabs \ {b} : refresh[c].pc = "deleted" => family[refresh[c].pair] # f
    BY <2>0 DEF OneChain
  <2>6. OneLiveToken'
    <3>1. ASSUME NEW m \in live', NEW n \in live', family'[m] = family'[n] PROVE m = n
      <4>1. \A i, j \in live : family[i] = family[j] => i = j
        BY DEF OneChain, OneLiveToken
      <4>. QED
        BY <3>1, <4>1, <2>2, <2>3, <2>5
    <3>. QED
      BY <3>1 DEF OneLiveToken
  <2>7. \A c \in Tabs : refresh'[c].pc = "deleted" =>
          \A n \in live' : family'[n] # family'[refresh'[c].pair]
    BY <2>2, <2>3, <2>4, <2>5 DEF OneChain
  <2>8. \A c, d \in Tabs :
          (/\ refresh'[c].pc = "deleted" /\ refresh'[d].pc = "deleted"
           /\ family'[refresh'[c].pair] = family'[refresh'[d].pair]) => c = d
    BY <2>2, <2>3, <2>4 DEF OneChain
  <2>. QED
    BY <2>6, <2>7, <2>8 DEF OneChain
<1>14. ASSUME NEW n \in Pairs, Older(n) PROVE OneChain'
  BY <1>14, ChainShrinks DEF Older
<1>15. ASSUME NEW n \in Pairs, Lapse(n) PROVE OneChain'
  BY <1>15, ChainShrinks DEF Lapse
<1>16. CASE UNCHANGED vars
  BY <1>16, ChainShrinks DEF vars
<1>. QED
  BY <1>1, <1>2, <1>4, <1>5, <1>6, <1>7, <1>8, <1>9, <1>10, <1>11, <1>12, <1>13, <1>14, <1>15,
     <1>16 DEF Next, TaskStep, RefreshStep

(***************************************************************************)
(* Whatever the tabs refresh at once and whatever gets lost, the server    *)
(* accepts at most one refresh token of a login.                           *)
(***************************************************************************)
THEOREM OneTokenPerLogin == Spec => []OneLiveToken
<1>1. Init => OneChain
  BY DEF Init, OneChain, OneLiveToken, NoRefresh
<1>2. TypeOK /\ OneChain /\ [Next]_vars => OneChain'
  BY StepOneChain
<1>3. OneChain => OneLiveToken
  BY DEF OneChain
<1>. QED
  BY <1>1, <1>2, <1>3, SessionTypeCorrect, PTL DEF Spec

---------------------------------------------------------------------------
(* While one tab makes the calls, and nothing fails *)

(***************************************************************************)
(* Only a tab that made a call has a call or a refresh in progress, or a   *)
(* refresh that failed.                                                    *)
(***************************************************************************)
ActiveTabs ==
  /\ \A k \in Tasks : task[k] # Done => task[k].tab \in used
  /\ \A b \in Tabs : refresh[b] # NoRefresh \/ broken[b] => b \in used

LEMMA StepActiveTabs ==
  ASSUME TypeOK, ActiveTabs, [Next]_vars
  PROVE  ActiveTabs' /\ used \subseteq used'
<1>1. CASE Login
  BY <1>1 DEF Login, ActiveTabs, history
<1>2. ASSUME NEW k \in Tasks, NEW b \in Tabs, NEW kind \in {"api", "logout"}, Begin(k, b, kind)
      PROVE  ActiveTabs' /\ used \subseteq used'
  <2>1. used' = used \cup {b} /\ UNCHANGED <<refresh, broken>>
    BY <1>2 DEF Begin
  <2>2. \A m \in Tasks : task'[m] # Done => task'[m].tab = b \/ task'[m] = task[m]
    BY <1>2 DEF Begin, TypeOK
  <2>. QED
    BY <2>1, <2>2 DEF ActiveTabs
\* A step of a call: the call stays in its tab, and so does what it starts.
<1>3. ASSUME NEW k \in Tasks, TaskStep(k) \/ NoAnswer(k)
      PROVE  ActiveTabs' /\ used \subseteq used'
  <2>0. task[k] \in Task /\ task[k] # Done /\ task[k].tab \in Tabs /\ task[k].tab \in used
    <3>1. task[k] # Done /\ task[k].pc # "done"
      BY <1>3 DEF TaskStep, NoAnswer, Intercept, Unauthorized, Succeed, Serve, Done
    <3>. QED
      BY <3>1, TaskKinds DEF ActiveTabs, Task
  <2>1. used' = used
    BY <1>3 DEF TaskStep, NoAnswer, Intercept, Unauthorized, Succeed, Serve, history
  <2>2. task'[k] = Done \/ task'[k].tab = task[k].tab
    <3>1. CASE \E pc \in {"asking", "refreshing", "ok", "unauthorized"} :
                 task' = [task EXCEPT ![k].pc = pc]
      BY <3>1, <2>0 DEF TypeOK, Task
    <3>2. CASE task' = [task EXCEPT ![k] = [@ EXCEPT !.pc = "sent", !.bearer = store]]
      BY <3>2, <2>0 DEF TypeOK, Task
    <3>3. CASE task' = [task EXCEPT ![k] = Done]
      BY <3>3 DEF TypeOK
    <3>. QED
      BY <1>3, <3>1, <3>2, <3>3 DEF TaskStep, NoAnswer, Intercept, Unauthorized, Succeed, Serve
  <2>3. \A m \in Tasks : m # k => task'[m] = task[m]
    BY <1>3 DEF TaskStep, NoAnswer, Intercept, Unauthorized, Succeed, Serve, TypeOK
  <2>4. \A b \in Tabs : b # task[k].tab => refresh'[b] = refresh[b] /\ broken'[b] = broken[b]
    BY <1>3 DEF TaskStep, NoAnswer, Intercept, Unauthorized, Succeed, Serve, JoinRefresh, TypeOK
  <2>. QED
    BY <2>0, <2>1, <2>2, <2>3, <2>4 DEF ActiveTabs
<1>4. ASSUME NEW b \in Tabs, RefreshStep(b) \/ RefreshLost(b) \/ CircuitCloses(b)
      PROVE  ActiveTabs' /\ used \subseteq used'
  <2>0. b \in used
    <3>1. refresh[b].pc # "none" \/ broken[b]
      BY <1>4 DEF RefreshStep, RefreshLost, CircuitCloses, Refreshed, RefreshFailed, RotateDelete,
                  RotateInsert
    <3>2. refresh[b] # NoRefresh \/ broken[b]
      BY <3>1 DEF NoRefresh
    <3>. QED
      BY <3>2 DEF ActiveTabs
  <2>1. used' = used
    BY <1>4 DEF RefreshStep, RefreshLost, CircuitCloses, Refreshed, RefreshFailed, RotateDelete,
                RotateInsert, history
  <2>2. \A c \in Tabs : c # b => refresh'[c] = refresh[c] /\ broken'[c] = broken[c]
    <3>1. CASE Refreshed(b)
      BY <3>1 DEF Refreshed, TypeOK
    <3>2. CASE RefreshFailed(b)
      BY <3>2 DEF RefreshFailed, TypeOK
    <3>3. CASE RotateDelete(b) \/ RotateInsert(b)
      BY <3>3 DEF RotateDelete, RotateInsert, TypeOK
    <3>4. CASE RefreshLost(b) \/ CircuitCloses(b)
      BY <3>4 DEF RefreshLost, CircuitCloses, TypeOK
    <3>. QED
      BY <1>4, <3>1, <3>2, <3>3, <3>4 DEF RefreshStep
  <2>3. ASSUME NEW k \in Tasks
        PROVE  task'[k] = Done \/ (task[k] # Done /\ task'[k].tab = task[k].tab)
    <3>1. CASE task'[k] = task[k]
      BY <3>1
    <3>2. CASE task'[k] # task[k] /\ task'[k] # Done
      <4>1. task[k].pc \in {"asking", "refreshing"}
        BY <1>4, <3>2 DEF RefreshStep, RefreshLost, CircuitCloses, Refreshed, RefreshFailed,
                          RotateDelete, RotateInsert, Waiting
      <4>2. task[k] \in Task /\ task[k] # Done
        BY <4>1, TaskKinds DEF Done
      <4>3. \/ task'[k] = [task[k] EXCEPT !.pc = "ready", !.retry = TRUE]
            \/ \E n \in {store, store'} : task'[k] = [task[k] EXCEPT !.pc = "sent", !.bearer = n]
        BY <1>4, <3>2 DEF RefreshStep, RefreshLost, CircuitCloses, Refreshed, RefreshFailed,
                          RotateDelete, RotateInsert
      <4>. QED
        BY <4>2, <4>3 DEF Task
    <3>. QED
      BY <3>1, <3>2
  <2>. QED
    BY <2>0, <2>1, <2>2, <2>3 DEF ActiveTabs
<1>5. ASSUME NEW n \in Pairs, Older(n) \/ Lapse(n) PROVE ActiveTabs' /\ used \subseteq used'
  BY <1>5 DEF Older, Lapse, ActiveTabs, history
<1>6. CASE UNCHANGED vars
  BY <1>6 DEF vars, ActiveTabs, history
<1>. QED
  BY <1>1, <1>2, <1>3, <1>4, <1>5, <1>6 DEF Next

(***************************************************************************)
(* While one tab makes the calls, the other tabs do nothing.               *)
(***************************************************************************)
LEMMA OthersRest ==
  ASSUME SingleTab, ActiveTabs, NEW b \in used
  PROVE  \A c \in Tabs : c # b => refresh[c] = NoRefresh /\ ~broken[c]
  BY DEF SingleTab, ActiveTabs

(***************************************************************************)
(* The call or refresh that takes a step is in a tab that made a call.     *)
(***************************************************************************)
LEMMA InUse ==
  ASSUME TypeOK, ActiveTabs
  PROVE  /\ \A k \in Tasks : task[k].pc # "done" => task[k].tab \in used /\ task[k].tab \in Tabs
         /\ \A b \in Tabs : refresh[b].pc # "none" => b \in used
         /\ \A b \in Tabs : broken[b] => b \in used
<1>1. \A k \in Tasks : task[k].pc # "done" => task[k] # Done /\ task[k].tab \in Tabs
  BY TaskKinds DEF Done, Task
<1>2. \A b \in Tabs : refresh[b].pc # "none" => refresh[b] # NoRefresh
  BY DEF NoRefresh
<1>. QED
  BY <1>1, <1>2 DEF ActiveTabs

(***************************************************************************)
(* Nothing fails in a step after which nothing has failed, and one tab     *)
(* only made calls before it if one tab only made calls after it.          *)
(***************************************************************************)
LEMMA StillSingle ==
  ASSUME TypeOK, ActiveTabs, [Next]_vars, SingleTab'
  PROVE  /\ SingleTab
         /\ \A k \in Tasks : ~NoAnswer(k)
         /\ \A b \in Tabs : ~RefreshLost(b)
         /\ \A n \in Pairs : ~Lapse(n)
<1>1. ~failed'
  BY DEF SingleTab
<1>2. /\ \A k \in Tasks : ~NoAnswer(k)
      /\ \A b \in Tabs : ~RefreshLost(b)
      /\ \A n \in Pairs : ~Lapse(n)
  BY <1>1 DEF NoAnswer, RefreshLost, Lapse
<1>3. failed' = failed
  BY <1>2 DEF Next, TaskStep, RefreshStep, Login, Begin, Intercept, Unauthorized, Succeed, Serve,
              Refreshed, RefreshFailed, RotateDelete, RotateInsert, CircuitCloses, Older, vars, history
<1>4. SingleTab
  BY <1>1, <1>3, StepActiveTabs DEF SingleTab
<1>. QED
  BY <1>2, <1>4

(***************************************************************************)
(* The refresh token of a pair is good, or a logout used it up.            *)
(***************************************************************************)
Accounted(n) == n \in live \/ family[n] \in revoked

(***************************************************************************)
(* The inductive invariant behind NoTokenUsedTwice: the pair a tab is      *)
(* about to present, the one it was just given and the one in localStorage *)
(* are accounted for; the last may also be the one that the refresh in     *)
(* flight is replacing.                                                    *)
(***************************************************************************)
UsedOnce ==
  /\ \A b \in Tabs : refresh[b].pc \in {"sent", "refused"} => Accounted(refresh[b].pair)
  /\ \A b \in Tabs : refresh[b].pc = "answered" => Accounted(refresh[b].new)
  /\ store # None =>
       \/ Accounted(store)
       \/ \E b \in Tabs : refresh[b].pc \in {"deleted", "answered"} /\ refresh[b].pair = store

(***************************************************************************)
(* A step that leaves the refreshes alone and writes no new pair to        *)
(* localStorage keeps UsedOnce, if what was accounted for stays so.        *)
(***************************************************************************)
LEMMA UsedOnceFrame ==
  ASSUME TypeOK, UsedOnce, UNCHANGED refresh, store' \in {store, None},
         \A n \in 1 .. issued : Accounted(n) => Accounted(n)'
  PROVE  UsedOnce'
<1>1. ASSUME NEW b \in Tabs, refresh'[b].pc \in {"sent", "refused"}
      PROVE  Accounted(refresh[b].pair)'
  <2>. DEFINE n == refresh[b].pair
  <2>1. n \in 1 .. issued /\ Accounted(n)
    BY <1>1, RefreshKinds DEF UsedOnce
  <2>. QED
    BY <2>1 DEF Accounted
<1>2. ASSUME NEW b \in Tabs, refresh'[b].pc = "answered"
      PROVE  Accounted(refresh[b].new)'
  <2>. DEFINE n == refresh[b].new
  <2>1. n \in 1 .. issued /\ Accounted(n)
    BY <1>2, RefreshKinds DEF UsedOnce
  <2>. QED
    BY <2>1 DEF Accounted
<1>3. ASSUME store' # None
      PROVE  \/ Accounted(store)'
             \/ \E b \in Tabs : refresh'[b].pc \in {"deleted", "answered"} /\ refresh'[b].pair = store'
  <2>1. store' = store /\ store # None /\ store \in 1 .. issued
    BY <1>3, SessionAssumption DEF TypeOK, None
  <2>. QED
    BY <2>1 DEF UsedOnce, Accounted
<1>. QED
  BY <1>1, <1>2, <1>3 DEF UsedOnce, None

LEMMA StepUsedOnce ==
  ASSUME SingleTab, TypeOK, ActiveTabs, UsedOnce, [Next]_vars, SingleTab'
  PROVE  UsedOnce'
<1>1. CASE Login
  <2>1. Issue(issued + 1) /\ issued + 1 \in 1 .. issued + 1
    BY <1>1 DEF Login, TypeOK
  <2>2. /\ live' = live \cup {issued + 1} /\ store' = issued + 1
        /\ refresh' = refresh /\ revoked' = revoked
    BY <1>1 DEF Login
  <2>3. \A n \in 1 .. issued : Accounted(n) => Accounted(n)'
    BY <2>1, <2>2, Issuing DEF Accounted
  <2>4. \A b \in Tabs : refresh[b].pc \in {"sent", "refused"} =>
          refresh[b].pair \in 1 .. issued /\ Accounted(refresh[b].pair)
    BY RefreshKinds DEF UsedOnce
  <2>5. \A b \in Tabs : refresh[b].pc = "answered" =>
          refresh[b].new \in 1 .. issued /\ Accounted(refresh[b].new)
    BY RefreshKinds DEF UsedOnce
  <2>. QED
    BY <2>2, <2>3, <2>4, <2>5 DEF UsedOnce, Accounted
<1>2. ASSUME NEW k \in Tasks, NEW b \in Tabs, NEW kind \in {"api", "logout"}, Begin(k, b, kind)
      PROVE  UsedOnce'
  BY <1>2, UsedOnceFrame DEF Begin, Accounted
\* The token in localStorage is accounted for while no refresh is in flight.
<1>3. ASSUME NEW b \in Tabs, b \in used, JoinRefresh(b), UNCHANGED <<family, live, revoked>>,
             store' \in {store, None}
      PROVE  UsedOnce'
  <2>1. CASE refresh' = refresh
    BY <2>1, <1>3, UsedOnceFrame DEF Accounted
  <2>2. CASE /\ refresh[b] = NoRefresh /\ store # None
             /\ refresh' = [refresh EXCEPT ![b] = [pc |-> "sent", pair |-> store]]
    <3>0. \A c \in Tabs : refresh[c] = NoRefresh
      BY <1>3, <2>2, OthersRest
    <3>1. Accounted(store)
      BY <2>2, <3>0 DEF UsedOnce, NoRefresh
    <3>2. \A c \in Tabs : refresh'[c] = NoRefresh \/ refresh'[c] = [pc |-> "sent", pair |-> store]
      BY <2>2, <3>0 DEF TypeOK
    <3>. QED
      BY <3>1, <3>2, <1>3 DEF UsedOnce, Accounted, NoRefresh
  <2>. QED
    BY <1>3, <2>1, <2>2 DEF JoinRefresh
<1>4. ASSUME NEW k \in Tasks, Intercept(k) PROVE UsedOnce'
  <2>0. task[k].tab \in Tabs /\ task[k].tab \in used
    BY <1>4, InUse DEF Intercept
  <2>1. CASE JoinRefresh(task[k].tab)
    BY <2>0, <2>1, <1>3, <1>4 DEF Intercept
  <2>2. CASE UNCHANGED refresh
    BY <2>2, <1>4, UsedOnceFrame DEF Intercept, Accounted
  <2>. QED
    BY <1>4, <2>1, <2>2 DEF Intercept
<1>5. ASSUME NEW k \in Tasks, Unauthorized(k) PROVE UsedOnce'
  <2>0. task[k].tab \in Tabs /\ task[k].tab \in used
    BY <1>5, InUse DEF Unauthorized
  <2>1. UNCHANGED <<family, live, revoked>> /\ store' \in {store, None}
    BY <1>5 DEF Unauthorized
  <2>2. CASE JoinRefresh(task[k].tab)
    BY <2>0, <2>1, <2>2, <1>3
  <2>3. CASE UNCHANGED refresh
    BY <2>1, <2>3, UsedOnceFrame DEF Accounted
  <2>. QED
    BY <1>5, <2>2, <2>3 DEF Unauthorized
<1>6. ASSUME NEW b \in Tabs, Refreshed(b) PROVE UsedOnce'
  <2>1. Accounted(refresh[b].new)
    BY <1>6 DEF Refreshed, UsedOnce
  <2>2. /\ store' = refresh[b].new /\ UNCHANGED <<family, live, revoked>>
        /\ \A c \in Tabs : refresh'[c] = NoRefresh
    BY <1>6, InUse, OthersRest DEF Refreshed, TypeOK
  <2>. QED
    BY <2>1, <2>2 DEF UsedOnce, Accounted, NoRefresh
<1>7. ASSUME NEW b \in Tabs, RefreshFailed(b) PROVE UsedOnce'
  <2>0. refresh[b].pc = "refused" /\ \A c \in Tabs : c # b => refresh[c] = NoRefresh
    BY <1>7, InUse, OthersRest DEF RefreshFailed
  <2>1. store # None => Accounted(store)
    BY <2>0 DEF UsedOnce, NoRefresh
  <2>2. /\ store' \in {store, None} /\ UNCHANGED <<family, live, revoked>>
        /\ \A c \in Tabs : refresh'[c] = NoRefresh
    BY <1>7, <2>0 DEF RefreshFailed, TypeOK
  <2>. QED
    BY <2>1, <2>2 DEF UsedOnce, Accounted, NoRefresh
<1>8. ASSUME NEW k \in Tasks, Succeed(k) PROVE UsedOnce'
  BY <1>8, UsedOnceFrame DEF Succeed, Accounted
<1>9. ASSUME NEW b \in Tabs, CircuitCloses(b) PROVE UsedOnce'
  BY <1>9, UsedOnceFrame DEF CircuitCloses, Accounted
\* A logout that deletes a row notes the login it ends.
<1>10. ASSUME NEW k \in Tasks, Serve(k) PROVE UsedOnce'
  <2>1. CASE UNCHANGED <<live, revoked>>
    BY <2>1, <1>10, UsedOnceFrame DEF Serve, Accounted
  <2>2. CASE /\ live' = live \ {task[k].body}
             /\ revoked' = revoked \cup (IF task[k].body = None THEN {} ELSE {family[task[k].body]})
    <3>1. ASSUME NEW n \in 1 .. issued, Accounted(n) PROVE Accounted(n)'
      <4>1. CASE n = task[k].body
        <5>1. n # None
          BY DEF None
        <5>. QED
          BY <4>1, <5>1, <2>2, <1>10 DEF Serve, Accounted
      <4>2. CASE n # task[k].body
        BY <3>1, <4>2, <2>2, <1>10 DEF Serve, Accounted
      <4>. QED
        BY <4>1, <4>2
    <3>. QED
      BY <3>1, <1>10, UsedOnceFrame DEF Serve
  <2>. QED
    BY <1>10, <2>1, <2>2 DEF Serve
<1>11. ASSUME NEW b \in Tabs, RotateDelete(b) PROVE UsedOnce'
  <2>0. refresh[b] \in Refresh /\ refresh[b].pc = "sent"
    BY <1>11, RefreshKinds DEF RotateDelete
  <2>a. \A c \in Tabs : c # b => refresh'[c] = NoRefresh /\ refresh[c] = NoRefresh
    <3>1. \A c \in Tabs : c # b => refresh[c] = NoRefresh
      BY <2>0, InUse, OthersRest
    <3>. QED
      BY <1>11, <3>1 DEF RotateDelete, TypeOK
  <2>1. CASE refresh[b].pair \in live
    <3>1. refresh' = [refresh EXCEPT ![b].pc = "deleted"]
      BY <1>11, <2>1 DEF RotateDelete
    <3>2. refresh'[b].pc = "deleted" /\ refresh'[b].pair = refresh[b].pair
      BY <2>0, <3>1 DEF TypeOK, Refresh
    <3>3. ASSUME NEW c \in Tabs PROVE refresh'[c].pc = "none" \/ refresh'[c].pc = "deleted"
      <4>1. CASE c = b
        BY <3>2, <4>1
      <4>2. CASE c # b
        BY <2>a, <4>2 DEF NoRefresh
      <4>. QED
        BY <4>1, <4>2
    <3>4. live' = live \ {refresh[b].pair} /\ UNCHANGED <<family, revoked, store>>
      BY <1>11, <2>1 DEF RotateDelete
    <3>5. store # None =>
            Accounted(store)' \/ (refresh'[b].pc = "deleted" /\ refresh'[b].pair = store)
      BY <2>0, <2>a, <3>2, <3>4 DEF UsedOnce, Accounted, NoRefresh
    <3>. QED
      BY <3>3, <3>4, <3>5 DEF UsedOnce, Accounted
  <2>2. CASE refresh[b].pair \notin live
    <3>1. refresh' = [refresh EXCEPT ![b].pc = "refused"]
      BY <1>11, <2>2 DEF RotateDelete
    <3>2. refresh'[b].pc = "refused" /\ refresh'[b].pair = refresh[b].pair
      BY <2>0, <3>1 DEF TypeOK, Refresh
    <3>3. ASSUME NEW c \in Tabs
          PROVE  \/ refresh'[c].pc = "none"
                 \/ refresh'[c].pc = "refused" /\ refresh'[c].pair = refresh[b].pair
      <4>1. CASE c = b
        BY <3>2, <4>1
      <4>2. CASE c # b
        BY <2>a, <4>2 DEF NoRefresh
      <4>. QED
        BY <4>1, <4>2
    <3>4. UNCHANGED <<family, live, revoked, store>>
      BY <1>11, <2>2 DEF RotateDelete
    <3>5. Accounted(refresh[b].pair) /\ (store # None => Accounted(store))
      BY <2>0, <2>a DEF UsedOnce, NoRefresh
    <3>. QED
      BY <3>3, <3>4, <3>5 DEF UsedOnce, Accounted
  <2>. QED
    BY <2>1, <2>2
<1>12. ASSUME NEW b \in Tabs, RotateInsert(b) PROVE UsedOnce'
  <2>0. refresh[b].pair \in 1 .. issued /\ refresh[b].pc = "deleted"
    BY <1>12, RefreshKinds DEF RotateInsert
  <2>1. Issue(family[refresh[b].pair]) /\ family[refresh[b].pair] \in 1 .. issued + 1
    BY <1>12, <2>0 DEF RotateInsert, TypeOK
  <2>2. live' = live \cup {issued + 1} /\ UNCHANGED <<store, revoked>>
    BY <1>12 DEF RotateInsert
  <2>a. \A c \in Tabs : c # b => refresh[c] = NoRefresh
    BY <2>0, InUse, OthersRest
  <2>3. /\ refresh'[b] = [pc |-> "answered", pair |-> refresh[b].pair, new |-> issued + 1]
        /\ \A c \in Tabs : c # b => refresh'[c] = NoRefresh
    BY <1>12, <2>a DEF RotateInsert, TypeOK
  <2>4. \A n \in 1 .. issued : Accounted(n) => Accounted(n)'
    BY <2>1, <2>2, Issuing DEF Accounted
  <2>5. store # None => Accounted(store)' \/ refresh[b].pair = store
    <3>1. store # None => store \in 1 .. issued
      BY SessionAssumption DEF TypeOK, None
    <3>2. store # None => Accounted(store) \/ refresh[b].pair = store
      BY <2>a DEF UsedOnce, NoRefresh
    <3>. QED
      BY <2>2, <2>4, <3>1, <3>2 DEF Accounted
  <2>. QED
    BY <2>2, <2>3, <2>5 DEF UsedOnce, Accounted, NoRefresh
<1>13. ASSUME NEW n \in Pairs, Older(n) PROVE UsedOnce'
  BY <1>13, UsedOnceFrame DEF Older, Accounted
<1>14. CASE UNCHANGED vars
  BY <1>14, UsedOnceFrame DEF vars, Accounted
<1>. QED
  BY <1>1, <1>2, <1>4, <1>5, <1>6, <1>7, <1>8, <1>9, <1>10, <1>11, <1>12, <1>13, <1>14, StillSingle
     DEF Next, TaskStep, RefreshStep

(***************************************************************************)
(* Of any number of tabs: while only one of them has made calls and        *)
(* nothing has failed, it presents a refresh token that was used before    *)
(* only after a logout used it up, because doRefresh is in flight at most  *)
(* once.                                                                   *)
(***************************************************************************)
THEOREM SingleTabUsesTokensOnce == Spec => []NoTokenUsedTwice
<1>. DEFINE Inv == TypeOK /\ ActiveTabs /\ (SingleTab => UsedOnce)
<1>1. Init => Inv
  BY InitTypeOK DEF Init, UsedOnce, NoRefresh, ActiveTabs
<1>2. Inv /\ [Next]_vars => Inv'
  BY StepTypeOK, StepActiveTabs, StillSingle, StepUsedOnce
<1>3. Inv => NoTokenUsedTwice
  BY DEF UsedOnce, NoTokenUsedTwice, Accounted
<1>. QED
  BY <1>1, <1>2, <1>3, PTL DEF Spec

(***************************************************************************)
(* Before the first login nothing has begun.                               *)
(***************************************************************************)
IdleBeforeLogin ==
  issued = 0 => (\A k \in Tasks : task[k] = Done) /\ (\A b \in Tabs : ~broken[b])

LEMMA StepIdleBeforeLogin ==
  ASSUME TypeOK, IdleBeforeLogin, [Next]_vars
  PROVE  IdleBeforeLogin'
<1>0. issued \in Nat
  BY SessionAssumption DEF TypeOK
<1>1. CASE Login
  BY <1>0, <1>1 DEF Login, Issue, IdleBeforeLogin
<1>2. ASSUME NEW k \in Tasks, NEW b \in Tabs, NEW kind \in {"api", "logout"}, Begin(k, b, kind)
      PROVE  IdleBeforeLogin'
  BY <1>2 DEF Begin, IdleBeforeLogin
<1>3. ASSUME NEW k \in Tasks, TaskStep(k) \/ NoAnswer(k) PROVE IdleBeforeLogin'
  <2>1. task[k] # Done
    BY <1>3 DEF TaskStep, NoAnswer, Intercept, Unauthorized, Succeed, Serve, Done
  <2>2. issued' = issued
    BY <1>3 DEF TaskStep, NoAnswer, Intercept, Unauthorized, Succeed, Serve
  <2>. QED
    BY <2>1, <2>2 DEF IdleBeforeLogin
<1>4. ASSUME NEW b \in Tabs, RefreshStep(b) \/ RefreshLost(b) PROVE IdleBeforeLogin'
  <2>1. refresh[b].pc # "none"
    BY <1>4 DEF RefreshStep, RefreshLost, Refreshed, RefreshFailed, RotateDelete, RotateInsert
  <2>2. issued # 0
    BY <1>0, <2>1, RefreshKinds
  <2>3. issued' = issued \/ issued' = issued + 1
    BY <1>4 DEF RefreshStep, RefreshLost, Refreshed, RefreshFailed, RotateDelete, RotateInsert, Issue
  <2>. QED
    BY <1>0, <2>2, <2>3 DEF IdleBeforeLogin
<1>5. ASSUME NEW b \in Tabs, CircuitCloses(b) PROVE IdleBeforeLogin'
  BY <1>5 DEF CircuitCloses, IdleBeforeLogin
<1>6. ASSUME NEW n \in Pairs, Older(n) \/ Lapse(n) PROVE IdleBeforeLogin'
  BY <1>6 DEF Older, Lapse, IdleBeforeLogin
<1>7. CASE UNCHANGED vars
  BY <1>7 DEF vars, IdleBeforeLogin
<1>. QED
  BY <1>1, <1>2, <1>3, <1>4, <1>5, <1>6, <1>7 DEF Next

(***************************************************************************)
(* A pair keeps its login; so a step after which all pairs descend from    *)
(* the first login is a login only if it is that one.                      *)
(***************************************************************************)
LEMMA StillOneLogin ==
  ASSUME TypeOK, [Next]_vars, SingleLogin'
  PROVE  SingleLogin /\ (Login => issued = 0)
<1>0. issued \in Nat
  BY SessionAssumption DEF TypeOK
<1>1. CASE Login
  <2>1. Issue(issued + 1) /\ issued + 1 \in 1 .. issued + 1
    BY <1>0, <1>1 DEF Login
  <2>2. issued + 1 = 1
    BY <1>0, <2>1, Issuing DEF SingleLogin
  <2>. QED
    BY <1>0, <2>2 DEF SingleLogin
<1>2. ASSUME NEW b \in Tabs, RotateInsert(b) PROVE SingleLogin /\ issued # 0
  <2>0. refresh[b].pair \in 1 .. issued
    BY <1>2, RefreshKinds DEF RotateInsert
  <2>1. Issue(family[refresh[b].pair]) /\ family[refresh[b].pair] \in 1 .. issued + 1
    BY <1>0, <1>2, <2>0 DEF RotateInsert, TypeOK
  <2>2. \A n \in 1 .. issued : n \in 1 .. issued' /\ family'[n] = family[n]
    BY <2>1, Issuing
  <2>. QED
    BY <1>0, <2>0, <2>2 DEF SingleLogin
<1>3. CASE UNCHANGED <<issued, family>>
  <2>1. ~Login
    BY <1>0, <1>3 DEF Login, Issue
  <2>. QED
    BY <1>3, <2>1 DEF SingleLogin
<1>4. Login \/ (\E b \in Tabs : RotateInsert(b)) \/ UNCHANGED <<issued, family>>
  BY DEF Next, TaskStep, RefreshStep, Begin, Intercept, Unauthorized, Succeed, Serve, NoAnswer,
         Refreshed, RefreshFailed, RotateDelete, RefreshLost, CircuitCloses, Older, Lapse, vars
<1>5. ASSUME NEW b \in Tabs, RotateInsert(b), Login PROVE issued = 0
  BY <1>1, <1>5
<1>. QED
  BY <1>1, <1>2, <1>3, <1>4

(***************************************************************************)
(* With one login: the server accepts this pair's token, or none at all.   *)
(***************************************************************************)
Held(n) == n \in live \/ live = {}

(***************************************************************************)
(* The inductive invariant behind SessionSurvives: what a single tab holds *)
(* is what the server accepts, as long as it accepts anything.             *)
(***************************************************************************)
Settled == \A b \in Tabs : refresh[b] = NoRefresh

HoldsTheToken ==
  /\ \A b \in Tabs :
       /\ refresh[b] # NoRefresh /\ store # None => refresh[b].pair = store
       /\ refresh[b].pc = "sent" => Held(refresh[b].pair)
       /\ refresh[b].pc = "answered" => Held(refresh[b].new)
       /\ refresh[b].pc = "refused" => live = {}
       /\ broken[b] => Settled /\ (store # None => live = {})
  /\ Settled /\ store # None => Held(store)

(***************************************************************************)
(* What a single tab holds stays right when tokens are only given up: in   *)
(* localStorage, or on the server, which has one of them.                  *)
(***************************************************************************)
LEMMA HoldsFrame ==
  ASSUME HoldsTheToken, UNCHANGED refresh, store' \in {store, None},
         live' = live \/ live' = {},
         \A b \in Tabs : broken'[b] => broken[b] \/ (Settled /\ store' = None)
  PROVE  HoldsTheToken'
  BY DEF HoldsTheToken, Settled, Held, None

(***************************************************************************)
(* The rows of a single login are one row at most.                         *)
(***************************************************************************)
LEMMA OneLoginOneToken ==
  ASSUME TypeOK, OneChain, SingleLogin
  PROVE  /\ \A m, n \in live : m = n
         /\ \A b \in Tabs : refresh[b].pc = "deleted" => live = {}
<1>1. live \subseteq 1 .. issued
  BY DEF TypeOK
<1>2. \A n \in live : family[n] = 1
  BY <1>1 DEF SingleLogin
<1>3. \A b \in Tabs : refresh[b].pc = "deleted" => family[refresh[b].pair] = 1
  BY RefreshKinds DEF SingleLogin
<1>. QED
  BY <1>2, <1>3 DEF OneChain, OneLiveToken

LEMMA StepHoldsTheToken ==
  ASSUME SingleTab, SingleLogin, TypeOK, ActiveTabs, IdleBeforeLogin, OneChain, HoldsTheToken,
         [Next]_vars, SingleTab', SingleLogin'
  PROVE  HoldsTheToken'
<1>0. /\ \A m, n \in live : m = n
      /\ \A b \in Tabs : refresh[b].pc = "deleted" => live = {}
  BY OneLoginOneToken
<1>1. CASE Login
  <2>1. issued = 0 /\ \A b \in Tabs : ~broken[b] /\ refresh[b].pc = "none"
    <3>1. issued = 0 /\ \A b \in Tabs : ~broken[b]
      BY <1>1, StillOneLogin DEF IdleBeforeLogin
    <3>2. 1 .. issued = {}
      BY <3>1
    <3>. QED
      BY <3>1, <3>2, RefreshKinds
  <2>2. /\ live' = live \cup {issued + 1} /\ store' = issued + 1
        /\ UNCHANGED <<refresh, broken>>
    BY <1>1 DEF Login
  <2>3. \A b \in Tabs : refresh[b] = NoRefresh
    BY <2>1 DEF TypeOK, Refresh, NoRefresh
  <2>. QED
    BY <2>1, <2>2, <2>3 DEF HoldsTheToken, Settled, Held, NoRefresh
<1>2. ASSUME NEW k \in Tasks, NEW b \in Tabs, NEW kind \in {"api", "logout"}, Begin(k, b, kind)
      PROVE  HoldsTheToken'
  BY <1>2, HoldsFrame DEF Begin
\* A tab joins a refresh only while no refresh has failed.
<1>3. ASSUME NEW b \in Tabs, b \in used, JoinRefresh(b), ~broken[b], UNCHANGED <<live, store, broken>>
      PROVE  HoldsTheToken'
  <2>1. CASE refresh' = refresh
    BY <2>1, <1>3, HoldsFrame
  <2>2. CASE /\ refresh[b] = NoRefresh /\ store # None
             /\ refresh' = [refresh EXCEPT ![b] = [pc |-> "sent", pair |-> store]]
    <3>0. Settled /\ \A c \in Tabs : ~broken[c]
      BY <1>3, <2>2, OthersRest DEF Settled
    <3>1. Held(store)
      BY <2>2, <3>0 DEF HoldsTheToken
    <3>2. \A c \in Tabs : refresh'[c] = NoRefresh \/ refresh'[c] = [pc |-> "sent", pair |-> store]
      BY <2>2, <3>0 DEF TypeOK, Settled
    <3>3. refresh'[b] = [pc |-> "sent", pair |-> store] /\ ~Settled'
      BY <2>2 DEF TypeOK, Settled, NoRefresh
    <3>. QED
      BY <3>0, <3>1, <3>2, <3>3, <1>3 DEF HoldsTheToken, Held, NoRefresh
  <2>. QED
    BY <1>3, <2>1, <2>2 DEF JoinRefresh
<1>4. ASSUME NEW k \in Tasks, Intercept(k) PROVE HoldsTheToken'
  <2>0. task[k].tab \in Tabs /\ task[k].tab \in used
    BY <1>4, InUse DEF Intercept
  <2>1. CASE JoinRefresh(task[k].tab) /\ ~broken[task[k].tab]
    BY <2>0, <2>1, <1>3, <1>4 DEF Intercept
  <2>2. CASE UNCHANGED refresh
    BY <2>2, <1>4, HoldsFrame DEF Intercept
  <2>. QED
    BY <1>4, <2>1, <2>2 DEF Intercept
<1>5. ASSUME NEW k \in Tasks, Unauthorized(k) PROVE HoldsTheToken'
  <2>. DEFINE b == task[k].tab
  <2>0. b \in Tabs /\ b \in used
    BY <1>5, InUse DEF Unauthorized
  <2>1. UNCHANGED live
    BY <1>5 DEF Unauthorized
  <2>2. CASE JoinRefresh(b) /\ ~broken[b] /\ UNCHANGED <<store, broken>>
    BY <2>0, <2>1, <2>2, <1>3
  <2>3. CASE /\ broken[b] \/ refresh[b] = NoRefresh
             /\ store' = None /\ broken' = [broken EXCEPT ![b] = TRUE] /\ UNCHANGED refresh
    <3>1. Settled
      BY <2>0, <2>3, OthersRest DEF HoldsTheToken, Settled
    <3>2. \A c \in Tabs : broken'[c] => broken[c] \/ (Settled /\ store' = None)
      BY <3>1, <2>3
    <3>. QED
      BY <3>2, <2>1, <2>3, HoldsFrame
  <2>4. CASE store' \in {store, None} /\ UNCHANGED <<refresh, broken>>
    BY <2>1, <2>4, HoldsFrame
  <2>. QED
    BY <1>5, <2>2, <2>3, <2>4 DEF Unauthorized
<1>6. ASSUME NEW b \in Tabs, Refreshed(b) PROVE HoldsTheToken'
  <2>1. Held(refresh[b].new)
    BY <1>6 DEF Refreshed, HoldsTheToken
  <2>2. /\ store' = refresh[b].new /\ UNCHANGED live
        /\ \A c \in Tabs : refresh'[c] = NoRefresh /\ ~broken'[c]
    BY <1>6, InUse, OthersRest DEF Refreshed, TypeOK
  <2>. QED
    BY <2>1, <2>2 DEF HoldsTheToken, Held, NoRefresh
<1>7. ASSUME NEW b \in Tabs, RefreshFailed(b) PROVE HoldsTheToken'
  <2>1. live = {}
    BY <1>7 DEF RefreshFailed, HoldsTheToken
  <2>2. UNCHANGED live /\ \A c \in Tabs : refresh'[c] = NoRefresh
    BY <1>7, InUse, OthersRest DEF RefreshFailed, TypeOK
  <2>. QED
    BY <2>1, <2>2 DEF HoldsTheToken, Settled, Held, NoRefresh
<1>8. ASSUME NEW k \in Tasks, Succeed(k) PROVE HoldsTheToken'
  BY <1>8, HoldsFrame DEF Succeed
<1>9. ASSUME NEW b \in Tabs, CircuitCloses(b) PROVE HoldsTheToken'
  <2>1. \A c \in Tabs : broken'[c] => broken[c]
    BY <1>9 DEF CircuitCloses, TypeOK
  <2>. QED
    BY <1>9, <2>1, HoldsFrame DEF CircuitCloses
\* A logout deletes the one row there is, or none.
<1>10. ASSUME NEW k \in Tasks, Serve(k) PROVE HoldsTheToken'
  <2>1. live' = live \/ live' = {}
    BY <1>0, <1>10 DEF Serve
  <2>. QED
    BY <1>10, <2>1, HoldsFrame DEF Serve
<1>11. ASSUME NEW b \in Tabs, RotateDelete(b) PROVE HoldsTheToken'
  <2>0. refresh[b] \in Refresh /\ refresh[b].pc = "sent" /\ Held(refresh[b].pair)
    BY <1>11, RefreshKinds DEF RotateDelete, HoldsTheToken
  <2>1. live' = {}
    BY <1>0, <1>11, <2>0 DEF RotateDelete, Held
  <2>2. /\ refresh'[b].pc \in {"deleted", "refused"} /\ refresh'[b].pair = refresh[b].pair
        /\ refresh'[b] # NoRefresh /\ refresh[b] # NoRefresh
    BY <1>11, <2>0 DEF RotateDelete, TypeOK, Refresh, NoRefresh
  <2>3. \A c \in Tabs : c # b => refresh[c] = NoRefresh /\ refresh'[c] = NoRefresh
    <3>1. \A c \in Tabs : c # b => refresh[c] = NoRefresh
      BY <2>0, InUse, OthersRest
    <3>. QED
      BY <1>11, <3>1 DEF RotateDelete, TypeOK
  <2>4. (\A c \in Tabs : ~broken'[c]) /\ UNCHANGED store
    BY <1>11, <2>2 DEF RotateDelete, HoldsTheToken, Settled
  <2>. QED
    BY <2>1, <2>2, <2>3, <2>4 DEF HoldsTheToken, Settled, Held, NoRefresh
<1>12. ASSUME NEW b \in Tabs, RotateInsert(b) PROVE HoldsTheToken'
  <2>0. refresh[b].pc = "deleted" /\ refresh[b] # NoRefresh
    BY <1>12 DEF RotateInsert, NoRefresh
  <2>1. /\ store # None => refresh[b].pair = store
        /\ \A c \in Tabs : ~broken[c]
    BY <2>0 DEF HoldsTheToken, Settled
  <2>2. \A c \in Tabs : c # b => refresh[c] = NoRefresh
    BY <2>0, InUse, OthersRest
  <2>3. /\ live' = live \cup {issued + 1} /\ UNCHANGED <<store, broken>>
        /\ refresh'[b] = [pc |-> "answered", pair |-> refresh[b].pair, new |-> issued + 1]
        /\ \A c \in Tabs : c # b => refresh'[c] = NoRefresh
    BY <1>12, <2>2 DEF RotateInsert, TypeOK
  <2>. QED
    BY <2>1, <2>3 DEF HoldsTheToken, Settled, Held, NoRefresh
<1>13. ASSUME NEW n \in Pairs, Older(n) PROVE HoldsTheToken'
  BY <1>13, HoldsFrame DEF Older
<1>14. CASE UNCHANGED vars
  BY <1>14, HoldsFrame DEF vars
<1>. QED
  BY <1>1, <1>2, <1>4, <1>5, <1>6, <1>7, <1>8, <1>9, <1>10, <1>11, <1>12, <1>13, <1>14, StillSingle
     DEF Next, TaskStep, RefreshStep

(***************************************************************************)
(* The tokens are given up outside a logout only when no token is good.    *)
(***************************************************************************)
LEMMA StepSurvives ==
  ASSUME TypeOK, HoldsTheToken, [Next]_vars,
         store # None, store' = None, ~LogoutEnds
  PROVE  live = {}
<1>0. store \in 1 .. issued
  BY SessionAssumption DEF TypeOK, None
<1>1. ASSUME NEW k \in Tasks, Unauthorized(k) PROVE live = {}
  <2>0. task[k].tab \in Tabs /\ task[k] # Done
    BY <1>1, TaskKinds DEF Unauthorized, Task, Done
  <2>1. task[k].kind # "logout" \/ task'[k] # Done
    BY <2>0 DEF LogoutEnds
  <2>2. broken[task[k].tab]
    BY <1>1, <2>1, <2>0 DEF Unauthorized, TypeOK
  <2>. QED
    BY <2>0, <2>2 DEF HoldsTheToken
<1>2. ASSUME NEW b \in Tabs, RefreshFailed(b) PROVE live = {}
  BY <1>2 DEF RefreshFailed, HoldsTheToken
<1>3. ASSUME NEW k \in Tasks, Succeed(k) PROVE FALSE
  <2>1. task[k] # Done /\ task'[k] = Done /\ task[k].kind = "logout"
    BY <1>3 DEF Succeed, TypeOK, Done
  <2>. QED
    BY <2>1 DEF LogoutEnds
<1>4. ASSUME NEW b \in Tabs, Refreshed(b) PROVE FALSE
  <2>1. refresh[b].new \in 1 .. issued /\ store' = refresh[b].new
    BY <1>4, RefreshKinds DEF Refreshed
  <2>. QED
    BY <2>1 DEF None
<1>5. ~Login
  BY SessionAssumption DEF Login, None, TypeOK
<1>6. /\ \A k \in Tasks : ~NoAnswer(k)
      /\ \A b \in Tabs : ~RefreshLost(b)
      /\ \A n \in Pairs : ~Lapse(n)
  <2>1. ASSUME NEW k \in Tasks, NoAnswer(k) PROVE FALSE
    <3>1. task[k] # Done /\ task'[k] = Done /\ task[k].kind = "logout"
      BY <2>1 DEF NoAnswer, TypeOK, Done
    <3>. QED
      BY <3>1 DEF LogoutEnds
  <2>. QED
    BY <2>1 DEF RefreshLost, Lapse
<1>7. /\ \A k \in Tasks, b \in Tabs, kind \in {"api", "logout"} : ~Begin(k, b, kind)
      /\ \A k \in Tasks : ~Intercept(k) /\ ~Serve(k)
      /\ \A b \in Tabs : ~RotateDelete(b) /\ ~RotateInsert(b) /\ ~CircuitCloses(b)
      /\ \A n \in Pairs : ~Older(n)
      /\ ~UNCHANGED vars
  BY DEF Begin, Intercept, Serve, RotateDelete, RotateInsert, CircuitCloses, Older, vars
<1>. QED
  BY <1>1, <1>2, <1>3, <1>4, <1>5, <1>6, <1>7 DEF Next, TaskStep, RefreshStep

(***************************************************************************)
(* Of any number of tabs and logins: while one tab makes the calls of one  *)
(* login and nothing fails, the tokens are given up only in a logout or    *)
(* when the server accepts none of them.                                   *)
(***************************************************************************)
THEOREM SingleTabSessionSurvives == Spec => SessionSurvives
<1>. DEFINE Inv == /\ TypeOK /\ OneChain /\ ActiveTabs /\ IdleBeforeLogin
                   /\ SingleTab /\ SingleLogin => HoldsTheToken
<1>1. Init => Inv
  <2>1. Init => OneChain
    BY DEF Init, OneChain, OneLiveToken, NoRefresh
  <2>2. Init => ActiveTabs /\ IdleBeforeLogin
    BY DEF Init, ActiveTabs, IdleBeforeLogin
  <2>3. Init => HoldsTheToken
    BY DEF Init, HoldsTheToken, NoRefresh, Held
  <2>. QED
    BY <2>1, <2>2, <2>3, InitTypeOK
<1>2. Inv /\ [Next]_vars => Inv'
  BY StepTypeOK, StepOneChain, StepActiveTabs, StepIdleBeforeLogin, StillSingle, StillOneLogin,
     StepHoldsTheToken
<1>3. Inv /\ [Next]_vars =>
        [(SingleTab /\ SingleLogin /\ store # None /\ store' = None /\ ~LogoutEnds)
           => \A n \in live : family[n] # family[store]]_vars
  BY StepSurvives
<1>. QED
  BY <1>1, <1>2, <1>3, PTL DEF Spec, SessionSurvives
=============================================================================
