------------------------- MODULE OAuthAccountsProofs -------------------------
(***************************************************************************)
(* What holds of OAuthAccounts for every number of users, identities and   *)
(* requests in progress, whatever the addresses are.                       *)
(***************************************************************************)
EXTENDS OAuthAccounts, FiniteSetTheorems, TLAPS

Requests == {Idle} \cup Login \cup Link \cup Unlink

(***************************************************************************)
(* The program counter of a request tells which request it is.             *)
(***************************************************************************)
LEMMA RequestKinds ==
  ASSUME TypeOK, NEW h \in Handlers
  PROVE  /\ handler[h] \in Requests
         /\ handler[h].pc \in {"lookup", "email", "touch", "attach", "create", "fetch"}
              => handler[h] \in Login
         /\ handler[h].pc \in {"linkcheck", "linkinsert"} => handler[h] \in Link
         /\ handler[h].pc = "issue" => handler[h] \in Login \cup Link
         /\ handler[h].pc = "unlink" => handler[h] \in Unlink
<1>1. handler[h] \in Requests
  BY DEF TypeOK, Requests
<1>. QED
  BY <1>1 DEF Requests, Idle, Login, Link, Unlink

(***************************************************************************)
(* A step of one request leaves the others alone.                          *)
(***************************************************************************)
LEMMA Moving ==
  ASSUME TypeOK, NEW h \in Handlers, NEW r \in Requests, Move(h, r)
  PROVE  /\ handler' \in [Handlers -> Requests]
         /\ handler'[h] = r
         /\ \A g \in Handlers : g # h => handler'[g] = handler[g]
  BY DEF TypeOK, Move, Requests

(***************************************************************************)
(* The table of identities after a link and after an unlink.               *)
(***************************************************************************)
LEMMA Linking ==
  ASSUME TypeOK, NEW i \in Identities, NEW u \in UserIds, LinkTo(i, u)
  PROVE  /\ DOMAIN accounts' = DOMAIN accounts \cup {i}
         /\ accounts' \in [DOMAIN accounts' -> Known \cup {u}]
         /\ accounts'[i] = u
         /\ \A j \in DOMAIN accounts : j # i => accounts'[j] = accounts[j]
         /\ linked' = linked \cup {<<i, u>>}
         /\ linked' \subseteq Identities \X UserIds
  BY DEF TypeOK, LinkTo, With

LEMMA Unlinking ==
  ASSUME TypeOK, NEW S, accounts' = Without(accounts, S)
  PROVE  /\ DOMAIN accounts' = DOMAIN accounts \ S
         /\ accounts' \in [DOMAIN accounts' -> Known]
         /\ \A j \in DOMAIN accounts' : accounts'[j] = accounts[j]
  BY DEF TypeOK, Without, Restrict

(***************************************************************************)
(* A request that goes on with the user it has found, and one that only    *)
(* takes its next step.                                                    *)
(***************************************************************************)
LEMMA Finding ==
  ASSUME TypeOK, NEW h \in Handlers, handler[h] \in Login,
         NEW pc \in {"touch", "attach"}, NEW u \in Known, Admitted(u), Found(h, pc, u)
  PROVE  /\ handler' \in [Handlers -> Requests]
         /\ \A g \in Handlers : g # h => handler'[g] = handler[g]
         /\ handler'[h].pc = pc /\ handler'[h].user = u /\ handler'[h].id = handler[h].id
<1>. DEFINE r == [handler[h] EXCEPT !.pc = pc, !.user = u, !.deleted = users[u].deleted]
<1>1. users[u].deleted \in {"no", "recent"} /\ u \in UserIds
  BY DEF TypeOK, User, Admitted
<1>2. r \in Login /\ r.pc = pc /\ r.user = u /\ r.id = handler[h].id
  BY <1>1 DEF Login
<1>3. r \in Requests
  BY <1>2 DEF Requests
<1>. QED
  BY <1>2, <1>3, Moving DEF Found

LEMMA Stepping ==
  ASSUME TypeOK, NEW h \in Handlers, NEW pc, Step(h, pc),
         \/ handler[h] \in Login
              /\ pc \in {"lookup", "email", "touch", "attach", "create", "fetch", "issue"}
         \/ handler[h] \in Link /\ pc \in {"linkcheck", "linkinsert", "issue"}
  PROVE  /\ handler' \in [Handlers -> Requests]
         /\ \A g \in Handlers : g # h => handler'[g] = handler[g]
         /\ handler'[h].pc = pc
         /\ handler'[h].user = handler[h].user /\ handler'[h].id = handler[h].id
<1>. DEFINE r == [handler[h] EXCEPT !.pc = pc]
<1>1. CASE handler[h] \in Login
              /\ pc \in {"lookup", "email", "touch", "attach", "create", "fetch", "issue"}
  <2>1. r \in Login /\ r.pc = pc /\ r.user = handler[h].user /\ r.id = handler[h].id
    BY <1>1 DEF Login
  <2>2. r \in Requests
    BY <2>1 DEF Requests
  <2>. QED
    BY <2>1, <2>2, Moving DEF Step
<1>2. CASE handler[h] \in Link /\ pc \in {"linkcheck", "linkinsert", "issue"}
  <2>1. r \in Link /\ r.pc = pc /\ r.user = handler[h].user /\ r.id = handler[h].id
    BY <1>2 DEF Link
  <2>2. r \in Requests
    BY <2>1 DEF Requests
  <2>. QED
    BY <2>1, <2>2, Moving DEF Step
<1>. QED
  BY <1>1, <1>2

(***************************************************************************)
(* A request that ends, and a login that has got its user.                 *)
(***************************************************************************)
LEMMA Answering ==
  ASSUME TypeOK, NEW h \in Handlers, Answer(h)
  PROVE  /\ handler' \in [Handlers -> Requests]
         /\ \A g \in Handlers : g # h => handler'[g] = handler[g]
         /\ handler'[h] = Idle
  BY Moving DEF Answer, Requests

LEMMA Concluding ==
  ASSUME TypeOK, NEW h \in Handlers, handler[h] \in Login, NEW u \in UserIds,
         Move(h, [handler[h] EXCEPT !.pc = "issue", !.user = u])
  PROVE  /\ handler' \in [Handlers -> Requests]
         /\ \A g \in Handlers : g # h => handler'[g] = handler[g]
         /\ handler'[h].pc = "issue" /\ handler'[h].user = u
         /\ handler'[h].id = handler[h].id
<1>. DEFINE r == [handler[h] EXCEPT !.pc = "issue", !.user = u]
<1>1. r \in Login /\ r.pc = "issue" /\ r.user = u /\ r.id = handler[h].id
  BY DEF Login
<1>2. r \in Requests
  BY <1>1 DEF Requests
<1>. QED
  BY <1>1, <1>2, Moving

(***************************************************************************)
(* What a step of one request has to do to keep the invariants.            *)
(***************************************************************************)
LEMMA Preserving ==
  ASSUME TypeOK, AccountsInv, NEW h \in Handlers,
         handler' \in [Handlers -> Requests],
         \A g \in Handlers : g # h => handler'[g] = handler[g],
         users' \in [Known' -> User], Known \subseteq Known', Known' \subseteq UserIds,
         DOMAIN accounts' \subseteq Identities, accounts' \in [DOMAIN accounts' -> Known'],
         linked \subseteq linked', linked' \subseteq Identities \X UserIds,
         \A i \in DOMAIN accounts' : <<i, accounts'[i]>> \in linked',
         DOMAIN states' \subseteq DOMAIN states, begun' = begun,
         \A s \in DOMAIN states' : states'[s] = states[s],
         states' \in [DOMAIN states' -> StateRow],
         audit' \in [UserIds -> Nat], doubtful' \subseteq UserIds,
         handler'[h].pc \in {"touch", "attach", "linkcheck", "linkinsert", "issue", "unlink"}
           => handler'[h].user \in Known',
         handler'[h].pc \in {"touch", "issue"}
           => <<handler'[h].id, handler'[h].user>> \in linked'
  PROVE  TypeOK' /\ AccountsInv'
<1>1. TypeOK'
  BY DEF TypeOK, Requests
<1>2. UsersAreKnown'
  BY DEF AccountsInv, UsersAreKnown
<1>3. LinksAreRecorded'
  BY DEF AccountsInv, LinksAreRecorded, LoginsAreLinked
<1>. QED
  BY <1>1, <1>2, <1>3 DEF AccountsInv

(***************************************************************************)
(* The special case of a step that touches nothing but the request.        *)
(***************************************************************************)
LEMMA OnlyTheRequest ==
  ASSUME TypeOK, AccountsInv, NEW h \in Handlers,
         handler' \in [Handlers -> Requests],
         \A g \in Handlers : g # h => handler'[g] = handler[g],
         UNCHANGED <<users, accounts, states, begun, audit, linked, doubtful>>,
         handler'[h].pc \in {"touch", "attach", "linkcheck", "linkinsert", "issue", "unlink"}
           => handler'[h].user \in Known,
         handler'[h].pc \in {"touch", "issue"}
           => <<handler'[h].id, handler'[h].user>> \in linked
  PROVE  TypeOK' /\ AccountsInv'
<1>1. Known' = Known
  BY DEF Known
<1>2. \A i \in DOMAIN accounts : <<i, accounts[i]>> \in linked
  BY DEF AccountsInv, LinksAreRecorded
<1>. QED
  BY <1>1, <1>2, Preserving DEF TypeOK

LEMMA Reactivating ==
  ASSUME TypeOK, NEW h \in Handlers, handler[h].user \in Known, Reactivate(h)
  PROVE  users' \in [Known -> User] /\ Known' = Known /\ audit' \in [UserIds -> Nat]
<1>1. CASE UNCHANGED <<users, audit>>
  BY <1>1 DEF TypeOK, Known
<1>2. CASE /\ users' = [users EXCEPT ![handler[h].user].deleted = "no"]
           /\ audit' = [audit EXCEPT ![handler[h].user] = @ + 1]
  <2>1. users[handler[h].user] \in User
    BY DEF TypeOK
  <2>2. [users[handler[h].user] EXCEPT !.deleted = "no"] \in User
    BY <2>1 DEF User
  <2>. QED
    BY <1>2, <2>2 DEF TypeOK, Known
<1>. QED
  BY <1>1, <1>2 DEF Reactivate

LEMMA InitInv == Init => TypeOK /\ AccountsInv
<1>. SUFFICES ASSUME Init PROVE TypeOK /\ AccountsInv
  OBVIOUS
<1>1. TypeOK
  BY DEF Init, TypeOK, Known
<1>2. AccountsInv
  BY DEF Init, AccountsInv, UsersAreKnown, LinksAreRecorded, LoginsAreLinked, Idle
<1>. QED
  BY <1>1, <1>2

(***************************************************************************)
(* The steps outside of a request, and the beginning of one.               *)
(***************************************************************************)
LEMMA StepBeginning ==
  ASSUME TypeOK, AccountsInv,
         \/ \E u \in UserIds, e \in Emails : Register(u, e)
         \/ \E u \in UserIds : DeleteAccount(u) \/ CloseWindow(u)
         \/ \E s \in States, p \in Providers : Initiate(s, p)
         \/ \E s \in States, u \in UserIds, p \in Providers : LinkProvider(s, u, p)
         \/ \E s \in States : Expire(s)
         \/ \E h \in Handlers, s \in States, i \in Identities : Callback(h, s, i)
  PROVE  TypeOK' /\ AccountsInv'
<1>. USE DEF AccountsInv
<1>1. ASSUME NEW u \in UserIds, NEW e \in Emails, Register(u, e) PROVE TypeOK' /\ AccountsInv'
  <2>1. Known' = Known \cup {u} /\ users' \in [Known' -> User]
    <3>1. [email |-> e, password |-> TRUE, deleted |-> "no"] \in User
      BY DEF User
    <3>. QED
      BY <1>1, <3>1 DEF Register, With, TypeOK, Known
  <2>2. TypeOK'
    BY <1>1, <2>1 DEF Register, TypeOK
  <2>. QED
    BY <1>1, <2>1, <2>2 DEF Register, UsersAreKnown, LinksAreRecorded, LoginsAreLinked
<1>2. ASSUME NEW u \in UserIds, DeleteAccount(u) \/ CloseWindow(u)
      PROVE  TypeOK' /\ AccountsInv'
  <2>1. Known' = Known /\ users' \in [Known -> User]
    <3>1. PICK d \in {"recent", "old"} : u \in Known /\ users' = [users EXCEPT ![u].deleted = d]
      BY <1>2 DEF DeleteAccount, CloseWindow
    <3>2. [users[u] EXCEPT !.deleted = d] \in User
      BY <3>1 DEF TypeOK, User
    <3>. QED
      BY <3>1, <3>2 DEF TypeOK, Known
  <2>2. TypeOK'
    BY <1>2, <2>1 DEF DeleteAccount, CloseWindow, TypeOK
  <2>. QED
    BY <1>2, <2>1, <2>2
       DEF DeleteAccount, CloseWindow, UsersAreKnown, LinksAreRecorded, LoginsAreLinked
<1>3. ASSUME NEW s \in States, NEW p \in Providers, NEW u \in Known \cup {Nobody},
             states' = With(states, s, [provider |-> p, user |-> u]), begun' = begun \cup {s},
             UNCHANGED <<users, accounts, handler, audit, linked, doubtful>>
      PROVE  TypeOK' /\ AccountsInv'
  <2>1. Known' = Known
    BY <1>3 DEF Known
  <2>2. /\ DOMAIN states' = DOMAIN states \cup {s}
        /\ states' \in [DOMAIN states' -> StateRow]
        /\ \A t \in DOMAIN states' : states'[t].user \in Known \cup {Nobody}
    <3>1. [provider |-> p, user |-> u] \in StateRow
      BY DEF StateRow, TypeOK
    <3>. QED
      BY <1>3, <3>1 DEF With, TypeOK, UsersAreKnown
  <2>3. TypeOK'
    BY <1>3, <2>1, <2>2 DEF TypeOK
  <2>. QED
    BY <1>3, <2>1, <2>2, <2>3 DEF UsersAreKnown, LinksAreRecorded, LoginsAreLinked
<1>4. ASSUME NEW s \in States, Expire(s) PROVE TypeOK' /\ AccountsInv'
  <2>1. Known' = Known
    BY <1>4 DEF Expire, Known
  <2>2. /\ DOMAIN states' \subseteq DOMAIN states
        /\ states' \in [DOMAIN states' -> StateRow]
        /\ \A t \in DOMAIN states' : states'[t] = states[t]
    BY <1>4 DEF Expire, Without, Restrict, TypeOK
  <2>3. TypeOK'
    BY <1>4, <2>1, <2>2 DEF Expire, TypeOK
  <2>. QED
    BY <1>4, <2>1, <2>2, <2>3 DEF Expire, UsersAreKnown, LinksAreRecorded, LoginsAreLinked
<1>5. ASSUME NEW h \in Handlers, NEW s \in States, NEW i \in Identities, Callback(h, s, i)
      PROVE  TypeOK' /\ AccountsInv'
  <2>. DEFINE pc == IF states[s].user = Nobody THEN "lookup" ELSE "linkcheck"
              r == [pc |-> pc, id |-> i, user |-> states[s].user, deleted |-> "no"]
  <2>1. states[s].user \in Known \cup {Nobody} /\ Known \subseteq UserIds
    BY <1>5 DEF Callback, UsersAreKnown, TypeOK
  <2>2. r \in Requests
    <3>1. CASE states[s].user = Nobody
      BY <3>1 DEF Requests, Login
    <3>2. CASE states[s].user \in Known
      <4>1. states[s].user # Nobody
        BY <2>1, <3>2, OAuthAssumption DEF Nobody
      <4>2. r \in Link
        BY <2>1, <3>2, <4>1 DEF Link
      <4>. QED
        BY <4>2 DEF Requests
    <3>. QED
      BY <2>1, <3>1, <3>2
  <2>3. /\ handler' \in [Handlers -> Requests] /\ handler'[h] = r
        /\ \A g \in Handlers : g # h => handler'[g] = handler[g]
    BY <1>5, <2>2, Moving DEF Callback
  <2>4. /\ DOMAIN states' \subseteq DOMAIN states
        /\ states' \in [DOMAIN states' -> StateRow]
        /\ \A t \in DOMAIN states' : states'[t] = states[t]
    BY <1>5 DEF Callback, Without, Restrict, TypeOK
  <2>5. /\ handler'[h].pc \in {"lookup", "linkcheck"}
        /\ handler'[h].pc = "linkcheck" => handler'[h].user \in Known
    BY <2>1, <2>3
  <2>6. Known' = Known /\ UNCHANGED <<users, accounts, begun, audit, linked, doubtful>>
    BY <1>5 DEF Callback, Known
  <2>7. \A j \in DOMAIN accounts : <<j, accounts[j]>> \in linked
    BY DEF LinksAreRecorded
  <2>. QED
    BY <2>3, <2>4, <2>5, <2>6, <2>7, Preserving DEF TypeOK
<1>6. ASSUME NEW s \in States, NEW p \in Providers, Initiate(s, p)
      PROVE  TypeOK' /\ AccountsInv'
  BY <1>3, <1>6 DEF Initiate
<1>7. ASSUME NEW s \in States, NEW u \in UserIds, NEW p \in Providers, LinkProvider(s, u, p)
      PROVE  TypeOK' /\ AccountsInv'
  BY <1>3, <1>7 DEF LinkProvider
<1>. QED
  BY <1>1, <1>2, <1>4, <1>5, <1>6, <1>7

(***************************************************************************)
(* A new link: of an identity that had none, to a user who is known or     *)
(* made in the same step.                                                  *)
(***************************************************************************)
LEMMA NewLink ==
  ASSUME TypeOK, AccountsInv, NEW h \in Handlers, NEW i \in Identities, NEW u \in UserIds,
         handler[h].id = i, LinkTo(i, u),
         handler' \in [Handlers -> Requests],
         \A g \in Handlers : g # h => handler'[g] = handler[g],
         handler'[h].pc = "issue", handler'[h].user = u, handler'[h].id = i,
         users' \in [Known' -> User], Known' = Known \cup {u},
         UNCHANGED <<states, begun, doubtful>>, audit' \in [UserIds -> Nat]
  PROVE  TypeOK' /\ AccountsInv'
<1>0. /\ DOMAIN accounts' = DOMAIN accounts \cup {i}
      /\ accounts' \in [DOMAIN accounts' -> Known \cup {u}]
      /\ accounts'[i] = u
      /\ \A j \in DOMAIN accounts : j # i => accounts'[j] = accounts[j]
      /\ linked' = linked \cup {<<i, u>>}
      /\ linked' \subseteq Identities \X UserIds
  BY Linking
<1>1. DOMAIN accounts' \subseteq Identities
  BY <1>0 DEF TypeOK
<1>2. \A j \in DOMAIN accounts' : <<j, accounts'[j]>> \in linked'
  <2>1. \A j \in DOMAIN accounts : <<j, accounts[j]>> \in linked
    BY DEF AccountsInv, LinksAreRecorded
  <2>. QED
    BY <1>0, <2>1
<1>3. Known' \subseteq UserIds
  BY DEF TypeOK
<1>. QED
  BY <1>0, <1>1, <1>2, <1>3, Preserving DEF TypeOK

(***************************************************************************)
(* The steps of a login.                                                   *)
(***************************************************************************)
LEMMA StepLogin ==
  ASSUME TypeOK, AccountsInv, NEW h \in Handlers,
         \/ Lookup(h) \/ LookupEmail(h) \/ Touch(h) \/ Attach(h)
         \/ \E u \in UserIds : Create(h, u)
         \/ FetchLinked(h)
  PROVE  TypeOK' /\ AccountsInv'
<1>. DEFINE i == handler[h].id
<1>0. /\ handler[h] \in Login /\ i \in Identities /\ Known \subseteq UserIds
      /\ \A j \in DOMAIN accounts : accounts[j] \in Known /\ <<j, accounts[j]>> \in linked
      /\ handler[h].pc \in {"touch", "attach"} => handler[h].user \in Known
  <2>1. handler[h] \in Login
    BY RequestKinds DEF Lookup, LookupEmail, Touch, Attach, Create, FetchLinked
  <2>. QED
    BY <2>1 DEF Login, TypeOK, AccountsInv, LinksAreRecorded, UsersAreKnown
<1>1. ASSUME Answer(h), UNCHANGED <<users, accounts, states, begun, audit, linked, doubtful>>
      PROVE  TypeOK' /\ AccountsInv'
  <2>1. /\ handler' \in [Handlers -> Requests]
        /\ \A g \in Handlers : g # h => handler'[g] = handler[g]
        /\ handler'[h].pc = "idle"
    BY <1>1, Answering DEF Idle
  <2>. QED
    BY <1>1, <2>1, OnlyTheRequest
<1>2. ASSUME Conflict(h), UNCHANGED <<states, begun, doubtful>> PROVE TypeOK' /\ AccountsInv'
  <2>1. /\ handler' \in [Handlers -> Requests]
        /\ \A g \in Handlers : g # h => handler'[g] = handler[g]
        /\ handler'[h].pc = "fetch"
    BY <1>0, <1>2, Stepping DEF Conflict
  <2>. QED
    BY <1>2, <2>1, OnlyTheRequest DEF Conflict
<1>3. CASE Lookup(h)
  <2>1. CASE i \in DOMAIN accounts /\ Admitted(accounts[i]) /\ Found(h, "touch", accounts[i])
    BY <1>0, <1>3, <2>1, Finding, OnlyTheRequest DEF Lookup
  <2>2. CASE Step(h, "email")
    <3>1. /\ handler' \in [Handlers -> Requests]
          /\ \A g \in Handlers : g # h => handler'[g] = handler[g]
          /\ handler'[h].pc = "email"
      BY <1>0, <2>2, Stepping
    <3>. QED
      BY <1>3, <3>1, OnlyTheRequest DEF Lookup
  <2>. QED
    BY <1>1, <1>3, <2>1, <2>2 DEF Lookup
<1>4. CASE LookupEmail(h)
  <2>1. ASSUME NEW u \in Having(EmailOf[i]), Admitted(u), Found(h, "attach", u)
        PROVE  TypeOK' /\ AccountsInv'
    <3>1. u \in Known
      BY DEF Having, Known
    <3>. QED
      BY <1>0, <1>4, <2>1, <3>1, Finding, OnlyTheRequest DEF LookupEmail
  <2>2. CASE Step(h, "create")
    <3>1. /\ handler' \in [Handlers -> Requests]
          /\ \A g \in Handlers : g # h => handler'[g] = handler[g]
          /\ handler'[h].pc = "create"
      BY <1>0, <2>2, Stepping
    <3>. QED
      BY <1>4, <3>1, OnlyTheRequest DEF LookupEmail
  <2>. QED
    BY <1>1, <1>4, <2>1, <2>2 DEF LookupEmail
<1>5. CASE Touch(h)
  <2>1. /\ handler' \in [Handlers -> Requests]
        /\ \A g \in Handlers : g # h => handler'[g] = handler[g]
        /\ handler'[h].pc = "issue"
        /\ handler'[h].user = handler[h].user /\ handler'[h].id = handler[h].id
    BY <1>0, <1>5, Stepping DEF Touch
  <2>2. users' \in [Known -> User] /\ Known' = Known /\ audit' \in [UserIds -> Nat]
    BY <1>0, <1>5, Reactivating DEF Touch
  <2>3. <<handler[h].id, handler[h].user>> \in linked
    BY <1>5 DEF Touch, AccountsInv, LinksAreRecorded
  <2>4. UNCHANGED <<accounts, states, begun, linked, doubtful>>
    BY <1>5 DEF Touch
  <2>. QED
    BY <1>0, <1>5, <2>1, <2>2, <2>3, <2>4, Preserving DEF Touch, TypeOK
<1>6. CASE Attach(h)
  <2>1. CASE Conflict(h)
    BY <1>2, <1>6, <2>1 DEF Attach
  <2>2. CASE Reactivate(h) /\ LinkTo(i, handler[h].user) /\ Step(h, "issue")
    <3>1. /\ handler' \in [Handlers -> Requests]
          /\ \A g \in Handlers : g # h => handler'[g] = handler[g]
          /\ handler'[h].pc = "issue"
          /\ handler'[h].user = handler[h].user /\ handler'[h].id = handler[h].id
      BY <1>0, <2>2, Stepping
    <3>2. /\ users' \in [Known -> User] /\ audit' \in [UserIds -> Nat]
          /\ Known' = Known \cup {handler[h].user}
      BY <1>0, <1>6, <2>2, Reactivating DEF Attach
    <3>. QED
      BY <1>0, <1>6, <2>2, <3>1, <3>2, NewLink DEF Attach
  <2>. QED
    BY <1>6, <2>1, <2>2 DEF Attach
<1>7. ASSUME NEW u \in UserIds, Create(h, u) PROVE TypeOK' /\ AccountsInv'
  <2>1. CASE Conflict(h)
    BY <1>2, <1>7, <2>1 DEF Create
  <2>2. ASSUME LinkTo(i, u), Move(h, [handler[h] EXCEPT !.pc = "issue", !.user = u]),
               UNCHANGED audit, users' \in [Known' -> User], Known' = Known \cup {u}
        PROVE  TypeOK' /\ AccountsInv'
    <3>1. /\ handler' \in [Handlers -> Requests]
          /\ \A g \in Handlers : g # h => handler'[g] = handler[g]
          /\ handler'[h].pc = "issue" /\ handler'[h].user = u /\ handler'[h].id = i
      BY <1>0, <2>2, Concluding
    <3>2. UNCHANGED <<states, begun, doubtful>> /\ audit' \in [UserIds -> Nat]
      BY <1>7, <2>2 DEF Create, TypeOK
    <3>. QED
      BY <1>0, <2>2, <3>1, <3>2, NewLink
  <2>3. CASE NewUser(h, u, EmailOf[i]) /\ LinkTo(i, u) /\ UNCHANGED audit
    <3>1. [email |-> EmailOf[i], password |-> FALSE, deleted |-> "no"] \in User
      BY <1>0 DEF User, Emails
    <3>2. users' \in [Known' -> User] /\ Known' = Known \cup {u}
      BY <2>3, <3>1 DEF NewUser, With, TypeOK, Known
    <3>. QED
      BY <2>2, <2>3, <3>2 DEF NewUser
  <2>4. CASE /\ u \in Having(EmailOf[i])
             /\ users' = [users EXCEPT ![u].deleted = "no"]
             /\ Move(h, [handler[h] EXCEPT !.pc = "issue", !.user = u])
             /\ LinkTo(i, u)
             /\ UNCHANGED audit
    <3>1. u \in Known /\ [users[u] EXCEPT !.deleted = "no"] \in User
      BY <2>4 DEF Having, Known, TypeOK, User
    <3>2. users' \in [Known' -> User] /\ Known' = Known \cup {u}
      BY <2>4, <3>1 DEF TypeOK, Known
    <3>. QED
      BY <2>2, <2>4, <3>2
  <2>. QED
    BY <1>7, <2>1, <2>3, <2>4 DEF Create
<1>8. CASE FetchLinked(h)
  <2>1. CASE /\ i \in DOMAIN accounts
             /\ Move(h, [handler[h] EXCEPT !.pc = "issue", !.user = accounts[i]])
    <3>1. accounts[i] \in UserIds /\ accounts[i] \in Known /\ <<i, accounts[i]>> \in linked
      BY <1>0, <2>1
    <3>2. /\ handler' \in [Handlers -> Requests]
          /\ \A g \in Handlers : g # h => handler'[g] = handler[g]
          /\ handler'[h].pc = "issue" /\ handler'[h].user = accounts[i] /\ handler'[h].id = i
      BY <1>0, <2>1, <3>1, Concluding
    <3>. QED
      BY <1>8, <3>1, <3>2, OnlyTheRequest DEF FetchLinked
  <2>. QED
    BY <1>1, <1>8, <2>1 DEF FetchLinked
<1>. QED
  BY <1>3, <1>4, <1>5, <1>6, <1>7, <1>8

(***************************************************************************)
(* The steps of linking and unlinking, the answer, and an early end.       *)
(***************************************************************************)
LEMMA StepLink ==
  ASSUME TypeOK, AccountsInv, NEW h \in Handlers,
         \/ LinkCheck(h) \/ LinkInsert(h) \/ Issue(h)
         \/ \E u \in UserIds, p \in Providers : UnlinkCount(h, u, p)
         \/ UnlinkDelete(h) \/ Abandon(h)
  PROVE  TypeOK' /\ AccountsInv'
<1>. DEFINE i == handler[h].id
<1>0. /\ Known \subseteq UserIds
      /\ \A j \in DOMAIN accounts : accounts[j] \in Known /\ <<j, accounts[j]>> \in linked
  BY DEF TypeOK, AccountsInv, LinksAreRecorded
<1>1. ASSUME Answer(h), UNCHANGED <<users, accounts, states, begun, audit, linked, doubtful>>
      PROVE  TypeOK' /\ AccountsInv'
  <2>1. /\ handler' \in [Handlers -> Requests]
        /\ \A g \in Handlers : g # h => handler'[g] = handler[g]
        /\ handler'[h].pc = "idle"
    BY <1>1, Answering DEF Idle
  <2>. QED
    BY <1>1, <2>1, OnlyTheRequest
<1>2. ASSUME handler[h].pc \in {"linkcheck", "linkinsert"}
      PROVE  /\ handler[h] \in Link /\ i \in Identities
             /\ handler[h].user \in Known
  BY <1>2, RequestKinds DEF Link, AccountsInv, UsersAreKnown
<1>3. CASE LinkCheck(h)
  <2>1. CASE i \in DOMAIN accounts /\ accounts[i] = handler[h].user /\ Step(h, "issue")
    <3>1. /\ handler' \in [Handlers -> Requests]
          /\ \A g \in Handlers : g # h => handler'[g] = handler[g]
          /\ handler'[h].pc = "issue"
          /\ handler'[h].user = accounts[i] /\ handler'[h].id = i
      BY <1>2, <1>3, <2>1, Stepping DEF LinkCheck
    <3>. QED
      BY <1>0, <1>3, <2>1, <3>1, OnlyTheRequest DEF LinkCheck
  <2>2. CASE Step(h, "linkinsert")
    <3>1. /\ handler' \in [Handlers -> Requests]
          /\ \A g \in Handlers : g # h => handler'[g] = handler[g]
          /\ handler'[h].pc = "linkinsert" /\ handler'[h].user \in Known
      BY <1>2, <1>3, <2>2, Stepping DEF LinkCheck
    <3>. QED
      BY <1>3, <3>1, OnlyTheRequest DEF LinkCheck
  <2>. QED
    BY <1>1, <1>3, <2>1, <2>2 DEF LinkCheck
<1>4. CASE LinkInsert(h)
  <2>1. CASE i \notin DOMAIN accounts /\ LinkTo(i, handler[h].user) /\ Step(h, "issue")
    <3>1. /\ handler' \in [Handlers -> Requests]
          /\ \A g \in Handlers : g # h => handler'[g] = handler[g]
          /\ handler'[h].pc = "issue"
          /\ handler'[h].user = handler[h].user /\ handler'[h].id = i
      BY <1>2, <1>4, <2>1, Stepping DEF LinkInsert
    <3>2. /\ handler[h].user \in Known /\ handler[h].user \in UserIds /\ i \in Identities
      BY <1>0, <1>2, <1>4 DEF LinkInsert
    <3>3. /\ users' \in [Known' -> User] /\ Known' = Known \cup {handler[h].user}
          /\ UNCHANGED <<states, begun, doubtful>> /\ audit' \in [UserIds -> Nat]
      BY <1>4, <3>2 DEF LinkInsert, TypeOK, Known
    <3>. QED
      BY <2>1, <3>1, <3>2, <3>3, NewLink
  <2>. QED
    BY <1>1, <1>4, <2>1 DEF LinkInsert
<1>5. CASE Issue(h) \/ Abandon(h)
  BY <1>1, <1>5 DEF Issue, Abandon
<1>6. ASSUME NEW u \in UserIds, NEW p \in Providers, UnlinkCount(h, u, p)
      PROVE  TypeOK' /\ AccountsInv'
  <2>1. [pc |-> "unlink", user |-> u, provider |-> p] \in Requests
    BY DEF Requests, Unlink
  <2>2. /\ handler' \in [Handlers -> Requests]
        /\ \A g \in Handlers : g # h => handler'[g] = handler[g]
        /\ handler'[h].pc = "unlink" /\ handler'[h].user = u
    BY <1>6, <2>1, Moving DEF UnlinkCount
  <2>3. /\ UNCHANGED <<users, accounts, states, begun, audit, linked>> /\ Known' = Known
        /\ doubtful' \subseteq UserIds
    BY <1>6 DEF UnlinkCount, Known, TypeOK
  <2>4. u \in Known /\ \A j \in DOMAIN accounts : <<j, accounts[j]>> \in linked
    BY <1>0, <1>6 DEF UnlinkCount
  <2>. QED
    BY <2>2, <2>3, <2>4, Preserving DEF TypeOK
<1>7. CASE UnlinkDelete(h)
  <2>1. /\ handler' \in [Handlers -> Requests]
        /\ \A g \in Handlers : g # h => handler'[g] = handler[g]
        /\ handler'[h].pc = "idle"
    BY <1>7, Answering DEF UnlinkDelete, Idle
  <2>2. /\ DOMAIN accounts' \subseteq DOMAIN accounts
        /\ accounts' \in [DOMAIN accounts' -> Known]
        /\ \A j \in DOMAIN accounts' : accounts'[j] = accounts[j]
    BY <1>7, Unlinking DEF UnlinkDelete
  <2>3. /\ UNCHANGED <<users, states, begun, audit, linked, doubtful>> /\ Known' = Known
    BY <1>7 DEF UnlinkDelete, Known
  <2>4. \A j \in DOMAIN accounts' : <<j, accounts'[j]>> \in linked'
    BY <1>0, <2>2, <2>3
  <2>. QED
    BY <2>1, <2>2, <2>3, <2>4, Preserving DEF TypeOK
<1>. QED
  BY <1>3, <1>4, <1>5, <1>6, <1>7

LEMMA StepInv == TypeOK /\ AccountsInv /\ [Next]_vars => TypeOK' /\ AccountsInv'
<1>. SUFFICES ASSUME TypeOK, AccountsInv, [Next]_vars PROVE TypeOK' /\ AccountsInv'
  OBVIOUS
<1>1. CASE UNCHANGED vars
  <2>1. Known' = Known
    BY <1>1 DEF vars, Known
  <2>. QED
    BY <1>1, <2>1 DEF vars, TypeOK, AccountsInv, UsersAreKnown, LinksAreRecorded, LoginsAreLinked
<1>2. CASE Next
  BY <1>2, StepBeginning, StepLogin, StepLink DEF Next, Proceed
<1>. QED
  BY <1>1, <1>2

LEMMA AccountsInvariant == Spec => [](TypeOK /\ AccountsInv)
  BY InitInv, StepInv, PTL DEF Spec

(***************************************************************************)
(* Users, identities, state tokens and requests are well formed in every   *)
(* reachable state.                                                        *)
(***************************************************************************)
THEOREM AccountsTypeCorrect == Spec => []TypeOK
  BY AccountsInvariant, PTL

(***************************************************************************)
(* However logins, links and unlinks race and wherever they stop, a login  *)
(* is answered for a user its identity is or was linked to                 *)
(* (find_or_create_user, fetch_linked_oauth_user).                         *)
(***************************************************************************)
THEOREM LoginsGetTheirOwnUser == Spec => []LoginsAreLinked
<1>1. AccountsInv => LoginsAreLinked
  BY DEF AccountsInv, LinksAreRecorded
<1>. QED
  BY <1>1, AccountsInvariant, PTL

(***************************************************************************)
(* An INSERT into oauth_accounts is of an identity without a row, and a    *)
(* DELETE changes no row that stays.                                       *)
(***************************************************************************)
LEMMA StepIdentitiesStay ==
  ASSUME TypeOK, [Next]_vars, NEW i \in DOMAIN accounts, i \in DOMAIN accounts'
  PROVE  accounts'[i] = accounts[i]
<1>1. ASSUME NEW j \in Identities, NEW u, j \notin DOMAIN accounts, LinkTo(j, u)
      PROVE  accounts'[i] = accounts[i]
  BY <1>1 DEF LinkTo, With
<1>2. ASSUME NEW h \in Handlers, Attach(h) PROVE accounts'[i] = accounts[i]
  <2>1. handler[h].id \in Identities
    BY <1>2, RequestKinds DEF Attach, Login
  <2>. QED
    BY <1>1, <1>2, <2>1 DEF Attach, Conflict
<1>3. ASSUME NEW h \in Handlers, NEW u \in UserIds, Create(h, u)
      PROVE  accounts'[i] = accounts[i]
  <2>1. handler[h].id \in Identities
    BY <1>3, RequestKinds DEF Create, Login
  <2>. QED
    BY <1>1, <1>3, <2>1 DEF Create, Conflict
<1>4. ASSUME NEW h \in Handlers, LinkInsert(h) PROVE accounts'[i] = accounts[i]
  <2>1. handler[h].id \in Identities
    BY <1>4, RequestKinds DEF LinkInsert, Link
  <2>. QED
    BY <1>1, <1>4, <2>1 DEF LinkInsert
<1>5. ASSUME NEW h \in Handlers, UnlinkDelete(h) PROVE accounts'[i] = accounts[i]
  BY <1>5, Unlinking DEF UnlinkDelete
<1>6. ASSUME NEW h \in Handlers,
             \/ Lookup(h) \/ LookupEmail(h) \/ Touch(h) \/ FetchLinked(h)
             \/ LinkCheck(h) \/ Issue(h) \/ Abandon(h)
             \/ \E u \in UserIds, p \in Providers : UnlinkCount(h, u, p)
             \/ \E s \in States, j \in Identities : Callback(h, s, j)
      PROVE  accounts' = accounts
  BY <1>6 DEF Lookup, LookupEmail, Touch, FetchLinked, LinkCheck, Issue, Abandon,
              UnlinkCount, Callback
<1>7. ASSUME \/ \E u \in UserIds, e \in Emails : Register(u, e)
             \/ \E u \in UserIds : DeleteAccount(u) \/ CloseWindow(u)
             \/ \E s \in States, p \in Providers : Initiate(s, p)
             \/ \E s \in States, u \in UserIds, p \in Providers : LinkProvider(s, u, p)
             \/ \E s \in States : Expire(s)
             \/ UNCHANGED vars
      PROVE  accounts' = accounts
  BY <1>7 DEF Register, DeleteAccount, CloseWindow, Initiate, LinkProvider, Expire, vars
<1>. QED
  BY <1>2, <1>3, <1>4, <1>5, <1>6, <1>7 DEF Next, Proceed

(***************************************************************************)
(* No login or link, however it races with others, takes an identity from  *)
(* the user who has it (ON CONFLICT DO NOTHING, the unique key of          *)
(* oauth_accounts).                                                        *)
(***************************************************************************)
THEOREM IdentitiesAreNotTaken == Spec => IdentitiesStay
<1>1. TypeOK /\ [Next]_vars
        => [\A i \in DOMAIN accounts : i \in DOMAIN accounts' => accounts'[i] = accounts[i]]_vars
  BY StepIdentitiesStay
<1>. QED
  BY <1>1, AccountsTypeCorrect, PTL DEF Spec, IdentitiesStay

(***************************************************************************)
(* What a step does to the row of a user: only an UPDATE of deleted_at.    *)
(***************************************************************************)
LEMMA StepUserRow ==
  ASSUME TypeOK, AccountsInv, [Next]_vars, NEW u \in Known
  PROVE  /\ u \in Known'
         /\ users'[u].password = users[u].password /\ users'[u].email = users[u].email
         /\ \/ users'[u].deleted = users[u].deleted
            \/ users'[u].deleted = "no"
            \/ DeleteAccount(u) \/ CloseWindow(u)
<1>. DEFINE Kept == /\ u \in Known'
                    /\ users'[u].password = users[u].password /\ users'[u].email = users[u].email
                    /\ \/ users'[u].deleted = users[u].deleted
                       \/ users'[u].deleted = "no"
                       \/ DeleteAccount(u) \/ CloseWindow(u)
<1>. users[u] \in User
  BY DEF TypeOK
<1>1. CASE users' = users
  BY <1>1 DEF Known
<1>2. ASSUME NEW v, NEW r, v \notin Known, users' = With(users, v, r) PROVE Kept
  BY <1>2 DEF With, Known
<1>3. ASSUME NEW v \in Known, NEW d, users' = [users EXCEPT ![v].deleted = d],
             d = "no" \/ (v = u => DeleteAccount(u) \/ CloseWindow(u))
      PROVE  Kept
  <2>1. users[v] \in User /\ DOMAIN users' = DOMAIN users
    BY <1>3 DEF TypeOK
  <2>2. CASE v = u
    <3>1. users'[u] = [users[u] EXCEPT !.deleted = d]
      BY <1>3, <2>2 DEF TypeOK
    <3>. QED
      BY <1>3, <2>1, <2>2, <3>1 DEF User, Known
  <2>3. CASE v # u
    BY <1>3, <2>1, <2>3 DEF TypeOK, Known
  <2>. QED
    BY <2>2, <2>3
<1>4. ASSUME NEW v \in UserIds, NEW e \in Emails, Register(v, e) PROVE Kept
  BY <1>2, <1>4 DEF Register
<1>5. ASSUME NEW v \in UserIds, DeleteAccount(v) \/ CloseWindow(v) PROVE Kept
  BY <1>3, <1>5 DEF DeleteAccount, CloseWindow
<1>6. ASSUME NEW h \in Handlers, Touch(h) \/ Attach(h) PROVE Kept
  <2>1. handler[h].user \in Known
    BY <1>6 DEF Touch, Attach, AccountsInv, UsersAreKnown
  <2>2. CASE Conflict(h)
    BY <1>1, <2>2 DEF Conflict
  <2>3. CASE Reactivate(h)
    BY <1>1, <1>3, <2>1, <2>3 DEF Reactivate
  <2>. QED
    BY <1>6, <2>2, <2>3 DEF Touch, Attach
<1>7. ASSUME NEW h \in Handlers, NEW v \in UserIds, Create(h, v) PROVE Kept
  <2>1. CASE Conflict(h)
    BY <1>1, <2>1 DEF Conflict
  <2>2. CASE NewUser(h, v, EmailOf[handler[h].id])
    BY <1>2, <2>2 DEF NewUser
  <2>3. CASE /\ v \in Having(EmailOf[handler[h].id])
             /\ users' = [users EXCEPT ![v].deleted = "no"]
    BY <1>3, <2>3 DEF Having, Known
  <2>. QED
    BY <1>7, <2>1, <2>2, <2>3 DEF Create
<1>. QED
  <2>1. \/ users' = users
        \/ \E v \in UserIds, e \in Emails : Register(v, e)
        \/ \E v \in UserIds : DeleteAccount(v) \/ CloseWindow(v)
        \/ \E h \in Handlers : \/ Touch(h) \/ Attach(h)
                               \/ \E v \in UserIds : Create(h, v)
    BY DEF Next, Proceed, vars, Initiate, LinkProvider, Expire, Callback, UnlinkCount, Lookup,
           LookupEmail, FetchLinked, LinkCheck, LinkInsert, Issue, UnlinkDelete, Abandon
  <2>. QED
    BY <1>1, <1>4, <1>5, <1>6, <1>7, <2>1

(***************************************************************************)
(* A row that is new is of a user with a password, or linked in the same   *)
(* transaction, and not deleted.                                           *)
(***************************************************************************)
LEMMA StepNewUser ==
  ASSUME TypeOK, AccountsInv, [Next]_vars, NEW u \in Known', u \notin Known
  PROVE  users'[u].deleted = "no" /\ (users'[u].password \/ LinksOf(u)' # {})
<1>1. ASSUME NEW v \in UserIds, NEW e \in Emails, Register(v, e)
      PROVE  users'[u].deleted = "no" /\ users'[u].password
  BY <1>1 DEF Register, With, Known
<1>2. ASSUME NEW h \in Handlers, NEW v \in UserIds, Create(h, v)
      PROVE  users'[u].deleted = "no" /\ LinksOf(u)' # {}
  <2>0. handler[h].id \in Identities
    BY <1>2, RequestKinds DEF Create, Login
  <2>1. ~(Conflict(h) \/ users' = [users EXCEPT ![v].deleted = "no"])
    BY DEF Conflict, Known, TypeOK
  <2>2. NewUser(h, v, EmailOf[handler[h].id]) /\ LinkTo(handler[h].id, v)
    BY <1>2, <2>1 DEF Create
  <2>3. u = v /\ users'[u].deleted = "no"
    BY <2>2 DEF NewUser, With, Known
  <2>4. handler[h].id \in LinksOf(v)'
    BY <2>0, <2>2, Linking, <1>2 DEF LinksOf
  <2>. QED
    BY <2>3, <2>4
<1>3. \/ \E v \in UserIds, e \in Emails : Register(v, e)
      \/ \E h \in Handlers, v \in UserIds : Create(h, v)
  <2>1. ASSUME NEW h \in Handlers, Touch(h) \/ Attach(h) PROVE Known' = Known
    <3>1. handler[h].user \in Known
      BY <2>1 DEF Touch, Attach, AccountsInv, UsersAreKnown
    <3>. QED
      BY <2>1, <3>1, Reactivating DEF Touch, Attach, Conflict, Known
  <2>2. ASSUME NEW v \in UserIds, DeleteAccount(v) \/ CloseWindow(v) PROVE Known' = Known
    BY <2>2 DEF DeleteAccount, CloseWindow, Known
  <2>3. users' # users
    BY DEF Known
  <2>. QED
    BY <2>1, <2>2, <2>3 DEF Next, Proceed, vars, Initiate, LinkProvider, Expire, Callback,
           UnlinkCount, Lookup, LookupEmail, FetchLinked, LinkCheck, LinkInsert, Issue,
           UnlinkDelete, Abandon
<1>. QED
  BY <1>1, <1>2, <1>3

(***************************************************************************)
(* A user loses an identity only to a DELETE that was asked for it.        *)
(***************************************************************************)
LEMMA StepLinksOf ==
  ASSUME TypeOK, [Next]_vars, NEW u \in Known, NEW i \in LinksOf(u), i \notin LinksOf(u)'
  PROVE  \E h \in Handlers : /\ UnlinkDelete(h) /\ handler[h].user = u
                             /\ ProviderOf[i] = handler[h].provider
<1>1. i \in DOMAIN accounts /\ accounts[i] = u
  BY DEF LinksOf
<1>2. i \notin DOMAIN accounts'
  BY <1>1, StepIdentitiesStay DEF LinksOf
<1>3. \A j, v : LinkTo(j, v) => i \in DOMAIN accounts'
  BY <1>1 DEF LinkTo, With
<1>4. \E h \in Handlers : UnlinkDelete(h)
  <2>1. accounts' # accounts
    BY <1>1, <1>2
  <2>. QED
    BY <1>2, <1>3, <2>1
       DEF Next, Proceed, vars, Register, DeleteAccount, CloseWindow, Initiate, LinkProvider,
           Expire, Callback, UnlinkCount, Lookup, LookupEmail, Touch, Attach, Create, Conflict,
           FetchLinked, LinkCheck, LinkInsert, Issue, Abandon
<1>5. PICK h \in Handlers : UnlinkDelete(h)
  BY <1>4
<1>6. i \in {j \in LinksOf(handler[h].user) : ProviderOf[j] = handler[h].provider}
  BY <1>1, <1>2, <1>5, Unlinking DEF UnlinkDelete
<1>. QED
  BY <1>1, <1>5, <1>6 DEF LinksOf

(***************************************************************************)
(* How a request comes to hold what it has read of a user.                 *)
(***************************************************************************)
LEMMA StepRequest ==
  ASSUME TypeOK, AccountsInv, [Next]_vars, NEW h \in Handlers, handler'[h] # handler[h]
  PROVE  /\ handler'[h].pc \in {"touch", "attach"} =>
              users' = users /\ users[handler'[h].user].deleted # "old"
         /\ handler'[h].pc = "create" => LookupEmail(h) /\ handler'[h].id = handler[h].id
                                         /\ handler[h].id \in Identities
         /\ handler'[h].pc = "unlink" =>
              \E u \in UserIds, p \in Providers : UnlinkCount(h, u, p)
<1>. DEFINE Read == /\ handler'[h].pc \in {"touch", "attach"} =>
                         users' = users /\ users[handler'[h].user].deleted # "old"
                    /\ handler'[h].pc = "create" => LookupEmail(h) /\ handler'[h].id = handler[h].id
                                                    /\ handler[h].id \in Identities
                    /\ handler'[h].pc = "unlink" =>
                         \E u \in UserIds, p \in Providers : UnlinkCount(h, u, p)
<1>1. ASSUME NEW g \in Handlers, NEW r, Move(g, r) PROVE g = h /\ handler'[h] = r
  BY <1>1 DEF Move, TypeOK
<1>2. ASSUME NEW g \in Handlers, Answer(g) PROVE Read
  BY <1>1, <1>2 DEF Answer, Idle
<1>3. ASSUME NEW g \in Handlers, NEW pc, Step(g, pc) PROVE g = h /\ handler'[h] = [handler[h] EXCEPT !.pc = pc]
  BY <1>1, <1>3 DEF Step
<1>4. ASSUME NEW g \in Handlers, handler[g] \in Login \cup Link, NEW pc, Step(g, pc),
             pc \in {"email", "fetch", "linkinsert", "issue"}
      PROVE  Read
  <2>1. handler'[h].pc = pc
    <3>1. g = h /\ handler'[h] = [handler[h] EXCEPT !.pc = pc]
      BY <1>3, <1>4
    <3>2. handler[h] \in Login \cup Link
      BY <1>4, <3>1
    <3>. QED
      BY <3>1, <3>2 DEF Login, Link
  <2>. QED
    BY <1>4, <2>1
<1>5. ASSUME NEW g \in Handlers, NEW u, handler[g] \in Login,
             Move(g, [handler[g] EXCEPT !.pc = "issue", !.user = u])
      PROVE  Read
  <2>1. g = h /\ handler'[h] = [handler[h] EXCEPT !.pc = "issue", !.user = u]
    BY <1>1, <1>5
  <2>2. handler[h] \in Login
    BY <1>5, <2>1
  <2>3. handler'[h].pc = "issue"
    BY <2>1, <2>2 DEF Login
  <2>. QED
    BY <2>3
<1>6. ASSUME NEW g \in Handlers, NEW u \in Known, NEW pc \in {"touch", "attach"},
             handler[g] \in Login, Admitted(u), Found(g, pc, u), users' = users
      PROVE  Read
  <2>1. g = h /\ handler'[h].pc = pc /\ handler'[h].user = u
    BY <1>1, <1>6, Finding DEF Found
  <2>. QED
    BY <1>6, <2>1 DEF Admitted
<1>7. ASSUME NEW g \in Handlers, Lookup(g) PROVE Read
  <2>1. handler[g] \in Login
    BY <1>7, RequestKinds DEF Lookup
  <2>2. \A i \in DOMAIN accounts : accounts[i] \in Known
    BY DEF TypeOK
  <2>. QED
    BY <1>2, <1>4, <1>6, <1>7, <2>1, <2>2 DEF Lookup
<1>8. ASSUME NEW g \in Handlers, LookupEmail(g) PROVE Read
  <2>1. handler[g] \in Login
    BY <1>8, RequestKinds DEF LookupEmail
  <2>2. CASE Step(g, "create")
    <3>1. g = h /\ handler'[h].pc = "create" /\ handler'[h].id = handler[h].id
      <4>1. g = h /\ handler'[h] = [handler[h] EXCEPT !.pc = "create"]
        BY <1>3, <2>2
      <4>2. handler[h] \in Login
        BY <2>1, <4>1
      <4>. QED
        BY <4>1, <4>2 DEF Login
    <3>. QED
      BY <1>8, <2>1, <3>1 DEF Login
  <2>3. \A e : Having(e) \subseteq Known
    BY DEF Having, Known
  <2>. QED
    BY <1>2, <1>6, <1>8, <2>1, <2>2, <2>3 DEF LookupEmail
<1>9. ASSUME NEW g \in Handlers,
             \/ Touch(g) \/ Attach(g) \/ FetchLinked(g)
             \/ \E u \in UserIds : Create(g, u)
      PROVE  Read
  <2>1. handler[g] \in Login
    BY <1>9, RequestKinds DEF Touch, Attach, FetchLinked, Create
  <2>. QED
    BY <1>2, <1>4, <1>5, <1>9, <2>1 DEF Touch, Attach, FetchLinked, Create, Conflict, NewUser
<1>10. ASSUME NEW g \in Handlers,
              LinkCheck(g) \/ LinkInsert(g) \/ Issue(g) \/ UnlinkDelete(g) \/ Abandon(g)
       PROVE  Read
  <2>1. LinkCheck(g) \/ LinkInsert(g) => handler[g] \in Link
    BY RequestKinds DEF LinkCheck, LinkInsert
  <2>. QED
    BY <1>2, <1>4, <1>10, <2>1 DEF LinkCheck, LinkInsert, Issue, UnlinkDelete, Abandon
<1>11. ASSUME NEW g \in Handlers, NEW s \in States, NEW i \in Identities, Callback(g, s, i)
       PROVE  Read
  <2>1. handler'[h].pc \in {"lookup", "linkcheck"}
    BY <1>1, <1>11 DEF Callback
  <2>. QED
    BY <2>1
<1>12. ASSUME NEW g \in Handlers, NEW u \in UserIds, NEW p \in Providers, UnlinkCount(g, u, p)
       PROVE  Read
  <2>1. g = h /\ handler'[h].pc = "unlink"
    BY <1>1, <1>12 DEF UnlinkCount
  <2>. QED
    BY <1>12, <2>1
<1>. QED
  BY <1>7, <1>8, <1>9, <1>10, <1>11, <1>12
     DEF Next, Proceed, vars, Register, DeleteAccount, CloseWindow, Initiate, LinkProvider, Expire

(***************************************************************************)
(* The invariant of unlinking: what an unlink request counted it still     *)
(* finds, for it is the only one that takes identities from its user, and  *)
(* it takes those of its provider.  Of users in doubt nothing is said.     *)
(***************************************************************************)
Keeps(h) == \/ users[handler[h].user].password
            \/ \E i \in LinksOf(handler[h].user) : ProviderOf[i] # handler[h].provider

UnlinksLeaveOne ==
  \A h \in Handlers : handler[h].pc = "unlink" /\ handler[h].user \notin doubtful => Keeps(h)

UnlinksAreApart ==
  \A g, h \in Handlers : handler[g].pc = "unlink" /\ handler[h].pc = "unlink" /\ g # h
    => handler[g].user # handler[h].user \/ handler[g].user \in doubtful

LoginMethodsInv == NobodyIsLockedOut /\ UnlinksLeaveOne /\ UnlinksAreApart

\* A user once in doubt stays so.
LEMMA StepDoubtful == [Next]_vars => doubtful \subseteq doubtful'
BY DEF Next, Proceed, vars, Register, DeleteAccount, CloseWindow, Initiate, LinkProvider, Expire,
       Callback, UnlinkCount, UnlinkDelete, Lookup, LookupEmail, Touch, Attach, Create, FetchLinked,
       LinkCheck, LinkInsert, Issue, Abandon

LEMMA StepUnlinksAreApart ==
  ASSUME TypeOK, AccountsInv, LoginMethodsInv, [Next]_vars
  PROVE  UnlinksAreApart'
<1>. SUFFICES ASSUME NEW g \in Handlers, NEW h \in Handlers, g # h,
                     handler'[g].pc = "unlink", handler'[h].pc = "unlink",
                     handler'[g].user = handler'[h].user
              PROVE  handler'[g].user \in doubtful'
  BY DEF UnlinksAreApart
<1>1. ASSUME NEW a \in Handlers, NEW b \in Handlers, a # b,
             handler'[b].pc = "unlink", handler'[a].user = handler'[b].user,
             NEW u \in UserIds, NEW p \in Providers, UnlinkCount(a, u, p)
      PROVE  handler'[a].user \in doubtful'
  <2>1. handler'[a].user = u /\ handler'[b] = handler[b]
    BY <1>1 DEF UnlinkCount, Move, TypeOK
  <2>2. Overtaken(u)
    BY <1>1, <2>1 DEF Overtaken
  <2>. QED
    BY <1>1, <2>1, <2>2 DEF UnlinkCount
<1>2. CASE handler'[g] # handler[g]
  BY <1>1, <1>2, StepRequest
<1>3. CASE handler'[h] # handler[h]
  BY <1>1, <1>3, StepRequest
<1>4. CASE handler'[g] = handler[g] /\ handler'[h] = handler[h]
  BY <1>4, StepDoubtful DEF LoginMethodsInv, UnlinksAreApart
<1>. QED
  BY <1>2, <1>3, <1>4

LEMMA StepUnlinksLeaveOne ==
  ASSUME TypeOK, AccountsInv, LoginMethodsInv, [Next]_vars
  PROVE  UnlinksLeaveOne'
<1>. SUFFICES ASSUME NEW h \in Handlers, handler'[h].pc = "unlink", handler'[h].user \notin doubtful'
              PROVE  Keeps(h)'
  BY DEF UnlinksLeaveOne
<1>1. CASE handler'[h] # handler[h]
  <2>1. PICK u \in UserIds, p \in Providers : UnlinkCount(h, u, p)
    BY <1>1, StepRequest
  <2>2. handler'[h].user = u /\ handler'[h].provider = p
    BY <2>1 DEF UnlinkCount, Move, TypeOK
  <2>3. users' = users /\ accounts' = accounts
    BY <2>1 DEF UnlinkCount
  <2>4. CASE Cardinality(LinksOf(u)) > 1
    <3>1. LinksOf(u) # {} /\ \A i : LinksOf(u) # {i}
      <4>1. LinksOf(u) = {} => Cardinality(LinksOf(u)) = 0
        BY FS_EmptySet, Zenon
      <4>2. \A i : LinksOf(u) = {i} => Cardinality(LinksOf(u)) = 1
        BY FS_Singleton, Zenon
      <4>. HIDE DEF LinksOf
      <4>. QED
        BY <2>4, <4>1, <4>2
    <3>2. PICK i, j : i \in LinksOf(u) /\ j \in LinksOf(u) /\ i # j
      <4>1. PICK i : i \in LinksOf(u)
        BY <3>1
      <4>2. (\A j \in LinksOf(u) : j = i) => LinksOf(u) = {i}
        BY <4>1
      <4>3. ~(\A j \in LinksOf(u) : j = i)
        BY <3>1, <4>2
      <4>. QED
        BY <4>1, <4>3
    <3>3. /\ i \in DOMAIN accounts /\ accounts[i] = u
          /\ j \in DOMAIN accounts /\ accounts[j] = u
      BY <3>2 DEF LinksOf
    <3>4. ProviderOf[i] # p \/ ProviderOf[j] # p
      <4>1. ~TwoAt(u, p)
        BY <2>1, <2>2 DEF UnlinkCount
      <4>. QED
        BY <3>2, <4>1 DEF TwoAt
    <3>. QED
      BY <2>2, <2>3, <3>2, <3>4 DEF Keeps, LinksOf
  <2>5. CASE users[u].password
    BY <2>2, <2>3, <2>5 DEF Keeps
  <2>. QED
    BY <2>1, <2>4, <2>5 DEF UnlinkCount
<1>2. CASE handler'[h] = handler[h]
  <2>0. PICK u, p : u = handler[h].user /\ p = handler[h].provider
    OBVIOUS
  <2>1. handler[h].pc = "unlink" /\ u \in Known /\ u \notin doubtful
    BY <1>2, <2>0, StepDoubtful DEF AccountsInv, UsersAreKnown
  <2>2. CASE users[u].password
    BY <1>2, <2>0, <2>1, <2>2, StepUserRow DEF Keeps
  <2>3. ASSUME NEW i \in LinksOf(u), ProviderOf[i] # p, i \notin LinksOf(u)'
        PROVE  FALSE
    <3>1. PICK g \in Handlers : UnlinkDelete(g) /\ handler[g].user = u
                                /\ ProviderOf[i] = handler[g].provider
      BY <2>1, <2>3, StepLinksOf
    <3>2. g # h
      BY <2>0, <2>3, <3>1
    <3>. QED
      BY <2>0, <2>1, <3>1, <3>2 DEF LoginMethodsInv, UnlinksAreApart, UnlinkDelete
  <2>4. Keeps(h)
    BY <2>0, <2>1 DEF LoginMethodsInv, UnlinksLeaveOne
  <2>. QED
    BY <1>2, <2>0, <2>2, <2>3, <2>4 DEF Keeps
<1>. QED
  BY <1>1, <1>2

LEMMA StepNobodyIsLockedOut ==
  ASSUME TypeOK, AccountsInv, LoginMethodsInv, [Next]_vars
  PROVE  NobodyIsLockedOut'
<1>. SUFFICES ASSUME NEW u \in Known', u \notin doubtful'
              PROVE  users'[u].password \/ LinksOf(u)' # {}
  BY DEF NobodyIsLockedOut
<1>0. u \notin doubtful
  BY StepDoubtful
<1>1. CASE u \notin Known
  BY <1>1, StepNewUser
<1>2. CASE u \in Known /\ users[u].password
  BY <1>2, StepUserRow
<1>3. ASSUME u \in Known, ~users[u].password PROVE LinksOf(u)' # {}
  <2>1. PICK i : i \in LinksOf(u)
    BY <1>0, <1>3 DEF LoginMethodsInv, NobodyIsLockedOut
  <2>2. CASE i \in LinksOf(u)'
    BY <2>2
  <2>3. CASE i \notin LinksOf(u)'
    <3>1. PICK h \in Handlers : UnlinkDelete(h) /\ handler[h].user = u
      BY <1>3, <2>1, <2>3, StepLinksOf
    <3>2. PICK j \in LinksOf(u) : ProviderOf[j] # handler[h].provider
      BY <1>0, <1>3, <3>1 DEF LoginMethodsInv, UnlinksLeaveOne, Keeps, UnlinkDelete
    <3>3. handler[h].provider # ProviderOf[j] /\ j \in DOMAIN accounts
      BY <3>2 DEF LinksOf
    <3>4. j \in DOMAIN accounts' /\ accounts'[j] = accounts[j]
      <4>. DEFINE S == {k \in LinksOf(handler[h].user) : ProviderOf[k] = handler[h].provider}
      <4>1. accounts' = Without(accounts, S) /\ j \notin S
        BY <3>1, <3>3 DEF UnlinkDelete
      <4>. HIDE DEF S
      <4>. QED
        BY <3>3, <4>1, Unlinking
    <3>. QED
      BY <3>2, <3>4 DEF LinksOf
  <2>. QED
    BY <2>2, <2>3
<1>. QED
  BY <1>1, <1>2, <1>3

(***************************************************************************)
(* However logins, links and unlinks race, every user keeps a password or  *)
(* an identity to log in with, but for those of whom two unlink requests   *)
(* overlapped or one deleted two identities (unlink_provider,              *)
(* find_or_create_user).                                                   *)
(***************************************************************************)
THEOREM EveryUserCanLogIn == Spec => []NobodyIsLockedOut
<1>1. Init => LoginMethodsInv
  BY DEF Init, LoginMethodsInv, NobodyIsLockedOut, UnlinksLeaveOne, UnlinksAreApart, Known, Idle
<1>2. TypeOK /\ AccountsInv /\ LoginMethodsInv /\ [Next]_vars => LoginMethodsInv'
  BY StepUnlinksAreApart, StepUnlinksLeaveOne, StepNobodyIsLockedOut DEF LoginMethodsInv
<1>3. LoginMethodsInv => NobodyIsLockedOut
  BY DEF LoginMethodsInv
<1>. QED
  BY <1>1, <1>2, <1>3, AccountsInvariant, PTL DEF Spec

(***************************************************************************)
(* The invariant of reactivation: whom a login has found was admitted.     *)
(***************************************************************************)
FoundAreAdmitted ==
  \A h \in Handlers : handler[h].pc \in {"touch", "attach"} =>
    users[handler[h].user].deleted # "old"

LEMMA StepFoundAreAdmitted ==
  ASSUME TypeOK, AccountsInv, FoundAreAdmitted, [Next]_vars
  PROVE  FoundAreAdmitted'
<1>. SUFFICES ASSUME NEW h \in Handlers, handler'[h].pc \in {"touch", "attach"}
              PROVE  users'[handler'[h].user].deleted # "old"
  BY DEF FoundAreAdmitted
<1>1. CASE handler'[h] # handler[h]
  BY <1>1, StepRequest
<1>2. CASE handler'[h] = handler[h]
  <2>1. handler[h].user \in Known /\ users[handler[h].user].deleted # "old"
    BY <1>2 DEF FoundAreAdmitted, AccountsInv, UsersAreKnown
  <2>2. ~CloseWindow(handler[h].user)
    BY <1>2 DEF CloseWindow, Idle
  <2>3. DeleteAccount(handler[h].user) => users'[handler[h].user].deleted = "recent"
    BY <2>1 DEF DeleteAccount, TypeOK, User
  <2>. QED
    BY <1>2, <2>1, <2>2, <2>3, StepUserRow
<1>. QED
  BY <1>1, <1>2

LEMMA StepReactivations ==
  ASSUME TypeOK, AccountsInv, FoundAreAdmitted, [Next]_vars,
         NEW u \in Known, users[u].deleted # "no", users'[u].deleted = "no"
  PROVE  \/ users[u].deleted = "recent" /\ audit'[u] = audit[u] + 1
         \/ \E h \in Handlers : Inserts(h, u)
<1>. u \in UserIds /\ users[u] \in User /\ audit[u] \in Nat
  BY DEF TypeOK
<1>1. ASSUME NEW h \in Handlers, Touch(h) \/ Attach(h)
      PROVE  users[u].deleted = "recent" /\ audit'[u] = audit[u] + 1
  <2>1. Reactivate(h)
    BY <1>1 DEF Touch, Attach, Conflict
  <2>2. /\ users' = [users EXCEPT ![handler[h].user].deleted = "no"]
        /\ audit' = [audit EXCEPT ![handler[h].user] = @ + 1]
    BY <2>1 DEF Reactivate
  <2>3. handler[h].user = u
    BY <2>2 DEF TypeOK
  <2>4. users[u].deleted # "old"
    BY <1>1, <2>3 DEF Touch, Attach, FoundAreAdmitted
  <2>. QED
    BY <2>2, <2>3, <2>4 DEF TypeOK, User
<1>2. ASSUME NEW h \in Handlers, NEW v \in UserIds, Create(h, v) PROVE Inserts(h, u)
  <2>1. ~Conflict(h)
    BY DEF Conflict
  <2>2. ~NewUser(h, v, EmailOf[handler[h].id])
    BY DEF NewUser, With, Known
  <2>3. /\ users' = [users EXCEPT ![v].deleted = "no"]
        /\ handler[h].pc = "create"
        /\ Move(h, [handler[h] EXCEPT !.pc = "issue", !.user = v])
    BY <1>2, <2>1, <2>2 DEF Create
  <2>4. u = v
    BY <2>3 DEF TypeOK
  <2>5. handler[h] \in Login
    BY <2>3, RequestKinds
  <2>6. handler'[h].pc = "issue" /\ handler'[h].user = u
    BY <2>3, <2>4, <2>5, Concluding
  <2>. QED
    BY <2>3, <2>6 DEF Inserts
<1>3. ASSUME NEW v \in UserIds, NEW e \in Emails, Register(v, e) PROVE FALSE
  BY <1>3 DEF Register, With, Known
<1>4. ASSUME NEW v \in UserIds, DeleteAccount(v) \/ CloseWindow(v) PROVE FALSE
  <2>1. PICK d \in {"recent", "old"} : users' = [users EXCEPT ![v].deleted = d]
    BY <1>4 DEF DeleteAccount, CloseWindow
  <2>2. users'[u].deleted = IF u = v THEN d ELSE users[u].deleted
    BY <2>1 DEF TypeOK, User
  <2>. QED
    BY <2>2
<1>5. users' # users
  OBVIOUS
<1>. QED
  BY <1>1, <1>2, <1>3, <1>4, <1>5
     DEF Next, Proceed, vars, Initiate, LinkProvider, Expire, Callback, UnlinkCount, Lookup,
         LookupEmail, FetchLinked, LinkCheck, LinkInsert, Issue, UnlinkDelete, Abandon

(***************************************************************************)
(* But for the INSERT of a user, a deleted account comes back only within  *)
(* the window and with its event in the audit trail                        *)
(* (ensure_reactivation_allowed, write_reactivation_audit_event).          *)
(***************************************************************************)
THEOREM EveryFoundReactivationIsRecorded == Spec => FoundReactivations
<1>1. Init => FoundAreAdmitted
  BY DEF Init, FoundAreAdmitted, Idle
<1>2. TypeOK /\ AccountsInv /\ FoundAreAdmitted /\ [Next]_vars => FoundAreAdmitted'
  BY StepFoundAreAdmitted
<1>3. TypeOK /\ AccountsInv /\ FoundAreAdmitted /\ [Next]_vars
        => [\A u \in Known : (users[u].deleted # "no" /\ users'[u].deleted = "no") =>
              \/ users[u].deleted = "recent" /\ audit'[u] = audit[u] + 1
              \/ \E h \in Handlers : Inserts(h, u)]_vars
  BY StepReactivations
<1>. QED
  BY <1>1, <1>2, <1>3, AccountsInvariant, PTL DEF Spec, FoundReactivations

=============================================================================
