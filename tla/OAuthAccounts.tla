---------------------------- MODULE OAuthAccounts ----------------------------
(***************************************************************************)
(* Accounts and the OAuth identities linked to them:                       *)
(* apps/server/src/api/oauth.rs.                                           *)
(*                                                                         *)
(* Handlers run concurrently and an action is one SQL statement, or the    *)
(* writes of a transaction up to its COMMIT: under READ COMMITTED no other *)
(* transaction sees them earlier, and a statement that meets a row of an   *)
(* open transaction under a unique index waits for that COMMIT.            *)
(***************************************************************************)
EXTENDS Naturals, FiniteSets, Functions

CONSTANTS
  UserIds,     \* users.id
  Identities,  \* accounts at the providers: (provider, provider_user_id)
  ProviderOf,  \* the provider of an identity
  EmailOf,     \* the address in the profile of an identity, NoEmail for none
  NoEmail,
  Padded,      \* identities whose address comes with blanks around it
  States,      \* OAuth state tokens
  Handlers     \* requests in progress

Providers == {ProviderOf[i] : i \in Identities}
Emails == {EmailOf[i] : i \in Identities} \cup {NoEmail}

ASSUME OAuthAssumption ==
  /\ DOMAIN ProviderOf = Identities /\ DOMAIN EmailOf = Identities
  /\ Padded \subseteq Identities
  /\ "none" \notin UserIds \cup Identities

VARIABLES
  users,     \* rows of users, by id
  accounts,  \* rows of oauth_accounts: the user of a linked identity
  states,    \* rows of oauth_states, by token
  begun,     \* history: the state tokens handed out
  handler,   \* requests in progress
  audit,     \* account_reactivated events, by user
  linked,    \* history: identities and the users they were linked to
  doubtful   \* history: users an unlink request of whom counted what it cannot rely on

vars == <<users, accounts, states, begun, handler, audit, linked, doubtful>>

Nobody == "none"
Idle == [pc |-> "idle"]

\* users: deleted is the state of deleted_at, "old" past the reactivation
\* window of oauth_reactivation_max_age_days.
User == [email : Emails, password : BOOLEAN, deleted : {"no", "recent", "old"}]

\* oauth_states: a state token belongs to a login or to a user's link flow.
StateRow == [provider : Providers, user : UserIds \cup {Nobody}]

\* A login or link callback; user and deleted are what it read.
Login == [pc : {"lookup", "email", "touch", "attach", "create", "fetch", "issue"},
          id : Identities, user : UserIds \cup {Nobody}, deleted : {"no", "recent"}]
Link == [pc : {"linkcheck", "linkinsert", "issue"}, id : Identities, user : UserIds,
         deleted : {"no"}]
Unlink == [pc : {"unlink"}, user : UserIds, provider : Providers]

Init ==
  /\ users = [u \in {} |-> Idle]
  /\ accounts = [i \in {} |-> Nobody]
  /\ states = [s \in {} |-> Idle]
  /\ begun = {}
  /\ handler = [h \in Handlers |-> Idle]
  /\ audit = [u \in UserIds |-> 0]
  /\ linked = {}
  /\ doubtful = {}

With(f, x, y) == [z \in DOMAIN f \cup {x} |-> IF z = x THEN y ELSE f[z]]
Without(f, S) == Restrict(f, DOMAIN f \ S)

\* The rows SELECT ... WHERE email = $1 finds; placeholder addresses differ.
Having(email) == {u \in DOMAIN users : email # NoEmail /\ users[u].email = email}

Known == DOMAIN users
Move(h, r) == handler' = [handler EXCEPT ![h] = r]
Answer(h) == Move(h, Idle)

---------------------------------------------------------------------------
(* Beginning a flow *)

\* register: a user with a password, unless the address is taken.
Register(u, email) ==
  /\ u \notin Known
  /\ email # NoEmail /\ Having(email) = {}
  /\ users' = With(users, u, [email |-> email, password |-> TRUE, deleted |-> "no"])
  /\ UNCHANGED <<accounts, states, begun, handler, audit, linked, doubtful>>

\* Nothing in the server deletes an account: an operator does.
DeleteAccount(u) ==
  /\ u \in Known
  /\ users[u].deleted = "no"
  /\ users' = [users EXCEPT ![u].deleted = "recent"]
  /\ UNCHANGED <<accounts, states, begun, handler, audit, linked, doubtful>>

\* The reactivation window closes.  Bound: while no request is in progress,
\* for one that has read deleted_at goes by what it read.
CloseWindow(u) ==
  /\ u \in Known
  /\ users[u].deleted = "recent"
  /\ \A h \in Handlers : handler[h] = Idle
  /\ users' = [users EXCEPT ![u].deleted = "old"]
  /\ UNCHANGED <<accounts, states, begun, handler, audit, linked, doubtful>>

\* initiate: a state token for a login.
Initiate(s, p) ==
  /\ s \notin begun
  /\ begun' = begun \cup {s}
  /\ states' = With(states, s, [provider |-> p, user |-> Nobody])
  /\ UNCHANGED <<users, accounts, handler, audit, linked, doubtful>>

\* link_provider: a state token for a user who has no identity at p yet.
LinkProvider(s, u, p) ==
  /\ s \notin begun
  /\ u \in Known
  /\ \A i \in DOMAIN accounts : accounts[i] = u => ProviderOf[i] # p
  /\ begun' = begun \cup {s}
  /\ states' = With(states, s, [provider |-> p, user |-> u])
  /\ UNCHANGED <<users, accounts, handler, audit, linked, doubtful>>

\* The 5 minutes of a state token are over.
Expire(s) ==
  /\ s \in DOMAIN states
  /\ states' = Without(states, {s})
  /\ UNCHANGED <<users, accounts, begun, handler, audit, linked, doubtful>>

\* Mutant: the test for a link flow is inverted.
BugCallback(h, s, i) ==
  /\ handler[h] = Idle
  /\ s \in DOMAIN states
  /\ ProviderOf[i] = states[s].provider
  /\ states' = Without(states, {s})
  /\ Move(h, [pc |-> IF states[s].user = Nobody THEN "linkcheck" ELSE "lookup",
              id |-> i, user |-> states[s].user, deleted |-> "no"])
  /\ UNCHANGED <<users, accounts, begun, audit, linked, doubtful>>

\* callback: DELETE FROM oauth_states RETURNING, then the provider tells
\* which of its identities the browser is logged in as.
Callback(h, s, i) ==
  /\ handler[h] = Idle
  /\ s \in DOMAIN states
  /\ ProviderOf[i] = states[s].provider
  /\ states' = Without(states, {s})
  /\ Move(h, [pc |-> IF states[s].user = Nobody THEN "lookup" ELSE "linkcheck",
              id |-> i, user |-> states[s].user, deleted |-> "no"])
  /\ UNCHANGED <<users, accounts, begun, audit, linked, doubtful>>

---------------------------------------------------------------------------
(* find_or_create_user *)

\* ensure_reactivation_allowed lets the login of an account go on.
Admitted(u) == users[u].deleted # "old"
Step(h, pc) == Move(h, [handler[h] EXCEPT !.pc = pc])
Found(h, pc, u) ==
  Move(h, [handler[h] EXCEPT !.pc = pc, !.user = u, !.deleted = users[u].deleted])

\* SELECT by identity.  An account deleted too long ago is a conflict.
Lookup(h) ==
  LET i == handler[h].id IN
  /\ handler[h].pc = "lookup"
  /\ \/ i \in DOMAIN accounts /\ Admitted(accounts[i]) /\ Found(h, "touch", accounts[i])
     \/ i \in DOMAIN accounts /\ ~Admitted(accounts[i]) /\ Answer(h)
     \/ i \notin DOMAIN accounts /\ Step(h, "email")
  /\ UNCHANGED <<users, accounts, states, begun, audit, linked, doubtful>>

\* Mutant: the window is not checked for an account found by its address.
BugLookupEmail(h) ==
  LET i == handler[h].id
      match == IF i \in Padded THEN {} ELSE Having(EmailOf[i]) IN
  /\ handler[h].pc = "email"
  /\ \/ \E u \in match :
          Move(h, [handler[h] EXCEPT !.pc = "attach", !.user = u, !.deleted = "recent"])
     \/ match = {} /\ Step(h, "create")
  /\ UNCHANGED <<users, accounts, states, begun, audit, linked, doubtful>>

\* SELECT by the address exactly as the provider gave it.
LookupEmail(h) ==
  LET i == handler[h].id
      match == IF i \in Padded THEN {} ELSE Having(EmailOf[i]) IN
  /\ handler[h].pc = "email"
  /\ \/ \E u \in match : Admitted(u) /\ Found(h, "attach", u)
     \/ \E u \in match : ~Admitted(u) /\ Answer(h)
     \/ match = {} /\ Step(h, "create")
  /\ UNCHANGED <<users, accounts, states, begun, audit, linked, doubtful>>

\* UPDATE users SET deleted_at = NULL and write_reactivation_audit_event, of
\* a user that was read as deleted.
Reactivate(h) ==
  LET u == handler[h].user IN
  \/ /\ handler[h].deleted # "no"
     /\ users' = [users EXCEPT ![u].deleted = "no"]
     /\ audit' = [audit EXCEPT ![u] = @ + 1]
  \/ /\ handler[h].deleted = "no"
     /\ UNCHANGED <<users, audit>>

\* The identity was linked: the transaction commits.
Touch(h) ==
  /\ handler[h].pc = "touch"
  /\ Reactivate(h)
  /\ Step(h, "issue")
  /\ UNCHANGED <<accounts, states, begun, linked, doubtful>>

LinkTo(i, u) ==
  /\ accounts' = With(accounts, i, u)
  /\ linked' = linked \cup {<<i, u>>}

\* INSERT INTO oauth_accounts met the identity: the transaction rolls back.
Conflict(h) ==
  /\ handler[h].id \in DOMAIN accounts
  /\ Step(h, "fetch")
  /\ UNCHANGED <<users, accounts, audit, linked>>

\* Mutant: ON CONFLICT DO UPDATE SET user_id instead of DO NOTHING.
BugAttach(h) ==
  /\ handler[h].pc = "attach"
  /\ Reactivate(h)
  /\ LinkTo(handler[h].id, handler[h].user)
  /\ Step(h, "issue")
  /\ UNCHANGED <<states, begun, doubtful>>

\* The address was known: link the identity to its user, and commit.
Attach(h) ==
  /\ handler[h].pc = "attach"
  /\ \/ Conflict(h)
     \/ /\ handler[h].id \notin DOMAIN accounts
        /\ Reactivate(h)
        /\ LinkTo(handler[h].id, handler[h].user)
        /\ Step(h, "issue")
  /\ UNCHANGED <<states, begun, doubtful>>

NewUser(h, u, email) ==
  /\ u \notin Known
  /\ users' = With(users, u, [email |-> email, password |-> FALSE, deleted |-> "no"])
  /\ Move(h, [handler[h] EXCEPT !.pc = "issue", !.user = u])

\* Mutant: the user who was made stays when the identity is already linked.
BugCreate(h, u) ==
  LET i == handler[h].id IN
  /\ handler[h].pc = "create"
  /\ Having(EmailOf[i]) = {}
  /\ NewUser(h, u, EmailOf[i])
  /\ \/ i \in DOMAIN accounts /\ UNCHANGED <<accounts, linked>>
     \/ i \notin DOMAIN accounts /\ LinkTo(i, u)
  /\ UNCHANGED <<states, begun, audit, doubtful>>

\* Nobody was found.  INSERT INTO users takes the trimmed address, and ON
\* CONFLICT (email) reactivates the user who has it.
Create(h, u) ==
  LET i == handler[h].id
      owner == Having(EmailOf[i]) IN
  /\ handler[h].pc = "create"
  /\ \/ Conflict(h)
     \/ /\ i \notin DOMAIN accounts
        /\ owner = {}
        /\ NewUser(h, u, EmailOf[i])
        /\ LinkTo(i, u)
        /\ UNCHANGED audit
     \/ /\ i \notin DOMAIN accounts
        /\ u \in owner
        /\ users' = [users EXCEPT ![u].deleted = "no"]
        /\ Move(h, [handler[h] EXCEPT !.pc = "issue", !.user = u])
        /\ LinkTo(i, u)
        /\ UNCHANGED audit
  /\ UNCHANGED <<states, begun, doubtful>>

\* Mutant: the user of the transaction that rolled back is answered.
BugFetchLinked(h) ==
  /\ handler[h].pc = "fetch"
  /\ \/ handler[h].user # Nobody /\ Step(h, "issue")
     \/ handler[h].user = Nobody /\ Answer(h)
  /\ UNCHANGED <<users, accounts, states, begun, audit, linked, doubtful>>

\* fetch_linked_oauth_user: the user another request linked the identity to.
FetchLinked(h) ==
  LET i == handler[h].id
      active == i \in DOMAIN accounts /\ users[accounts[i]].deleted = "no" IN
  /\ handler[h].pc = "fetch"
  /\ \/ active /\ Move(h, [handler[h] EXCEPT !.pc = "issue", !.user = accounts[i]])
     \/ ~active /\ Answer(h)
  /\ UNCHANGED <<users, accounts, states, begun, audit, linked, doubtful>>

---------------------------------------------------------------------------
(* Linking and unlinking *)

\* The link callback: SELECT, and a conflict when another user has it.
LinkCheck(h) ==
  LET i == handler[h].id IN
  /\ handler[h].pc = "linkcheck"
  /\ \/ i \in DOMAIN accounts /\ accounts[i] = handler[h].user /\ Step(h, "issue")
     \/ i \in DOMAIN accounts /\ accounts[i] # handler[h].user /\ Answer(h)
     \/ i \notin DOMAIN accounts /\ Step(h, "linkinsert")
  /\ UNCHANGED <<users, accounts, states, begun, audit, linked, doubtful>>

\* The link callback: INSERT, an error when the identity is linked by now.
LinkInsert(h) ==
  LET i == handler[h].id IN
  /\ handler[h].pc = "linkinsert"
  /\ \/ i \notin DOMAIN accounts /\ LinkTo(i, handler[h].user) /\ Step(h, "issue")
     \/ i \in DOMAIN accounts /\ Answer(h) /\ UNCHANGED <<accounts, linked>>
  /\ UNCHANGED <<users, states, begun, audit, doubtful>>

\* issue_token_pair and the answer.
Issue(h) ==
  /\ handler[h].pc = "issue"
  /\ Answer(h)
  /\ UNCHANGED <<users, accounts, states, begun, audit, linked, doubtful>>

LinksOf(u) == {i \in DOMAIN accounts : accounts[i] = u}

\* Mutant: the count includes the identity that is about to go.
BugUnlinkCount(h, u, p) ==
  /\ handler[h] = Idle
  /\ u \in Known
  /\ users[u].password \/ Cardinality(LinksOf(u)) >= 1
  /\ Move(h, [pc |-> "unlink", user |-> u, provider |-> p])
  /\ UNCHANGED <<users, accounts, states, begun, audit, linked, doubtful>>

\* What the count does not see: another unlink of the user that has counted and
\* not deleted, and that one DELETE takes two identities.
Overtaken(u) == \E g \in Handlers : handler[g].pc = "unlink" /\ handler[g].user = u
TwoAt(u, p) == \E i, j \in LinksOf(u) : i # j /\ ProviderOf[i] = p /\ ProviderOf[j] = p

\* unlink_provider: has_password and oauth_count are read; together, for no
\* handler writes the password of a row that exists.  The user keeps a password
\* or another identity.
UnlinkCount(h, u, p) ==
  /\ handler[h] = Idle
  /\ u \in Known
  /\ users[u].password \/ Cardinality(LinksOf(u)) > 1
  /\ Move(h, [pc |-> "unlink", user |-> u, provider |-> p])
  /\ doubtful' = IF Overtaken(u) \/ TwoAt(u, p) THEN doubtful \cup {u} ELSE doubtful
  /\ UNCHANGED <<users, accounts, states, begun, audit, linked>>

\* unlink_provider: DELETE of every identity of the user at the provider.
UnlinkDelete(h) ==
  /\ handler[h].pc = "unlink"
  /\ accounts' = Without(accounts, {i \in LinksOf(handler[h].user) :
                                      ProviderOf[i] = handler[h].provider})
  /\ Answer(h)
  /\ UNCHANGED <<users, states, begun, audit, linked, doubtful>>

\* A request ends early: a statement or the provider fails, the client goes
\* away or the server dies.  An open transaction rolls back.
Abandon(h) ==
  /\ handler[h] # Idle
  /\ Answer(h)
  /\ UNCHANGED <<users, accounts, states, begun, audit, linked, doubtful>>

Proceed(h) ==
  \/ Lookup(h) \/ LookupEmail(h) \/ Touch(h) \/ Attach(h)
  \/ \E u \in UserIds : Create(h, u)
  \/ FetchLinked(h) \/ LinkCheck(h) \/ LinkInsert(h) \/ Issue(h) \/ UnlinkDelete(h)

Next ==
  \/ \E u \in UserIds, e \in Emails : Register(u, e)
  \/ \E u \in UserIds : DeleteAccount(u) \/ CloseWindow(u)
  \/ \E s \in States, p \in Providers : Initiate(s, p)
  \/ \E s \in States, u \in UserIds, p \in Providers : LinkProvider(s, u, p)
  \/ \E s \in States : Expire(s)
  \/ \E h \in Handlers, s \in States, i \in Identities : Callback(h, s, i)
  \/ \E h \in Handlers, u \in UserIds, p \in Providers : UnlinkCount(h, u, p)
  \/ \E h \in Handlers : Proceed(h) \/ Abandon(h)

Spec == Init /\ [][Next]_vars

---------------------------------------------------------------------------
(* Properties *)

\* Every row and every request in progress has the shape the code gives it.
TypeOK ==
  /\ Known \subseteq UserIds
  /\ users \in [Known -> User]
  /\ DOMAIN accounts \subseteq Identities
  /\ accounts \in [DOMAIN accounts -> Known]
  /\ DOMAIN states \subseteq begun /\ begun \subseteq States
  /\ states \in [DOMAIN states -> StateRow]
  /\ handler \in [Handlers -> {Idle} \cup Login \cup Link \cup Unlink]
  /\ audit \in [UserIds -> Nat]
  /\ linked \subseteq Identities \X UserIds
  /\ doubtful \subseteq UserIds

\* Only two things take the last way into an account: unlink requests of one
\* user that overlap, and a user with two identities at the provider unlinked.
\* With neither, unlinking "prevents unlinking the last authentication method"
\* (oauth.rs:1426), and no login that loses a race leaves a user behind:
\* "duplicate records are never created" (docs/architecture.md:188).
NobodyIsLockedOut ==
  \A u \in Known \ doubtful : users[u].password \/ LinksOf(u) # {}

\* A login ends with tokens of a user its identity is, or was, linked to,
\* also when its own transaction lost the race and rolled back.
LoginsAreLinked ==
  \A h \in Handlers : handler[h].pc = "issue" =>
    <<handler[h].id, handler[h].user>> \in linked

\* No login or link takes an identity from the user who has it.
IdentitiesStay ==
  [][\A i \in DOMAIN accounts : i \in DOMAIN accounts' => accounts'[i] = accounts[i]]_vars

\* A deleted account comes back only within the window, and with an event in
\* the audit trail: "All reactivations are recorded" (docs/architecture.md:182).
\* The INSERT of a user breaks it (oauth.rs:938), for an address with blanks
\* around it and for an account deleted since the login looked for it.
ReactivationsAreInOrder ==
  [][\A u \in Known : (users[u].deleted # "no" /\ users'[u].deleted = "no") =>
       users[u].deleted = "recent" /\ audit'[u] = audit[u] + 1]_vars

\* Apart from that INSERT, which revives the user who has the address and goes
\* on as that user, what the document says holds, also when the account is
\* deleted or revived by another login after this one has read it.
Inserts(h, u) == handler[h].pc = "create" /\ handler'[h].pc = "issue" /\ handler'[h].user = u
FoundReactivations ==
  [][\A u \in Known : (users[u].deleted # "no" /\ users'[u].deleted = "no") =>
       \/ users[u].deleted = "recent" /\ audit'[u] = audit[u] + 1
       \/ \E h \in Handlers : Inserts(h, u)]_vars

---------------------------------------------------------------------------
(* Why they hold: the inductive invariants *)

\* A request acts for a user who has a row: users are never removed.
UsersAreKnown ==
  /\ \A s \in DOMAIN states : states[s].user \in Known \cup {Nobody}
  /\ \A h \in Handlers :
       handler[h].pc \in {"touch", "attach", "linkcheck", "linkinsert", "issue", "unlink"}
         => handler[h].user \in Known

\* What is linked was linked, and so was the identity of a login that has
\* found its user.
LinksAreRecorded ==
  /\ \A i \in DOMAIN accounts : <<i, accounts[i]>> \in linked
  /\ \A h \in Handlers :
       handler[h].pc = "touch" => <<handler[h].id, handler[h].user>> \in linked
  /\ LoginsAreLinked

AccountsInv == UsersAreKnown /\ LinksAreRecorded

=============================================================================
