----------------------------- MODULE WebSession -----------------------------
(***************************************************************************)
(* A login session: the refresh tokens of apps/server/src/api/auth.rs and  *)
(* the token handling of the web client, apps/web/src/lib/api/client.ts.   *)
(*                                                                         *)
(* Token pairs are numbered in the order the server issues them.  Pair n   *)
(* is a JWT, whose age decides what it is good for, and a refresh token,   *)
(* which is good while the server has its row.  The tabs of the browser    *)
(* share localStorage; refreshing and refreshFailedAt are each tab's own.  *)
(* JavaScript runs a task from one await to the next without interruption, *)
(* so an action is such a stretch of a task.                               *)
(***************************************************************************)
EXTENDS Naturals, FiniteSets

CONSTANTS
  Tabs,        \* tabs of one browser
  Tasks,       \* slots for calls of the API client in progress
  MaxPairs,    \* bound: token pairs the server issues
  MaxAging,    \* bound: the pairs whose JWT grows old, the first so many
  MaxLogins,   \* bound: logins
  MaxCalls     \* bound: calls the user makes

ASSUME SessionAssumption ==
  MaxPairs \in Nat /\ MaxAging \in Nat /\ MaxLogins \in Nat /\ MaxCalls \in Nat

VARIABLES
  issued,   \* how many token pairs the server issued
  family,   \* history: the login a pair descends from, by pair, named by its first
  live,     \* pairs whose refresh token has a row in refresh_tokens
  age,      \* "fresh", "near" (under 60 s left) or "expired", by pair
  store,    \* the pair in localStorage, 0 when there is none
  refresh,  \* refreshing and the request behind it, by tab
  broken,   \* refreshFailedAt is less than 10 s ago, by tab
  task,     \* calls in progress
  calls,    \* how many calls were made
  revoked,  \* history: logins whose logout the server confirmed
  used,     \* history: the tabs that made a call
  failed    \* history: a request was lost or failed, or a refresh token lapsed

history == <<used, failed>>
vars == <<issued, family, live, age, store, refresh, broken, task, calls, revoked, history>>

None == 0
Pairs == 1 .. MaxPairs
NoRefresh == [pc |-> "none"]
Done == [pc |-> "done"]

\* body: the refresh token a logout sends; bearer: the JWT in the header
Task ==
  [pc : {"ready", "asking", "sent", "ok", "unauthorized", "refreshing"}, tab : Tabs,
   kind : {"api", "logout"}, body : 0 .. issued, bearer : 0 .. issued, retry : BOOLEAN]
Refresh ==
  [pc : {"sent", "deleted", "refused"}, pair : 1 .. issued]
  \cup [pc : {"answered"}, pair : 1 .. issued, new : 1 .. issued]

Init ==
  /\ issued = 0
  /\ family = [n \in {} |-> 0]
  /\ live = {}
  /\ age = [n \in {} |-> "fresh"]
  /\ store = None
  /\ refresh = [b \in Tabs |-> NoRefresh]
  /\ broken = [b \in Tabs |-> FALSE]
  /\ task = [k \in Tasks |-> Done]
  /\ calls = 0
  /\ revoked = {}
  /\ used = {}
  /\ failed = FALSE

\* issue_token_pair: a new JWT and a new row in refresh_tokens.
Issue(origin) ==
  LET n == issued + 1 IN
  /\ issued < MaxPairs
  /\ issued' = n
  /\ family' = [m \in 1 .. n |-> IF m = n THEN origin ELSE family[m]]
  /\ age' = [m \in 1 .. n |-> IF m = n THEN "fresh" ELSE age[m]]

\* The logins so far: the pairs that no other pair was refreshed into.
Logins == {n \in 1 .. issued : family[n] = n}

\* login, register and the OAuth callback end in issue_token_pair and
\* saveTokens.
Login ==
  /\ Cardinality(Logins) < MaxLogins
  /\ Issue(issued + 1)
  /\ live' = live \cup {issued + 1}
  /\ store' = issued + 1
  /\ UNCHANGED <<refresh, broken, task, calls, revoked, history>>

---------------------------------------------------------------------------
(* The client: interceptors and doRefresh *)

\* The JWT is expired or within 60 s of it.
Expiring(n) == n # None /\ age[n] # "fresh"

\* Mutant: every caller starts a refresh of its own.
BugJoinRefresh(b) ==
  /\ store # None
  /\ refresh' = [refresh EXCEPT ![b] = [pc |-> "sent", pair |-> store]]

\* doRefresh: join the refresh in flight, or start one with the token in
\* localStorage.
JoinRefresh(b) ==
  \/ /\ refresh[b] # NoRefresh
     /\ UNCHANGED refresh
  \/ /\ refresh[b] = NoRefresh
     /\ store # None
     /\ refresh' = [refresh EXCEPT ![b] = [pc |-> "sent", pair |-> store]]

\* A call begins, from a page that is shown only after a login; logout reads
\* its refresh token before anything else.
Begin(k, b, kind) ==
  /\ issued # 0
  /\ task[k] = Done
  /\ calls < MaxCalls
  /\ calls' = calls + 1
  /\ task' = [task EXCEPT ![k] =
       [pc |-> "ready", tab |-> b, kind |-> kind, retry |-> FALSE, bearer |-> None,
        body |-> IF kind = "logout" THEN store ELSE None]]
  /\ used' = used \cup {b}
  /\ UNCHANGED <<issued, family, live, age, store, refresh, broken, revoked, failed>>

\* The request interceptor awaits a refresh when the JWT is about to expire,
\* unless one failed within 10 s; else the request goes out.
Intercept(k) ==
  LET b == task[k].tab IN
  /\ task[k].pc = "ready"
  /\ \/ /\ Expiring(store) /\ ~broken[b]
        /\ JoinRefresh(b)
        /\ task' = [task EXCEPT ![k].pc = "asking"]
     \/ /\ ~Expiring(store) \/ broken[b]
        /\ task' = [task EXCEPT ![k] = [@ EXCEPT !.pc = "sent", !.bearer = store]]
        /\ UNCHANGED refresh
  /\ UNCHANGED <<issued, family, live, age, store, broken, calls, revoked, history>>

\* Mutant: doRefresh does not look whether localStorage has a token.
BugUnauthorizedNone(k) ==
  /\ task[k].pc = "unauthorized"
  /\ ~task[k].retry
  /\ task' = [task EXCEPT ![k].pc = "refreshing"]
  /\ refresh' = [refresh EXCEPT ![task[k].tab] = [pc |-> "sent", pair |-> store]]
  /\ UNCHANGED <<issued, family, live, age, store, broken, calls, revoked, history>>

\* Mutant: a 401 clears the tokens without an attempt to refresh.
BugUnauthorizedClear(k) ==
  /\ task[k].pc = "unauthorized"
  /\ task' = [task EXCEPT ![k] = Done]
  /\ store' = None
  /\ UNCHANGED <<issued, family, live, age, refresh, broken, calls, revoked, history>>

\* The response interceptor of a 401: doRefresh, then the same request again,
\* once.  A refresh that cannot start clears the tokens.
Unauthorized(k) ==
  LET c == task[k] IN
  /\ c.pc = "unauthorized"
  /\ \/ /\ ~c.retry /\ ~broken[c.tab] /\ (refresh[c.tab] # NoRefresh \/ store # None)
        /\ JoinRefresh(c.tab)
        /\ task' = [task EXCEPT ![k].pc = "refreshing"]
        /\ UNCHANGED <<store, broken>>
     \/ /\ ~c.retry /\ (broken[c.tab] \/ (refresh[c.tab] = NoRefresh /\ store = None))
        /\ task' = [task EXCEPT ![k] = Done]
        /\ store' = None
        /\ broken' = [broken EXCEPT ![c.tab] = TRUE]
        /\ UNCHANGED refresh
     \/ /\ c.retry
        /\ task' = [task EXCEPT ![k] = Done]
        /\ store' = IF c.kind = "logout" THEN None ELSE store
        /\ UNCHANGED <<refresh, broken>>
  /\ UNCHANGED <<issued, family, live, age, calls, revoked, history>>

Waiting(b, pc) == {k \in Tasks : task[k].pc = pc /\ task[k].tab = b}

\* The refresh succeeded: saveTokens.  A call to be sent goes out with the
\* new JWT; a call that got a 401 passes the interceptor once more.
Refreshed(b) ==
  /\ refresh[b].pc = "answered"
  /\ store' = refresh[b].new
  /\ broken' = [broken EXCEPT ![b] = FALSE]
  /\ refresh' = [refresh EXCEPT ![b] = NoRefresh]
  /\ task' = [k \in Tasks |->
       IF k \in Waiting(b, "asking")
       THEN [task[k] EXCEPT !.pc = "sent", !.bearer = store']
       ELSE IF k \in Waiting(b, "refreshing")
            THEN [task[k] EXCEPT !.pc = "ready", !.retry = TRUE] ELSE task[k]]
  /\ UNCHANGED <<issued, family, live, age, calls, revoked, history>>

\* Mutant: a refresh that fails wakes none of the calls that wait for it.
BugRefreshFailed(b) ==
  /\ refresh[b].pc = "refused"
  /\ refresh' = [refresh EXCEPT ![b] = NoRefresh]
  /\ broken' = [broken EXCEPT ![b] = TRUE]
  /\ UNCHANGED <<issued, family, live, age, store, task, calls, revoked, history>>

\* The refresh failed.  A call still to be sent goes out with what
\* localStorage holds; a call that got a 401 clears the tokens and gives up.
RefreshFailed(b) ==
  LET giveUp == Waiting(b, "refreshing") IN
  /\ refresh[b].pc = "refused"
  /\ refresh' = [refresh EXCEPT ![b] = NoRefresh]
  /\ broken' = [broken EXCEPT ![b] = TRUE]
  /\ store' = IF giveUp = {} THEN store ELSE None
  /\ \E bearer \in {store, store'} :
       task' = [k \in Tasks |->
         IF k \in giveUp THEN Done
         ELSE IF k \in Waiting(b, "asking")
              THEN [task[k] EXCEPT !.pc = "sent", !.bearer = bearer] ELSE task[k]]
  /\ UNCHANGED <<issued, family, live, age, calls, revoked, history>>

\* The answer 2xx: a logout clears the tokens.
Succeed(k) ==
  /\ task[k].pc = "ok"
  /\ task' = [task EXCEPT ![k] = Done]
  /\ store' = IF task[k].kind = "logout" THEN None ELSE store
  /\ UNCHANGED <<issued, family, live, age, refresh, broken, calls, revoked, history>>

\* No answer: the error goes to the caller, and AppLayout clears the tokens
\* after a failed logout too.
NoAnswer(k) ==
  /\ task[k].pc \in {"sent", "ok", "unauthorized"}
  /\ task' = [task EXCEPT ![k] = Done]
  /\ store' = IF task[k].kind = "logout" THEN None ELSE store
  /\ failed' = TRUE
  /\ UNCHANGED <<issued, family, live, age, refresh, broken, calls, revoked, used>>

\* The refresh request or its answer is lost, or the server answers 500.
RefreshLost(b) ==
  /\ refresh[b].pc \in {"sent", "deleted", "answered"}
  /\ refresh' = [refresh EXCEPT ![b] = [pc |-> "refused", pair |-> @.pair]]
  /\ failed' = TRUE
  /\ UNCHANGED <<issued, family, live, age, store, broken, task, calls, revoked, used>>

\* 10 s have passed since refreshFailedAt.
CircuitCloses(b) ==
  /\ broken[b]
  /\ broken' = [broken EXCEPT ![b] = FALSE]
  /\ UNCHANGED <<issued, family, live, age, store, refresh, task, calls, revoked, history>>

---------------------------------------------------------------------------
(* The server *)

\* require_auth: the JWT is there and has not passed its exp.
Authorized(n) == n # None /\ age[n] # "expired"

\* require_auth, then the handler; logout deletes the row of the token in
\* the body.
Serve(k) ==
  LET c == task[k] IN
  /\ c.pc = "sent"
  /\ \/ /\ Authorized(c.bearer)
        /\ task' = [task EXCEPT ![k].pc = "ok"]
        /\ live' = live \ {c.body}
        /\ revoked' = revoked \cup (IF c.body = None THEN {} ELSE {family[c.body]})
     \/ /\ ~Authorized(c.bearer)
        /\ task' = [task EXCEPT ![k].pc = "unauthorized"]
        /\ UNCHANGED <<live, revoked>>
  /\ UNCHANGED <<issued, family, age, store, refresh, broken, calls, history>>

\* Mutant: the old refresh token is looked up and not deleted.
BugRotateDelete(b) ==
  /\ refresh[b].pc = "sent"
  /\ \/ /\ refresh[b].pair \in live
        /\ refresh' = [refresh EXCEPT ![b].pc = "deleted"]
     \/ /\ refresh[b].pair \notin live
        /\ refresh' = [refresh EXCEPT ![b].pc = "refused"]
  /\ UNCHANGED <<issued, family, live, age, store, broken, task, calls, revoked, history>>

\* refresh: DELETE ... WHERE token = $1 AND expires_at > NOW() RETURNING.
RotateDelete(b) ==
  /\ refresh[b].pc = "sent"
  /\ \/ /\ refresh[b].pair \in live
        /\ live' = live \ {refresh[b].pair}
        /\ refresh' = [refresh EXCEPT ![b].pc = "deleted"]
     \/ /\ refresh[b].pair \notin live
        /\ refresh' = [refresh EXCEPT ![b].pc = "refused"]
        /\ UNCHANGED live
  /\ UNCHANGED <<issued, family, age, store, broken, task, calls, revoked, history>>

\* refresh: issue_token_pair inserts the new row.
RotateInsert(b) ==
  /\ refresh[b].pc = "deleted"
  /\ Issue(family[refresh[b].pair])
  /\ live' = live \cup {issued + 1}
  /\ refresh' = [refresh EXCEPT ![b] = [pc |-> "answered", pair |-> @.pair, new |-> issued + 1]]
  /\ UNCHANGED <<store, broken, task, calls, revoked, history>>

\* A JWT comes within 60 s of its exp, then passes it.
Older(n) ==
  /\ n \in 1 .. issued
  /\ n <= MaxAging
  /\ age[n] # "expired"
  /\ age' = [age EXCEPT ![n] = IF @ = "fresh" THEN "near" ELSE "expired"]
  /\ UNCHANGED <<issued, family, live, store, refresh, broken, task, calls, revoked, history>>

\* A refresh token passes its expires_at: no query finds it any more.
Lapse(n) ==
  /\ n \in live
  /\ live' = live \ {n}
  /\ failed' = TRUE
  /\ UNCHANGED <<issued, family, age, store, refresh, broken, task, calls, revoked, used>>

TaskStep(k) == Intercept(k) \/ Unauthorized(k) \/ Succeed(k) \/ Serve(k)
RefreshStep(b) == Refreshed(b) \/ RefreshFailed(b) \/ RotateDelete(b) \/ RotateInsert(b)

Next ==
  \/ Login
  \/ \E k \in Tasks, b \in Tabs, kind \in {"api", "logout"} : Begin(k, b, kind)
  \/ \E k \in Tasks : TaskStep(k) \/ NoAnswer(k)
  \/ \E b \in Tabs : RefreshStep(b) \/ RefreshLost(b) \/ CircuitCloses(b)
  \/ \E n \in Pairs : Older(n) \/ Lapse(n)

Spec == Init /\ [][Next]_vars

\* The browser and the server go on with what they have begun.
FairSpec ==
  /\ Spec
  /\ \A k \in Tasks : WF_vars(TaskStep(k))
  /\ \A b \in Tabs : WF_vars(RefreshStep(b))

---------------------------------------------------------------------------
(* Properties *)

\* Every variable has the shape the code gives it.
TypeOK ==
  /\ issued \in 0 .. MaxPairs
  /\ family \in [1 .. issued -> 1 .. issued]
  /\ live \subseteq 1 .. issued
  /\ age \in [1 .. issued -> {"fresh", "near", "expired"}]
  /\ store \in 0 .. issued
  /\ refresh \in [Tabs -> {NoRefresh} \cup Refresh]
  /\ broken \in [Tabs -> BOOLEAN]
  /\ task \in [Tasks -> {Done} \cup Task]
  /\ calls \in Nat
  /\ revoked \subseteq 1 .. issued
  /\ used \subseteq Tabs
  /\ failed \in BOOLEAN

\* However many tabs refresh at once, a login has at most one refresh token
\* the server accepts: the rotation "delete-then-insert" (auth.rs:326).
OneLiveToken ==
  \A m, n \in live : family[m] = family[n] => m = n

\* The inductive invariant behind OneLiveToken: a refresh between its DELETE
\* and its INSERT stands for the one token of its login.
OneChain ==
  /\ OneLiveToken
  /\ \A b \in Tabs : refresh[b].pc = "deleted" =>
       \A n \in live : family[n] # family[refresh[b].pair]
  /\ \A b, c \in Tabs :
       (/\ refresh[b].pc = "deleted" /\ refresh[c].pc = "deleted"
        /\ family[refresh[b].pair] = family[refresh[c].pair]) => b = c

\* Only one tab has made a call, and nothing has failed.
SingleTab == ~failed /\ \A b, c \in used : b = c

\* Every pair descends from the first login.
SingleLogin == \A n \in 1 .. issued : family[n] = 1

\* In this step a logout ends, confirmed or not.
LogoutEnds ==
  \E k \in Tasks : task[k] # Done /\ task[k].kind = "logout" /\ task'[k] = Done

\* While one tab makes the calls of one login and nothing fails, the client
\* gives up its tokens only in a logout, or when the server accepts no token
\* of the login any more.  With a second tab, after a second login or after a
\* failure the code does give up good tokens (client.ts:188).
SessionSurvives ==
  [][(SingleTab /\ SingleLogin /\ store # None /\ store' = None /\ ~LogoutEnds)
       => \A n \in live : family[n] # family[store]]_vars

\* While one tab makes the calls and nothing fails, a tab presents a refresh
\* token that was already used only after a logout used it up: "ensures only
\* one refresh call is in-flight at a time" (client.ts:98).  The promise of
\* the comment ends at the tab: refreshing is not shared with another one.
NoTokenUsedTwice ==
  SingleTab => \A b \in Tabs : refresh[b].pc = "sent" =>
    refresh[b].pair \in live \/ family[refresh[b].pair] \in revoked

\* Every call ends: no call waits for a refresh that never settles, and the
\* retry after a 401 does not go round in circles.
CallsEnd == \A k \in Tasks : task[k] # Done ~> task[k] = Done
=============================================================================
