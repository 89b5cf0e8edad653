--------------------------------- MODULE Fbx ---------------------------------
(***************************************************************************)
(* The command line client: processes of fbx that share session.json and   *)
(* config.toml (session.rs, client.rs, auth.rs, config.rs and the commands *)
(* of commands/).                                                          *)
(*                                                                         *)
(* The server is as in WebSession: pair n is the n-th JWT and refresh      *)
(* token it issued; a refresh takes the old token and issues a new pair, a *)
(* logout takes the token in its body when the JWT is good.  std::fs::write*)
(* empties the file, then writes: other processes may come in between.     *)
(***************************************************************************)
EXTENDS Naturals, Sequences, FiniteSets, SequencesExt

CONSTANTS Procs,         \* processes, one after the other under one name
          Users,
          Sources,       \* names of data sources
          MaxPairs,      \* bound: pairs the server issues
          MaxAging,      \* bound: the pairs whose JWT expires, the first so many
          MaxCommands,   \* bound: commands the users start
          MaxRequests,   \* bound: requests of one command
          Failures       \* bound: requests that fail, and processes that die

ASSUME FbxAssumption ==
  /\ MaxPairs \in Nat /\ MaxAging \in Nat /\ MaxCommands \in Nat
  /\ MaxRequests \in Nat \ {0} /\ Failures \in Nat

VARIABLES owner,      \* owner[n]: the user pair n was issued to
          live,       \* pairs whose refresh token the server accepts
          expired,    \* pairs whose JWT has expired
          session,    \* session.json
          config,     \* config.toml: the sources in it
          proc,       \* proc[p]: the command p runs
          commands,   \* how many commands were started
          failed      \* history: how much has failed

vars == <<owner, live, expired, session, config, proc, commands, failed>>
server == <<owner, live, expired>>
disk == <<session, config>>

NoFile == [is |-> "absent"]
Emptied == [is |-> "emptied"]
Torn == [is |-> "torn"]
Session(n, u) == [is |-> "session", pair |-> n, username |-> u]
Config(sources) == [is |-> "config", sources |-> sources]
Idle == [pc |-> "idle"]

Init ==
  /\ owner = << >> /\ live = {} /\ expired = {}
  /\ session = NoFile /\ config = NoFile
  /\ proc = [p \in Procs |-> Idle]
  /\ commands = 0 /\ failed = 0

Fail == failed < Failures /\ failed' = failed + 1
Go(p, pc) == proc' = [proc EXCEPT ![p].pc = pc]
End(p) == proc' = [proc EXCEPT ![p] = Idle]

Begin(p, command) ==
  /\ proc[p] = Idle /\ commands < MaxCommands
  /\ commands' = commands + 1
  /\ proc' = [proc EXCEPT ![p] = command]

\* What a file holds after one of two writers that both emptied it has written:
\* the rest of a longer text stays behind the shorter one.
Written(file, new) == IF file = Emptied \/ file = new THEN {new} ELSE {new, Torn}

-----------------------------------------------------------------------------
(* The server. *)

Issue(u) == Len(owner) < MaxPairs /\ owner' = Append(owner, u)
Newest == Len(owner) + 1

Expire(n) ==
  /\ n \in DOMAIN owner \ expired
  /\ expired' = expired \cup {n}
  /\ UNCHANGED <<owner, live, disk, proc, commands, failed>>

-----------------------------------------------------------------------------
(* session.rs: save, in two steps. mem is the Session of the process, spent  *)
(* (history) the pair it has last exchanged for it.                         *)

Empty(p) ==
  /\ proc[p].pc = "saving"
  /\ session' = Emptied
  /\ Go(p, "writing")
  /\ UNCHANGED <<server, config, commands, failed>>

\* After the save a login is over, and a refresh sends its request once more. A
\* file that was removed since it was emptied stays removed; one that was removed
\* and emptied anew by another process counts as the same file.
Write(p) ==
  /\ proc[p].pc = "writing"
  /\ session' \in IF session = NoFile THEN {NoFile} ELSE Written(session, proc[p].mem)
  /\ IF proc[p].command = "login" THEN End(p) ELSE Go(p, "again")
  /\ UNCHANGED <<server, config, commands, failed>>

-----------------------------------------------------------------------------
(* auth.rs: register and login, and logout. *)

Login(p, u) ==
  /\ Begin(p, [pc |-> "asking", command |-> "login", user |-> u])
  /\ UNCHANGED <<server, disk, failed>>

LoginAnswer(p) ==
  LET u == proc[p].user IN
  /\ proc[p].pc = "asking"
  /\ \/ /\ Issue(u)
        /\ live' = live \cup {Newest}
        /\ \/ /\ proc' = [proc EXCEPT ![p] =
                     [pc |-> "saving", command |-> "login", mem |-> Session(Newest, u), spent |-> 0]]
              /\ UNCHANGED failed
           \/ End(p) /\ Fail          \* the answer is lost
     \/ End(p) /\ UNCHANGED <<owner, live, failed>>   \* 401, 409 or 429
  /\ UNCHANGED <<expired, disk, commands>>

\* home: --server, or the default, is the server of the session. logout does
\* not ask effective_server.
Logout(p, home) ==
  /\ Begin(p, [pc |-> IF session.is = "session" THEN "leaving" ELSE "clearing",
               command |-> "logout", mem |-> session, home |-> home])
  /\ UNCHANGED <<server, disk, failed>>

\* Whatever the answer is, the file goes.
LogoutAnswer(p) ==
  LET n == proc[p].mem.pair IN
  /\ proc[p].pc = "leaving"
  /\ Go(p, "clearing")
  /\ \/ live' = (IF proc[p].home /\ n \notin expired THEN live \ {n} ELSE live) /\ UNCHANGED failed
     \/ UNCHANGED live /\ Fail
  /\ UNCHANGED <<owner, expired, disk, commands>>

Clear(p) ==
  /\ proc[p].pc = "clearing"
  /\ session' = NoFile
  /\ End(p)
  /\ UNCHANGED <<server, config, commands, failed>>

-----------------------------------------------------------------------------
(* ls, rm, download and bucket: requests through send_with_refresh; upload    *)
(* sends its requests without it.                                             *)

Start(p, command, home) ==
  /\ IF session.is = "session"
     THEN Begin(p, [pc |-> "ready", command |-> command, mem |-> session, spent |-> 0,
                    home |-> home, requests |-> 0])
     ELSE Begin(p, Idle)      \* not logged in, or unreadable
  /\ UNCHANGED <<server, disk, failed>>

\* A request is answered, with 401 when the JWT has expired or is another
\* server's. The command goes on, or ends, if only because of another error.
Answered(p) == IF proc[p].requests < MaxRequests - 1
               THEN \/ proc' = [proc EXCEPT ![p].requests = @ + 1, ![p].pc = "ready"]
                    \/ End(p)
               ELSE End(p)
Accepted(p) == proc[p].home /\ proc[p].mem.pair \notin expired
Request(p) ==
  /\ proc[p].pc = "ready"
  /\ \/ Accepted(p) /\ Answered(p)
     \/ /\ ~Accepted(p)
        /\ IF proc[p].command = "upload" THEN End(p) ELSE Go(p, "refreshing")
  /\ UNCHANGED <<server, disk, commands, failed>>

\* refresh_session: the server takes the token and issues a pair in two
\* statements; what is in between can fail, and the answer can get lost.
Took(p) ==
  /\ proc[p].pc = "refreshing" /\ proc[p].mem.pair \in live
  /\ live' = live \ {proc[p].mem.pair}
  /\ Go(p, "taken")
  /\ UNCHANGED <<owner, expired, disk, commands, failed>>
Refused(p) ==
  /\ proc[p].pc = "refreshing" /\ proc[p].mem.pair \notin live
  /\ End(p)
  /\ UNCHANGED <<server, disk, commands, failed>>

\* The pair is that of the answer, the rest that of the session in memory.
BugRefreshed(p, n) == Session(n, IF session.is = "session" THEN session.username ELSE proc[p].mem.username)
Refreshed(p, n) == Session(n, proc[p].mem.username)
BugNext == "again"      \* goes on without save()
NextPc == "saving"
Renewed(p) ==
  /\ proc[p].pc = "taken"
  /\ Issue(owner[proc[p].mem.pair])
  /\ live' = live \cup {Newest}
  /\ proc' = [proc EXCEPT ![p].mem = Refreshed(p, Newest), ![p].pc = NextPc,
                           ![p].spent = proc[p].mem.pair]
  /\ UNCHANGED <<expired, disk, commands, failed>>

\* The same request once more, whatever comes back.
BugAgain(p) ==      \* as often as it gets 401
  /\ proc[p].pc = "again"
  /\ Accepted(p) /\ Answered(p)
  /\ UNCHANGED <<server, disk, commands, failed>>
Again(p) ==
  /\ proc[p].pc = "again"
  /\ \/ Accepted(p) /\ Answered(p)
     \/ ~Accepted(p) /\ End(p)
  /\ UNCHANGED <<server, disk, commands, failed>>

\* An answer does not come, or the process is killed.
Die(p) ==
  /\ proc[p] # Idle
  /\ Fail
  /\ End(p)
  /\ UNCHANGED <<server, disk, commands>>

-----------------------------------------------------------------------------
(* commands/provider.rs: add and remove over config.toml. *)

\* CliConfig::load: the default when the file is missing or cannot be parsed.
Loaded == IF config.is = "config" THEN config.sources ELSE << >>
Kept(sources, name) == {i \in DOMAIN sources: sources[i] # name}
Places(kept) == CHOOSE at \in [1..Cardinality(kept) -> kept]: \A i, j \in DOMAIN at: i < j => at[i] < at[j]
Without(sources, name) == LET at == Places(Kept(sources, name)) IN [i \in DOMAIN at |-> sources[at[i]]]

BugAdded(sources, name) == Append(sources, name)
Added(sources, name) == Append(Without(sources, name), name)

AddSource(p, name) ==
  /\ Begin(p, [pc |-> "config", command |-> "add", new |-> Config(Added(Loaded, name))])
  /\ UNCHANGED <<server, disk, failed>>
RemoveSource(p, name) ==
  /\ IF Contains(Loaded, name)
     THEN Begin(p, [pc |-> "config", command |-> "remove", new |-> Config(Without(Loaded, name))])
     ELSE Begin(p, Idle)      \* no source of that name
  /\ UNCHANGED <<server, disk, failed>>

EmptyConfig(p) ==
  /\ proc[p].pc = "config"
  /\ config' = Emptied
  /\ Go(p, "writing config")
  /\ UNCHANGED <<server, session, commands, failed>>
WriteConfig(p) ==
  /\ proc[p].pc = "writing config"
  /\ config' \in Written(config, proc[p].new)
  /\ End(p)
  /\ UNCHANGED <<server, session, commands, failed>>

-----------------------------------------------------------------------------
Step(p) ==
  \/ Empty(p) \/ Write(p) \/ LoginAnswer(p) \/ LogoutAnswer(p) \/ Clear(p)
  \/ Request(p) \/ Took(p) \/ Refused(p) \/ Renewed(p) \/ Again(p)
  \/ EmptyConfig(p) \/ WriteConfig(p)

Next ==
  \/ \E p \in Procs: \/ Step(p) \/ Die(p)
                     \/ \E u \in Users: Login(p, u)
                     \/ \E home \in BOOLEAN: \/ Logout(p, home)
                                             \/ \E command \in {"call", "upload"}: Start(p, command, home)
                     \/ \E name \in Sources: AddSource(p, name) \/ RemoveSource(p, name)
  \/ \E n \in 1..MaxAging: Expire(n)

\* A process that runs goes on, and the server answers; users, failures and
\* the clock may do nothing.
Spec == Init /\ [][Next]_vars /\ \A p \in Procs: WF_vars(Step(p))

-----------------------------------------------------------------------------
SessionFile == {Session(n, u): n \in DOMAIN owner, u \in Users}

TypeOK ==
  /\ owner \in Seq(Users) /\ live \subseteq DOMAIN owner /\ expired \subseteq DOMAIN owner
  /\ session \in SessionFile \cup {NoFile, Emptied, Torn}
  /\ \/ config \in {NoFile, Emptied, Torn}
     \/ config.is = "config" /\ config.sources \in Seq(Sources) /\ IsInjective(config.sources)
  /\ commands \in 0..MaxCommands /\ failed \in 0..Failures

\* A session on disk is one user's: the name in it belongs to the tokens,
\* although logins and refreshes of several processes replace the file in any
\* order (client.rs:72).
SessionIsOfOne == session.is = "session" => session.username = owner[session.pair]

\* p has handed in the refresh token of pair n, to refresh or to log out, and
\* is about to replace or remove the file.
Replacing(p, n) ==
  \/ proc[p].pc = "taken" /\ proc[p].mem.pair = n
  \/ proc[p].pc \in {"saving", "writing"} /\ proc[p].spent = n
  \/ proc[p].pc = "clearing" /\ proc[p].mem = session

\* Unless something failed, a session that can be read from disk is one the
\* server still refreshes, or the process that made it stale is about to replace
\* or remove it, in whatever order several processes refresh, log in and log out
\* (client.rs:50). It says nothing of a file that cannot be read: two processes
\* that save at once may leave it torn, and the user then has to log in again.
NeverStranded ==
  failed = 0 /\ session.is = "session" =>
    session.pair \in live \/ \E p \in Procs: Replacing(p, session.pair)

\* Every command ends, whatever the server answers: a 401 is answered with one
\* refresh and one more attempt (client.rs:96).
CommandsEnd == \A p \in Procs: [](proc[p] # Idle => <>(proc[p] = Idle))
=============================================================================
