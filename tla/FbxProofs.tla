------------------------------ MODULE FbxProofs ------------------------------
(***************************************************************************)
(* Proofs about Fbx, for any processes, users and bounds: the session on   *)
(* disk is one user's, without failures nobody is left with a session the  *)
(* server no longer refreshes, and config.toml has no source twice.        *)
(***************************************************************************)
EXTENDS Fbx, FiniteSetTheorems, TLAPS

\* The sessions whose name belongs to their tokens, and what session.json holds.
Good == {Session(n, owner[n]): n \in DOMAIN owner}
NoSession == {NoFile, Emptied, Torn}

\* The commands in progress, by what they carry.
Asking == [pc: {"asking"}, command: {"login"}, user: Users]
LoggingIn(good) == [pc: {"saving", "writing"}, command: {"login"}, mem: good, spent: {0}]
Leaving(good) == [pc: {"leaving"}, command: {"logout"}, mem: good, home: BOOLEAN]
Clearing(good) == [pc: {"clearing"}, command: {"logout"}, mem: good \cup NoSession, home: BOOLEAN]
Calling(good) == [pc: {"ready", "refreshing", "taken", "saving", "writing", "again"},
                  command: {"call", "upload"}, mem: good, spent: Nat, home: BOOLEAN, requests: Nat]
Configuring(r) == \E command, new:
                    r \in [pc: {"config", "writing config"}, command: {command}, new: {new}]
IsProc(r, good) == \/ r = Idle \/ r \in Asking \/ Configuring(r)
                   \/ r \in LoggingIn(good) \/ r \in Leaving(good)
                   \/ r \in Clearing(good) \/ r \in Calling(good)

Typed == /\ owner \in Seq(Users) /\ failed \in Nat
         /\ session \in Good \cup NoSession
         /\ DOMAIN proc = Procs /\ \A p \in Procs: IsProc(proc[p], Good)

\* The pair a process may hand in, the pair on disk, and who will write.
Holds(p) == proc[p].pc \in {"ready", "refreshing", "taken", "saving", "writing", "again", "leaving"}
Token(p) == IF Holds(p) THEN proc[p].mem.pair ELSE 0
OnDisk == IF session.is = "session" THEN session.pair ELSE 0
Writer(p) == proc[p].pc \in {"saving", "writing"}

\* The pair a process is about to write is alive and known to nobody else.
Private ==
  \A p \in Procs: Writer(p) =>
    /\ Token(p) \in live /\ Token(p) # OnDisk
    /\ \A q \in Procs \ {p}: Token(q) # Token(p)

FbxInv == Typed /\ Private /\ NeverStranded

-----------------------------------------------------------------------------
(* Sessions and tokens. *)

LEMMA GoodSessions ==
  ASSUME Typed, NEW s \in Good
  PROVE  /\ s.is = "session" /\ s.pair \in DOMAIN owner /\ s.pair \in Nat \ {0}
         /\ s.username = owner[s.pair]
         /\ s = Session(s.pair, owner[s.pair])
BY DEF Good, Session, Typed

LEMMA CounterOfConfiguring ==
  ASSUME NEW r, Configuring(r)
  PROVE  r.pc \in {"config", "writing config"}
BY DEF Configuring

\* The program counter tells what a process carries.
LEMMA ByCounter ==
  ASSUME NEW r, NEW good, IsProc(r, good)
  PROVE  /\ r.pc = "asking" => r \in Asking
         /\ r.pc \in {"saving", "writing"} => r \in LoggingIn(good) \cup Calling(good)
         /\ r.pc = "leaving" => r \in Leaving(good)
         /\ r.pc = "clearing" => r \in Clearing(good)
         /\ r.pc \in {"ready", "refreshing", "taken", "again"} => r \in Calling(good)
         /\ r.pc \in {"config", "writing config"} => Configuring(r)
<1>1. CASE r = Idle
  BY <1>1 DEF Idle
<1>2. CASE r \in Asking
  BY <1>2 DEF Asking
<1>3. CASE Configuring(r)
  <2>1. r.pc \in {"config", "writing config"}
    BY <1>3, CounterOfConfiguring
  <2> QED
    BY <1>3, <2>1
<1>4. CASE r \in LoggingIn(good)
  <2>1. r.pc \in {"saving", "writing"}
    BY <1>4 DEF LoggingIn
  <2> QED
    BY <1>4, <2>1
<1>5. CASE r \in Leaving(good)
  <2>1. r.pc = "leaving"
    BY <1>5 DEF Leaving
  <2> QED
    BY <1>5, <2>1
<1>6. CASE r \in Clearing(good)
  <2>1. r.pc = "clearing"
    BY <1>6 DEF Clearing
  <2> QED
    BY <1>6, <2>1
<1>7. CASE r \in Calling(good)
  <2>1. r.pc \in {"ready", "refreshing", "taken", "saving", "writing", "again"}
    BY <1>7 DEF Calling
  <2> QED
    BY <1>7, <2>1
<1> QED
  BY <1>1, <1>2, <1>3, <1>4, <1>5, <1>6, <1>7 DEF IsProc

LEMMA NotSessions == \A s \in NoSession: s.is # "session"
BY DEF NoSession, NoFile, Emptied, Torn

LEMMA Tokens ==
  ASSUME Typed
  PROVE  /\ OnDisk \in DOMAIN owner \cup {0}
         /\ \A p \in Procs: /\ Token(p) \in DOMAIN owner \cup {0}
                            /\ Holds(p) => Token(p) # 0 /\ proc[p].mem \in Good
                            /\ Writer(p) => Holds(p)
<1>1. OnDisk \in DOMAIN owner \cup {0}
  BY GoodSessions, NotSessions DEF Typed, OnDisk
<1>2. ASSUME NEW p \in Procs, Holds(p) PROVE proc[p].mem \in Good
  <2>1. proc[p] \in LoggingIn(Good) \cup Calling(Good) \cup Leaving(Good)
    BY <1>2, ByCounter DEF Typed, Holds
  <2> QED
    BY <2>1 DEF LoggingIn, Calling, Leaving
<1>3. \A p \in Procs: Writer(p) => Holds(p)
  BY DEF Writer, Holds
<1>4. \A p \in Procs: Holds(p) => Token(p) # 0 /\ Token(p) \in DOMAIN owner
  BY <1>2, GoodSessions DEF Token
<1>5. \A p \in Procs: ~Holds(p) => Token(p) = 0
  BY DEF Token
<1> QED
  BY <1>1, <1>2, <1>3, <1>4, <1>5

\* Issuing a pair leaves the sessions there are good.
LEMMA OwnerGrows ==
  ASSUME owner \in Seq(Users), NEW u \in Users, owner' = Append(owner, u)
  PROVE  /\ owner' \in Seq(Users) /\ Good \subseteq Good'
         /\ Session(Newest, u) \in Good' /\ Newest \notin DOMAIN owner /\ Newest # 0
<1>1. /\ owner' \in Seq(Users) /\ Len(owner') = Len(owner) + 1 /\ Len(owner) \in Nat
      /\ DOMAIN owner = 1..Len(owner) /\ DOMAIN owner' = 1..(Len(owner) + 1)
      /\ \A n \in DOMAIN owner: n \in DOMAIN owner' /\ owner'[n] = owner[n]
      /\ owner'[Len(owner) + 1] = u
  OBVIOUS
<1>2. Good \subseteq Good'
  BY <1>1 DEF Good
<1>3. Newest \in DOMAIN owner' /\ owner'[Newest] = u /\ Newest \notin DOMAIN owner /\ Newest # 0
  BY <1>1 DEF Newest
<1>4. Session(Newest, u) \in Good'
  BY <1>3 DEF Good
<1> QED
  BY <1>1, <1>2, <1>3, <1>4

LEMMA ProcStays ==
  ASSUME NEW good, NEW more, good \subseteq more, NEW r, IsProc(r, good)
  PROVE  IsProc(r, more)
<1>1. CASE r \in LoggingIn(good)
  BY <1>1 DEF IsProc, LoggingIn
<1>2. CASE r \in Leaving(good)
  BY <1>2 DEF IsProc, Leaving
<1>3. CASE r \in Clearing(good)
  BY <1>3 DEF IsProc, Clearing
<1>4. CASE r \in Calling(good)
  BY <1>4 DEF IsProc, Calling
<1> QED
  BY <1>1, <1>2, <1>3, <1>4 DEF IsProc

-----------------------------------------------------------------------------
(* What a step of one process p must do to keep each part. *)

\* Step: p becomes r, the others stay.
LEMMA Frame ==
  ASSUME Typed, NEW p \in Procs, NEW r, proc' = [proc EXCEPT ![p] = r]
  PROVE  /\ DOMAIN proc' = Procs /\ proc'[p] = r
         /\ \A q \in Procs \ {p}: proc'[q] = proc[q] /\ Token(q)' = Token(q) /\ Writer(q)' = Writer(q)
<1>1. /\ DOMAIN proc' = Procs /\ proc'[p] = r
      /\ \A q \in Procs \ {p}: proc'[q] = proc[q]
  BY DEF Typed
<1> QED
  BY <1>1 DEF Token, Holds, Writer

LEMMA TypedKeeps ==
  ASSUME Typed, NEW p \in Procs, NEW r, proc' = [proc EXCEPT ![p] = r], IsProc(r, Good'),
         owner' \in Seq(Users), Good \subseteq Good', failed' \in Nat,
         session' \in Good' \cup NoSession
  PROVE  Typed'
<1>1. \A q \in Procs: IsProc(proc'[q], Good')
  <2>1. ASSUME NEW q \in Procs \ {p} PROVE IsProc(proc'[q], Good')
    <3>1. IsProc(proc[q], Good)
      BY DEF Typed
    <3> QED
      BY <3>1, Frame, ProcStays
  <2> QED
    BY <2>1, Frame
<1> QED
  BY <1>1, Frame DEF Typed

\* No pair is issued and nothing is written.
LEMMA QuietKeepsPrivate ==
  ASSUME Typed, Private, NEW p \in Procs, NEW r, proc' = [proc EXCEPT ![p] = r],
         OnDisk' \in {OnDisk, 0},
         Token(p)' \in {Token(p), OnDisk, 0},
         Writer(p)' => Writer(p) /\ Token(p)' = Token(p) /\ live' = live,
         live' \in {live, live \ {Token(p)}}
  PROVE  Private'
<1> SUFFICES ASSUME NEW w \in Procs, Writer(w)'
             PROVE  /\ Token(w)' \in live' /\ Token(w)' # OnDisk'
                    /\ \A q \in Procs \ {w}: Token(q)' # Token(w)'
  BY DEF Private
<1>1. Writer(w) /\ Token(w)' = Token(w) /\ Token(w) # 0
  BY Frame, Tokens
<1>2. /\ Token(w) \in live /\ Token(w) # OnDisk
      /\ \A q \in Procs \ {w}: Token(q) # Token(w)
  BY <1>1 DEF Private
<1>3. \A q \in Procs \ {w}: Token(q)' # Token(w)
  BY <1>1, <1>2, Frame
<1>4. Token(w) \in live'
  BY <1>2
<1> QED
  BY <1>1, <1>2, <1>3, <1>4

\* A new pair, in the memory of p or lost.
LEMMA IssueKeepsPrivate ==
  ASSUME Typed, Private, NEW p \in Procs, NEW r, proc' = [proc EXCEPT ![p] = r],
         OnDisk' = OnDisk, live' = live \cup {Newest},
         Token(p)' = Newest \/ (Token(p)' = 0 /\ ~Writer(p)'),
         Newest \notin DOMAIN owner, Newest # 0
  PROVE  Private'
<1> SUFFICES ASSUME NEW w \in Procs, Writer(w)'
             PROVE  /\ Token(w)' \in live' /\ Token(w)' # OnDisk'
                    /\ \A q \in Procs \ {w}: Token(q)' # Token(w)'
  BY DEF Private
<1>1. /\ OnDisk # Newest
      /\ \A q \in Procs \ {p}: Token(q)' = Token(q) /\ Token(q) # Newest
  BY Frame, Tokens
<1>2. CASE w = p
  BY <1>1, <1>2
<1>3. CASE w # p
  <2>1. Writer(w) /\ Token(w) # 0
    BY <1>3, Frame, Tokens
  <2>2. /\ Token(w) \in live /\ Token(w) # OnDisk
        /\ \A q \in Procs \ {w}: Token(q) # Token(w)
    BY <2>1 DEF Private
  <2> QED
    BY <1>1, <1>3, <2>1, <2>2
<1> QED
  BY <1>2, <1>3

\* p writes what it has in memory.
LEMMA WriteKeepsPrivate ==
  ASSUME Typed, Private, NEW p \in Procs, NEW r, proc' = [proc EXCEPT ![p] = r],
         Writer(p), ~Writer(p)', live' = live,
         OnDisk' \in {Token(p), 0}, Token(p)' \in {Token(p), 0}
  PROVE  Private'
<1> SUFFICES ASSUME NEW w \in Procs, Writer(w)'
             PROVE  /\ Token(w)' \in live' /\ Token(w)' # OnDisk'
                    /\ \A q \in Procs \ {w}: Token(q)' # Token(w)'
  BY DEF Private
<1>1. w # p /\ Writer(w) /\ Token(w)' = Token(w) /\ Token(w) # 0
  BY Frame, Tokens
<1>2. Token(w) \in live /\ \A q \in Procs \ {w}: Token(q) # Token(w)
  BY <1>1 DEF Private
<1> QED
  BY <1>1, <1>2, Frame

\* The file stays: its pair stays alive, or p is about to replace it.
LEMMA SameFileKeeps ==
  ASSUME Typed, NeverStranded, NEW p \in Procs, NEW r, proc' = [proc EXCEPT ![p] = r],
         session' = session, failed' = 0 => failed = 0,
         failed' = 0 /\ session.is = "session" =>
           /\ session.pair \in live => session.pair \in live' \/ Replacing(p, session.pair)'
           /\ Replacing(p, session.pair) => Replacing(p, session.pair)'
  PROVE  NeverStranded'
<1> SUFFICES ASSUME failed' = 0, session.is = "session"
             PROVE  session.pair \in live' \/ \E q \in Procs: Replacing(q, session.pair)'
  BY DEF NeverStranded
<1>1. session.pair \in live \/ \E q \in Procs: Replacing(q, session.pair)
  BY DEF NeverStranded
<1>2. ASSUME NEW q \in Procs \ {p}, Replacing(q, session.pair) PROVE Replacing(q, session.pair)'
  BY <1>2, Frame DEF Replacing
<1> QED
  BY <1>1, <1>2

-----------------------------------------------------------------------------
(* One lemma per action. *)

\* A process that holds no pair and writes no session, before or after.
LEMMA Bystander ==
  ASSUME FbxInv, NEW p \in Procs, NEW r, proc' = [proc EXCEPT ![p] = r],
         ~Replacing(p, session.pair), ~Writer(p)', Token(p)' \in {Token(p), OnDisk, 0},
         IsProc(r, Good), UNCHANGED <<owner, live, session>>, failed' \in Nat,
         failed' = 0 => failed = 0
  PROVE  FbxInv'
<1>1. Good' = Good /\ OnDisk' = OnDisk
  BY DEF Good, OnDisk
<1>2. Typed'
  BY <1>1, TypedKeeps DEF FbxInv, Typed
<1>3. Private'
  BY <1>1, QuietKeepsPrivate DEF FbxInv
<1>4. NeverStranded'
  BY SameFileKeeps DEF FbxInv
<1> QED
  BY <1>2, <1>3, <1>4 DEF FbxInv

LEMMA IdleReplacesNothing ==
  ASSUME NEW p \in Procs, NEW n, proc[p] = Idle
  PROVE  ~Replacing(p, n) /\ Token(p) = 0 /\ ~Writer(p)
BY DEF Idle, Replacing, Token, Holds, Writer

\* A command starts: what it takes from the file is what is on disk.
LEMMA BeginKeeps ==
  ASSUME FbxInv, NEW p \in Procs, NEW r, Begin(p, r), UNCHANGED <<owner, live, session, failed>>,
         \/ r = Idle \/ r \in Asking \/ Configuring(r)
         \/ r \in Clearing(Good)
         \/ r \in Leaving(Good) /\ r.mem = session /\ session.is = "session"
         \/ r \in Calling(Good) /\ r.pc = "ready" /\ r.mem = session /\ session.is = "session"
  PROVE  FbxInv'
<1>1. proc' = [proc EXCEPT ![p] = r] /\ proc[p] = Idle
  BY DEF Begin
<1>2. proc'[p] = r /\ IsProc(r, Good)
  BY <1>1, Frame DEF FbxInv, IsProc
<1>3. ~Writer(p)' /\ Token(p)' \in {0, OnDisk}
  <2>1. CASE r = Idle \/ r \in Asking
    BY <1>2, <2>1 DEF Idle, Asking, Writer, Token, Holds
  <2>2. CASE Configuring(r)
    <3>1. r.pc \in {"config", "writing config"}
      BY <2>2, CounterOfConfiguring
    <3> QED
      BY <1>2, <3>1 DEF Writer, Token, Holds
  <2>3. CASE r \in Clearing(Good)
    BY <1>2, <2>3 DEF Clearing, Writer, Token, Holds
  <2>4. CASE r \in Leaving(Good) /\ r.mem = session /\ session.is = "session"
    BY <1>2, <2>4 DEF Leaving, Writer, Token, Holds, OnDisk
  <2>5. CASE r \in Calling(Good) /\ r.pc = "ready" /\ r.mem = session /\ session.is = "session"
    BY <1>2, <2>5 DEF Writer, Token, Holds, OnDisk
  <2> QED
    BY <2>1, <2>2, <2>3, <2>4, <2>5
<1>4. failed' \in Nat /\ ~Replacing(p, session.pair)
  BY <1>1, IdleReplacesNothing DEF FbxInv, Typed
<1> QED
  BY <1>1, <1>2, <1>3, <1>4, Bystander

LEMMA EndKeeps ==
  ASSUME FbxInv, NEW p \in Procs, End(p), UNCHANGED <<owner, live, session>>,
         failed' \in Nat, failed' = 0 => failed = 0 /\ ~Replacing(p, session.pair)
  PROVE  FbxInv'
<1>1. proc' = [proc EXCEPT ![p] = Idle] /\ proc'[p] = Idle
  BY Frame DEF End, FbxInv
<1>2. Good' = Good /\ OnDisk' = OnDisk /\ IsProc(Idle, Good)
  BY DEF Good, OnDisk, IsProc
<1>3. ~Writer(p)' /\ Token(p)' = 0
  BY <1>1 DEF Idle, Writer, Token, Holds
<1>4. Typed'
  BY <1>1, <1>2, TypedKeeps DEF FbxInv, Typed
<1>5. Private'
  BY <1>1, <1>2, <1>3, QuietKeepsPrivate DEF FbxInv
<1>6. NeverStranded'
  BY <1>1, SameFileKeeps DEF FbxInv
<1> QED
  BY <1>4, <1>5, <1>6 DEF FbxInv

\* The counter of p moves and nothing else of it.
LEMMA GoStep ==
  ASSUME Typed, NEW p \in Procs, NEW pc, Go(p, pc)
  PROVE  /\ proc' = [proc EXCEPT ![p] = [proc[p] EXCEPT !.pc = pc]]
         /\ proc'[p] = [proc[p] EXCEPT !.pc = pc]
         /\ IsProc(proc[p], Good)
<1>1. proc' = [proc EXCEPT ![p] = [proc[p] EXCEPT !.pc = pc]]
  BY DEF Go
<1> QED
  BY <1>1, Frame DEF Typed

LEMMA EmptyKeeps ==
  ASSUME FbxInv, NEW p \in Procs, Empty(p)
  PROVE  FbxInv'
<1> DEFINE r == [proc[p] EXCEPT !.pc = "writing"]
<1>1. /\ proc[p].pc = "saving" /\ session' = Emptied
      /\ UNCHANGED <<owner, live, failed>>
      /\ proc' = [proc EXCEPT ![p] = r] /\ proc'[p] = r /\ IsProc(proc[p], Good)
  BY GoStep DEF Empty, server, FbxInv
<1>2. Good' = Good /\ OnDisk' = 0 /\ session' \in NoSession
  BY <1>1, NotSessions DEF Good, OnDisk, NoSession
<1>3. /\ r \in LoggingIn(Good) \cup Calling(Good)
      /\ r.pc = "writing" /\ r.mem = proc[p].mem
  <2>1. proc[p] \in LoggingIn(Good) \cup Calling(Good)
    BY <1>1, ByCounter
  <2>2. CASE proc[p] \in LoggingIn(Good)
    BY <2>2 DEF LoggingIn
  <2>3. CASE proc[p] \in Calling(Good)
    BY <2>3 DEF Calling
  <2> QED
    BY <2>1, <2>2, <2>3
<1> HIDE DEF r
<1>4. Writer(p) /\ Token(p)' = Token(p)
  BY <1>1, <1>3 DEF Writer, Token, Holds
<1>5. Typed'
  <2>1. IsProc(r, Good')
    BY <1>2, <1>3 DEF IsProc
  <2> QED
    BY <1>1, <1>2, <2>1, TypedKeeps DEF FbxInv, Typed
<1>6. Private'
  BY <1>1, <1>2, <1>4, QuietKeepsPrivate DEF FbxInv
<1>7. NeverStranded'
  BY <1>2, NotSessions DEF NeverStranded
<1> QED
  BY <1>5, <1>6, <1>7 DEF FbxInv

LEMMA WriteKeeps ==
  ASSUME FbxInv, NEW p \in Procs, Write(p)
  PROVE  FbxInv'
<1>1. /\ proc[p].pc = "writing" /\ session' \in {proc[p].mem, Torn, NoFile}
      /\ UNCHANGED <<owner, live, failed>>
      /\ IF proc[p].command = "login" THEN End(p) ELSE Go(p, "again")
  BY DEF Write, Written, server
<1>2. proc[p] \in LoggingIn(Good) \cup Calling(Good)
  BY <1>1, ByCounter DEF FbxInv, Typed
<1>3. proc[p].mem \in Good
  BY <1>2 DEF LoggingIn, Calling
<1>4. PICK r: /\ proc' = [proc EXCEPT ![p] = r] /\ proc'[p] = r /\ IsProc(r, Good)
              /\ r.pc \in {"idle", "again"} /\ (r.pc = "again" => r.mem = proc[p].mem)
  <2>1. CASE proc[p] \in LoggingIn(Good)
    <3>1. End(p)
      BY <1>1, <2>1 DEF LoggingIn
    <3>2. proc' = [proc EXCEPT ![p] = Idle] /\ proc'[p] = Idle /\ IsProc(Idle, Good)
      BY <3>1, Frame DEF End, FbxInv, IsProc
    <3> QED
      BY <3>2 DEF Idle
  <2>2. CASE proc[p] \in Calling(Good)
    <3> DEFINE r == [proc[p] EXCEPT !.pc = "again"]
    <3>1. Go(p, "again")
      BY <1>1, <2>2 DEF Calling
    <3>2. proc' = [proc EXCEPT ![p] = r] /\ proc'[p] = r
      BY <3>1, GoStep DEF FbxInv
    <3>3. r \in Calling(Good) /\ r.pc = "again" /\ r.mem = proc[p].mem
      BY <2>2 DEF Calling
    <3> HIDE DEF r
    <3> QED
      BY <3>2, <3>3 DEF IsProc
  <2> QED
    BY <1>2, <2>1, <2>2
<1>5. Writer(p) /\ Token(p) = proc[p].mem.pair
  BY <1>1 DEF Writer, Token, Holds
<1>6. ~Writer(p)' /\ Token(p)' \in {Token(p), 0}
  BY <1>4, <1>5 DEF Writer, Token, Holds
<1>7. /\ OnDisk' \in {Token(p), 0} /\ session' \in Good \cup NoSession
      /\ session'.is = "session" => session'.pair = Token(p)
  BY <1>1, <1>3, <1>5, NotSessions DEF OnDisk, NoSession, FbxInv
<1>8. Good' = Good
  BY <1>1 DEF Good
<1>9. Typed'
  BY <1>1, <1>4, <1>7, <1>8, TypedKeeps DEF FbxInv, Typed
<1>10. Private'
  BY <1>1, <1>4, <1>5, <1>6, <1>7, WriteKeepsPrivate DEF FbxInv
<1>11. NeverStranded'
  BY <1>1, <1>5, <1>7 DEF NeverStranded, FbxInv, Private
<1> QED
  BY <1>9, <1>10, <1>11 DEF FbxInv

LEMMA LoginAnswerKeeps ==
  ASSUME FbxInv, NEW p \in Procs, LoginAnswer(p)
  PROVE  FbxInv'
<1> DEFINE u == proc[p].user
<1>1. /\ proc[p].pc = "asking" /\ UNCHANGED session
      /\ \/ /\ Issue(u) /\ live' = live \cup {Newest}
            /\ \/ /\ proc' = [proc EXCEPT ![p] =
                         [pc |-> "saving", command |-> "login", mem |-> Session(Newest, u), spent |-> 0]]
                  /\ UNCHANGED failed
               \/ End(p) /\ Fail
         \/ End(p) /\ UNCHANGED <<owner, live, failed>>
  BY DEF LoginAnswer, disk
<1>2. u \in Users
  <2>1. proc[p] \in Asking
    BY <1>1, ByCounter DEF FbxInv, Typed
  <2> QED
    BY <2>1 DEF Asking
<1>3. ~Replacing(p, session.pair) /\ ~Writer(p) /\ Token(p) = 0
  BY <1>1 DEF Replacing, Writer, Token, Holds
<1> HIDE DEF u
<1>4. CASE End(p) /\ UNCHANGED <<owner, live, failed>>
  BY <1>1, <1>3, <1>4, EndKeeps DEF FbxInv, Typed
<1>5. CASE Issue(u) /\ live' = live \cup {Newest}
  <2>1. PICK r: /\ proc' = [proc EXCEPT ![p] = r]
                /\ \/ /\ r = [pc |-> "saving", command |-> "login", mem |-> Session(Newest, u), spent |-> 0]
                      /\ UNCHANGED failed
                   \/ r = Idle /\ Fail
    BY <1>1, <1>5 DEF End, Issue, FbxInv, Typed
  <2>2. /\ owner' \in Seq(Users) /\ Good \subseteq Good'
        /\ Session(Newest, u) \in Good' /\ Newest \notin DOMAIN owner /\ Newest # 0
    BY <1>2, <1>5, OwnerGrows DEF Issue, FbxInv, Typed
  <2>3. failed' \in Nat /\ (failed' = 0 => failed = 0)
    BY <2>1 DEF Fail, FbxInv, Typed
  <2>4. IsProc(r, Good') /\ proc'[p] = r
    <3>1. CASE r = Idle
      BY <2>1, <3>1, Frame DEF IsProc, FbxInv
    <3>2. CASE r = [pc |-> "saving", command |-> "login", mem |-> Session(Newest, u), spent |-> 0]
      <4>1. r \in LoggingIn(Good')
        BY <2>2, <3>2 DEF LoggingIn
      <4> QED
        BY <2>1, <4>1, Frame DEF IsProc, FbxInv
    <3> QED
      BY <2>1, <3>1, <3>2
  <2>5. Token(p)' = Newest \/ (Token(p)' = 0 /\ ~Writer(p)')
    <3>1. CASE r = Idle
      BY <2>4, <3>1 DEF Idle, Token, Holds, Writer
    <3>2. CASE r = [pc |-> "saving", command |-> "login", mem |-> Session(Newest, u), spent |-> 0]
      BY <2>4, <3>2 DEF Token, Holds, Session
    <3> QED
      BY <2>1, <3>1, <3>2
  <2>6. OnDisk' = OnDisk
    BY <1>1 DEF OnDisk
  <2>7. Typed'
    BY <1>1, <2>1, <2>2, <2>3, <2>4, TypedKeeps DEF FbxInv, Typed
  <2>8. Private'
    BY <1>5, <2>1, <2>2, <2>5, <2>6, IssueKeepsPrivate DEF FbxInv
  <2>9. NeverStranded'
    BY <1>1, <1>3, <1>5, <2>1, <2>3, SameFileKeeps DEF FbxInv
  <2> QED
    BY <2>7, <2>8, <2>9 DEF FbxInv
<1> QED
  BY <1>1, <1>4, <1>5

LEMMA LogoutAnswerKeeps ==
  ASSUME FbxInv, NEW p \in Procs, LogoutAnswer(p)
  PROVE  FbxInv'
<1> DEFINE n == proc[p].mem.pair
           r == [proc[p] EXCEPT !.pc = "clearing"]
<1>1. /\ proc[p].pc = "leaving" /\ UNCHANGED <<owner, session>>
      /\ live' \in {live, live \ {n}} /\ failed' \in Nat /\ (failed' = 0 => failed = 0)
      /\ proc' = [proc EXCEPT ![p] = r] /\ proc'[p] = r
  BY GoStep DEF LogoutAnswer, disk, Fail, FbxInv, Typed
<1>2. proc[p] \in Leaving(Good)
  BY <1>1, ByCounter DEF FbxInv, Typed
<1>3. r \in Clearing(Good) /\ r.pc = "clearing" /\ r.mem = proc[p].mem /\ proc[p].mem \in Good
  BY <1>2 DEF Leaving, Clearing
<1> HIDE DEF r
<1>4. Good' = Good /\ OnDisk' = OnDisk
  BY <1>1 DEF Good, OnDisk
<1>5. Token(p) = n /\ Token(p)' = 0 /\ ~Writer(p)' /\ ~Replacing(p, session.pair)
  BY <1>1, <1>3 DEF Token, Holds, Writer, Replacing
<1>6. Typed'
  <2>1. IsProc(r, Good')
    BY <1>3, <1>4 DEF IsProc
  <2> QED
    BY <1>1, <1>4, <2>1, TypedKeeps DEF FbxInv, Typed
<1>7. Private'
  BY <1>1, <1>4, <1>5, QuietKeepsPrivate DEF FbxInv
<1>8. session.is = "session" /\ session.pair = n => Replacing(p, session.pair)'
  <2> SUFFICES ASSUME session.is = "session", session.pair = n
               PROVE  Replacing(p, session.pair)'
    OBVIOUS
  <2>1. session \in Good
    BY NotSessions DEF FbxInv, Typed
  <2>2. session = proc[p].mem
    <3>1. session = Session(session.pair, owner[session.pair])
      BY <2>1, GoodSessions DEF FbxInv
    <3>2. proc[p].mem = Session(n, owner[n])
      BY <1>3, GoodSessions DEF FbxInv
    <3> QED
      BY <3>1, <3>2
  <2> QED
    BY <1>1, <1>3, <2>2 DEF Replacing
<1>9. NeverStranded'
  BY <1>1, <1>5, <1>8, SameFileKeeps DEF FbxInv
<1> QED
  BY <1>6, <1>7, <1>9 DEF FbxInv

LEMMA ClearKeeps ==
  ASSUME FbxInv, NEW p \in Procs, Clear(p)
  PROVE  FbxInv'
<1>1. /\ session' = NoFile /\ UNCHANGED <<owner, live, failed>>
      /\ proc' = [proc EXCEPT ![p] = Idle] /\ proc'[p] = Idle
  BY Frame DEF Clear, End, server, FbxInv
<1>2. Good' = Good /\ OnDisk' = 0 /\ session' \in NoSession /\ session'.is # "session"
  BY <1>1, NotSessions DEF Good, OnDisk, NoSession
<1>3. ~Writer(p)' /\ Token(p)' = 0
  BY <1>1 DEF Idle, Writer, Token, Holds
<1>4. Typed'
  <2>1. IsProc(Idle, Good')
    BY DEF IsProc
  <2> QED
    BY <1>1, <1>2, <2>1, TypedKeeps DEF FbxInv, Typed
<1>5. Private'
  BY <1>1, <1>2, <1>3, QuietKeepsPrivate DEF FbxInv
<1>6. NeverStranded'
  BY <1>2 DEF NeverStranded
<1> QED
  BY <1>4, <1>5, <1>6 DEF FbxInv

\* A request is answered: the command goes on with the same pair, or ends.
LEMMA AnsweredKeeps ==
  ASSUME FbxInv, NEW p \in Procs, proc[p].pc \in {"ready", "again"},
         Answered(p) \/ End(p) \/ Go(p, "refreshing"),
         UNCHANGED <<owner, live, session, failed>>
  PROVE  FbxInv'
<1>1. proc[p] \in Calling(Good)
  BY ByCounter DEF FbxInv, Typed
<1>2. ~Replacing(p, session.pair)
  BY DEF Replacing
<1>3. failed' \in Nat /\ (failed' = 0 => failed = 0)
  BY DEF FbxInv, Typed
<1>4. CASE End(p)
  BY <1>2, <1>3, <1>4, EndKeeps
<1>5. ASSUME NEW r \in Calling(Good), proc' = [proc EXCEPT ![p] = r],
             r.pc \in {"ready", "refreshing"}, r.mem = proc[p].mem
      PROVE  FbxInv'
  <2>1. proc'[p] = r /\ IsProc(r, Good)
    BY <1>5, Frame DEF FbxInv, IsProc
  <2>2. ~Writer(p)' /\ Token(p)' = Token(p)
    BY <1>5, <2>1 DEF Writer, Token, Holds
  <2> QED
    BY <1>2, <1>3, <1>5, <2>1, <2>2, Bystander
<1>6. CASE Go(p, "refreshing")
  <2> DEFINE r == [proc[p] EXCEPT !.pc = "refreshing"]
  <2>1. r \in Calling(Good) /\ r.pc = "refreshing" /\ r.mem = proc[p].mem
    BY <1>1 DEF Calling
  <2>2. proc' = [proc EXCEPT ![p] = r]
    BY <1>6, GoStep DEF FbxInv
  <2> HIDE DEF r
  <2> QED
    BY <1>5, <2>1, <2>2
<1>7. CASE proc' = [proc EXCEPT ![p].requests = @ + 1, ![p].pc = "ready"]
  <2> DEFINE s == [proc[p] EXCEPT !.requests = @ + 1]
             r == [s EXCEPT !.pc = "ready"]
  <2>1. s \in Calling(Good) /\ s.mem = proc[p].mem
    BY <1>1 DEF Calling
  <2>2. proc' = [proc EXCEPT ![p] = r]
    BY <1>7 DEF FbxInv, Typed
  <2> HIDE DEF s
  <2>3. r \in Calling(Good) /\ r.pc = "ready" /\ r.mem = s.mem
    BY <2>1 DEF Calling
  <2> HIDE DEF r
  <2> QED
    BY <1>5, <2>1, <2>2, <2>3
<1> QED
  BY <1>4, <1>6, <1>7 DEF Answered

LEMMA TookKeeps ==
  ASSUME FbxInv, NEW p \in Procs, Took(p)
  PROVE  FbxInv'
<1> DEFINE n == proc[p].mem.pair
           r == [proc[p] EXCEPT !.pc = "taken"]
<1>1. /\ proc[p].pc = "refreshing" /\ UNCHANGED <<owner, session, failed>>
      /\ live' = live \ {n}
      /\ proc' = [proc EXCEPT ![p] = r] /\ proc'[p] = r
  BY GoStep DEF Took, disk, FbxInv
<1>2. proc[p] \in Calling(Good)
  BY <1>1, ByCounter DEF FbxInv, Typed
<1>3. r \in Calling(Good) /\ r.pc = "taken" /\ r.mem = proc[p].mem
  BY <1>2 DEF Calling
<1> HIDE DEF r
<1>4. Good' = Good /\ OnDisk' = OnDisk
  BY <1>1 DEF Good, OnDisk
<1>5. Token(p) = n /\ Token(p)' = Token(p) /\ ~Writer(p)' /\ ~Replacing(p, session.pair)
  BY <1>1, <1>3 DEF Token, Holds, Writer, Replacing
<1>6. Typed'
  <2>1. IsProc(r, Good')
    BY <1>3, <1>4 DEF IsProc
  <2> QED
    BY <1>1, <1>4, <2>1, TypedKeeps DEF FbxInv, Typed
<1>7. Private'
  BY <1>1, <1>4, <1>5, QuietKeepsPrivate DEF FbxInv
<1>8. session.pair = n => Replacing(p, session.pair)'
  BY <1>1, <1>3 DEF Replacing
<1>9. NeverStranded'
  BY <1>1, <1>5, <1>8, SameFileKeeps DEF FbxInv
<1> QED
  BY <1>6, <1>7, <1>9 DEF FbxInv

LEMMA RenewedKeeps ==
  ASSUME FbxInv, NEW p \in Procs, Renewed(p)
  PROVE  FbxInv'
<1> DEFINE n == proc[p].mem.pair
           u == proc[p].mem.username
<1>1. /\ proc[p].pc = "taken" /\ UNCHANGED <<session, failed>>
      /\ owner' = Append(owner, owner[n]) /\ live' = live \cup {Newest}
      /\ proc' = [proc EXCEPT ![p].mem = Session(Newest, u), ![p].pc = "saving", ![p].spent = n]
  BY DEF Renewed, Issue, Refreshed, NextPc, disk
<1>2. proc[p] \in Calling(Good) /\ proc[p].mem \in Good
  <2>1. proc[p] \in Calling(Good)
    BY <1>1, ByCounter DEF FbxInv, Typed
  <2> QED
    BY <2>1 DEF Calling
<1>3. n \in DOMAIN owner /\ n \in Nat \ {0} /\ u = owner[n] /\ u \in Users
  <2>1. n \in DOMAIN owner /\ n \in Nat \ {0} /\ u = owner[n]
    BY <1>2, GoodSessions DEF FbxInv
  <2> QED
    BY <2>1 DEF FbxInv, Typed
<1>4. /\ owner' \in Seq(Users) /\ Good \subseteq Good'
      /\ Session(Newest, u) \in Good' /\ Newest \notin DOMAIN owner /\ Newest # 0
  BY <1>1, <1>3, OwnerGrows DEF FbxInv, Typed
<1> HIDE DEF u, n
<1> DEFINE a == [proc[p] EXCEPT !.mem = Session(Newest, u)]
           b == [a EXCEPT !.pc = "saving"]
           r == [b EXCEPT !.spent = n]
<1>5. proc' = [proc EXCEPT ![p] = r]
  BY <1>1 DEF FbxInv, Typed
<1>6. a \in Calling(Good') /\ a.mem = Session(Newest, u)
  <2>1. proc[p] \in Calling(Good')
    BY <1>2, <1>4 DEF Calling
  <2> QED
    BY <1>4, <2>1 DEF Calling
<1> HIDE DEF a
<1>7. b \in Calling(Good') /\ b.mem = Session(Newest, u) /\ b.pc = "saving"
  BY <1>6 DEF Calling
<1> HIDE DEF b
<1>8. r \in Calling(Good') /\ r.mem = Session(Newest, u) /\ r.pc = "saving" /\ r.spent = n
  BY <1>3, <1>7 DEF Calling
<1> HIDE DEF r
<1>9. proc'[p] = r /\ IsProc(r, Good')
  BY <1>5, <1>8, Frame DEF FbxInv, IsProc
<1>10. Token(p)' = Newest /\ OnDisk' = OnDisk
  BY <1>1, <1>8, <1>9 DEF Token, Holds, Session, OnDisk
<1>11. Replacing(p, session.pair) => Replacing(p, session.pair)'
  BY <1>1, <1>8, <1>9 DEF Replacing, n
<1>12. Typed'
  BY <1>1, <1>4, <1>5, <1>9, TypedKeeps DEF FbxInv, Typed
<1>13. Private'
  BY <1>1, <1>4, <1>5, <1>10, IssueKeepsPrivate DEF FbxInv
<1>14. NeverStranded'
  BY <1>1, <1>5, <1>11, SameFileKeeps DEF FbxInv
<1> QED
  BY <1>12, <1>13, <1>14 DEF FbxInv

LEMMA EmptyConfigKeeps ==
  ASSUME FbxInv, NEW p \in Procs, EmptyConfig(p)
  PROVE  FbxInv'
<1> DEFINE r == [proc[p] EXCEPT !.pc = "writing config"]
<1>1. /\ proc[p].pc = "config" /\ UNCHANGED <<owner, live, session, failed>>
      /\ proc' = [proc EXCEPT ![p] = r] /\ proc'[p] = r
  BY GoStep DEF EmptyConfig, server, FbxInv
<1>2. Configuring(proc[p])
  BY <1>1, ByCounter DEF FbxInv, Typed
<1>3. PICK command, new:
        proc[p] \in [pc: {"config", "writing config"}, command: {command}, new: {new}]
  BY <1>2 DEF Configuring
<1>4. /\ r \in [pc: {"config", "writing config"}, command: {command}, new: {new}]
      /\ r.pc = "writing config"
  BY <1>3
<1> HIDE DEF r
<1>6. IsProc(r, Good) /\ r.pc = "writing config"
  BY <1>4 DEF IsProc, Configuring
<1>7. ~Writer(p)' /\ Token(p)' = 0 /\ ~Replacing(p, session.pair)
  BY <1>1, <1>6 DEF Writer, Token, Holds, Replacing
<1> QED
  BY <1>1, <1>6, <1>7, Bystander DEF FbxInv, Typed

LEMMA DieKeeps ==
  ASSUME FbxInv, NEW p \in Procs, Die(p)
  PROVE  FbxInv'
BY EndKeeps DEF Die, Fail, server, disk, FbxInv, Typed

\* Nothing that matters changes.
LEMMA RestKeeps ==
  ASSUME FbxInv, UNCHANGED <<owner, live, session, proc, failed>>
  PROVE  FbxInv'
BY DEF FbxInv, Typed, Private, NeverStranded, Good, Token, Holds, Writer, OnDisk, Replacing

LEMMA StartsKeep ==
  ASSUME FbxInv, NEW p \in Procs,
         \/ \E u \in Users: Login(p, u)
         \/ \E home \in BOOLEAN: \/ Logout(p, home)
                                \/ \E command \in {"call", "upload"}: Start(p, command, home)
         \/ \E name \in Sources: AddSource(p, name) \/ RemoveSource(p, name)
  PROVE  FbxInv'
<1>0. session.is = "session" => session \in Good
  BY NotSessions DEF FbxInv, Typed
<1>1. ASSUME NEW u \in Users, Login(p, u) PROVE FbxInv'
  <2>1. [pc |-> "asking", command |-> "login", user |-> u] \in Asking
    BY DEF Asking
  <2> QED
    BY <1>1, <2>1, BeginKeeps DEF Login, server, disk
<1>2. ASSUME NEW home \in BOOLEAN, Logout(p, home) PROVE FbxInv'
  <2> DEFINE r == [pc |-> IF session.is = "session" THEN "leaving" ELSE "clearing",
                   command |-> "logout", mem |-> session, home |-> home]
  <2>1. Begin(p, r) /\ UNCHANGED <<owner, live, session, failed>>
    BY <1>2 DEF Logout, server, disk
  <2>2. CASE session.is = "session"
    <3>1. r \in Leaving(Good) /\ r.mem = session
      BY <1>0, <2>2 DEF Leaving
    <3> HIDE DEF r
    <3> QED
      BY <2>1, <2>2, <3>1, BeginKeeps
  <2>3. CASE session.is # "session"
    <3>1. session \in NoSession
      BY <2>3, GoodSessions DEF FbxInv, Typed
    <3>2. r \in Clearing(Good)
      BY <2>3, <3>1 DEF Clearing
    <3> HIDE DEF r
    <3> QED
      BY <2>1, <3>2, BeginKeeps
  <2> QED
    BY <2>2, <2>3
<1>3. ASSUME NEW home \in BOOLEAN, NEW command \in {"call", "upload"}, Start(p, command, home)
      PROVE  FbxInv'
  <2> DEFINE r == [pc |-> "ready", command |-> command, mem |-> session, spent |-> 0,
                   home |-> home, requests |-> 0]
  <2>1. CASE session.is = "session"
    <3>1. r \in Calling(Good) /\ r.pc = "ready" /\ r.mem = session
      BY <1>0, <2>1 DEF Calling
    <3>2. Begin(p, r) /\ UNCHANGED <<owner, live, session, failed>>
      BY <1>3, <2>1 DEF Start, server, disk
    <3> HIDE DEF r
    <3> QED
      BY <2>1, <3>1, <3>2, BeginKeeps
  <2>2. CASE session.is # "session"
    BY <1>3, <2>2, BeginKeeps DEF Start, server, disk
  <2> QED
    BY <2>1, <2>2
<1>4. ASSUME NEW command \in {"add", "remove"}, NEW new,
             Begin(p, [pc |-> "config", command |-> command, new |-> new]),
             UNCHANGED <<owner, live, session, failed>>
      PROVE  FbxInv'
  <2>1. Configuring([pc |-> "config", command |-> command, new |-> new])
    BY DEF Configuring
  <2> QED
    BY <1>4, <2>1, BeginKeeps
<1>5. ASSUME NEW name \in Sources, AddSource(p, name) PROVE FbxInv'
  BY <1>4, <1>5 DEF AddSource, server, disk
<1>6. ASSUME NEW name \in Sources, RemoveSource(p, name) PROVE FbxInv'
  BY <1>4, <1>6, BeginKeeps DEF RemoveSource, server, disk
<1> QED
  BY <1>1, <1>2, <1>3, <1>5, <1>6

LEMMA StepKeeps ==
  ASSUME FbxInv, NEW p \in Procs, Step(p)
  PROVE  FbxInv'
<1>1. CASE Empty(p) \/ Write(p) \/ LoginAnswer(p) \/ LogoutAnswer(p) \/ Clear(p)
  BY <1>1, EmptyKeeps, WriteKeeps, LoginAnswerKeeps, LogoutAnswerKeeps, ClearKeeps
<1>2. CASE Request(p)
  BY <1>2, AnsweredKeeps DEF Request, server, disk
<1>3. CASE Again(p)
  BY <1>3, AnsweredKeeps DEF Again, server, disk
<1>4. CASE Took(p) \/ Renewed(p) \/ EmptyConfig(p)
  BY <1>4, TookKeeps, RenewedKeeps, EmptyConfigKeeps
<1>5. CASE Refused(p)
  <2>1. ~Replacing(p, session.pair)
    BY <1>5 DEF Refused, Replacing
  <2> QED
    BY <1>5, <2>1, EndKeeps DEF Refused, server, disk, FbxInv, Typed
<1>6. CASE WriteConfig(p)
  <2>1. ~Replacing(p, session.pair)
    BY <1>6 DEF WriteConfig, Replacing
  <2> QED
    BY <1>6, <2>1, EndKeeps DEF WriteConfig, server, FbxInv, Typed
<1> QED
  BY <1>1, <1>2, <1>3, <1>4, <1>5, <1>6 DEF Step

-----------------------------------------------------------------------------
LEMMA FbxInit == Init => FbxInv
<1> SUFFICES ASSUME Init PROVE FbxInv
  OBVIOUS
<1>1. \A p \in Procs: proc[p] = Idle /\ proc[p].pc = "idle"
  BY DEF Init, Idle
<1>2. session.is # "session" /\ session \in NoSession
  BY NotSessions DEF Init, NoSession
<1>3. Typed
  BY <1>1, <1>2 DEF Init, Typed, IsProc
<1>4. Private /\ NeverStranded
  BY <1>1, <1>2 DEF Private, Writer, NeverStranded
<1> QED
  BY <1>3, <1>4 DEF FbxInv

LEMMA FbxStep == FbxInv /\ [Next]_vars => FbxInv'
<1> SUFFICES ASSUME FbxInv, [Next]_vars PROVE FbxInv'
  OBVIOUS
<1>1. CASE UNCHANGED vars \/ \E n \in 1..MaxAging: Expire(n)
  BY <1>1, RestKeeps DEF vars, Expire, disk
<1>2. ASSUME NEW p \in Procs, Step(p) PROVE FbxInv'
  BY <1>2, StepKeeps
<1>3. ASSUME NEW p \in Procs, Die(p) PROVE FbxInv'
  BY <1>3, DieKeeps
<1> QED
  BY <1>1, <1>2, <1>3, StartsKeep DEF Next

LEMMA FbxInvariant == Spec => []FbxInv
BY FbxInit, FbxStep, PTL DEF Spec

\* The name in session.json belongs to the tokens beside it, whatever logins
\* and refreshes of other processes replaced the file meanwhile
\* (refresh_session, client.rs:50).
THEOREM EverySessionIsOfOne == Spec => []SessionIsOfOne
<1>1. FbxInv => SessionIsOfOne
  BY GoodSessions, NotSessions DEF FbxInv, Typed, SessionIsOfOne
<1> QED
  BY <1>1, FbxInvariant, PTL

\* Without lost answers and killed processes, no interleaving of refreshes,
\* logins and logouts leaves a session on disk that the server has forgotten
\* and nobody is about to replace.
THEOREM NobodyIsStranded == Spec => []NeverStranded
<1>1. FbxInv => NeverStranded
  BY DEF FbxInv
<1> QED
  BY <1>1, FbxInvariant, PTL

-----------------------------------------------------------------------------
(* config.toml. *)

\* The names are those of Sources, each once.
Lists == {s \in Seq(Sources): IsInjective(s)}

LEMMA PlacesAscend ==
  ASSUME NEW s \in Lists, NEW name
  PROVE  LET kept == Kept(s, name) at == Places(kept) IN
           /\ at \in [1..Cardinality(kept) -> kept] /\ Cardinality(kept) \in Nat
           /\ \A i, j \in DOMAIN at: i < j => at[i] < at[j]
<1> DEFINE kept == Kept(s, name)
           N == Len(s)
           Ascends(at) == \A i, j \in DOMAIN at: i < j => at[i] < at[j]
<1>1. /\ N \in Nat /\ DOMAIN s = 1..N
      /\ \A i, j \in 1..N: s[i] = s[j] => i = j
  BY DEF Lists, IsInjective
<1>2. IsFiniteSet(1..N) /\ Cardinality(1..N) = N
  <2>1. IsFiniteSet(1..N) /\ Cardinality(1..N) = IF 1 > N THEN 0 ELSE N - 1 + 1
    BY <1>1, FS_Interval
  <2> QED
    BY <1>1, <2>1
<1> HIDE DEF N
<1>3. Cardinality(kept) \in Nat /\ \E at \in [1..Cardinality(kept) -> kept]: Ascends(at)
  <2>1. CASE \A i \in 1..N: s[i] # name
    <3>1. kept = 1..N
      BY <1>1, <2>1 DEF Kept
    <3> DEFINE at == [i \in 1..N |-> i]
    <3>2. at \in [1..N -> 1..N] /\ Ascends(at)
      OBVIOUS
    <3> HIDE DEF at, kept
    <3> QED
      BY <1>1, <1>2, <3>1, <3>2
  <2>2. CASE \E i \in 1..N: s[i] = name
    <3>1. PICK gone \in 1..N: s[gone] = name
      BY <2>2
    <3>2. kept = (1..N) \ {gone}
      BY <1>1, <3>1 DEF Kept
    <3>3. Cardinality(kept) = N - 1
      BY <1>2, <3>2, FS_RemoveElement
    <3> HIDE DEF kept
    <3> DEFINE at == [i \in 1..(N - 1) |-> IF i < gone THEN i ELSE i + 1]
    <3>4. at \in [1..(N - 1) -> kept]
      BY <1>1, <3>2
    <3>5. Ascends(at)
      BY <1>1
    <3>6. N - 1 \in Nat
      BY <1>1
    <3> HIDE DEF at
    <3> QED
      BY <3>3, <3>4, <3>5, <3>6
  <2> QED
    BY <2>1, <2>2
<1> DEFINE at == Places(kept)
<1>4. at \in [1..Cardinality(kept) -> kept] /\ Ascends(at)
  <2>1. at = CHOOSE f \in [1..Cardinality(kept) -> kept]: Ascends(f)
    BY DEF Places
  <2> HIDE DEF at, kept, Ascends
  <2> QED
    BY <1>3, <2>1
<1> QED
  BY <1>3, <1>4

\* Removing and adding a source leaves a list of distinct names (add and
\* remove, provider.rs:258 and 275).
LEMMA WithoutIsList ==
  ASSUME NEW s \in Lists, NEW name
  PROVE  Without(s, name) \in Lists /\ \A i \in DOMAIN Without(s, name): Without(s, name)[i] # name
<1> DEFINE kept == Kept(s, name)
           at == Places(kept)
           M == Cardinality(kept)
           rest == Without(s, name)
<1>1. /\ at \in [1..M -> kept] /\ M \in Nat
      /\ \A i, j \in 1..M: i < j => at[i] < at[j]
  BY PlacesAscend
<1>2. \A i \in kept: i \in DOMAIN s /\ i \in Nat /\ s[i] \in Sources /\ s[i] # name
  BY DEF Kept, Lists
<1>3. rest = [i \in DOMAIN at |-> s[at[i]]]
  BY DEF Without
<1> HIDE DEF kept, at, M, rest
<1>4. DOMAIN rest = 1..M /\ \A i \in 1..M: rest[i] = s[at[i]] /\ at[i] \in kept
  BY <1>1, <1>3
<1>5. rest \in Seq(Sources)
  <2>1. rest \in [1..M -> Sources]
    BY <1>1, <1>2, <1>3
  <2> QED
    BY <1>1, <2>1
<1>6. ASSUME NEW i \in 1..M, NEW j \in 1..M, rest[i] = rest[j] PROVE i = j
  <2>1. at[i] = at[j]
    BY <1>2, <1>4, <1>6 DEF Lists, IsInjective
  <2>2. at[i] \in Nat /\ i \in Nat /\ j \in Nat
    BY <1>1, <1>2, <1>4
  <2> QED
    BY <1>1, <2>1, <2>2
<1>7. IsInjective(rest)
  BY <1>4, <1>6 DEF IsInjective
<1> QED
  BY <1>2, <1>4, <1>5, <1>7 DEF Lists, rest

LEMMA AddedIsList ==
  ASSUME NEW s \in Lists, NEW name \in Sources
  PROVE  Added(s, name) \in Lists
<1> DEFINE rest == Without(s, name)
<1>1. rest \in Seq(Sources) /\ IsInjective(rest) /\ \A i \in DOMAIN rest: rest[i] # name
  BY WithoutIsList DEF Lists
<1>2. Added(s, name) = Append(rest, name)
  BY DEF Added
<1> HIDE DEF rest
<1>3. /\ Append(rest, name) \in Seq(Sources) /\ Len(rest) \in Nat /\ DOMAIN rest = 1..Len(rest)
      /\ DOMAIN Append(rest, name) = 1..(Len(rest) + 1)
      /\ Append(rest, name)[Len(rest) + 1] = name
      /\ \A i \in 1..Len(rest): Append(rest, name)[i] = rest[i]
  BY <1>1
<1>4. \A i \in 1..(Len(rest) + 1): i \in 1..Len(rest) \/ i = Len(rest) + 1
  BY <1>3
<1>5. IsInjective(Append(rest, name))
  BY <1>1, <1>3, <1>4 DEF IsInjective
<1> QED
  BY <1>2, <1>3, <1>5 DEF Lists

\* What the file holds, what a command is about to write, and the counters.
Contents == {NoFile, Emptied, Torn} \cup {Config(s): s \in Lists}
Saves(r) == r.pc \in {"config", "writing config"} => r.new \in {Config(s): s \in Lists}
DetailsInv ==
  /\ config \in Contents
  /\ \A p \in Procs: Saves(proc[p])
  /\ live \subseteq DOMAIN owner /\ expired \subseteq DOMAIN owner
  /\ commands \in 0..MaxCommands /\ failed \in 0..Failures

LEMMA DetailsMove ==
  ASSUME DetailsInv, Typed, NEW p \in Procs, NEW r, proc' = [proc EXCEPT ![p] = r], Saves(r),
         config' \in Contents, DOMAIN owner \subseteq DOMAIN owner',
         live' \subseteq DOMAIN owner', expired' = expired,
         commands' \in 0..MaxCommands, failed' = failed \/ Fail
  PROVE  DetailsInv'
<1>1. failed' \in 0..Failures
  BY FbxAssumption DEF DetailsInv, Fail
<1>2. \A q \in Procs: proc'[q] = IF q = p THEN r ELSE proc[q]
  BY Frame
<1>3. \A q \in Procs: Saves(proc'[q])
  BY <1>2 DEF DetailsInv
<1>4. expired' \subseteq DOMAIN owner'
  BY DEF DetailsInv
<1> QED
  BY <1>1, <1>3, <1>4 DEF DetailsInv, Saves, Contents

\* A process that goes on or ends saves what it would have.
LEMMA GoSaves ==
  ASSUME Typed, DetailsInv, NEW p \in Procs, NEW pc, Go(p, pc), proc[p].pc # "idle",
         pc \in {"config", "writing config"} => proc[p].pc = "config"
  PROVE  /\ proc' = [proc EXCEPT ![p] = [proc[p] EXCEPT !.pc = pc]]
         /\ Saves([proc[p] EXCEPT !.pc = pc])
<1> DEFINE r == [proc[p] EXCEPT !.pc = pc]
<1>1. proc' = [proc EXCEPT ![p] = r] /\ IsProc(proc[p], Good)
  BY GoStep
<1>2. "pc" \in DOMAIN proc[p] /\ (proc[p].pc = "config" => "new" \in DOMAIN proc[p])
  <2>1. CASE proc[p] = Idle
    <3>1. Idle.pc = "idle"
      BY DEF Idle
    <3> QED
      BY <2>1, <3>1
  <2>2. CASE proc[p] \in Asking
    BY <2>2 DEF Asking
  <2>3. CASE Configuring(proc[p])
    BY <2>3 DEF Configuring
  <2>4. CASE proc[p] \in LoggingIn(Good) \cup Leaving(Good) \cup Clearing(Good)
    BY <2>4 DEF LoggingIn, Leaving, Clearing
  <2>5. CASE proc[p] \in Calling(Good)
    BY <2>5 DEF Calling
  <2> QED
    BY <1>1, <2>1, <2>2, <2>3, <2>4, <2>5 DEF IsProc
<1>3. r.pc = pc /\ (proc[p].pc = "config" => r.new = proc[p].new)
  BY <1>2
<1> HIDE DEF r
<1>4. Saves(r)
  BY <1>3 DEF DetailsInv, Saves
<1> QED
  BY <1>1, <1>4 DEF r

LEMMA IdleSaves == Saves(Idle)
BY DEF Saves, Idle

\* What a request or a refresh leaves is no change of config.toml.
LEMMA CallSaves ==
  ASSUME NEW r, NEW good, r \in Calling(good)
  PROVE  Saves(r)
BY DEF Saves, Calling

-----------------------------------------------------------------------------
\* Commands start.
LEMMA BeginDetails ==
  ASSUME FbxInv, DetailsInv, NEW p \in Procs, NEW r, Begin(p, r), Saves(r),
         UNCHANGED <<owner, live, expired, config, failed>>
  PROVE  DetailsInv'
<1>1. commands' \in 0..MaxCommands
  BY FbxAssumption DEF DetailsInv, Begin
<1>2. proc' = [proc EXCEPT ![p] = r] /\ Typed /\ config \in Contents /\ live \subseteq DOMAIN owner
  BY DEF Begin, FbxInv, DetailsInv
<1> QED
  BY <1>1, <1>2, DetailsMove

LEMMA StartsDetails ==
  ASSUME FbxInv, DetailsInv, NEW p \in Procs,
         \/ \E u \in Users: Login(p, u)
         \/ \E home \in BOOLEAN: Logout(p, home) \/ \E command \in {"call", "upload"}: Start(p, command, home)
         \/ \E name \in Sources: AddSource(p, name) \/ RemoveSource(p, name)
  PROVE  DetailsInv'
<1>1. ASSUME NEW u \in Users, Login(p, u) PROVE DetailsInv'
  BY <1>1, BeginDetails DEF Login, server, disk, Saves
<1>2. ASSUME NEW home \in BOOLEAN, Logout(p, home) PROVE DetailsInv'
  BY <1>2, BeginDetails DEF Logout, server, disk, Saves
<1>3. ASSUME NEW home \in BOOLEAN, NEW command \in {"call", "upload"}, Start(p, command, home)
      PROVE  DetailsInv'
  BY <1>3, BeginDetails, IdleSaves DEF Start, server, disk, Saves
<1>4. Loaded \in Lists
  <2>1. << >> \in Lists
    BY DEF Lists, IsInjective
  <2>2. CASE config.is = "config"
    <3>1. PICK s \in Lists: config = Config(s)
      BY <2>2 DEF DetailsInv, Contents, NoFile, Emptied, Torn
    <3> QED
      BY <2>2, <3>1 DEF Loaded, Config
  <2> QED
    BY <2>1, <2>2 DEF Loaded
<1>5. ASSUME NEW command, NEW s \in Lists,
             Begin(p, [pc |-> "config", command |-> command, new |-> Config(s)]),
             UNCHANGED <<owner, live, expired, config, failed>>
      PROVE  DetailsInv'
  <2>1. Saves([pc |-> "config", command |-> command, new |-> Config(s)])
    BY DEF Saves
  <2> QED
    BY <1>5, <2>1, BeginDetails
<1>6. ASSUME NEW name \in Sources, AddSource(p, name) PROVE DetailsInv'
  BY <1>4, <1>5, <1>6, AddedIsList DEF AddSource, server, disk
<1>7. ASSUME NEW name \in Sources, RemoveSource(p, name) PROVE DetailsInv'
  BY <1>4, <1>5, <1>7, WithoutIsList, BeginDetails, IdleSaves DEF RemoveSource, server, disk
<1> QED
  BY <1>1, <1>2, <1>3, <1>6, <1>7

\* A command ends.
LEMMA EndDetails ==
  ASSUME FbxInv, DetailsInv, NEW p \in Procs, End(p), config' \in Contents,
         DOMAIN owner \subseteq DOMAIN owner', live' \subseteq DOMAIN owner', UNCHANGED <<expired, commands>>,
         failed' = failed \/ Fail
  PROVE  DetailsInv'
<1>1. proc' = [proc EXCEPT ![p] = Idle] /\ commands' \in 0..MaxCommands /\ Typed
  BY DEF End, DetailsInv, FbxInv
<1> QED
  BY <1>1, IdleSaves, DetailsMove

\* It goes on.
LEMMA GoDetails ==
  ASSUME FbxInv, DetailsInv, NEW p \in Procs, NEW pc, Go(p, pc), proc[p].pc # "idle",
         pc \in {"config", "writing config"} => proc[p].pc = "config",
         config' \in Contents, owner' = owner, live' \subseteq DOMAIN owner, UNCHANGED <<expired, commands>>,
         failed' = failed \/ Fail
  PROVE  DetailsInv'
<1>1. commands' \in 0..MaxCommands /\ Typed
  BY DEF DetailsInv, FbxInv
<1>2. /\ proc' = [proc EXCEPT ![p] = [proc[p] EXCEPT !.pc = pc]]
      /\ Saves([proc[p] EXCEPT !.pc = pc])
  BY <1>1, GoSaves
<1> QED
  BY <1>1, <1>2, DetailsMove

LEMMA StepDetails ==
  ASSUME FbxInv, DetailsInv, NEW p \in Procs, Step(p) \/ Die(p)
  PROVE  DetailsInv'
<1>1. config \in Contents /\ live \subseteq DOMAIN owner /\ Typed /\ owner \in Seq(Users) /\ commands \in 0..MaxCommands
  BY DEF DetailsInv, FbxInv, Typed
<1>2. Emptied \in Contents
  BY DEF Contents
<1>3. CASE Empty(p)
  BY <1>1, <1>3, GoDetails DEF Empty, server
<1>4. CASE Write(p)
  BY <1>1, <1>4, GoDetails, EndDetails DEF Write, server
<1>5. CASE LogoutAnswer(p)
  BY <1>1, <1>5, GoDetails DEF LogoutAnswer, disk
<1>6. CASE Clear(p)
  BY <1>1, <1>6, EndDetails DEF Clear, server
<1>7. CASE Took(p)
  BY <1>1, <1>7, GoDetails DEF Took, disk
<1>8. CASE Refused(p) \/ Die(p)
  BY <1>1, <1>8, EndDetails DEF Refused, Die, server, disk
<1>9. CASE EmptyConfig(p)
  BY <1>1, <1>2, <1>9, GoDetails DEF EmptyConfig, server
<1>10. CASE WriteConfig(p)
  <2>1. proc[p].new \in Contents
    BY <1>10 DEF WriteConfig, DetailsInv, Saves, Contents
  <2>2. config' \in Contents
    BY <1>10, <2>1 DEF WriteConfig, Written, Contents
  <2> QED
    BY <1>1, <1>10, <2>2, EndDetails DEF WriteConfig, server
<1>11. CASE Request(p) \/ Again(p)
  <2>1. /\ proc[p].pc \in {"ready", "again"} /\ UNCHANGED <<owner, live, expired, config, commands, failed>>
        /\ Answered(p) \/ End(p) \/ Go(p, "refreshing")
    BY <1>11 DEF Request, Again, server, disk
  <2>2. CASE End(p)
    BY <1>1, <2>1, <2>2, EndDetails
  <2>3. CASE Go(p, "refreshing")
    BY <1>1, <2>1, <2>3, GoDetails
  <2>4. CASE proc' = [proc EXCEPT ![p].requests = @ + 1, ![p].pc = "ready"]
    <3> DEFINE s == [proc[p] EXCEPT !.requests = @ + 1]
               r == [s EXCEPT !.pc = "ready"]
    <3>1. proc[p] \in Calling(Good)
      BY <2>1, ByCounter DEF FbxInv, Typed
    <3>2. s \in Calling(Good)
      BY <3>1 DEF Calling
    <3>3. proc' = [proc EXCEPT ![p] = r]
      BY <2>4 DEF FbxInv, Typed
    <3> HIDE DEF s
    <3>4. r \in Calling(Good)
      BY <3>2 DEF Calling
    <3> HIDE DEF r
    <3> QED
      BY <1>1, <2>1, <3>3, <3>4, CallSaves, DetailsMove
  <2> QED
    BY <2>1, <2>2, <2>3, <2>4 DEF Answered
<1>12. ASSUME NEW u, Issue(u)
       PROVE  /\ DOMAIN owner \subseteq DOMAIN owner'
              /\ live \cup {Newest} \subseteq DOMAIN owner'
  BY <1>1, <1>12 DEF Issue, Newest
<1>13. CASE LoginAnswer(p)
  <2>1. CASE End(p)
    BY <1>1, <1>12, <1>13, <2>1, EndDetails DEF LoginAnswer, disk
  <2>2. CASE ~End(p)
    <3> DEFINE r == [pc |-> "saving", command |-> "login", mem |-> Session(Newest, proc[p].user), spent |-> 0]
    <3>1. /\ Issue(proc[p].user) /\ live' = live \cup {Newest} /\ proc' = [proc EXCEPT ![p] = r]
          /\ UNCHANGED <<expired, config, commands, failed>>
      BY <1>13, <2>2 DEF LoginAnswer, disk
    <3>2. Saves(r)
      BY DEF Saves
    <3> HIDE DEF r
    <3> QED
      BY <1>1, <1>12, <3>1, <3>2, DetailsMove
  <2> QED
    BY <2>1, <2>2
<1>14. CASE Renewed(p)
  <2> DEFINE a == [proc[p] EXCEPT !.mem = Refreshed(p, Newest)]
             b == [a EXCEPT !.pc = "saving"]
             r == [b EXCEPT !.spent = proc[p].mem.pair]
  <2>1. /\ Issue(owner[proc[p].mem.pair]) /\ live' = live \cup {Newest} /\ proc[p].pc = "taken"
        /\ proc' = [proc EXCEPT ![p].mem = Refreshed(p, Newest), ![p].pc = "saving", ![p].spent = proc[p].mem.pair]
        /\ UNCHANGED <<expired, config, commands, failed>>
    BY <1>14 DEF Renewed, NextPc, disk
  <2>2. proc' = [proc EXCEPT ![p] = r]
    BY <1>1, <2>1 DEF Typed
  <2>3. proc[p] \in Calling(Good)
    BY <2>1, ByCounter DEF FbxInv, Typed
  <2> DEFINE C == Calling(Good \cup {Refreshed(p, Newest)})
  <2>4. a \in C
    BY <2>3 DEF Calling
  <2> HIDE DEF a
  <2>5. b \in C /\ b.pc = "saving"
    BY <2>4 DEF Calling
  <2> HIDE DEF b
  <2>6. r.pc = "saving"
    BY <2>5 DEF Calling
  <2>7. Saves(r)
    BY <2>6 DEF Saves
  <2> HIDE DEF r
  <2> QED
    BY <1>1, <1>12, <2>1, <2>2, <2>7, DetailsMove
<1> QED
  BY <1>3, <1>4, <1>5, <1>6, <1>7, <1>8, <1>9, <1>10, <1>11, <1>13, <1>14 DEF Step

LEMMA DetailsStep == FbxInv /\ DetailsInv /\ [Next]_vars => DetailsInv'
<1> SUFFICES ASSUME FbxInv, DetailsInv, [Next]_vars PROVE DetailsInv'
  OBVIOUS
<1>1. CASE UNCHANGED vars
  BY <1>1 DEF vars, DetailsInv, Saves, Contents
<1>2. ASSUME NEW n \in 1..MaxAging, Expire(n) PROVE DetailsInv'
  BY <1>2 DEF Expire, disk, DetailsInv, Saves, Contents
<1>3. ASSUME NEW p \in Procs, Step(p) \/ Die(p) PROVE DetailsInv'
  BY <1>3, StepDetails
<1> QED
  BY <1>1, <1>2, <1>3, StartsDetails DEF Next

LEMMA DetailsInit == Init => DetailsInv
<1> SUFFICES ASSUME Init PROVE DetailsInv
  OBVIOUS
<1>1. \A p \in Procs: Saves(proc[p])
  BY IdleSaves DEF Init
<1>2. 0 \in 0..MaxCommands /\ 0 \in 0..Failures
  BY FbxAssumption
<1> QED
  BY <1>1, <1>2 DEF Init, DetailsInv, Contents

\* However many commands change config.toml at a time, die or leave it torn,
\* it never holds a source twice, nor a session.json a user or pair that is
\* none (add and remove, provider.rs:256 and 272).
THEOREM FilesAreTyped == Spec => []TypeOK
<1>1. FbxInv /\ DetailsInv => TypeOK
  <2> SUFFICES ASSUME FbxInv, DetailsInv PROVE TypeOK
    OBVIOUS
  <2>1. session \in SessionFile \cup {NoFile, Emptied, Torn}
    <3>1. Good \subseteq SessionFile
      BY DEF Good, SessionFile, FbxInv, Typed
    <3> QED
      BY <3>1 DEF FbxInv, Typed, NoSession
  <2>2. \/ config \in {NoFile, Emptied, Torn}
        \/ config.is = "config" /\ config.sources \in Seq(Sources) /\ IsInjective(config.sources)
    BY DEF DetailsInv, Contents, Lists, Config
  <2> QED
    BY <2>1, <2>2 DEF TypeOK, DetailsInv, FbxInv, Typed
<1>2. FbxInv /\ DetailsInv /\ [Next]_vars => DetailsInv'
  BY DetailsStep
<1> QED
  BY <1>1, <1>2, DetailsInit, FbxInvariant, PTL DEF Spec
=============================================================================
