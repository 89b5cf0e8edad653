------------------------------- MODULE Ratchet -------------------------------
(***************************************************************************)
(* The message sessions of packages/crypto/src/signal.rs: two ends of a    *)
(* conversation, each with a sending and a receiving chain, and a network  *)
(* that loses, repeats, reorders and reflects what they seal.              *)
(*                                                                         *)
(* A chain key after n steps, hashed with n, is the key of message n; the  *)
(* hash is taken as injective, so a message key is the triple of the       *)
(* shared secret, the chain and n. Sealing is authenticated: a ciphertext  *)
(* opens under its own key and under no other.                             *)
(***************************************************************************)
EXTENDS Naturals, Sequences

CONSTANTS Talks,             \* conversations, each between two ends
          Secrets,           \* what a key agreement can yield
          MAX_CHAIN_LENGTH   \* messages per chain (1 000 000 in the code)

VARIABLES session,   \* session[end]: the RatchetSession of every end that has one
          wire,      \* every ciphertext sealed so far; delivery removes nothing
          opened     \* opened[end]: the messages it opened, in order

vars == <<session, wire, opened>>

Sides == {"initiator", "responder"}
Ends == Talks \X Sides
Peer(e) == <<e[1], IF e[2] = "initiator" THEN "responder" ELSE "initiator">>

Keys == Secrets \X {"a", "b"} \X Nat
Messages == Ends \X Nat
RatchetSession == [secret: Secrets, send: {"a", "b"}, recv: {"a", "b"},
                   send_count: Nat, recv_count: Nat]

\* The initiator sends on the chain the responder receives on.
BugNew(secret, is_initiator) ==   \* both ends send on the same chain
  [secret |-> secret, send |-> "a", recv |-> "b", send_count |-> 0, recv_count |-> 0]
New(secret, is_initiator) ==
  [secret |-> secret,
   send |-> IF is_initiator THEN "a" ELSE "b",
   recv |-> IF is_initiator THEN "b" ELSE "a",
   send_count |-> 0, recv_count |-> 0]

SendKey(s) == <<s.secret, s.send, s.send_count>>
RecvKey(s) == <<s.secret, s.recv, s.recv_count>>

Established(e) == e \in DOMAIN session

Init == /\ session = << >>
        /\ wire = {}
        /\ opened = [e \in Ends |-> << >>]

\* A key agreement ended at e with this secret.
Start(e, secret) ==
  /\ ~Established(e)
  /\ session' = [d \in DOMAIN session \cup {e} |->
                   IF d = e THEN New(secret, e[2] = "initiator") ELSE session[d]]
  /\ UNCHANGED <<wire, opened>>

\* What a key agreement must ensure: no end of another conversation has it.
Fresh(e, secret) == \A d \in DOMAIN session: d[1] # e[1] => session[d].secret # secret

\* seal: an exhausted chain is an error that changes nothing.
Seal(e) ==
  /\ Established(e)
  /\ session[e].send_count < MAX_CHAIN_LENGTH
  /\ wire' = wire \cup {[key |-> SendKey(session[e]), text |-> <<e, session[e].send_count>>]}
  /\ session' = [session EXCEPT ![e].send_count = @ + 1]
  /\ UNCHANGED opened

\* open: the chain advances before the ciphertext is tried, so a message that
\* does not open uses up the key of the one that would have.
BugOpen(e, m) ==   \* the chain stays where it is
  /\ Established(e) /\ session[e].recv_count < MAX_CHAIN_LENGTH
  /\ m.key = RecvKey(session[e])
  /\ opened' = [opened EXCEPT ![e] = Append(@, m.text)]
  /\ Len(opened[e]) < 2
  /\ UNCHANGED <<session, wire>>
Open(e, m) ==
  /\ Established(e)
  /\ session[e].recv_count < MAX_CHAIN_LENGTH
  /\ opened' = IF m.key = RecvKey(session[e])
               THEN [opened EXCEPT ![e] = Append(@, m.text)] ELSE opened
  /\ session' = [session EXCEPT ![e].recv_count = @ + 1]
  /\ UNCHANGED wire

\* A damaged ciphertext: open fails, and the chain has advanced all the same.
OpenDamaged(e) ==
  /\ Established(e)
  /\ session[e].recv_count < MAX_CHAIN_LENGTH
  /\ session' = [session EXCEPT ![e].recv_count = @ + 1]
  /\ UNCHANGED <<wire, opened>>

Next == \E e \in Ends: \/ \E secret \in Secrets: Fresh(e, secret) /\ Start(e, secret)
                       \/ Seal(e)
                       \/ \E m \in wire: Open(e, m)
                       \/ OpenDamaged(e)

Spec == Init /\ [][Next]_vars

TypeOK == /\ DOMAIN session \subseteq Ends
          /\ session \in [DOMAIN session -> RatchetSession]
          /\ wire \subseteq [key: Keys, text: Messages]
          /\ opened \in [Ends -> Seq(Messages)]

-----------------------------------------------------------------------------
\* Every message is sealed with the same nonce, so a key must seal one message
\* only, whichever end, direction and conversation it comes from
\* (signal.rs:369, "Nonce is always zero because the key is single-use").
KeySealsOnce == \A m, n \in wire: m.key = n.key => m.text = n.text

\* Whatever the network does, an end opens only what its peer sealed, in the
\* order it was sealed, and nothing twice: it may skip, never go back.
OpensInOrder ==
  \A e \in Ends: \A i \in 1..Len(opened[e]):
    /\ \E m \in wire: m.text = opened[e][i] /\ opened[e][i][1] = Peer(e)
    /\ \A j \in 1..(i-1): opened[e][j][2] < opened[e][i][2]

-----------------------------------------------------------------------------
\* The inductive invariant: what is on the wire was sealed by an established
\* end below its count, with the key of that place in its chain.
SideChain(side) == IF side = "initiator" THEN "a" ELSE "b"
ChainsOpposed == \A e \in DOMAIN session:
                   /\ session[e].send = SideChain(e[2])
                   /\ session[e].recv = SideChain(Peer(e)[2])
SecretsApart == \A d, e \in DOMAIN session: d[1] # e[1] => session[d].secret # session[e].secret
WireSealed == \A m \in wire: LET e == m.text[1] n == m.text[2] IN
                   /\ Established(e)
                   /\ n < session[e].send_count
                   /\ m.key = <<session[e].secret, session[e].send, n>>
OpenedBehind == \A e \in Ends: \A i \in 1..Len(opened[e]):
                   Established(e) /\ opened[e][i][2] < session[e].recv_count
RatchetInv == /\ TypeOK /\ ChainsOpposed /\ SecretsApart
              /\ WireSealed /\ OpenedBehind /\ OpensInOrder
=============================================================================
