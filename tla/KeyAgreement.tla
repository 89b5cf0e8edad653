---------------------------- MODULE KeyAgreement ----------------------------
(***************************************************************************)
(* The key server (apps/server/src/api/keys.rs), the prekey bundles of     *)
(* packages/crypto/src/keys.rs and the X3DH functions of signal.rs. Any    *)
(* number of initiators fetch the bundle of one owner and start a          *)
(* conversation each; the secrets they agree on start the two ends of a    *)
(* Ratchet session, whose module this one instantiates and implements.     *)
(*                                                                         *)
(* A Diffie-Hellman output is the set of the two key pairs it comes from:  *)
(* DH(a, B) = DH(b, A). The verifying key of a bundle, read as an X25519   *)
(* key, is half of a pair nobody holds. Nothing in src/ calls x3dh_respond *)
(* or starts a session outside tests: who looks up the one-time secret by  *)
(* its id, and who starts a session from a secret two ends already share,  *)
(* as the tests of signal.rs do, is external.                              *)
(***************************************************************************)
EXTENDS Naturals, Sequences, FiniteSets, SequencesExt

CONSTANTS Talks,              \* conversations started with the owner
          None, NoKey,        \* nothing yet; a conversation without a one-time key
          Given,              \* a conversation whose secret is no output of X3DH
          MAX_CHAIN_LENGTH,
          MAX_ONE_TIME_PREKEYS,
          Batches,            \* id sequences a client may send
          MaxUploads,         \* bundles and batches uploaded in a behaviour
          MaxSealed           \* messages sealed in a behaviour

ASSUME TalksAssumption == IsFiniteSet(Talks)
ASSUME BatchesAssumption == \A b \in Batches: b \in Seq(Nat)
ASSUME BoundsAssumption == MaxUploads \in Nat /\ MaxSealed \in Nat /\ MAX_ONE_TIME_PREKEYS \in Nat

VARIABLES bundle,    \* prekey_bundles.bundle of the owner, or None
          uploads,   \* how often the owner has sent keys
          fetched,   \* fetched[t]: the bundle t's initiator downloaded
          hello,     \* hello[t]: the id of the one-time key in t's first message, or Given
          session, wire, opened

keyVars == <<bundle, uploads, fetched, hello>>
ratchetVars == <<session, wire, opened>>
vars == <<bundle, uploads, fetched, hello, session, wire, opened>>

OneTimePrekey == [id: Nat, upload: 1..MaxUploads]
\* Who holds the signed prekey: the owner, whose signature verifies, or not.
Signers == {"owner", "stranger"}
PrekeyBundle == [signer: Signers, one_time_prekeys: Seq(OneTimePrekey)]

ASSUME NothingAssumption == /\ None \notin PrekeyBundle /\ None \notin Nat /\ None # NoKey
                            /\ NoKey \notin OneTimePrekey /\ NoKey \notin Nat
                            /\ Given \notin Nat /\ Given # None /\ Given # NoKey

-----------------------------------------------------------------------------
\* X3DH: the two sides of the same computation.
DH(a, b) == {a, b}
Derive(dh1, dh2, dh3, dh4) == <<dh1, dh2, dh3, dh4>>

BugInitiatorSecret(t, signer, key) ==   \* the ephemeral key of an earlier conversation
  Derive({<<"identity">>, <<"signed prekey", signer>>}, {<<"ephemeral">>, <<"verifying key">>},
         {<<"ephemeral">>, <<"signed prekey", signer>>}, {<<"ephemeral">>, <<"one-time", key>>})
InitiatorSecret(t, signer, key) ==
  Derive(DH(<<"identity", t>>, <<"signed prekey", signer>>),
         DH(<<"ephemeral", t>>, <<"verifying key">>),
         DH(<<"ephemeral", t>>, <<"signed prekey", signer>>),
         IF key = NoKey THEN {} ELSE DH(<<"ephemeral", t>>, <<"one-time", key>>))
BugResponderSecret(t, key) ==   \* the one-time key is left out of the hash
  Derive(DH(<<"signed prekey", "owner">>, <<"identity", t>>),
         DH(<<"identity">>, <<"ephemeral", t>>),
         DH(<<"signed prekey", "owner">>, <<"ephemeral", t>>), {})
ResponderSecret(t, key) ==
  Derive(DH(<<"signed prekey", "owner">>, <<"identity", t>>),
         DH(<<"identity">>, <<"ephemeral", t>>),
         DH(<<"signed prekey", "owner">>, <<"ephemeral", t>>),
         IF key = NoKey THEN {} ELSE DH(<<"one-time", key>>, <<"ephemeral", t>>))
\* A secret of the conversation that both ends have from elsewhere.
GivenSecret(t) == Derive({<<"given", t>>}, {}, {}, {})

\* Every one-time key the owner ever made: batch u numbers its keys by Batches.
OneTimeKeys == {[id |-> i, upload |-> u]: i \in UNION {Range(b): b \in Batches}, u \in 1..MaxUploads}
Secrets == {InitiatorSecret(t, by, k): t \in Talks, by \in Signers, k \in OneTimeKeys \cup {NoKey}}
      \cup {ResponderSecret(t, k): t \in Talks, k \in OneTimeKeys \cup {NoKey}}
      \cup {GivenSecret(t): t \in Talks}

R == INSTANCE Ratchet

-----------------------------------------------------------------------------
BugMade(batch) == [i \in DOMAIN batch |-> [id |-> batch[i], upload |-> uploads]]
Made(batch) == [i \in DOMAIN batch |-> [id |-> batch[i], upload |-> uploads + 1]]

\* validate_public: a signature of the identity in the bundle, ids without
\* repetition, at most MAX_ONE_TIME_PREKEYS of them.
ValidIds(keys) == /\ Len(keys) <= MAX_ONE_TIME_PREKEYS
                  /\ \A i, j \in DOMAIN keys: keys[i].id = keys[j].id => i = j
ValidatePublic(b) == b.signer = "owner" /\ ValidIds(b.one_time_prekeys)

Init == /\ bundle = None /\ uploads = 0
        /\ fetched = [t \in Talks |-> None]
        /\ hello = [t \in Talks |-> None]
        /\ session = << >> /\ wire = {} /\ opened = [e \in R!Ends |-> << >>]

\* register stores the bundle that came with the account.
Register(b) ==
  /\ bundle = None /\ uploads = 0
  /\ ValidatePublic(b)
  /\ bundle' = b
  /\ uploads' = uploads + 1
  /\ UNCHANGED <<fetched, hello, ratchetVars>>

\* replenish_one_time appends a batch that is valid in itself; neither its ids
\* nor its size are compared with what is stored. An account without a bundle,
\* one that OAuth created, has no row to update and is answered all the same.
ReplenishOneTime(keys) ==
  /\ keys # << >> /\ ValidIds(keys)
  /\ bundle' = IF bundle = None THEN None ELSE [bundle EXCEPT !.one_time_prekeys = @ \o keys]
  /\ uploads' = uploads + 1
  /\ UNCHANGED <<fetched, hello, ratchetVars>>

Upload == /\ uploads < MaxUploads
          /\ \E batch \in Batches:
               \/ Register([signer |-> "owner", one_time_prekeys |-> Made(batch)])
               \/ ReplenishOneTime(Made(batch))

\* get_bundle returns the whole column and changes nothing. The signed prekey of
\* what arrives may be another's, and then the initiator asks again.
GetBundle(t) ==
  /\ bundle # None /\ hello[t] = None
  /\ fetched[t] # None => fetched[t].signer = "stranger"
  /\ \E by \in Signers: fetched' = [fetched EXCEPT ![t] = [bundle EXCEPT !.signer = by]]
  /\ UNCHANGED <<bundle, uploads, hello, ratchetVars>>

\* x3dh_initiate: check the signature, take the first one-time key there is.
FirstKey(b) == IF b.one_time_prekeys = << >> THEN NoKey ELSE Head(b.one_time_prekeys)
BugX3dhInitiate(t) ==   \* the signature is not checked
  /\ fetched[t] # None /\ hello[t] = None
  /\ LET key == FirstKey(fetched[t]) IN
       /\ R!Start(<<t, "initiator">>, InitiatorSecret(t, fetched[t].signer, key))
       /\ hello' = [hello EXCEPT ![t] = IF key = NoKey THEN NoKey ELSE key.id]
  /\ UNCHANGED <<bundle, uploads, fetched>>
X3dhInitiate(t) ==
  /\ fetched[t] # None /\ hello[t] = None
  /\ fetched[t].signer = "owner"
  /\ LET key == FirstKey(fetched[t]) IN
       /\ R!Start(<<t, "initiator">>, InitiatorSecret(t, fetched[t].signer, key))
       /\ hello' = [hello EXCEPT ![t] = IF key = NoKey THEN NoKey ELSE key.id]
  /\ UNCHANGED <<bundle, uploads, fetched>>

\* x3dh_respond with a secret of that id; ids repeat when batches overlap, and
\* then the owner has several to choose from.
X3dhRespond(t) ==
  /\ hello[t] \notin {None, Given}
  /\ \E key \in IF hello[t] = NoKey THEN {NoKey}
                ELSE {k \in Range(bundle.one_time_prekeys): k.id = hello[t]}:
       R!Start(<<t, "responder">>, ResponderSecret(t, key))
  /\ UNCHANGED keyVars

\* An end starts a session from a secret it was given.
StartGiven(t, side) ==
  /\ hello[t] \in {None, Given}
  /\ R!Start(<<t, side>>, GivenSecret(t))
  /\ hello' = [hello EXCEPT ![t] = Given]
  /\ UNCHANGED <<bundle, uploads, fetched>>

Agree == \E t \in Talks: \/ GetBundle(t) \/ X3dhInitiate(t) \/ X3dhRespond(t)
                         \/ \E side \in R!Sides: StartGiven(t, side)
Converse == /\ \E e \in R!Ends: \/ Cardinality(wire) < MaxSealed /\ R!Seal(e)
                                \/ \E m \in wire: R!Open(e, m)
                                \/ R!OpenDamaged(e)
            /\ UNCHANGED keyVars
Next == Upload \/ Agree \/ Converse

Spec == Init /\ [][Next]_vars

TypeOK == /\ bundle \in PrekeyBundle \cup {None}
          /\ uploads \in 0..MaxUploads
          /\ fetched \in [Talks -> PrekeyBundle \cup {None}]
          /\ hello \in [Talks -> Nat \cup {NoKey, None, Given}]
          /\ R!TypeOK

-----------------------------------------------------------------------------
BothEnds(t) == \A side \in R!Sides: R!Established(<<t, side>>)

\* Of the outputs x3dh_initiate and x3dh_respond hash for one conversation, all
\* that bind the signed prekey, the one-time key and the ephemeral key agree,
\* however uploads, downloads, refused bundles and conversations interleave, when
\* the id in the first message names one key of the supply. The second output
\* never does: one side multiplies with the verifying key of the bundle, the
\* other with an X25519 identity (the note at signal.rs:405), so that the two
\* secrets differ, against signal.rs:185, "derive the identical shared secret".
PartsAgree ==
  \A t \in Talks: BothEnds(t) /\ hello[t] # Given =>
    LET begun == session[<<t, "initiator">>].secret
        answered == session[<<t, "responder">>].secret
    IN /\ begun[1] = answered[1] /\ begun[3] = answered[3] /\ begun[2] # answered[2]
       /\ Cardinality({k \in Range(bundle.one_time_prekeys): k.id = hello[t]}) <= 1
            => begun[4] = answered[4]

\* The sessions that start here are sessions of Ratchet: no secret serves two
\* conversations.
ImplementsRatchet == R!Spec

\* The inherited promises, over sessions X3DH started and given ones at once.
KeySealsOnce == R!KeySealsOnce
OpensInOrder == R!OpensInOrder
=============================================================================
