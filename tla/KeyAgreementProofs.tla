------------------------- MODULE KeyAgreementProofs --------------------------
(***************************************************************************)
(* Proofs about KeyAgreement: X3DH gives every conversation a secret of    *)
(* its own, so that the sessions it starts are sessions of Ratchet, and    *)
(* all it takes from the signed, the one-time and the ephemeral key is the *)
(* same on both sides. For any conversations, batches of keys and bounds.  *)
(***************************************************************************)
EXTENDS KeyAgreement, FiniteSetTheorems, TLAPS

Bundle == [signer: Signers, one_time_prekeys: Seq(OneTimeKeys)]
Begun(t, k) == InitiatorSecret(t, "owner", k)
SecretsOf(t) == {Begun(t, k): k \in OneTimeKeys \cup {NoKey}}
           \cup {ResponderSecret(t, k): k \in OneTimeKeys \cup {NoKey}}
           \cup {GivenSecret(t)}
Greeted(t) == hello[t] \notin {None, Given}
IdOf(key) == IF key = NoKey THEN NoKey ELSE key.id
Candidates(t) == IF hello[t] = NoKey THEN {NoKey}
                 ELSE {k \in Range(bundle.one_time_prekeys): k.id = hello[t]}

\* What is stored and downloaded are keys the owner made, and the supply only
\* grows.
SupplyGrows ==
  /\ uploads \in 0..MaxUploads
  /\ bundle \in Bundle \cup {None}
  /\ fetched \in [Talks -> Bundle \cup {None}]
  /\ \A t \in Talks: fetched[t] # None =>
       bundle # None /\ Range(fetched[t].one_time_prekeys) \subseteq Range(bundle.one_time_prekeys)

\* The first message names the one-time key the initiator took.
HelloNamesTheKey ==
  /\ hello \in [Talks -> Nat \cup {NoKey, None, Given}]
  /\ \A t \in Talks: Greeted(t) => fetched[t] # None /\ hello[t] = IdOf(FirstKey(fetched[t]))

\* The sessions there are have the secret of their side of the conversation.
SidesDerive ==
  /\ DOMAIN session \subseteq R!Ends
  /\ session \in [DOMAIN session -> R!RatchetSession]
  /\ \A t \in Talks: <<t, "initiator">> \in DOMAIN session =>
       IF hello[t] = Given THEN session[<<t, "initiator">>].secret = GivenSecret(t)
       ELSE /\ Greeted(t)
            /\ session[<<t, "initiator">>].secret = Begun(t, FirstKey(fetched[t]))
  /\ \A t \in Talks: <<t, "responder">> \in DOMAIN session =>
       IF hello[t] = Given THEN session[<<t, "responder">>].secret = GivenSecret(t)
       ELSE /\ Greeted(t)
            /\ \E k \in Candidates(t): session[<<t, "responder">>].secret = ResponderSecret(t, k)

AgreementInv == SupplyGrows /\ HelloNamesTheKey /\ SidesDerive

-----------------------------------------------------------------------------
(* Keys and secrets. *)

LEMMA KeysAreTyped == OneTimeKeys \subseteq OneTimePrekey
BY BatchesAssumption DEF OneTimeKeys, OneTimePrekey, Range

LEMMA FirstKeyIsKey ==
  ASSUME NEW b \in Bundle
  PROVE  /\ FirstKey(b) \in OneTimeKeys \cup {NoKey}
         /\ FirstKey(b) # NoKey => FirstKey(b) \in Range(b.one_time_prekeys)
         /\ IdOf(FirstKey(b)) \in Nat \cup {NoKey}
<1>1. b.one_time_prekeys \in Seq(OneTimeKeys)
  BY DEF Bundle
<1>2. CASE b.one_time_prekeys = << >>
  BY <1>2 DEF FirstKey, IdOf
<1>3. CASE b.one_time_prekeys # << >>
  <2>1. /\ 1 \in DOMAIN b.one_time_prekeys /\ FirstKey(b) = b.one_time_prekeys[1]
        /\ b.one_time_prekeys[1] \in OneTimeKeys
    BY <1>1, <1>3 DEF FirstKey
  <2>2. b.one_time_prekeys[1].id \in Nat
    BY <2>1, KeysAreTyped DEF OneTimePrekey
  <2> QED
    BY <2>1, <2>2 DEF Range, IdOf
<1> QED
  BY <1>2, <1>3

\* The first of the four parts names the conversation.
LEMMA SecretsApart ==
  ASSUME NEW t, NEW u, NEW x \in SecretsOf(t), NEW y \in SecretsOf(u), x = y
  PROVE  t = u
<1> DEFINE a(v) == <<"identity", v>>
           g(v) == <<"given", v>>
           s == <<"signed prekey", "owner">>
<1>1. \A v, w: /\ a(v) # s /\ g(v) # s /\ a(v) # g(w)
               /\ a(v) = a(w) => v = w
               /\ g(v) = g(w) => v = w
  <2> TAKE v, w
  <2>1. a(v) # s /\ g(v) # s
    OBVIOUS
  <2>2. a(v) # g(w)
    OBVIOUS
  <2>3. (a(v) = a(w) => v = w) /\ (g(v) = g(w) => v = w)
    OBVIOUS
  <2> QED
    BY <2>1, <2>2, <2>3
<1>2. \A v, k: Begun(v, k)[1] = {a(v), s} /\ ResponderSecret(v, k)[1] = {a(v), s}
  BY DEF Begun, InitiatorSecret, ResponderSecret, Derive, DH
<1>3. \A v: GivenSecret(v)[1] = {g(v)}
  BY DEF GivenSecret, Derive
<1>4. x[1] = {a(t), s} \/ x[1] = {g(t)}
  BY <1>2, <1>3 DEF SecretsOf
<1>5. y[1] = {a(u), s} \/ y[1] = {g(u)}
  BY <1>2, <1>3 DEF SecretsOf
<1> HIDE DEF a, g, s
<1> QED
  BY <1>1, <1>4, <1>5

LEMMA SecretsAreSecrets ==
  \A t \in Talks: SecretsOf(t) \subseteq Secrets
BY DEF SecretsOf, Secrets, Begun, Signers

\* Both sides compute the same but for the second part: nobody holds the other
\* half of a verifying key.
LEMMA SidesCommute ==
  ASSUME NEW t, NEW k
  PROVE  /\ Begun(t, k)[1] = ResponderSecret(t, k)[1]
         /\ Begun(t, k)[3] = ResponderSecret(t, k)[3]
         /\ Begun(t, k)[4] = ResponderSecret(t, k)[4]
<1>1. \A a, b: DH(a, b) = DH(b, a)
  BY DEF DH
<1> QED
  BY <1>1 DEF Begun, InitiatorSecret, ResponderSecret, Derive

\* Three of the parts do not depend on the one-time key.
LEMMA KeyIsFourth ==
  ASSUME NEW t, NEW k, NEW l
  PROVE  /\ ResponderSecret(t, k)[1] = ResponderSecret(t, l)[1]
         /\ ResponderSecret(t, k)[2] = ResponderSecret(t, l)[2]
         /\ ResponderSecret(t, k)[3] = ResponderSecret(t, l)[3]
BY DEF ResponderSecret, Derive

LEMMA SecondDiffers ==
  ASSUME NEW t, NEW k
  PROVE  Begun(t, k)[2] # ResponderSecret(t, k)[2]
<1> DEFINE e == <<"ephemeral", t>>
           v == <<"verifying key">>
           i == <<"identity">>
<1>1. Begun(t, k)[2] = {e, v} /\ ResponderSecret(t, k)[2] = {i, e}
  BY DEF Begun, InitiatorSecret, ResponderSecret, Derive, DH
<1>2. i # e /\ i # v
  <2>1. i[1] = "identity" /\ e[1] = "ephemeral" /\ v[1] = "verifying key"
    OBVIOUS
  <2> HIDE DEF i, e, v
  <2> QED
    BY <2>1
<1> HIDE DEF i, e, v
<1> QED
  BY <1>1, <1>2

\* Every session's secret is one of its conversation.
LEMMA SessionSecrets ==
  ASSUME AgreementInv, NEW d \in DOMAIN session
  PROVE  d[1] \in Talks /\ session[d].secret \in SecretsOf(d[1])
<1>1. PICK t \in Talks, side \in {"initiator", "responder"}: d = <<t, side>>
  BY DEF AgreementInv, SidesDerive, R!Ends, R!Sides
<1>0. CASE hello[t] = Given
  BY <1>0, <1>1 DEF AgreementInv, SidesDerive, SecretsOf
<1>2. CASE side = "initiator" /\ hello[t] # Given
  <2>1. Greeted(t) /\ session[d].secret = Begun(t, FirstKey(fetched[t]))
    BY <1>1, <1>2 DEF AgreementInv, SidesDerive
  <2>2. fetched[t] \in Bundle
    BY <2>1 DEF AgreementInv, HelloNamesTheKey, SupplyGrows
  <2>3. FirstKey(fetched[t]) \in OneTimeKeys \cup {NoKey}
    BY <2>2, FirstKeyIsKey
  <2> QED
    BY <1>1, <2>1, <2>3 DEF SecretsOf
<1>3. CASE side = "responder" /\ hello[t] # Given
  <2>1. PICK k \in Candidates(t): session[d].secret = ResponderSecret(t, k) /\ Greeted(t)
    BY <1>1, <1>3 DEF AgreementInv, SidesDerive
  <2>2. bundle \in Bundle
    BY <2>1 DEF AgreementInv, HelloNamesTheKey, SupplyGrows
  <2>3. Range(bundle.one_time_prekeys) \subseteq OneTimeKeys
    BY <2>2 DEF Bundle, Range
  <2>4. k \in OneTimeKeys \cup {NoKey}
    BY <2>1, <2>3 DEF Candidates
  <2> QED
    BY <1>1, <2>1, <2>4 DEF SecretsOf
<1> QED
  BY <1>0, <1>1, <1>2, <1>3
-----------------------------------------------------------------------------
(* One lemma per action. *)

LEMMA AgreementInit == Init => AgreementInv
BY BoundsAssumption DEF Init, AgreementInv, SupplyGrows, HelloNamesTheKey, SidesDerive, Greeted

\* A batch of a legal upload consists of keys of the owner.
LEMMA MadeKeys ==
  ASSUME SupplyGrows, uploads < MaxUploads, NEW batch \in Batches
  PROVE  Made(batch) \in Seq(OneTimeKeys)
<1>1. /\ batch \in Seq(Nat) /\ uploads + 1 \in 1..MaxUploads
      /\ Len(batch) \in Nat /\ DOMAIN batch = 1..Len(batch)
  BY BatchesAssumption, BoundsAssumption DEF SupplyGrows
<1>2. \A i \in DOMAIN batch: [id |-> batch[i], upload |-> uploads + 1] \in OneTimeKeys
  BY <1>1 DEF OneTimeKeys, Range
<1> QED
  BY <1>1, <1>2 DEF Made

LEMMA BundleIsTyped == Bundle \subseteq PrekeyBundle
<1>1. Seq(OneTimeKeys) \subseteq Seq(OneTimePrekey)
  BY KeysAreTyped
<1> QED
  BY <1>1 DEF Bundle, PrekeyBundle

\* The responder finds a key the owner made, or none was named.
LEMMA CandidatesAreKeys ==
  ASSUME AgreementInv, NEW t \in Talks, Greeted(t)
  PROVE  Candidates(t) \subseteq OneTimeKeys \cup {NoKey}
<1>1. bundle \in Bundle
  BY DEF AgreementInv, HelloNamesTheKey, SupplyGrows
<1>2. Range(bundle.one_time_prekeys) \subseteq OneTimeKeys
  BY <1>1 DEF Bundle, Range
<1> QED
  BY <1>2 DEF Candidates

\* What a step of the key server must keep.
LEMMA GrowingKeeps ==
  ASSUME AgreementInv, SupplyGrows', UNCHANGED <<hello, session>>,
         \A t \in Talks: Greeted(t) => fetched'[t] = fetched[t],
         bundle # None => bundle' # None
                          /\ Range(bundle.one_time_prekeys) \subseteq Range(bundle'.one_time_prekeys)
  PROVE  AgreementInv'
<1>0. \A t \in Talks: Greeted(t)' = Greeted(t)
  BY DEF Greeted
<1>1. HelloNamesTheKey'
  BY <1>0 DEF AgreementInv, HelloNamesTheKey
<1>2. \A t \in Talks: Greeted(t) => fetched[t] # None /\ fetched'[t] = fetched[t] /\ bundle # None
  BY DEF AgreementInv, HelloNamesTheKey, SupplyGrows
<1>3. \A t \in Talks: Greeted(t) => Candidates(t) \subseteq Candidates(t)'
  BY <1>2 DEF Candidates
<1>4. SidesDerive'
  BY <1>0, <1>2, <1>3 DEF AgreementInv, SidesDerive
<1> QED
  BY <1>1, <1>4 DEF AgreementInv

LEMMA UploadKeeps == AgreementInv /\ Upload => AgreementInv'
<1> SUFFICES ASSUME AgreementInv, Upload PROVE AgreementInv'
  OBVIOUS
<1>1. PICK batch \in Batches:
        /\ uploads < MaxUploads
        /\ \/ Register([signer |-> "owner", one_time_prekeys |-> Made(batch)])
           \/ ReplenishOneTime(Made(batch))
  BY DEF Upload
<1>2. Made(batch) \in Seq(OneTimeKeys)
  BY <1>1, MadeKeys DEF AgreementInv
<1>3. uploads' \in 0..MaxUploads /\ fetched' = fetched /\ hello' = hello /\ session' = session
  BY <1>1, BoundsAssumption DEF AgreementInv, SupplyGrows, Register, ReplenishOneTime, ratchetVars
<1>4. CASE Register([signer |-> "owner", one_time_prekeys |-> Made(batch)])
  <2>1. bundle = None /\ bundle' = [signer |-> "owner", one_time_prekeys |-> Made(batch)]
    BY <1>4 DEF Register
  <2>2. bundle' \in Bundle /\ \A t \in Talks: fetched[t] = None
    BY <1>2, <2>1 DEF Bundle, Signers, AgreementInv, SupplyGrows
  <2>3. SupplyGrows'
    BY <1>3, <2>2 DEF AgreementInv, SupplyGrows
  <2> QED
    BY <1>3, <2>1, <2>3, GrowingKeeps
<1>6. CASE ReplenishOneTime(Made(batch)) /\ bundle = None
  <2>1. bundle' = None
    BY <1>6 DEF ReplenishOneTime
  <2>2. SupplyGrows'
    BY <1>3, <1>6, <2>1 DEF AgreementInv, SupplyGrows
  <2> QED
    BY <1>3, <1>6, <2>2, GrowingKeeps
<1>5. CASE ReplenishOneTime(Made(batch)) /\ bundle # None
  <2> DEFINE had == bundle.one_time_prekeys
  <2>1. /\ bundle # None /\ bundle \in Bundle /\ had \in Seq(OneTimeKeys)
        /\ bundle' = [bundle EXCEPT !.one_time_prekeys = @ \o Made(batch)]
    BY <1>5 DEF ReplenishOneTime, AgreementInv, SupplyGrows, Bundle
  <2>2. /\ bundle' \in Bundle /\ bundle'.one_time_prekeys = had \o Made(batch)
    <3>1. had \o Made(batch) \in Seq(OneTimeKeys)
      BY <1>2, <2>1
    <3> QED
      BY <2>1, <3>1 DEF Bundle
  <2>3. Range(had) \subseteq Range(bundle'.one_time_prekeys)
    <3>1. \A i \in DOMAIN had: i \in DOMAIN (had \o Made(batch)) /\ (had \o Made(batch))[i] = had[i]
      BY <1>2, <2>1
    <3> QED
      BY <2>2, <3>1 DEF Range
  <2>4. bundle' # None
    BY <2>2, NothingAssumption, BundleIsTyped
  <2>5. SupplyGrows'
    BY <1>3, <2>2, <2>3, <2>4 DEF AgreementInv, SupplyGrows
  <2> QED
    BY <1>3, <2>3, <2>4, <2>5, GrowingKeeps
<1> QED
  BY <1>1, <1>4, <1>5, <1>6

LEMMA GetBundleKeeps ==
  ASSUME AgreementInv, NEW t \in Talks, GetBundle(t)
  PROVE  AgreementInv'
<1>1. PICK by \in Signers:
        /\ bundle # None /\ hello[t] = None
        /\ fetched' = [fetched EXCEPT ![t] = [bundle EXCEPT !.signer = by]]
        /\ UNCHANGED <<bundle, uploads, hello, session>>
  BY DEF GetBundle, ratchetVars
<1>2. /\ bundle \in Bundle /\ [bundle EXCEPT !.signer = by] \in Bundle
      /\ [bundle EXCEPT !.signer = by].one_time_prekeys = bundle.one_time_prekeys
  BY <1>1 DEF AgreementInv, SupplyGrows, Bundle
<1>3. SupplyGrows'
  BY <1>1, <1>2 DEF AgreementInv, SupplyGrows
<1>4. \A u \in Talks: Greeted(u) => fetched'[u] = fetched[u]
  BY <1>1 DEF AgreementInv, SupplyGrows, Greeted
<1> QED
  BY <1>1, <1>3, <1>4, GrowingKeeps

\* A session that starts leaves the others as they are.
LEMMA StartAdds ==
  ASSUME AgreementInv, NEW e \in R!Ends, NEW secret \in Secrets, R!Start(e, secret)
  PROVE  /\ e \notin DOMAIN session /\ DOMAIN session' = DOMAIN session \cup {e}
         /\ DOMAIN session' \subseteq R!Ends
         /\ session' \in [DOMAIN session' -> R!RatchetSession]
         /\ session'[e].secret = secret
         /\ \A d \in DOMAIN session: session'[d] = session[d]
<1> DEFINE new == R!New(secret, e[2] = "initiator")
<1>1. new \in R!RatchetSession /\ new.secret = secret
  BY DEF R!New, R!RatchetSession
<1>2. /\ e \notin DOMAIN session
      /\ session' = [d \in DOMAIN session \cup {e} |-> IF d = e THEN new ELSE session[d]]
  BY DEF R!Start, R!Established
<1> HIDE DEF new
<1> QED
  BY <1>1, <1>2 DEF AgreementInv, SidesDerive

LEMMA InitiateKeeps ==
  ASSUME AgreementInv, NEW t \in Talks, X3dhInitiate(t)
  PROVE  AgreementInv'
<1> DEFINE key == FirstKey(fetched[t])
           e == <<t, "initiator">>
<1>1. /\ fetched[t] # None /\ hello[t] = None
      /\ R!Start(e, Begun(t, key))
      /\ hello' = [hello EXCEPT ![t] = IdOf(key)]
      /\ UNCHANGED <<bundle, uploads, fetched>>
  BY DEF X3dhInitiate, IdOf, Begun
<1>2. fetched[t] \in Bundle
  BY <1>1 DEF AgreementInv, SupplyGrows
<1>3. key \in OneTimeKeys \cup {NoKey} /\ IdOf(key) \in Nat \cup {NoKey}
  BY <1>2, FirstKeyIsKey
<1>4. Begun(t, key) \in Secrets /\ e \in R!Ends
  BY <1>3, SecretsAreSecrets DEF SecretsOf, R!Ends, R!Sides
<1> HIDE DEF e
<1>5. /\ e \notin DOMAIN session /\ DOMAIN session' = DOMAIN session \cup {e}
      /\ DOMAIN session' \subseteq R!Ends
      /\ session' \in [DOMAIN session' -> R!RatchetSession]
      /\ session'[e].secret = Begun(t, key)
      /\ \A d \in DOMAIN session: session'[d] = session[d]
  BY <1>1, <1>4, StartAdds
<1>6. /\ hello' \in [Talks -> Nat \cup {NoKey, None, Given}]
      /\ hello'[t] = IdOf(key) /\ Greeted(t)' /\ ~Greeted(t) /\ hello[t] # Given
      /\ \A u \in Talks: u # t => hello'[u] = hello[u] /\ Greeted(u)' = Greeted(u)
      /\ \A u \in Talks: u # t => Candidates(u)' = Candidates(u)
  <2>1. /\ hello' \in [Talks -> Nat \cup {NoKey, None, Given}]
        /\ hello'[t] = IdOf(key)
        /\ \A u \in Talks: u # t => hello'[u] = hello[u]
    BY <1>1, <1>3 DEF AgreementInv, HelloNamesTheKey
  <2>2. hello'[t] \notin {None, Given} /\ hello[t] # Given
    BY <1>1, <1>3, <2>1, NothingAssumption
  <2> QED
    BY <1>1, <2>1, <2>2 DEF Greeted, Candidates
<1>7. SupplyGrows'
  BY <1>1 DEF AgreementInv, SupplyGrows
<1>8. HelloNamesTheKey'
  BY <1>1, <1>6 DEF AgreementInv, HelloNamesTheKey
<1>9. \A u \in Talks: u # t =>
        /\ <<u, "initiator">> \in DOMAIN session' =>
             IF hello'[u] = Given THEN session'[<<u, "initiator">>].secret = GivenSecret(u)
             ELSE /\ Greeted(u)'
                  /\ session'[<<u, "initiator">>].secret = Begun(u, FirstKey(fetched'[u]))
        /\ <<u, "responder">> \in DOMAIN session' =>
             IF hello'[u] = Given THEN session'[<<u, "responder">>].secret = GivenSecret(u)
             ELSE /\ Greeted(u)'
                  /\ \E k \in Candidates(u)': session'[<<u, "responder">>].secret = ResponderSecret(u, k)
  <2> TAKE u \in Talks
  <2> HAVE u # t
  <2>1. \A side \in {"initiator", "responder"}: <<u, side>> \in DOMAIN session' =>
          <<u, side>> \in DOMAIN session /\ session'[<<u, side>>] = session[<<u, side>>]
    BY <1>5 DEF e
  <2>2. /\ hello'[u] = hello[u] /\ Greeted(u)' = Greeted(u) /\ Candidates(u)' = Candidates(u)
        /\ fetched'[u] = fetched[u]
    BY <1>1, <1>6
  <2> QED
    BY <2>1, <2>2 DEF AgreementInv, SidesDerive
<1>10. /\ session'[<<t, "initiator">>].secret = Begun(t, FirstKey(fetched'[t]))
       /\ <<t, "responder">> \notin DOMAIN session'
       /\ hello'[t] # Given
  <2>1. <<t, "responder">> \notin DOMAIN session
    BY <1>6 DEF AgreementInv, SidesDerive
  <2> QED
    BY <1>1, <1>5, <1>6, <2>1 DEF e, Greeted
<1>11. SidesDerive'
  BY <1>5, <1>6, <1>9, <1>10 DEF SidesDerive
<1> QED
  BY <1>7, <1>8, <1>11 DEF AgreementInv

LEMMA RespondKeeps ==
  ASSUME AgreementInv, NEW t \in Talks, X3dhRespond(t)
  PROVE  AgreementInv'
<1> DEFINE e == <<t, "responder">>
<1>1. PICK key \in Candidates(t):
        /\ Greeted(t)
        /\ R!Start(e, ResponderSecret(t, key))
        /\ UNCHANGED <<bundle, uploads, fetched, hello>>
  BY DEF X3dhRespond, Candidates, keyVars, Greeted
<1>2. key \in OneTimeKeys \cup {NoKey}
  BY <1>1, CandidatesAreKeys
<1>3. ResponderSecret(t, key) \in Secrets /\ e \in R!Ends
  BY <1>2 DEF Secrets, R!Ends, R!Sides
<1> HIDE DEF e
<1>4. /\ e \notin DOMAIN session /\ DOMAIN session' = DOMAIN session \cup {e}
      /\ DOMAIN session' \subseteq R!Ends
      /\ session' \in [DOMAIN session' -> R!RatchetSession]
      /\ session'[e].secret = ResponderSecret(t, key)
      /\ \A d \in DOMAIN session: session'[d] = session[d]
  BY <1>1, <1>3, StartAdds
<1>5. SupplyGrows' /\ HelloNamesTheKey'
  BY <1>1 DEF AgreementInv, SupplyGrows, HelloNamesTheKey, Greeted
<1>6. \A u \in Talks: Candidates(u)' = Candidates(u) /\ Greeted(u)' = Greeted(u)
  BY <1>1 DEF Candidates, Greeted
<1>7. \A d \in DOMAIN session': d # e => d \in DOMAIN session /\ session'[d] = session[d]
  BY <1>4
<1>8. \A u \in Talks: <<u, "initiator">> # e /\ (<<u, "responder">> = e => u = t)
  BY DEF e
<1>9. hello'[t] # Given /\ \E k \in Candidates(t)': session'[e].secret = ResponderSecret(t, k)
  BY <1>1, <1>4, <1>6 DEF Greeted
<1>10. SidesDerive'
  <2>1. \A u \in Talks: <<u, "initiator">> \in DOMAIN session' =>
          IF hello'[u] = Given THEN session'[<<u, "initiator">>].secret = GivenSecret(u)
          ELSE /\ Greeted(u)'
               /\ session'[<<u, "initiator">>].secret = Begun(u, FirstKey(fetched'[u]))
    BY <1>1, <1>6, <1>7, <1>8 DEF AgreementInv, SidesDerive
  <2>2. \A u \in Talks: u # t /\ <<u, "responder">> \in DOMAIN session' =>
          IF hello'[u] = Given THEN session'[<<u, "responder">>].secret = GivenSecret(u)
          ELSE /\ Greeted(u)'
               /\ \E k \in Candidates(u)': session'[<<u, "responder">>].secret = ResponderSecret(u, k)
    BY <1>1, <1>6, <1>7, <1>8 DEF AgreementInv, SidesDerive
  <2>3. <<t, "responder">> = e
    BY DEF e
  <2> QED
    BY <1>1, <1>4, <1>6, <1>9, <2>1, <2>2, <2>3 DEF SidesDerive
<1> QED
  BY <1>5, <1>10 DEF AgreementInv

\* A given secret starts a conversation that X3DH has not.
LEMMA GivenKeeps ==
  ASSUME AgreementInv, NEW t \in Talks, NEW side \in R!Sides, StartGiven(t, side)
  PROVE  AgreementInv'
<1> DEFINE e == <<t, side>>
<1>1. /\ hello[t] \in {None, Given} /\ R!Start(e, GivenSecret(t))
      /\ hello' = [hello EXCEPT ![t] = Given]
      /\ UNCHANGED <<bundle, uploads, fetched>>
  BY DEF StartGiven
<1>2. GivenSecret(t) \in Secrets /\ e \in R!Ends
  BY DEF Secrets, R!Ends
<1> HIDE DEF e
<1>3. /\ e \notin DOMAIN session /\ DOMAIN session' = DOMAIN session \cup {e}
      /\ DOMAIN session' \subseteq R!Ends
      /\ session' \in [DOMAIN session' -> R!RatchetSession]
      /\ session'[e].secret = GivenSecret(t)
      /\ \A d \in DOMAIN session: session'[d] = session[d]
  BY <1>1, <1>2, StartAdds
<1>4. /\ hello' \in [Talks -> Nat \cup {NoKey, None, Given}] /\ hello'[t] = Given
      /\ \A u \in Talks: u # t => /\ hello'[u] = hello[u] /\ Greeted(u)' = Greeted(u)
                                  /\ Candidates(u)' = Candidates(u)
      /\ ~Greeted(t)'
  <2>1. /\ hello' \in [Talks -> Nat \cup {NoKey, None, Given}] /\ hello'[t] = Given
        /\ \A u \in Talks: u # t => hello'[u] = hello[u]
    BY <1>1 DEF AgreementInv, HelloNamesTheKey
  <2> QED
    BY <1>1, <2>1 DEF Greeted, Candidates
<1>5. SupplyGrows' /\ HelloNamesTheKey'
  <2>1. SupplyGrows'
    BY <1>1 DEF AgreementInv, SupplyGrows
  <2>2. HelloNamesTheKey'
    BY <1>1, <1>4 DEF AgreementInv, HelloNamesTheKey
  <2> QED
    BY <2>1, <2>2
<1>6. \A s \in R!Sides: <<t, s>> \in DOMAIN session' => session'[<<t, s>>].secret = GivenSecret(t)
  <2> SUFFICES ASSUME NEW s \in R!Sides, <<t, s>> \in DOMAIN session
               PROVE  session[<<t, s>>].secret = GivenSecret(t)
    BY <1>3
  <2>1. ~Greeted(t)
    BY <1>1 DEF Greeted
  <2> QED
    BY <2>1 DEF AgreementInv, SidesDerive, R!Sides
<1>7. \A u \in Talks: u # t => \A s \in R!Sides: <<u, s>> \in DOMAIN session' =>
        <<u, s>> \in DOMAIN session /\ session'[<<u, s>>] = session[<<u, s>>]
  BY <1>3 DEF e
<1>8. SidesDerive'
  <2>1. \A u \in Talks: u # t =>
          /\ <<u, "initiator">> \in DOMAIN session' =>
               IF hello'[u] = Given THEN session'[<<u, "initiator">>].secret = GivenSecret(u)
               ELSE /\ Greeted(u)'
                    /\ session'[<<u, "initiator">>].secret = Begun(u, FirstKey(fetched'[u]))
          /\ <<u, "responder">> \in DOMAIN session' =>
               IF hello'[u] = Given THEN session'[<<u, "responder">>].secret = GivenSecret(u)
               ELSE /\ Greeted(u)'
                    /\ \E k \in Candidates(u)': session'[<<u, "responder">>].secret = ResponderSecret(u, k)
    <3> TAKE u \in Talks
    <3> HAVE u # t
    <3>1. \A s \in {"initiator", "responder"}: <<u, s>> \in DOMAIN session' =>
            <<u, s>> \in DOMAIN session /\ session'[<<u, s>>] = session[<<u, s>>]
      BY <1>7 DEF R!Sides
    <3>2. /\ hello'[u] = hello[u] /\ Greeted(u)' = Greeted(u) /\ Candidates(u)' = Candidates(u)
          /\ fetched'[u] = fetched[u]
      BY <1>1, <1>4
    <3> QED
      BY <3>1, <3>2 DEF AgreementInv, SidesDerive
  <2>2. /\ <<t, "initiator">> \in DOMAIN session' => session'[<<t, "initiator">>].secret = GivenSecret(t)
        /\ <<t, "responder">> \in DOMAIN session' => session'[<<t, "responder">>].secret = GivenSecret(t)
    BY <1>6 DEF R!Sides
  <2> QED
    BY <1>3, <1>4, <2>1, <2>2 DEF SidesDerive
<1> QED
  BY <1>5, <1>8 DEF AgreementInv

\* Sealing and opening keep every session's secret.
LEMMA ConverseKeeps == AgreementInv /\ Converse => AgreementInv'
<1> SUFFICES ASSUME AgreementInv, Converse PROVE AgreementInv'
  OBVIOUS
<1>1. PICK e \in R!Ends: \/ R!Seal(e)
                         \/ \E m \in wire: R!Open(e, m)
                         \/ R!OpenDamaged(e)
  BY DEF Converse
<1>2. UNCHANGED <<bundle, uploads, fetched, hello>>
  BY DEF Converse, keyVars
<1>3. /\ e \in DOMAIN session /\ session \in [DOMAIN session -> R!RatchetSession]
      /\ session[e] \in R!RatchetSession
  BY <1>1 DEF R!Seal, R!Open, R!OpenDamaged, R!Established, AgreementInv, SidesDerive
<1>4. \/ session' = [session EXCEPT ![e] = [session[e] EXCEPT !.send_count = @ + 1]]
      \/ session' = [session EXCEPT ![e] = [session[e] EXCEPT !.recv_count = @ + 1]]
  BY <1>1, <1>3 DEF R!Seal, R!Open, R!OpenDamaged
<1>5. /\ DOMAIN session' = DOMAIN session
      /\ session'[e] \in R!RatchetSession /\ session'[e].secret = session[e].secret
      /\ \A d \in DOMAIN session: d # e => session'[d] = session[d]
      /\ session' \in [DOMAIN session -> R!RatchetSession]
  BY <1>3, <1>4 DEF R!RatchetSession
<1>6. \A d \in DOMAIN session: session'[d].secret = session[d].secret
  BY <1>5
<1>7. SupplyGrows' /\ HelloNamesTheKey'
  BY <1>2 DEF AgreementInv, SupplyGrows, HelloNamesTheKey, Greeted
<1>8. \A t \in Talks: Candidates(t)' = Candidates(t) /\ Greeted(t)' = Greeted(t)
  BY <1>2 DEF Candidates, Greeted
<1>9. SidesDerive'
  BY <1>2, <1>5, <1>6, <1>8 DEF AgreementInv, SidesDerive
<1> QED
  BY <1>7, <1>9 DEF AgreementInv

-----------------------------------------------------------------------------
LEMMA AgreementStep == AgreementInv /\ [Next]_vars => AgreementInv'
<1> SUFFICES ASSUME AgreementInv, [Next]_vars PROVE AgreementInv'
  OBVIOUS
<1>1. CASE UNCHANGED vars
  BY <1>1 DEF vars, AgreementInv, SupplyGrows, HelloNamesTheKey, SidesDerive, Candidates, Greeted
<1>2. CASE Upload
  BY <1>2, UploadKeeps
<1>3. ASSUME NEW t \in Talks, GetBundle(t) PROVE AgreementInv'
  BY <1>3, GetBundleKeeps
<1>4. ASSUME NEW t \in Talks, X3dhInitiate(t) PROVE AgreementInv'
  BY <1>4, InitiateKeeps
<1>5. ASSUME NEW t \in Talks, X3dhRespond(t) PROVE AgreementInv'
  BY <1>5, RespondKeeps
<1>6. ASSUME NEW t \in Talks, NEW side \in R!Sides, StartGiven(t, side) PROVE AgreementInv'
  BY <1>6, GivenKeeps
<1>7. CASE Converse
  BY <1>7, ConverseKeeps
<1> QED
  BY <1>1, <1>2, <1>3, <1>4, <1>5, <1>6, <1>7 DEF Next, Agree

LEMMA AgreementInvariant == Spec => []AgreementInv
BY AgreementInit, AgreementStep, PTL DEF Spec

\* No step of the agreement starts a session with a secret of another
\* conversation: X3DH keeps the promise Ratchet relies on.
LEMMA AgreementSimulates == AgreementInv /\ [Next]_vars => [R!Next]_(R!vars)
<1> SUFFICES ASSUME AgreementInv, [Next]_vars PROVE [R!Next]_(R!vars)
  OBVIOUS
<1>1. CASE UNCHANGED vars \/ Upload \/ \E t \in Talks: GetBundle(t)
  BY <1>1 DEF vars, R!vars, Upload, Register, ReplenishOneTime, GetBundle, ratchetVars
<1>2. ASSUME NEW e \in R!Ends, NEW secret \in SecretsOf(e[1]), R!Start(e, secret)
      PROVE  R!Next
  <2>1. e[1] \in Talks /\ secret \in Secrets
    BY <1>2, SecretsAreSecrets DEF R!Ends
  <2>2. R!Fresh(e, secret)
    <3> SUFFICES ASSUME NEW d \in DOMAIN session, d[1] # e[1], session[d].secret = secret
                 PROVE  FALSE
      BY DEF R!Fresh
    <3>1. session[d].secret \in SecretsOf(d[1])
      BY SessionSecrets
    <3> QED
      BY <1>2, <3>1, SecretsApart
  <2> QED
    BY <1>2, <2>1, <2>2 DEF R!Next
<1>3. ASSUME NEW t \in Talks, X3dhInitiate(t) PROVE R!Next
  <2> DEFINE e == <<t, "initiator">>
  <2>1. R!Start(e, Begun(t, FirstKey(fetched[t]))) /\ fetched[t] \in Bundle
    BY <1>3 DEF X3dhInitiate, AgreementInv, SupplyGrows, Begun
  <2>2. Begun(t, FirstKey(fetched[t])) \in SecretsOf(t)
    BY <2>1, FirstKeyIsKey DEF SecretsOf
  <2>3. e \in R!Ends /\ e[1] = t
    BY DEF R!Ends, R!Sides
  <2> QED
    BY <1>2, <2>1, <2>2, <2>3
<1>4. ASSUME NEW t \in Talks, X3dhRespond(t) PROVE R!Next
  <2> DEFINE e == <<t, "responder">>
  <2>1. PICK k \in Candidates(t): R!Start(e, ResponderSecret(t, k)) /\ Greeted(t)
    BY <1>4 DEF X3dhRespond, Candidates, Greeted
  <2>2. ResponderSecret(t, k) \in SecretsOf(t)
    BY <2>1, CandidatesAreKeys DEF SecretsOf
  <2>3. e \in R!Ends /\ e[1] = t
    BY DEF R!Ends, R!Sides
  <2> QED
    BY <1>2, <2>1, <2>2, <2>3
<1>5. ASSUME NEW t \in Talks, NEW side \in R!Sides, StartGiven(t, side) PROVE R!Next
  <2>1. /\ R!Start(<<t, side>>, GivenSecret(t)) /\ GivenSecret(t) \in SecretsOf(t)
        /\ <<t, side>> \in R!Ends
    BY <1>5 DEF StartGiven, SecretsOf, R!Ends
  <2> QED
    BY <1>2, <2>1
<1>6. CASE Converse
  BY <1>6 DEF Converse, R!Next
<1> QED
  BY <1>1, <1>3, <1>4, <1>5, <1>6 DEF Next, Agree

\* Sessions started by x3dh_initiate and x3dh_respond (signal.rs:119, 196)
\* are sessions of Ratchet: every conversation has a secret of its own.
THEOREM AgreementImplementsRatchet == Spec => ImplementsRatchet
<1>1. Init => R!Init
  BY DEF Init, R!Init
<1> QED
  BY <1>1, AgreementInvariant, AgreementSimulates, PTL DEF Spec, ImplementsRatchet, R!Spec

LEMMA PairHasTwo ==
  ASSUME NEW x, NEW y, x # y
  PROVE  Cardinality({x, y}) = 2
<1>1. IsFiniteSet({x}) /\ Cardinality({x}) = 1
  BY FS_Singleton
<1>2. Cardinality({x} \cup {y}) = 2
  BY <1>1, FS_AddElement
<1>3. {x} \cup {y} = {x, y}
  OBVIOUS
<1> QED
  BY <1>2, <1>3

\* In a supply whose ids name one key each, the responder finds the key the
\* initiator took.
LEMMA SameKey ==
  ASSUME AgreementInv, NEW t \in Talks, Greeted(t),
         Cardinality({k \in Range(bundle.one_time_prekeys): k.id = hello[t]}) <= 1,
         NEW k \in Candidates(t)
  PROVE  k = FirstKey(fetched[t])
<1> DEFINE first == FirstKey(fetched[t])
           keys == bundle.one_time_prekeys
           same == {x \in Range(keys): x.id = hello[t]}
<1>1. /\ fetched[t] \in Bundle /\ bundle \in Bundle /\ hello[t] = IdOf(first)
      /\ Range(fetched[t].one_time_prekeys) \subseteq Range(keys)
  BY DEF AgreementInv, SupplyGrows, HelloNamesTheKey
<1>2. /\ first \in OneTimeKeys \cup {NoKey}
      /\ first # NoKey => first \in Range(keys)
  BY <1>1, FirstKeyIsKey
<1>3. CASE first = NoKey
  BY <1>1, <1>3 DEF IdOf, Candidates
<1>4. CASE first # NoKey
  <2>1. hello[t] = first.id /\ first.id \in Nat /\ hello[t] # NoKey
    BY <1>1, <1>2, <1>4, KeysAreTyped, NothingAssumption DEF IdOf, OneTimePrekey
  <2>2. first \in same /\ k \in same
    BY <1>2, <1>4, <2>1 DEF Candidates
  <2>3. IsFiniteSet(same) /\ Cardinality(same) \in Nat
    <3>1. keys \in Seq(OneTimeKeys) /\ DOMAIN keys = 1..Len(keys) /\ Len(keys) \in Nat
      BY <1>1 DEF Bundle
    <3>2. IsFiniteSet(DOMAIN keys)
      BY <3>1, FS_Interval
    <3>3. IsFiniteSet(Range(keys))
      <4>1. Range(keys) = {keys[i]: i \in DOMAIN keys}
        BY DEF Range
      <4>2. keys \in Surjection(DOMAIN keys, Range(keys))
        BY <3>1, <4>1 DEF Surjection
      <4> QED
        BY <3>2, <4>2, FS_Surjection
    <3>4. same \subseteq Range(keys)
      OBVIOUS
    <3> QED
      BY <3>3, <3>4, FS_Subset, FS_CardinalityType
  <2>4. {k, first} \subseteq same
    BY <2>2
  <2>5. Cardinality({k, first}) <= 1
    <3> HIDE DEF same
    <3>1. Cardinality({k, first}) <= Cardinality(same) /\ IsFiniteSet({k, first})
      BY <2>3, <2>4, FS_Subset
    <3>2. Cardinality(same) <= 1
      BY DEF same
    <3> QED
      BY <2>3, <3>1, <3>2, FS_CardinalityType
  <2> QED
    <3> HIDE DEF first
    <3>1. k # first => Cardinality({k, first}) = 2
      BY PairHasTwo
    <3>2. k = first
      BY <2>5, <3>1
    <3> QED
      BY <3>2 DEF first
<1> QED
  BY <1>3, <1>4

\* Whatever uploads, downloads and refused bundles come between them, the two
\* sides of a conversation agree on all x3dh_initiate and x3dh_respond hash but
\* the output of the identity the responder holds and the initiator does not
\* know (signal.rs:137, 207), if ids do not repeat.
THEOREM SidesAgreeInParts == Spec => []PartsAgree
<1>1. AgreementInv => PartsAgree
  <2> SUFFICES ASSUME AgreementInv, NEW t \in Talks, BothEnds(t), hello[t] # Given
               PROVE  LET begun == session[<<t, "initiator">>].secret
                          answered == session[<<t, "responder">>].secret
                      IN /\ begun[1] = answered[1] /\ begun[3] = answered[3] /\ begun[2] # answered[2]
                         /\ Cardinality({k \in Range(bundle.one_time_prekeys): k.id = hello[t]}) <= 1
                              => begun[4] = answered[4]
    BY DEF PartsAgree
  <2>1. <<t, "initiator">> \in DOMAIN session /\ <<t, "responder">> \in DOMAIN session
    BY DEF BothEnds, R!Established, R!Sides
  <2>2. Greeted(t) /\ session[<<t, "initiator">>].secret = Begun(t, FirstKey(fetched[t]))
    BY <2>1 DEF AgreementInv, SidesDerive
  <2>3. PICK k \in Candidates(t): session[<<t, "responder">>].secret = ResponderSecret(t, k)
    BY <2>1 DEF AgreementInv, SidesDerive
  <2>4. Cardinality({x \in Range(bundle.one_time_prekeys): x.id = hello[t]}) <= 1
          => k = FirstKey(fetched[t])
    BY <2>2, SameKey
  <2> QED
    BY <2>2, <2>3, <2>4, SidesCommute, KeyIsFourth, SecondDiffers
<1> QED
  BY <1>1, AgreementInvariant, PTL
-----------------------------------------------------------------------------
(* The ratchet itself, for any conversations and secrets, wherever they come *)
(* from: no key seals two messages, and nothing is opened out of order.      *)

\* An end is a conversation and a side; a message is an end and a place.
LEMMA PeerIsEnd ==
  \A e \in R!Ends: /\ R!Peer(e) \in R!Ends /\ e = <<e[1], e[2]>>
                 /\ e[1] \in Talks /\ e[2] \in R!Sides
BY DEF R!Peer, R!Ends, R!Sides

\* The chain tells the side.
LEMMA ChainTellsSide ==
  \A x, y \in R!Sides: R!SideChain(x) = R!SideChain(y) => x = y
BY DEF R!Sides, R!SideChain

\* What New makes, for either end.
LEMMA NewSession ==
  ASSUME NEW e \in R!Ends, NEW secret \in Secrets
  PROVE  LET s == R!New(secret, e[2] = "initiator") IN
           /\ s \in R!RatchetSession
           /\ s.secret = secret /\ s.send_count = 0 /\ s.recv_count = 0
           /\ s.send = R!SideChain(e[2]) /\ s.recv = R!SideChain(R!Peer(e)[2])
<1>1. e[2] \in R!Sides
  BY PeerIsEnd
<1> QED
  BY <1>1 DEF R!New, R!RatchetSession, R!SideChain, R!Peer, R!Sides

\* The state is well formed when the protocol begins.
LEMMA RatchetInit == R!Init => R!RatchetInv
<1> SUFFICES ASSUME R!Init PROVE R!RatchetInv
  OBVIOUS
<1>1. R!TypeOK
  BY DEF R!Init, R!TypeOK, R!Messages
<1> QED
  BY <1>1 DEF R!Init, R!RatchetInv, R!ChainsOpposed, R!SecretsApart, R!WireSealed, R!OpenedBehind, R!OpensInOrder, R!Established

-----------------------------------------------------------------------------
(* One lemma per action. *)

LEMMA StartKeeps ==
  ASSUME R!RatchetInv, NEW e \in R!Ends, NEW secret \in Secrets, R!Fresh(e, secret), R!Start(e, secret)
  PROVE  R!RatchetInv'
<1> DEFINE new == R!New(secret, e[2] = "initiator")
<1>1. /\ new \in R!RatchetSession
      /\ new.secret = secret /\ new.send_count = 0 /\ new.recv_count = 0
      /\ new.send = R!SideChain(e[2]) /\ new.recv = R!SideChain(R!Peer(e)[2])
  BY NewSession
<1>2. /\ e \notin DOMAIN session
      /\ session' = [d \in DOMAIN session \cup {e} |-> IF d = e THEN new ELSE session[d]]
      /\ wire' = wire /\ opened' = opened
  BY DEF R!Start, R!Established
<1> HIDE DEF new
<1>3. /\ DOMAIN session' = DOMAIN session \cup {e}
      /\ session'[e] = new
      /\ \A d \in DOMAIN session: session'[d] = session[d] /\ d # e
  BY <1>2
<1>4. R!TypeOK'
  BY <1>1, <1>2, <1>3 DEF R!RatchetInv, R!TypeOK
<1>5. R!ChainsOpposed'
  BY <1>1, <1>3 DEF R!RatchetInv, R!ChainsOpposed
<1>6. R!SecretsApart'
  BY <1>1, <1>3 DEF R!RatchetInv, R!SecretsApart, R!Fresh
<1>7. R!WireSealed'
  BY <1>2, <1>3 DEF R!RatchetInv, R!WireSealed, R!Established
<1>8. R!OpenedBehind'
  BY <1>2, <1>3 DEF R!RatchetInv, R!OpenedBehind, R!Established
<1>9. R!OpensInOrder'
  BY <1>2 DEF R!RatchetInv, R!OpensInOrder
<1> QED
  BY <1>4, <1>5, <1>6, <1>7, <1>8, <1>9 DEF R!RatchetInv

LEMMA SealKeeps ==
  ASSUME R!RatchetInv, NEW e \in R!Ends, R!Seal(e)
  PROVE  R!RatchetInv'
<1> DEFINE sealed == [key |-> R!SendKey(session[e]), text |-> <<e, session[e].send_count>>]
<1>1. e \in DOMAIN session /\ session[e] \in R!RatchetSession
  BY DEF R!Seal, R!Established, R!RatchetInv, R!TypeOK
<1>2. /\ wire' = wire \cup {sealed} /\ opened' = opened
      /\ session' = [session EXCEPT ![e] = [session[e] EXCEPT !.send_count = @ + 1]]
  BY <1>1 DEF R!Seal
<1>3. /\ DOMAIN session' = DOMAIN session
      /\ \A d \in DOMAIN session: d # e => session'[d] = session[d]
      /\ session'[e] \in R!RatchetSession
      /\ session'[e].secret = session[e].secret
      /\ session'[e].send = session[e].send /\ session'[e].recv = session[e].recv
      /\ session'[e].recv_count = session[e].recv_count
      /\ session'[e].send_count = session[e].send_count + 1
  BY <1>1, <1>2 DEF R!RatchetSession
<1>4. /\ sealed.key = <<session[e].secret, session[e].send, session[e].send_count>>
      /\ sealed.text = <<e, session[e].send_count>>
      /\ sealed \in [key: R!Keys, text: R!Messages]
  BY <1>1 DEF R!SendKey, R!Keys, R!Messages, R!RatchetSession
<1> HIDE DEF sealed
<1>5. R!TypeOK'
  BY <1>1, <1>2, <1>3, <1>4 DEF R!RatchetInv, R!TypeOK
<1>6. R!ChainsOpposed' /\ R!SecretsApart'
  BY <1>3 DEF R!RatchetInv, R!ChainsOpposed, R!SecretsApart
<1>7. R!WireSealed'
  <2> SUFFICES ASSUME NEW m \in wire'
               PROVE  /\ m.text[1] \in DOMAIN session
                      /\ m.text[2] < session'[m.text[1]].send_count
                      /\ m.key = <<session'[m.text[1]].secret, session'[m.text[1]].send, m.text[2]>>
    BY <1>3 DEF R!WireSealed, R!Established
  <2>1. CASE m \in wire
    <3>1. m \in [key: R!Keys, text: R!Messages] /\ m.text[2] \in Nat
      BY <2>1 DEF R!RatchetInv, R!TypeOK, R!Messages
    <3>2. /\ m.text[1] \in DOMAIN session
          /\ m.text[2] < session[m.text[1]].send_count
          /\ m.key = <<session[m.text[1]].secret, session[m.text[1]].send, m.text[2]>>
      BY <2>1 DEF R!RatchetInv, R!WireSealed, R!Established
    <3>3. session[e].send_count \in Nat
      BY <1>1 DEF R!RatchetSession
    <3> QED
      BY <1>1, <1>3, <3>1, <3>2, <3>3
  <2>2. CASE m = sealed
    <3>1. session[e].send_count \in Nat
      BY <1>1 DEF R!RatchetSession
    <3> QED
      BY <1>1, <1>3, <1>4, <2>2, <3>1
  <2> QED
    BY <1>2, <2>1, <2>2
<1>8. R!OpenedBehind'
  BY <1>2, <1>3 DEF R!RatchetInv, R!OpenedBehind, R!Established
<1>9. R!OpensInOrder'
  BY <1>2 DEF R!RatchetInv, R!OpensInOrder
<1> QED
  BY <1>5, <1>6, <1>7, <1>8, <1>9 DEF R!RatchetInv

\* open advances the receiving chain, whatever comes of the message.
LEMMA AdvanceKeeps ==
  ASSUME R!RatchetInv, NEW e \in R!Ends, R!Established(e), wire' = wire,
         session' = [session EXCEPT ![e].recv_count = @ + 1]
  PROVE  /\ DOMAIN session' = DOMAIN session
         /\ session' \in [DOMAIN session -> R!RatchetSession]
         /\ session'[e].recv_count = session[e].recv_count + 1
         /\ session[e].recv_count \in Nat
         /\ \A d \in DOMAIN session: d # e => session'[d] = session[d]
         /\ (R!ChainsOpposed /\ R!SecretsApart /\ R!WireSealed)'
<1>1. e \in DOMAIN session /\ session \in [DOMAIN session -> R!RatchetSession]
  BY DEF R!Established, R!RatchetInv, R!TypeOK
<1>2. session' = [session EXCEPT ![e] = [session[e] EXCEPT !.recv_count = @ + 1]]
  BY <1>1
<1>3. /\ DOMAIN session' = DOMAIN session
      /\ \A d \in DOMAIN session: d # e => session'[d] = session[d]
      /\ session'[e] \in R!RatchetSession
      /\ session'[e].secret = session[e].secret
      /\ session'[e].send = session[e].send /\ session'[e].recv = session[e].recv
      /\ session'[e].send_count = session[e].send_count
      /\ session'[e].recv_count = session[e].recv_count + 1
      /\ session[e].recv_count \in Nat
  BY <1>1, <1>2 DEF R!RatchetSession
<1>4. session' \in [DOMAIN session -> R!RatchetSession]
  BY <1>1, <1>2, <1>3
<1>5. R!ChainsOpposed' /\ R!SecretsApart'
  BY <1>3 DEF R!RatchetInv, R!ChainsOpposed, R!SecretsApart
<1>6. \A d \in DOMAIN session: /\ session'[d].secret = session[d].secret
                               /\ session'[d].send = session[d].send
                               /\ session'[d].send_count = session[d].send_count
  BY <1>3
<1>7. R!WireSealed'
  BY <1>3, <1>6 DEF R!RatchetInv, R!WireSealed, R!Established
<1> QED
  BY <1>3, <1>4, <1>5, <1>7

\* A message opens under the next receiving key of e only if the peer of e
\* sealed it, in that very place.
LEMMA OpensOfPeer ==
  ASSUME R!RatchetInv, NEW e \in R!Ends, R!Established(e), NEW m \in wire, m.key = R!RecvKey(session[e])
  PROVE  m.text = <<R!Peer(e), session[e].recv_count>>
<1> DEFINE d == m.text[1]
<1>1. /\ m.text \in R!Messages /\ d \in R!Ends /\ m.text = <<d, m.text[2]>>
  BY DEF R!RatchetInv, R!TypeOK, R!Messages
<1>2. /\ d \in DOMAIN session
      /\ m.key = <<session[d].secret, session[d].send, m.text[2]>>
  BY DEF R!RatchetInv, R!WireSealed, R!Established
<1>3. /\ session[d].secret = session[e].secret /\ session[d].send = session[e].recv
      /\ m.text[2] = session[e].recv_count
  BY <1>2 DEF R!RecvKey
<1>4. d[1] = e[1]
  BY <1>2, <1>3 DEF R!RatchetInv, R!SecretsApart, R!Established
<1>5. R!SideChain(d[2]) = R!SideChain(R!Peer(e)[2])
  BY <1>2, <1>3 DEF R!RatchetInv, R!ChainsOpposed, R!Established
<1>6. d[2] = R!Peer(e)[2]
  BY <1>1, <1>5, PeerIsEnd, ChainTellsSide
<1>7. d = R!Peer(e)
  BY <1>1, <1>4, <1>6, PeerIsEnd DEF R!Peer
<1> QED
  BY <1>1, <1>3, <1>7

LEMMA OpenKeeps ==
  ASSUME R!RatchetInv, NEW e \in R!Ends, NEW m \in wire, R!Open(e, m)
  PROVE  R!RatchetInv'
<1>1. /\ R!Established(e) /\ wire' = wire
      /\ session' = [session EXCEPT ![e].recv_count = @ + 1]
      /\ opened' = IF m.key = R!RecvKey(session[e])
                   THEN [opened EXCEPT ![e] = Append(@, m.text)] ELSE opened
  BY DEF R!Open
<1>2. /\ DOMAIN session' = DOMAIN session
      /\ session' \in [DOMAIN session -> R!RatchetSession]
      /\ session'[e].recv_count = session[e].recv_count + 1
      /\ session[e].recv_count \in Nat
      /\ \A d \in DOMAIN session: d # e => session'[d] = session[d]
      /\ (R!ChainsOpposed /\ R!SecretsApart /\ R!WireSealed)'
  BY <1>1, AdvanceKeeps
<1>3. /\ opened \in [R!Ends -> Seq(R!Messages)]
      /\ \A d \in R!Ends: \A i \in 1..Len(opened[d]):
           /\ opened[d][i] \in R!Messages /\ opened[d][i][2] \in Nat
           /\ d \in DOMAIN session /\ opened[d][i][2] < session[d].recv_count
  BY DEF R!RatchetInv, R!TypeOK, R!OpenedBehind, R!Established, R!Messages
<1>4. e \in DOMAIN session
  BY <1>1 DEF R!Established
<1>5. CASE m.key # R!RecvKey(session[e])
  <2>1. opened' = opened
    BY <1>1, <1>5
  <2>2. R!TypeOK'
    BY <1>1, <1>2, <2>1 DEF R!RatchetInv, R!TypeOK
  <2>3. R!OpenedBehind'
    <3> SUFFICES ASSUME NEW d \in R!Ends, NEW i \in 1..Len(opened[d])
                 PROVE  d \in DOMAIN session /\ opened[d][i][2] < session'[d].recv_count
      BY <1>2, <2>1 DEF R!OpenedBehind, R!Established
    <3>1. /\ opened[d][i][2] \in Nat
          /\ d \in DOMAIN session /\ opened[d][i][2] < session[d].recv_count
      BY <1>3
    <3>2. CASE d = e
      BY <1>2, <3>1, <3>2
    <3>3. CASE d # e
      BY <1>2, <3>1, <3>3
    <3> QED
      BY <3>2, <3>3
  <2>4. R!OpensInOrder'
    BY <1>1, <2>1 DEF R!RatchetInv, R!OpensInOrder
  <2> QED
    BY <1>2, <2>2, <2>3, <2>4 DEF R!RatchetInv
<1>6. CASE m.key = R!RecvKey(session[e])
  <2> DEFINE was == opened[e]
  <2>1. m.text = <<R!Peer(e), session[e].recv_count>>
    BY <1>1, <1>6, OpensOfPeer
  <2>2. m.text \in R!Messages
    BY DEF R!RatchetInv, R!TypeOK
  <2>3. was \in Seq(R!Messages)
    BY <1>3
  <2>4. opened' = [opened EXCEPT ![e] = Append(was, m.text)]
    BY <1>1, <1>6
  <2>5. /\ opened' \in [R!Ends -> Seq(R!Messages)]
        /\ opened'[e] = Append(was, m.text)
        /\ \A d \in R!Ends: d # e => opened'[d] = opened[d]
    BY <1>3, <2>2, <2>3, <2>4
  <2>6. /\ Len(opened'[e]) = Len(was) + 1
        /\ \A i \in 1..Len(was): opened'[e][i] = was[i]
        /\ opened'[e][Len(was) + 1] = m.text
        /\ Len(was) \in Nat
    BY <2>2, <2>3, <2>5
  <2>7. R!TypeOK'
    BY <1>1, <1>2, <2>5 DEF R!RatchetInv, R!TypeOK
  <2>8. R!OpenedBehind'
    <3> SUFFICES ASSUME NEW d \in R!Ends, NEW i \in 1..Len(opened'[d])
                 PROVE  d \in DOMAIN session' /\ opened'[d][i][2] < session'[d].recv_count
      BY DEF R!OpenedBehind, R!Established
    <3>1. CASE d # e
      BY <1>2, <1>3, <2>5, <3>1
    <3>2. CASE d = e /\ i \in 1..Len(was)
      BY <1>2, <1>3, <1>4, <2>6, <3>2
    <3>3. CASE d = e /\ i = Len(was) + 1
      BY <1>2, <1>4, <2>1, <2>6, <3>3
    <3> QED
      BY <2>6, <3>1, <3>2, <3>3
  <2>9. R!OpensInOrder'
    <3> SUFFICES ASSUME NEW d \in R!Ends, NEW i \in 1..Len(opened'[d])
                 PROVE  /\ \E n \in wire': n.text = opened'[d][i] /\ opened'[d][i][1] = R!Peer(d)
                        /\ \A j \in 1..(i-1): opened'[d][j][2] < opened'[d][i][2]
      BY DEF R!OpensInOrder
    <3>0. \A i0 \in 1..Len(opened[d]):
            /\ \E n \in wire: n.text = opened[d][i0] /\ opened[d][i0][1] = R!Peer(d)
            /\ \A j \in 1..(i0-1): opened[d][j][2] < opened[d][i0][2]
      BY DEF R!RatchetInv, R!OpensInOrder
    <3>1. CASE d # e
      BY <1>1, <2>5, <3>0, <3>1
    <3>2. CASE d = e /\ i \in 1..Len(was)
      <4>1. \A j \in 1..(i-1): j \in 1..Len(was) /\ opened'[d][j] = was[j]
        BY <2>6, <3>2
      <4> QED
        BY <1>1, <2>6, <3>0, <3>2, <4>1
    <3>3. CASE d = e /\ i = Len(was) + 1
      <4>1. \A j \in 1..(i-1): j \in 1..Len(was) /\ opened'[d][j] = was[j]
        BY <2>6, <3>3
      <4>2. \A j \in 1..(i-1): opened'[d][j][2] < opened'[d][i][2]
        BY <1>3, <2>1, <2>6, <3>3, <4>1
      <4>3. m \in wire' /\ m.text = opened'[d][i] /\ opened'[d][i][1] = R!Peer(d)
        BY <1>1, <2>1, <2>6, <3>3
      <4> QED
        BY <4>2, <4>3
    <3> QED
      BY <2>6, <3>1, <3>2, <3>3
  <2> QED
    BY <1>2, <2>7, <2>8, <2>9 DEF R!RatchetInv
<1> QED
  BY <1>5, <1>6

LEMMA OpenDamagedKeeps ==
  ASSUME R!RatchetInv, NEW e \in R!Ends, R!OpenDamaged(e)
  PROVE  R!RatchetInv'
<1>1. /\ R!Established(e) /\ wire' = wire /\ opened' = opened
      /\ session' = [session EXCEPT ![e].recv_count = @ + 1]
  BY DEF R!OpenDamaged
<1>2. /\ DOMAIN session' = DOMAIN session
      /\ session' \in [DOMAIN session -> R!RatchetSession]
      /\ session'[e].recv_count = session[e].recv_count + 1
      /\ session[e].recv_count \in Nat
      /\ \A d \in DOMAIN session: d # e => session'[d] = session[d]
      /\ (R!ChainsOpposed /\ R!SecretsApart /\ R!WireSealed)'
  BY <1>1, AdvanceKeeps
<1>3. \A d \in R!Ends: \A i \in 1..Len(opened[d]):
        /\ opened[d][i][2] \in Nat
        /\ d \in DOMAIN session /\ opened[d][i][2] < session[d].recv_count
  BY DEF R!RatchetInv, R!TypeOK, R!OpenedBehind, R!Established, R!Messages
<1>4. R!TypeOK'
  BY <1>1, <1>2 DEF R!RatchetInv, R!TypeOK
<1>5. R!OpenedBehind'
  BY <1>1, <1>2, <1>3 DEF R!OpenedBehind, R!Established
<1>6. R!OpensInOrder'
  BY <1>1 DEF R!RatchetInv, R!OpensInOrder
<1> QED
  BY <1>2, <1>4, <1>5, <1>6 DEF R!RatchetInv

-----------------------------------------------------------------------------
LEMMA RatchetStep == R!RatchetInv /\ [R!Next]_(R!vars) => R!RatchetInv'
<1> SUFFICES ASSUME R!RatchetInv, [R!Next]_(R!vars) PROVE R!RatchetInv'
  OBVIOUS
<1>1. CASE UNCHANGED R!vars
  BY <1>1 DEF R!vars, R!RatchetInv, R!TypeOK, R!ChainsOpposed, R!SecretsApart, R!WireSealed, R!OpenedBehind,
              R!OpensInOrder, R!Established
<1>2. ASSUME NEW e \in R!Ends, NEW secret \in Secrets, R!Fresh(e, secret), R!Start(e, secret)
      PROVE  R!RatchetInv'
  BY <1>2, StartKeeps
<1>3. ASSUME NEW e \in R!Ends, R!Seal(e) PROVE R!RatchetInv'
  BY <1>3, SealKeeps
<1>4. ASSUME NEW e \in R!Ends, NEW m \in wire, R!Open(e, m) PROVE R!RatchetInv'
  BY <1>4, OpenKeeps
<1>5. ASSUME NEW e \in R!Ends, R!OpenDamaged(e) PROVE R!RatchetInv'
  BY <1>5, OpenDamagedKeeps
<1> QED
  BY <1>1, <1>2, <1>3, <1>4, <1>5 DEF R!Next

LEMMA RatchetInvariant == R!Spec => []R!RatchetInv
BY RatchetInit, RatchetStep, PTL DEF R!Spec

\* Sessions, ciphertexts and opened messages are well formed in every
\* reachable state, for any number of conversations.
THEOREM RatchetTypeCorrect == R!Spec => []R!TypeOK
<1>1. R!RatchetInv => R!TypeOK
  BY DEF R!RatchetInv
<1> QED
  BY <1>1, RatchetInvariant, PTL

\* Whatever the network delivers, a key of seal (signal.rs:342) seals one
\* message only, over all ends, directions and conversations.
THEOREM EveryKeySealsOnce == R!Spec => []R!KeySealsOnce
<1>1. R!RatchetInv => R!KeySealsOnce
  <2> SUFFICES ASSUME R!RatchetInv, NEW m \in wire, NEW n \in wire, m.key = n.key
               PROVE  m.text = n.text
    BY DEF R!KeySealsOnce
  <2>1. /\ m.text \in R!Messages /\ m.text[1] \in R!Ends /\ m.text = <<m.text[1], m.text[2]>>
        /\ n.text \in R!Messages /\ n.text[1] \in R!Ends /\ n.text = <<n.text[1], n.text[2]>>
    BY DEF R!RatchetInv, R!TypeOK, R!Messages
  <2>2. /\ m.text[1] \in DOMAIN session /\ n.text[1] \in DOMAIN session
        /\ m.key = <<session[m.text[1]].secret, session[m.text[1]].send, m.text[2]>>
        /\ n.key = <<session[n.text[1]].secret, session[n.text[1]].send, n.text[2]>>
    BY DEF R!RatchetInv, R!WireSealed, R!Established
  <2>3. /\ session[m.text[1]].secret = session[n.text[1]].secret
        /\ session[m.text[1]].send = session[n.text[1]].send
        /\ m.text[2] = n.text[2]
    <3>1. <<session[m.text[1]].secret, session[m.text[1]].send, m.text[2]>>
            = <<session[n.text[1]].secret, session[n.text[1]].send, n.text[2]>>
      BY <2>2, Zenon
    <3> QED
      BY <3>1
  <2>4. m.text[1][1] = n.text[1][1]
    BY <2>2, <2>3 DEF R!RatchetInv, R!SecretsApart
  <2>5. R!SideChain(m.text[1][2]) = R!SideChain(n.text[1][2])
    BY <2>2, <2>3 DEF R!RatchetInv, R!ChainsOpposed
  <2>6. m.text[1][2] = n.text[1][2]
    BY <2>1, <2>5, PeerIsEnd, ChainTellsSide
  <2>7. m.text[1] = n.text[1]
    BY <2>1, <2>4, <2>6, PeerIsEnd
  <2> QED
    BY <2>1, <2>3, <2>7
<1> QED
  BY <1>1, RatchetInvariant, PTL

\* An end opens only what its peer sealed, in that order and nothing twice,
\* whatever is lost, repeated, reordered, damaged or delivered to the wrong
\* conversation (open, signal.rs:361).
THEOREM EveryEndOpensInOrder == R!Spec => []R!OpensInOrder
<1>1. R!RatchetInv => R!OpensInOrder
  BY DEF R!RatchetInv
<1> QED
  BY <1>1, RatchetInvariant, PTL

-----------------------------------------------------------------------------
(* What Ratchet promises, for the sessions X3DH starts. *)

\* No key seals two messages, over all conversations started with one owner.
THEOREM EveryAgreedKeySealsOnce == Spec => []KeySealsOnce
BY EveryKeySealsOnce, AgreementImplementsRatchet, PTL DEF ImplementsRatchet, KeySealsOnce

\* Every end opens only what the peer of its conversation sealed, in order.
THEOREM EveryAgreedEndOpensInOrder == Spec => []OpensInOrder
BY EveryEndOpensInOrder, AgreementImplementsRatchet, PTL DEF ImplementsRatchet, OpensInOrder

\* Bundles, downloads, first messages and sessions are well formed, for any
\* conversations and batches.
THEOREM AgreementTypeCorrect == Spec => []TypeOK
<1>1. AgreementInv /\ R!TypeOK => TypeOK
  <2>1. AgreementInv => /\ bundle \in PrekeyBundle \cup {None}
                        /\ fetched \in [Talks -> PrekeyBundle \cup {None}]
    BY BundleIsTyped DEF AgreementInv, SupplyGrows
  <2> QED
    BY <2>1 DEF TypeOK, AgreementInv, SupplyGrows, HelloNamesTheKey
<1> QED
  BY <1>1, RatchetTypeCorrect, AgreementInvariant, AgreementImplementsRatchet, PTL DEF ImplementsRatchet
=============================================================================
