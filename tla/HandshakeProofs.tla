--------------------------- MODULE HandshakeProofs ---------------------------
(***************************************************************************)
(* Theorems about Handshake, for every set of devices, number of one-time  *)
(* keys and bound.  What they need of the hash behind keyid and of         *)
(* verify32 is a hypothesis of the theorem that needs it.                  *)
(***************************************************************************)
EXTENDS Handshake, PqxdhProofs

-----------------------------------------------------------------------------
(* Type correctness *)

\* What is uploaded for a bundle has the type of a publication.
LEMMA PublicationType ==
    ASSUME NEW b \in LocalBundle
    PROVE  Publication(b) \in PublicationSet
<1>1. \A k \in b.OneTimeQuantumKeys :
          [key |-> k.key, identifier |-> k.identifier,
           signature |-> {sign32(b.IdentityKey, k.key)}] \in QuantumKey
  BY DEF LocalBundle, IdKey, QuantumKey, sign32, Signature
<1>2. [key |-> b.SignedPreKey.key, identifier |-> b.SignedPreKey.identifier,
       signature |-> sign32(b.IdentityKey, b.SignedPreKey.key)] \in SignedIdKey
  BY DEF LocalBundle, IdKey, SignedIdKey, sign32, Signature
<1>3. [key |-> b.QuantumPreKey.key, identifier |-> b.QuantumPreKey.identifier,
       signature |-> {}] \in QuantumKey
  BY DEF LocalBundle, IdKey, QuantumKey
<1> QED
  BY <1>1, <1>2, <1>3 DEF Publication, PublicationSet, LocalBundle

\* Every bundle the server can answer with is a foreign_prekey_bundle.
LEMMA OffersType ==
    ASSUME TypeOK
    PROVE  Offers \subseteq {keys \in Bundle : IsOptional(keys.oneTimePreKey)}
<1> SUFFICES ASSUME NEW keys \in Offers
             PROVE  keys \in Bundle /\ IsOptional(keys.oneTimePreKey)
  OBVIOUS
<1>1. keys.identityKey \in Key /\ keys.signedPreKey \in SignedIdKey
  BY DEF TypeOK, Offers, PublicationSet
<1>2. keys.qpubsidkey \in QuantumKey
  BY DEF TypeOK, Offers, PublicationSet
<1>3. keys.oneTimePreKey \subseteq IdKey /\ IsOptional(keys.oneTimePreKey)
  BY DEF TypeOK, Offers, PublicationSet, IsOptional
<1>4. keys = [identityKey |-> keys.identityKey, signedPreKey |-> keys.signedPreKey,
              qpubsidkey |-> keys.qpubsidkey, oneTimePreKey |-> keys.oneTimePreKey]
  BY DEF Offers
<1> QED
  BY <1>1, <1>2, <1>3, <1>4 DEF Bundle

\* The step of the type invariant for an outbound session.
LEMMA InitiateType ==
    ASSUME KeyidNat, TypeOK, NEW d \in Device, NEW e \in Device, NEW identity,
           NEW keys \in Offers, Initiate(d, e, identity, keys)
    PROVE  TypeOK'
<1>1. keys \in Bundle /\ IsOptional(keys.oneTimePreKey)
  BY OffersType
<1>2. OneTimeKeys(keys) \subseteq Key
  BY <1>1 DEF OneTimeKeys, Bundle, IdKey, QuantumKey
<1>3. taken' \subseteq Key
  BY <1>2 DEF Initiate, TypeOK
<1>4. PICK b \in lkb[d] :
          \E result \in {Throws, create_outbound_session(b.IdentityKey, identity, keys,
                                                         nkeys + 1, nkeys + 2)} :
              KeepOutbound(d, e, b.IdentityKey, keys, result)
  BY DEF Initiate
<1> PICK result \in {Throws, create_outbound_session(b.IdentityKey, identity, keys,
                                                     nkeys + 1, nkeys + 2)} :
          KeepOutbound(d, e, b.IdentityKey, keys, result)
  BY <1>4
<1>5. CASE result.returns = "some"
  <2>1. b.IdentityKey \in Key /\ nkeys + 1 \in Key /\ nkeys + 2 \in Key
    BY DEF TypeOK, LocalBundle, Key
  <2>2. result.value.session \in Session /\ result.value.handshakeMessage \in Message
    BY <1>1, <1>5, <2>1, OutboundType
  <2>3. nkeys' \in 0 .. MaxKeys
    BY <1>5, BoundsAssumption DEF TypeOK, Initiate, KeepOutbound
  <2>4. outbound' \subseteq OutboundEntry
    BY <1>1, <1>5, <2>1, <2>2 DEF TypeOK, OutboundEntry, KeepOutbound
  <2>5. result.value.session.remoteIdentityKey \in Key
    BY <2>2 DEF Session
  <2>6. /\ pinned' \in [Device -> [Device -> SUBSET Key]]
        /\ \A x, y \in Device : IsOptional(pinned'[x][y])
    <3> DEFINE new == result.value.session.remoteIdentityKey
    <3>1. new \in Key /\ pinned \in [Device -> [Device -> SUBSET Key]]
      BY <2>5 DEF TypeOK
    <3>2. pinned' = [pinned EXCEPT ![d] = [pinned[d] EXCEPT ![e] = {new}]]
      BY <1>5, <3>1 DEF KeepOutbound
    <3> HIDE DEF new
    <3>3. pinned' \in [Device -> [Device -> SUBSET Key]]
      BY <3>1, <3>2
    <3>4. \A x, y \in Device : pinned'[x][y] = IF x = d /\ y = e THEN {new} ELSE pinned[x][y]
      BY <3>1, <3>2
    <3> QED
      BY <3>3, <3>4 DEF TypeOK, IsOptional
  <2> QED
    BY <1>3, <2>3, <2>4, <2>6 DEF TypeOK, Initiate
<1>6. CASE result.returns # "some"
  BY <1>3, <1>6 DEF TypeOK, Initiate, KeepOutbound
<1> QED
  BY <1>5, <1>6

\* The step of the type invariant for an inbound session.
LEMMA ReceiveType ==
    ASSUME TypeOK, NEW d \in Device, NEW o \in outbound, Receive(d, o.handshake)
    PROVE  TypeOK'
<1> DEFINE h == o.handshake
<1>1. h \in Message
  BY DEF TypeOK, OutboundEntry
<1>2. PICK b \in lkb[d] :
          \E q \in QuantumPrivate(b, h.usedQuantumPreKeys[1]), opk \in OneTimePrivate(b, h) :
              Accept(d, b, opk, q, h)
  BY DEF Receive
<1>3. PICK q \in QuantumPrivate(b, h.usedQuantumPreKeys[1]), opk \in OneTimePrivate(b, h) :
          Accept(d, b, opk, q, h)
  BY <1>2
<1>4. b \in LocalBundle
  BY DEF TypeOK
<1>5. q \in Key /\ opk \in SUBSET Key
  <2>1. q \in Key
    BY <1>4 DEF QuantumPrivate, LocalBundle, IdKey
  <2>2. opk \in SUBSET Key
    BY <1>4 DEF OneTimePrivate, LocalBundle, IdKey
  <2> QED
    BY <2>1, <2>2
<1>6. b.IdentityKey \in Key /\ b.SignedPreKey.key \in Key
  BY <1>4 DEF LocalBundle, IdKey
<1> HIDE DEF h
<1>7. create_inbound_session(b.IdentityKey, b.SignedPreKey.key, opk, q, h).value \in Session
  BY <1>1, <1>3, <1>5, <1>6, InboundType DEF Accept
<1>8. inbound' \subseteq InboundEntry
  BY <1>1, <1>3, <1>5, <1>6, <1>7 DEF TypeOK, InboundEntry, Accept
<1> QED
  BY <1>8 DEF TypeOK, Receive

\* Every step keeps the type invariant.
LEMMA TypeStep ==
    ASSUME KeyidNat, TypeOK, [Next]_vars
    PROVE  TypeOK'
<1>1. ASSUME NEW d \in Device, MakeLkb(d) PROVE TypeOK'
  <2>1. nkeys \in Nat /\ PreKeyCount \in Nat /\ LkbKeys(PreKeyCount) \in Nat
    BY BoundsAssumption DEF TypeOK, LkbKeys
  <2>2. make_lkb(nkeys, PreKeyCount) \in LocalBundle
    BY <2>1, MakeLkbType
  <2>3. nkeys' \in 0 .. MaxKeys
    BY <1>1, <2>1, BoundsAssumption DEF MakeLkb
  <2>4. /\ lkb' \in [Device -> SUBSET LocalBundle]
        /\ \A x \in Device : IsOptional(lkb'[x])
    BY <1>1, <2>2 DEF MakeLkb, TypeOK, IsOptional
  <2> QED
    BY <1>1, <2>3, <2>4 DEF MakeLkb, TypeOK
<1>2. ASSUME NEW d \in Device, Publish(d) PROVE TypeOK'
  <2>1. {Publication(b) : b \in lkb[d]} \subseteq PublicationSet
    BY PublicationType DEF TypeOK
  <2> QED
    BY <1>2, <2>1 DEF Publish, TypeOK
<1>3. ASSUME NEW d \in Device, NEW e \in Device, InitiateNew(d, e) \/ InitiateExisting(d, e)
      PROVE  TypeOK'
  BY <1>3, InitiateType DEF InitiateNew, InitiateExisting
<1>4. ASSUME NEW d \in Device, NEW o \in outbound, Receive(d, o.handshake) PROVE TypeOK'
  BY <1>4, ReceiveType
<1>5. CASE UNCHANGED vars
  BY <1>5 DEF vars, TypeOK
<1> QED
  BY <1>1, <1>2, <1>3, <1>4, <1>5 DEF Next

\* The type invariant holds at the start.
LEMMA TypeInit == Init => TypeOK
  BY BoundsAssumption DEF Init, TypeOK, IsOptional

\* Every variable keeps the type of the C++ data it stands for, through every
\* interleaving of registrations, uploads, sessions and deliveries.
THEOREM TypeCorrect == ASSUME KeyidNat PROVE Spec => []TypeOK
<1>1. TypeOK /\ [Next]_vars => TypeOK'
  BY TypeStep
<1> QED
  BY <1>1, TypeInit, PTL DEF Spec

-----------------------------------------------------------------------------
(* Identity keys stay the same *)

\* An outbound session is made with the identity key that is trusted already.
LEMMA PinnedInitiate ==
    ASSUME KeyidNat, PinnedInv, TypeOK', NEW d \in Device, NEW e \in Device, NEW identity,
           NEW keys \in Offers, Initiate(d, e, identity, keys),
           pinned[d][e] = {} \/ identity \in pinned[d][e]
    PROVE  PinnedInv'
<1>1. PICK b \in lkb[d] :
          \E result \in {Throws, create_outbound_session(b.IdentityKey, identity, keys,
                                                         nkeys + 1, nkeys + 2)} :
              KeepOutbound(d, e, b.IdentityKey, keys, result)
  BY DEF Initiate
<1>2. PICK result \in {Throws, create_outbound_session(b.IdentityKey, identity, keys,
                                                       nkeys + 1, nkeys + 2)} :
          KeepOutbound(d, e, b.IdentityKey, keys, result)
  BY <1>1
<1>3. CASE result.returns = "some"
  <2> DEFINE new == result.value.session.remoteIdentityKey
  <2>1. new = keys.identityKey /\ identity = keys.identityKey
    <3>1. /\ verify_foreign_bundle(identity, keys)
          /\ \E lik, EK, ct, SK : result.value = finalize_outbound_session(lik, EK, ct, SK, keys)
      BY <1>3, OutboundResult
    <3> QED
      BY <3>1 DEF finalize_outbound_session, verify_foreign_bundle, kmatch
  <2>2. pinned \in [Device -> [Device -> SUBSET Key]]
    BY DEF PinnedInv, TypeOK
  <2>3. pinned' = [pinned EXCEPT ![d] = [pinned[d] EXCEPT ![e] = {new}]]
    BY <1>2, <1>3, <2>2 DEF KeepOutbound
  <2>4. \A x, y \in Device : pinned'[x][y] = IF x = d /\ y = e THEN {new} ELSE pinned[x][y]
    BY <2>2, <2>3
  <2>5. ASSUME NEW o \in outbound
        PROVE  pinned'[o.by][o.peer] = {o.session.remoteIdentityKey}
    <3>1. o.by \in Device /\ o.peer \in Device
      BY DEF PinnedInv, TypeOK, OutboundEntry
    <3>2. pinned[o.by][o.peer] = {o.session.remoteIdentityKey}
      BY DEF PinnedInv
    <3>3. CASE o.by = d /\ o.peer = e
      <4>1. identity = o.session.remoteIdentityKey
        BY <3>2, <3>3
      <4> QED
        BY <4>1, <2>1, <2>4, <3>3
    <3>4. CASE ~(o.by = d /\ o.peer = e)
      BY <2>4, <3>1, <3>2, <3>4
    <3> QED
      BY <3>3, <3>4
  <2>6. outbound' = outbound \cup
            {[by |-> d, peer |-> e, localIdentity |-> b.IdentityKey, keys |-> keys,
              session |-> result.value.session, handshake |-> result.value.handshakeMessage]}
    BY <1>2, <1>3 DEF KeepOutbound
  <2>7. pinned'[d][e] = {result.value.session.remoteIdentityKey}
    BY <2>4
  <2> QED
    BY <2>5, <2>6, <2>7 DEF PinnedInv
<1>4. CASE result.returns # "some"
  BY <1>2, <1>4 DEF PinnedInv, KeepOutbound
<1> QED
  BY <1>3, <1>4

\* All sessions a device creates with a contact name one identity key,
\* whatever verify32 accepts and whatever the server answers: the comparison
\* at the head of verify_foreign_bundle is enough.
THEOREM IdentityKept == ASSUME KeyidNat PROVE Spec => []IdentityContinuity
<1>1. Init => PinnedInv
  BY TypeInit DEF Init, PinnedInv
<1>2. PinnedInv /\ [Next]_vars => PinnedInv'
  <2> SUFFICES ASSUME PinnedInv, [Next]_vars PROVE PinnedInv'
    OBVIOUS
  <2>1. TypeOK'
    BY TypeStep DEF PinnedInv
  <2>2. ASSUME NEW d \in Device, MakeLkb(d) \/ Publish(d) \/ \E o \in outbound : Receive(d, o.handshake)
        PROVE  PinnedInv'
    BY <2>1, <2>2 DEF PinnedInv, MakeLkb, Publish, Receive
  <2>3. ASSUME NEW d \in Device, NEW e \in Device, InitiateNew(d, e) PROVE PinnedInv'
    BY <2>1, <2>3, PinnedInitiate DEF InitiateNew
  <2>4. ASSUME NEW d \in Device, NEW e \in Device, InitiateExisting(d, e) PROVE PinnedInv'
    BY <2>1, <2>4, PinnedInitiate DEF InitiateExisting
  <2>5. CASE UNCHANGED vars
    BY <2>1, <2>5 DEF PinnedInv, vars
  <2> QED
    BY <2>2, <2>3, <2>4, <2>5 DEF Next
<1>3. PinnedInv => IdentityContinuity
  <2> SUFFICES ASSUME PinnedInv, NEW o1 \in outbound, NEW o2 \in outbound,
                      o1.by = o2.by, o1.peer = o2.peer
               PROVE  o1.session.remoteIdentityKey = o2.session.remoteIdentityKey
    BY DEF IdentityContinuity
  <2>1. {o1.session.remoteIdentityKey} = {o2.session.remoteIdentityKey}
    BY DEF PinnedInv
  <2> QED
    BY <2>1
<1> QED
  BY <1>1, <1>2, <1>3, PTL DEF Spec

-----------------------------------------------------------------------------
(* Both ends derive the same root key *)

\* The long-term keys of a new bundle are consecutive and hashed.
LEMMA MakeLkbShape ==
    ASSUME NEW g \in Nat, NEW n \in Nat
    PROVE  BundleShape(make_lkb(g, n))
<1>1. \A ks : \A k \in MapById(ks) : k.identifier = keyid(k.key)
  BY DEF MapById
<1>2. /\ make_lkb(g, n).IdentityKey + 1 = g + 2
      /\ make_lkb(g, n).IdentityKey + 2 = g + 3
  BY DEF make_lkb
<1> QED
  BY <1>1, <1>2 DEF make_lkb, BundleShape

\* Uploading keeps the shape of a bundle.
LEMMA PublishShape ==
    ASSUME NEW b \in LocalBundle, BundleShape(b)
    PROVE  PublicationShape(Publication(b))
<1>1. /\ b.SignedPreKey.key = b.IdentityKey + 1
      /\ b.SignedPreKey.identifier = keyid(b.IdentityKey + 1)
      /\ b.QuantumPreKey.key = b.IdentityKey + 2
      /\ b.QuantumPreKey.identifier = 0
  BY DEF BundleShape, X25519_make_id_pair, MLKEM_32_make_id_pair
<1>2. \A k \in Publication(b).oneTimePreKeys : k.identifier = keyid(k.key)
  BY DEF BundleShape, Publication
<1>3. \A k \in Publication(b).oneTimeQuantumKeys : k.identifier = keyid(k.key) /\ k.signature # {}
  BY DEF BundleShape, Publication
<1> QED
  BY <1>1, <1>2, <1>3 DEF PublicationShape, Publication

\* An offer that passes verify_foreign_bundle has the signed pre key of its
\* identity key, whatever publications the server put it together from.
LEMMA VerifiedShape ==
    ASSUME VerifySound, AgreementInv, NEW keys \in Offers, NEW identity,
           verify_foreign_bundle(identity, keys)
    PROVE  AcceptedShape(keys)
<1>1. PICK p \in server : keys.signedPreKey = p.signedPreKey
  BY DEF Offers
<1>2. \A x \in server : PublicationShape(x)
  BY DEF AgreementInv
<1>3. /\ keys.signedPreKey.key = p.identityKey + 1
      /\ keys.signedPreKey.identifier = keyid(p.identityKey + 1)
      /\ keys.signedPreKey.signature = sign32(p.identityKey, p.identityKey + 1)
  <2>1. PublicationShape(p)
    BY <1>2
  <2> QED
    BY <1>1, <2>1 DEF PublicationShape
<1>4. keys.signedPreKey.signature = sign32(keys.identityKey, keys.signedPreKey.key)
  BY DEF verify_foreign_bundle, kmatch, VerifySound
<1>5. keys.identityKey = p.identityKey
  BY <1>3, <1>4 DEF sign32
<1>6. (\A k \in keys.oneTimePreKey : k.identifier = keyid(k.key)) /\ IsOptional(keys.oneTimePreKey)
  <2>1. CASE keys.oneTimePreKey = {}
    BY <2>1 DEF IsOptional
  <2>2. CASE keys.oneTimePreKey # {}
    <3>1. PICK k \in UNION {x.oneTimePreKeys : x \in server} : keys.oneTimePreKey = {k}
      BY <2>2 DEF Offers
    <3>2. k.identifier = keyid(k.key)
      BY <1>2 DEF PublicationShape
    <3> QED
      BY <3>1, <3>2 DEF IsOptional
  <2> QED
    BY <2>1, <2>2
<1>7. keys.qpubsidkey.identifier =
          IF keys.qpubsidkey.signature = {} THEN 0 ELSE keyid(keys.qpubsidkey.key)
  <2>1. PICK x \in server :
            keys.qpubsidkey = x.quantumPreKey \/ keys.qpubsidkey \in x.oneTimeQuantumKeys
    BY DEF Offers
  <2>2. PublicationShape(x)
    BY <1>2
  <2> QED
    BY <2>1, <2>2 DEF PublicationShape
<1> QED
  BY <1>3, <1>5, <1>6, <1>7 DEF AcceptedShape

\* The step of the agreement invariant for create_outbound_session.
LEMMA InitiateShape ==
    ASSUME KeyidNat, VerifySound, AgreementInv, TypeOK', NEW d \in Device, NEW e \in Device,
           NEW identity, NEW keys \in Offers, Initiate(d, e, identity, keys)
    PROVE  AgreementInv'
<1>1. PICK b \in lkb[d] :
          \E result \in {Throws, create_outbound_session(b.IdentityKey, identity, keys,
                                                         nkeys + 1, nkeys + 2)} :
              KeepOutbound(d, e, b.IdentityKey, keys, result)
  BY DEF Initiate
<1>2. PICK result \in {Throws, create_outbound_session(b.IdentityKey, identity, keys,
                                                       nkeys + 1, nkeys + 2)} :
          KeepOutbound(d, e, b.IdentityKey, keys, result)
  BY <1>1
<1>3. \A o \in outbound' : OutboundShape(o)
  <2>1. CASE result.returns = "some"
    <3> DEFINE ct == encapsulate(keys.qpubsidkey.key, nkeys + 2)
               SK == outbound_secret(b.IdentityKey, keys, nkeys + 1, ct)
               o == [by |-> d, peer |-> e, localIdentity |-> b.IdentityKey, keys |-> keys,
                     session |-> result.value.session,
                     handshake |-> result.value.handshakeMessage]
    <3>1. /\ verify_foreign_bundle(identity, keys)
          /\ result.value = finalize_outbound_session(b.IdentityKey, nkeys + 1, ct, SK, keys)
      BY <2>1, OutboundResult
    <3>2. AcceptedShape(keys)
      BY <3>1, VerifiedShape
    <3>3. ct.kem = keys.qpubsidkey.key
      BY DEF encapsulate
    <3> HIDE DEF ct
    <3>4. OutboundShape(o)
      BY <3>1, <3>2, <3>3 DEF OutboundShape, finalize_outbound_session
    <3>5. outbound' = outbound \cup {o}
      BY <1>2, <2>1 DEF KeepOutbound
    <3> HIDE DEF o
    <3> QED
      BY <3>4, <3>5 DEF AgreementInv
  <2>2. CASE result.returns # "some"
    BY <1>2, <2>2 DEF AgreementInv, KeepOutbound
  <2> QED
    BY <2>1, <2>2
<1> QED
  BY <1>3 DEF AgreementInv, Initiate

\* The step of the agreement invariant for create_inbound_session.
LEMMA ReceiveShape ==
    ASSUME AgreementInv, TypeOK', NEW d \in Device, NEW o \in outbound, Receive(d, o.handshake)
    PROVE  AgreementInv'
<1> DEFINE h == o.handshake
<1>1. PICK b \in lkb[d] :
          /\ h.usedPreKeys[1] = b.SignedPreKey.identifier
          /\ \E q \in QuantumPrivate(b, h.usedQuantumPreKeys[1]), opk \in OneTimePrivate(b, h) :
                Accept(d, b, opk, q, h)
  BY DEF Receive
<1>2. PICK q \in QuantumPrivate(b, h.usedQuantumPreKeys[1]), opk \in OneTimePrivate(b, h) :
          Accept(d, b, opk, q, h)
  BY <1>1
<1>3. BundleShape(b)
  BY DEF AgreementInv
<1>4. b.SignedPreKey.key = b.IdentityKey + 1 /\ h.usedPreKeys[1] = keyid(b.SignedPreKey.key)
  BY <1>1, <1>3 DEF BundleShape, X25519_make_id_pair
<1>5. \/ h.usedQuantumPreKeys[1] = 0 /\ q = b.IdentityKey + 2
      \/ h.usedQuantumPreKeys[1] = keyid(q)
  BY <1>3 DEF QuantumPrivate, BundleShape, MLKEM_32_make_id_pair
<1>6. IF Len(h.usedPreKeys) > 1
      THEN \E k \in opk : opk = {k} /\ h.usedPreKeys[2] = keyid(k)
      ELSE opk = {}
  BY <1>3 DEF OneTimePrivate, BundleShape
<1> HIDE DEF h
<1> DEFINE i == [at |-> d, localIdentity |-> b.IdentityKey, signedPreKey |-> b.SignedPreKey.key,
                 oneTimePreKey |-> opk, quantumPreKey |-> q, handshake |-> h,
                 session |-> create_inbound_session(b.IdentityKey, b.SignedPreKey.key,
                                                    opk, q, h).value]
<1>7. /\ i.session.remoteIdentityKey = h.identityKey
      /\ i.session.rootKey = inbound_secret(b.IdentityKey, b.SignedPreKey.key, opk, q, h)
  BY <1>2 DEF Accept, create_inbound_session, Throws, Some
<1>8. InboundShape(i)
  BY <1>4, <1>5, <1>6, <1>7 DEF InboundShape
<1>9. inbound' = inbound \cup {i}
  BY <1>2 DEF Accept
<1> HIDE DEF i
<1> QED
  BY <1>8, <1>9 DEF AgreementInv, Receive

\* Every step keeps the agreement invariant.
LEMMA AgreementStep ==
    ASSUME KeyidNat, VerifySound, AgreementInv, [Next]_vars
    PROVE  AgreementInv'
<1>1. TypeOK'
  BY TypeStep DEF AgreementInv
<1>2. ASSUME NEW d \in Device, MakeLkb(d) PROVE AgreementInv'
  <2>1. BundleShape(make_lkb(nkeys, PreKeyCount))
    BY MakeLkbShape, BoundsAssumption DEF AgreementInv, TypeOK
  <2>2. \A x \in Device : \A b \in lkb'[x] : BundleShape(b)
    BY <1>2, <2>1 DEF AgreementInv, TypeOK, MakeLkb
  <2> QED
    BY <1>1, <1>2, <2>2 DEF AgreementInv, MakeLkb
<1>3. ASSUME NEW d \in Device, Publish(d) PROVE AgreementInv'
  <2>1. \A b \in lkb[d] : PublicationShape(Publication(b))
    BY PublishShape DEF AgreementInv, TypeOK
  <2>2. \A p \in server' : PublicationShape(p)
    BY <1>3, <2>1 DEF AgreementInv, Publish
  <2> QED
    BY <1>1, <1>3, <2>2 DEF AgreementInv, Publish
<1>4. ASSUME NEW d \in Device, NEW e \in Device, InitiateNew(d, e) \/ InitiateExisting(d, e)
      PROVE  AgreementInv'
  BY <1>1, <1>4, InitiateShape DEF InitiateNew, InitiateExisting
<1>5. ASSUME NEW d \in Device, NEW o \in outbound, Receive(d, o.handshake) PROVE AgreementInv'
  BY <1>1, <1>5, ReceiveShape
<1>6. CASE UNCHANGED vars
  BY <1>1, <1>6 DEF AgreementInv, vars
<1> QED
  BY <1>2, <1>3, <1>4, <1>5, <1>6 DEF Next

\* The secrets of the two ends are equal when their keys are.
LEMMA SecretsAgree ==
    ASSUME NEW i, NEW o, i.handshake = o.handshake,
           OutboundShape(o), InboundShape(i),
           i.localIdentity = o.keys.identityKey, i.quantumPreKey = o.keys.qpubsidkey.key,
           i.oneTimePreKey = {k.key : k \in o.keys.oneTimePreKey}
    PROVE  i.session.rootKey = o.session.rootKey
<1> DEFINE h == o.handshake
<1>1. \A a, b : ssecret(a, b) = ssecret(b, a)
  BY DEF ssecret
<1>2. /\ i.signedPreKey = o.keys.signedPreKey.key
      /\ h.identityKey = o.localIdentity
  BY DEF OutboundShape, InboundShape, AcceptedShape
<1>3. decapsulate(h.cipherText, i.quantumPreKey) = h.cipherText
  BY DEF OutboundShape, decapsulate
<1>4. {ssecret(k, h.ephermoralKey) : k \in i.oneTimePreKey}
          = {ssecret(h.ephermoralKey, k.key) : k \in o.keys.oneTimePreKey}
  BY <1>1
<1>5. inbound_secret(i.localIdentity, i.signedPreKey, i.oneTimePreKey, i.quantumPreKey, h)
          = outbound_secret(o.localIdentity, o.keys, h.ephermoralKey, h.cipherText)
  BY <1>1, <1>2, <1>3, <1>4 DEF inbound_secret, outbound_secret
<1> QED
  BY <1>5 DEF OutboundShape, InboundShape

\* Two ends of one handshake hold the same keys: the identifiers in the
\* message determine every private key the receiver looked up.
LEMMA AgreementImplies ==
    ASSUME KeyidDistinct, AgreementInv
    PROVE  KeyAgreement
<1> SUFFICES ASSUME NEW i \in inbound, NEW o \in outbound, i.handshake = o.handshake,
                    QuantumKeyFits(o.keys)
             PROVE  SameView(i, o)
  BY DEF KeyAgreement
<1> DEFINE h == o.handshake
<1>1. OutboundShape(o) /\ InboundShape(i) /\ AcceptedShape(o.keys)
  BY DEF AgreementInv, OutboundShape
<1>2. /\ i \in InboundEntry /\ o \in OutboundEntry
      /\ o.keys \in Bundle
  BY DEF AgreementInv, TypeOK, OutboundEntry
<1>3. i.localIdentity = o.keys.identityKey
  <2>1. i.handshake.usedPreKeys[1] = keyid(i.localIdentity + 1)
    BY <1>1 DEF InboundShape
  <2>2. used_pre_keys(o.keys)[1] = o.keys.signedPreKey.identifier
    BY DEF used_pre_keys
  <2>3. o.handshake.usedPreKeys[1] = keyid(o.keys.identityKey + 1)
    BY <1>1, <2>2 DEF OutboundShape, AcceptedShape
  <2>4. i.localIdentity \in Nat /\ o.keys.identityKey \in Nat
    BY <1>2 DEF InboundEntry, Bundle, Key
  <2> QED
    BY <2>1, <2>3, <2>4 DEF KeyidDistinct, Key
<1>4. i.quantumPreKey = o.keys.qpubsidkey.key
  <2>1. h.usedQuantumPreKeys[1] = o.keys.qpubsidkey.identifier
    BY <1>1 DEF OutboundShape
  <2>2. i.quantumPreKey \in Key /\ o.keys.qpubsidkey.key \in Key
    BY <1>2 DEF InboundEntry, Bundle, QuantumKey
  <2>3. CASE o.keys.qpubsidkey.signature # {}
    <3>1. h.usedQuantumPreKeys[1] = keyid(o.keys.qpubsidkey.key)
      BY <1>1, <2>1, <2>3 DEF AcceptedShape
    <3> QED
      BY <1>1, <2>2, <3>1 DEF InboundShape, KeyidDistinct
  <2>4. CASE o.keys.qpubsidkey.signature = {}
    <3>1. h.usedQuantumPreKeys[1] = 0
      BY <1>1, <2>1, <2>4 DEF AcceptedShape
    <3>2. i.quantumPreKey = i.localIdentity + 2
      BY <1>1, <2>2, <3>1 DEF InboundShape, KeyidDistinct
    <3>3. PICK p \in server : p.signedPreKey = o.keys.signedPreKey /\ p.quantumPreKey = o.keys.qpubsidkey
      BY <2>4 DEF QuantumKeyFits
    <3>4. PublicationShape(p) /\ p.identityKey \in Nat /\ o.keys.identityKey \in Nat
      BY <1>2 DEF AgreementInv, TypeOK, PublicationSet, Bundle, Key
    <3>5. p.identityKey + 1 = o.keys.identityKey + 1 /\ o.keys.qpubsidkey.key = p.identityKey + 2
      BY <1>1, <3>3, <3>4 DEF PublicationShape, AcceptedShape
    <3> QED
      BY <1>3, <3>2, <3>4, <3>5
  <2> QED
    BY <2>3, <2>4
<1>5. i.oneTimePreKey = {k.key : k \in o.keys.oneTimePreKey}
  <2>1. CASE o.keys.oneTimePreKey = {}
    <3>1. Len(i.handshake.usedPreKeys) = 1
      BY <1>1, <2>1 DEF OutboundShape, used_pre_keys
    <3> QED
      BY <1>1, <2>1, <3>1 DEF InboundShape
  <2>2. CASE o.keys.oneTimePreKey # {}
    <3>1. PICK k \in o.keys.oneTimePreKey : k = CHOOSE x \in o.keys.oneTimePreKey : TRUE
      BY <2>2
    <3>2. o.keys.oneTimePreKey = {k} /\ k.identifier = keyid(k.key)
      BY <1>1 DEF AcceptedShape, IsOptional
    <3>3. Len(i.handshake.usedPreKeys) = 2 /\ i.handshake.usedPreKeys[2] = k.identifier
      BY <1>1, <2>2, <3>1 DEF OutboundShape, used_pre_keys
    <3>4. PICK j \in i.oneTimePreKey : i.oneTimePreKey = {j} /\ keyid(j) = keyid(k.key)
      BY <1>1, <3>2, <3>3 DEF InboundShape
    <3>5. j \in Key /\ k.key \in Key
      BY <1>2 DEF InboundEntry, Bundle, IdKey
    <3> QED
      BY <3>2, <3>4, <3>5 DEF KeyidDistinct
  <2> QED
    BY <2>1, <2>2
<1>6. i.session.rootKey = o.session.rootKey
  BY <1>1, <1>3, <1>4, <1>5, SecretsAgree
<1>7. i.session.remoteIdentityKey = o.localIdentity /\ o.session.remoteIdentityKey = i.localIdentity
  BY <1>1, <1>3 DEF InboundShape, OutboundShape
<1> QED
  BY <1>6, <1>7 DEF SameView

\* Whenever create_inbound_session accepts a handshake that
\* create_outbound_session made, both ends hold the same root key and name each
\* other's identity key, for every number of devices, keys and sessions, when
\* identifiers do not collide, verify32 accepts no forgery, and the server
\* keeps the unsigned last-resort key with its signed pre key.
THEOREM KeysAgree ==
    ASSUME KeyidNat, KeyidDistinct, VerifySound
    PROVE  Spec => []KeyAgreement
<1>1. Init => AgreementInv
  BY TypeInit DEF Init, AgreementInv
<1>2. AgreementInv /\ [Next]_vars => AgreementInv'
  BY AgreementStep
<1>3. AgreementInv => KeyAgreement
  BY AgreementImplies
<1> QED
  BY <1>1, <1>2, <1>3, PTL DEF Spec

-----------------------------------------------------------------------------
(* A root key names one handshake *)

\* create_outbound_session uses coins no session has used before.
LEMMA FreshInitiate ==
    ASSUME FreshInv, TypeOK', NEW d \in Device, NEW e \in Device, NEW identity,
           NEW keys \in Offers, Initiate(d, e, identity, keys)
    PROVE  FreshInv'
<1>1. PICK b \in lkb[d] :
          \E result \in {Throws, create_outbound_session(b.IdentityKey, identity, keys,
                                                         nkeys + 1, nkeys + 2)} :
              KeepOutbound(d, e, b.IdentityKey, keys, result)
  BY DEF Initiate
<1>2. PICK result \in {Throws, create_outbound_session(b.IdentityKey, identity, keys,
                                                       nkeys + 1, nkeys + 2)} :
          KeepOutbound(d, e, b.IdentityKey, keys, result)
  BY <1>1
<1>3. inbound' = inbound
  BY DEF Initiate
<1>4. CASE result.returns = "some"
  <2> DEFINE ct == encapsulate(keys.qpubsidkey.key, nkeys + 2)
             SK == outbound_secret(b.IdentityKey, keys, nkeys + 1, ct)
             o == [by |-> d, peer |-> e, localIdentity |-> b.IdentityKey, keys |-> keys,
                   session |-> result.value.session,
                   handshake |-> result.value.handshakeMessage]
  <2>1. result.value = finalize_outbound_session(b.IdentityKey, nkeys + 1, ct, SK, keys)
    BY <1>4, OutboundResult
  <2>2. ct.coins = nkeys + 2
    BY DEF encapsulate
  <2>3. SK.hkdf[5] = ct
    BY DEF outbound_secret, KDF, kconcat
  <2> HIDE DEF ct, SK
  <2>4. o.handshake.cipherText = ct /\ o.session.rootKey.hkdf[5] = ct
    BY <2>1, <2>3 DEF finalize_outbound_session
  <2>5. outbound' = outbound \cup {o} /\ nkeys' = nkeys + 2
    BY <1>2, <1>4 DEF KeepOutbound
  <2> HIDE DEF o
  <2>6. nkeys \in Nat /\ \A x \in outbound : x.handshake.cipherText.coins \in Nat
    BY DEF FreshInv, TypeOK, OutboundEntry, Message, CipherText, Key
  <2>7. \A x \in outbound' : /\ x.handshake.cipherText.coins <= nkeys'
                             /\ x.session.rootKey.hkdf[5] = x.handshake.cipherText
    BY <2>2, <2>4, <2>5, <2>6 DEF FreshInv
  <2>8. \A o1, o2 \in outbound' :
            o1.handshake.cipherText.coins = o2.handshake.cipherText.coins => o1 = o2
    BY <2>2, <2>4, <2>5, <2>6 DEF FreshInv
  <2> QED
    BY <1>3, <2>5, <2>7, <2>8 DEF FreshInv
<1>5. CASE result.returns # "some"
  BY <1>2, <1>3, <1>5 DEF FreshInv, KeepOutbound
<1> QED
  BY <1>4, <1>5

\* create_inbound_session ties its root key to the handshake it was given.
LEMMA FreshReceive ==
    ASSUME FreshInv, TypeOK', NEW d \in Device, NEW o \in outbound, Receive(d, o.handshake)
    PROVE  FreshInv'
<1> DEFINE h == o.handshake
<1>1. PICK b \in lkb[d] :
          \E q \in QuantumPrivate(b, h.usedQuantumPreKeys[1]), opk \in OneTimePrivate(b, h) :
              Accept(d, b, opk, q, h)
  BY DEF Receive
<1>2. PICK q \in QuantumPrivate(b, h.usedQuantumPreKeys[1]), opk \in OneTimePrivate(b, h) :
          Accept(d, b, opk, q, h)
  BY <1>1
<1> DEFINE i == [at |-> d, localIdentity |-> b.IdentityKey, signedPreKey |-> b.SignedPreKey.key,
                 oneTimePreKey |-> opk, quantumPreKey |-> q, handshake |-> h,
                 session |-> create_inbound_session(b.IdentityKey, b.SignedPreKey.key,
                                                    opk, q, h).value]
<1>3. i.session.rootKey = inbound_secret(b.IdentityKey, b.SignedPreKey.key, opk, q, h)
  BY <1>2 DEF Accept, create_inbound_session, Throws, Some
<1>4. i.session.rootKey.hkdf[5] = decapsulate(h.cipherText, q)
  BY <1>3 DEF inbound_secret, KDF, kconcat
<1>5. i.handshake = o.handshake /\ i.quantumPreKey = q
  OBVIOUS
<1>6. inbound' = inbound \cup {i}
  BY <1>2 DEF Accept
<1> HIDE DEF i
<1>7. nkeys' = nkeys /\ outbound' = outbound
  BY DEF Receive
<1> QED
  BY <1>4, <1>5, <1>6, <1>7 DEF FreshInv

\* Every step keeps the invariant behind the freshness of root keys.
LEMMA FreshStep ==
    ASSUME KeyidNat, FreshInv, [Next]_vars
    PROVE  FreshInv'
<1>1. TypeOK'
  BY TypeStep DEF FreshInv
<1>2. ASSUME NEW d \in Device, MakeLkb(d) PROVE FreshInv'
  <2>1. nkeys \in Nat /\ nkeys' \in Nat /\ nkeys <= nkeys'
    BY <1>2, BoundsAssumption DEF FreshInv, TypeOK, MakeLkb, LkbKeys
  <2>2. outbound' = outbound /\ inbound' = inbound
    BY <1>2 DEF MakeLkb
  <2>3. \A o \in outbound : o.handshake.cipherText.coins \in Nat
    BY DEF FreshInv, TypeOK, OutboundEntry, Message, CipherText, Key
  <2> QED
    BY <1>1, <2>1, <2>2, <2>3 DEF FreshInv
<1>3. ASSUME NEW d \in Device, Publish(d) PROVE FreshInv'
  BY <1>1, <1>3 DEF FreshInv, Publish
<1>4. ASSUME NEW d \in Device, NEW e \in Device, InitiateNew(d, e) \/ InitiateExisting(d, e)
      PROVE  FreshInv'
  BY <1>1, <1>4, FreshInitiate DEF InitiateNew, InitiateExisting
<1>5. ASSUME NEW d \in Device, NEW o \in outbound, Receive(d, o.handshake) PROVE FreshInv'
  BY <1>1, <1>5, FreshReceive
<1>6. CASE UNCHANGED vars
  BY <1>1, <1>6 DEF FreshInv, vars
<1> QED
  BY <1>2, <1>3, <1>4, <1>5, <1>6 DEF Next

\* Fresh coins make root keys name their handshakes.
LEMMA FreshImplies ==
    ASSUME FreshInv
    PROVE  RootKeyNamesHandshake
<1>1. ASSUME NEW o1 \in outbound, NEW o2 \in outbound, o1.session.rootKey = o2.session.rootKey
      PROVE  o1 = o2
  BY <1>1 DEF FreshInv
<1>2. ASSUME NEW i \in inbound, NEW o \in outbound, i.session.rootKey = o.session.rootKey
      PROVE  i.handshake = o.handshake
  <2>1. PICK p \in outbound : i.handshake = p.handshake
    BY DEF FreshInv
  <2>2. decapsulate(p.handshake.cipherText, i.quantumPreKey) = o.handshake.cipherText
    BY <1>2, <2>1 DEF FreshInv
  <2>3. o.handshake.cipherText \in CipherText
    BY DEF FreshInv, TypeOK, OutboundEntry, Message
  <2>4. p.handshake.cipherText.kem = i.quantumPreKey
    <3>1. SUFFICES ASSUME p.handshake.cipherText.kem # i.quantumPreKey PROVE FALSE
      OBVIOUS
    <3>2. [kem |-> i.quantumPreKey, rejected |-> p.handshake.cipherText] \in CipherText
      BY <2>2, <2>3, <3>1 DEF decapsulate
    <3> QED
      BY <3>2 DEF CipherText
  <2>5. p.handshake.cipherText = o.handshake.cipherText
    BY <2>2, <2>4 DEF decapsulate
  <2> QED
    BY <2>1, <2>5 DEF FreshInv
<1> QED
  BY <1>1, <1>2 DEF RootKeyNamesHandshake

\* Two outbound sessions never have the same root key, and an inbound session
\* shares one only with the outbound session whose handshake it came from, even
\* if identifiers collide and verify32 accepts anything.
THEOREM RootKeysNameHandshakes == ASSUME KeyidNat PROVE Spec => []RootKeyNamesHandshake
<1>1. Init => FreshInv
  BY TypeInit DEF Init, FreshInv
<1>2. FreshInv /\ [Next]_vars => FreshInv'
  BY FreshStep
<1>3. FreshInv => RootKeyNamesHandshake
  BY FreshImplies
<1> QED
  BY <1>1, <1>2, <1>3, PTL DEF Spec

-----------------------------------------------------------------------------
(* The handshake implements the key exchange *)

\* Every session whose handshake was made from a bundle that fits answers a
\* proposal.
Answered == \A i \in FitInbound : \E o \in outbound : Acceptance(i) = Proposal(o)

ExchangeInv == AgreementInv /\ FreshInv

LEMMA ExchangeImplies ==
    ASSUME KeyidDistinct, ExchangeInv
    PROVE  Answered
<1> SUFFICES ASSUME NEW i \in FitInbound
             PROVE  \E o \in outbound : Acceptance(i) = Proposal(o)
  BY DEF Answered
<1>1. i \in inbound /\ \A o \in outbound : i.handshake = o.handshake => QuantumKeyFits(o.keys)
  BY DEF FitInbound
<1>2. PICK o \in outbound : i.handshake = o.handshake
  BY <1>1 DEF ExchangeInv, FreshInv
<1>3. KeyAgreement
  BY AgreementImplies DEF ExchangeInv
<1>4. SameView(i, o)
  BY <1>1, <1>2, <1>3 DEF KeyAgreement
<1> QED
  BY <1>4 DEF SameView, Acceptance, Proposal

\* A step that leaves the outbound sessions alone and forgets no inbound one
\* accepts proposals.
LEMMA AcceptStep ==
    ASSUME Answered', outbound' = outbound, FitInbound \subseteq FitInbound'
    PROVE  Exchange!Accept
  BY DEF Answered, Exchange!Accept

\* Calls of create_outbound_session add at most one session.
LEMMA InitiateAdds ==
    ASSUME NEW d \in Device, NEW e \in Device, NEW identity, NEW keys \in Offers,
           Initiate(d, e, identity, keys)
    PROVE  /\ inbound' = inbound /\ server' = server
           /\ \/ outbound' = outbound
              \/ \E o : outbound' = outbound \cup {o}
<1>1. PICK b \in lkb[d] :
          \E result \in {Throws, create_outbound_session(b.IdentityKey, identity, keys,
                                                         nkeys + 1, nkeys + 2)} :
              KeepOutbound(d, e, b.IdentityKey, keys, result)
  BY DEF Initiate
<1>2. PICK result \in {Throws, create_outbound_session(b.IdentityKey, identity, keys,
                                                       nkeys + 1, nkeys + 2)} :
          KeepOutbound(d, e, b.IdentityKey, keys, result)
  BY <1>1
<1>3. outbound' = outbound \/ \E o : outbound' = outbound \cup {o}
  BY <1>2 DEF KeepOutbound
<1> QED
  BY <1>3 DEF Initiate

\* A new outbound session is a proposal with a secret of its own, and changes
\* nothing about the handshakes that were accepted.
LEMMA ProposeStep ==
    ASSUME FreshInv, FreshInv', inbound' = inbound, server' = server, NEW o,
           o \notin outbound, outbound' = outbound \cup {o}
    PROVE  Exchange!Propose
<1>1. \A x \in outbound : /\ x.handshake.cipherText.coins # o.handshake.cipherText.coins
                          /\ x.session.rootKey.hkdf[5] = x.handshake.cipherText
                          /\ o.session.rootKey.hkdf[5] = o.handshake.cipherText
  BY DEF FreshInv
<1>2. \A x \in {Proposal(y) : y \in outbound} : x.secret # Proposal(o).secret
  BY <1>1 DEF Proposal
<1>3. \A i \in inbound : i.handshake # o.handshake
  <2>1. \A i \in inbound : \E x \in outbound : i.handshake = x.handshake
    BY DEF FreshInv
  <2> QED
    BY <1>1, <2>1
<1>4. \A keys : QuantumKeyFits(keys)' <=> QuantumKeyFits(keys)
  BY DEF QuantumKeyFits
<1>5. FitInbound' = FitInbound
  BY <1>3, <1>4 DEF FitInbound
<1> DEFINE P == {Proposal(y) : y \in outbound}
<1>6. {Proposal(y) : y \in outbound'} = P \cup {Proposal(o)}
  OBVIOUS
<1> QED
  BY <1>2, <1>5, <1>6 DEF Exchange!Propose

\* Every step of the devices is a proposal, some acceptances, or neither.
LEMMA ExchangeStep ==
    ASSUME FreshInv, FreshInv', Answered', [Next]_vars
    PROVE  [Exchange!Next]_<<{Proposal(o) : o \in outbound}, {Acceptance(i) : i \in FitInbound}>>
<1>1. ASSUME outbound' = outbound, inbound \subseteq inbound', server \subseteq server'
      PROVE  Exchange!Next
  <2>1. FitInbound \subseteq FitInbound'
    BY <1>1 DEF FitInbound, QuantumKeyFits
  <2> QED
    BY <1>1, <2>1, AcceptStep DEF Exchange!Next
<1>2. ASSUME NEW d \in Device, MakeLkb(d) \/ Publish(d) PROVE Exchange!Next
  BY <1>1, <1>2 DEF MakeLkb, Publish
<1>3. ASSUME NEW d \in Device, NEW e \in Device, InitiateNew(d, e) \/ InitiateExisting(d, e)
      PROVE  Exchange!Next
  <2>1. /\ inbound' = inbound /\ server' = server
        /\ outbound' = outbound \/ \E o : outbound' = outbound \cup {o}
    BY <1>3, InitiateAdds DEF InitiateNew, InitiateExisting
  <2>2. CASE outbound' = outbound
    BY <1>1, <2>1, <2>2
  <2>3. CASE \E o : o \notin outbound /\ outbound' = outbound \cup {o}
    BY <2>1, <2>3, ProposeStep DEF Exchange!Next
  <2> QED
    BY <2>1, <2>2, <2>3
<1>4. ASSUME NEW d \in Device, NEW o \in outbound, Receive(d, o.handshake) PROVE Exchange!Next
  <2>1. inbound \subseteq inbound'
    BY <1>4 DEF Receive, Accept
  <2> QED
    BY <1>1, <1>4, <2>1 DEF Receive
<1>5. CASE UNCHANGED vars
  BY <1>1, <1>5 DEF vars
<1> QED
  BY <1>2, <1>3, <1>4, <1>5 DEF Next

\* The handshake implements the key exchange: for every number of devices,
\* keys and sessions, whatever the network and the server do, no secret is
\* proposed twice and none accepted that was not proposed to the same two ends.
THEOREM HandshakeIsKeyExchange ==
    ASSUME KeyidNat, KeyidDistinct, VerifySound
    PROVE  Spec => IsExchange
<1>1. Init => ExchangeInv
  BY TypeInit DEF Init, ExchangeInv, AgreementInv, FreshInv
<1>2. ExchangeInv /\ [Next]_vars => ExchangeInv'
  BY AgreementStep, FreshStep DEF ExchangeInv
<1>3. ExchangeInv => FreshInv /\ Answered
  BY ExchangeImplies DEF ExchangeInv
<1>4. Init => Exchange!Init
  BY DEF Init, Exchange!Init, FitInbound
<1>5. FreshInv /\ FreshInv' /\ Answered' /\ [Next]_vars
        => [Exchange!Next]_<<{Proposal(o) : o \in outbound}, {Acceptance(i) : i \in FitInbound}>>
  BY ExchangeStep
<1> QED
  BY <1>1, <1>2, <1>3, <1>4, <1>5, PTL DEF Spec, IsExchange, Exchange!Spec
=============================================================================
