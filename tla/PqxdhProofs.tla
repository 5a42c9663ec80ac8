----------------------------- MODULE PqxdhProofs -----------------------------
(***************************************************************************)
(* What the functions of Pqxdh return, for the theorems about the modules  *)
(* that call them.                                                         *)
(***************************************************************************)
EXTENDS Pqxdh, TLAPS

\* make_lkb builds a local_key_bundle.
LEMMA MakeLkbType ==
    ASSUME KeyidNat, NEW g \in Nat, NEW n \in Nat
    PROVE  make_lkb(g, n) \in LocalBundle
<1>1. ASSUME NEW ks, ks \subseteq Nat
      PROVE  MapById(ks) \subseteq IdKey
  BY <1>1 DEF MapById, IdKey, Key, KeyidNat
<1>2. (g + 4) .. (g + 3 + n) \subseteq Nat /\ (g + 4 + n) .. (g + 3 + 2 * n) \subseteq Nat
  OBVIOUS
<1>3. X25519_make_id_pair(g + 2) \in IdKey /\ MLKEM_32_make_id_pair(g + 3) \in IdKey
  BY DEF X25519_make_id_pair, MLKEM_32_make_id_pair, IdKey, Key, KeyidNat
<1> QED
  BY <1>1, <1>2, <1>3 DEF make_lkb, LocalBundle, Key

\* What create_outbound_session returns, when it returns a session: the two
\* guards it passed, and the record finalize_outbound_session builds.
LEMMA OutboundResult ==
    ASSUME NEW lik, NEW identity, NEW keys, NEW EK, NEW coins, NEW result,
           result \in {Throws, create_outbound_session(lik, identity, keys, EK, coins)},
           result.returns = "some"
    PROVE  /\ verify_foreign_bundle(identity, keys)
           /\ result.value =
                finalize_outbound_session(lik, EK, encapsulate(keys.qpubsidkey.key, coins),
                    outbound_secret(lik, keys, EK, encapsulate(keys.qpubsidkey.key, coins)), keys)
  BY DEF create_outbound_session, Throws, Nullopt, Some

\* finalize_outbound_session returns a session and a handshake message.
LEMMA FinalizeType ==
    ASSUME NEW lik \in Key, NEW EK \in Key, NEW ct \in CipherText, NEW SK \in RootKey,
           NEW keys \in Bundle, IsOptional(keys.oneTimePreKey)
    PROVE  /\ finalize_outbound_session(lik, EK, ct, SK, keys).session \in Session
           /\ finalize_outbound_session(lik, EK, ct, SK, keys).handshakeMessage \in Message
<1>1. used_pre_keys(keys) \in Seq(Nat)
  <2>1. CASE keys.oneTimePreKey = {}
    BY <2>1 DEF used_pre_keys, Bundle, SignedIdKey
  <2>2. CASE keys.oneTimePreKey # {}
    <3>1. (CHOOSE k \in keys.oneTimePreKey : TRUE) \in keys.oneTimePreKey
      BY <2>2
    <3> QED
      BY <3>1, <2>2 DEF used_pre_keys, Bundle, SignedIdKey, IdKey
  <2> QED
    BY <2>1, <2>2
<1>2. <<keys.qpubsidkey.identifier>> \in Seq(Nat)
  BY DEF Bundle, QuantumKey
<1>3. keys.identityKey \in Key /\ ZeroKey \in Key
  BY DEF Bundle, ZeroKey, Key
<1> QED
  BY <1>1, <1>2, <1>3 DEF finalize_outbound_session, Session, Message

\* The KDF of a concatenation of secrets is a root key.
LEMMA RootKeyType ==
    ASSUME NEW a \in Key, NEW b \in Key, NEW c \in Key, NEW d \in Key, NEW e \in Key,
           NEW f \in Key, NEW D \in SUBSET SUBSET Key,
           NEW SS \in CipherText \cup [kem : Key, rejected : CipherText]
    PROVE  KDF(kconcat(ssecret(a, b), ssecret(c, d), ssecret(e, f), D, SS)) \in RootKey
  BY DEF KDF, kconcat, ssecret, RootKey

\* A session create_outbound_session returns is well typed.
LEMMA OutboundType ==
    ASSUME NEW lik \in Key, NEW identity, NEW keys \in Bundle, NEW EK \in Key,
           NEW coins \in Key, NEW result, IsOptional(keys.oneTimePreKey),
           result \in {Throws, create_outbound_session(lik, identity, keys, EK, coins)},
           result.returns = "some"
    PROVE  result.value.session \in Session /\ result.value.handshakeMessage \in Message
<1>1. encapsulate(keys.qpubsidkey.key, coins) \in CipherText
  BY DEF encapsulate, CipherText, Bundle, QuantumKey
<1>2. {ssecret(EK, k.key) : k \in keys.oneTimePreKey} \in SUBSET SUBSET Key
  BY DEF ssecret, Bundle, IdKey
<1>3. keys.identityKey \in Key /\ keys.signedPreKey.key \in Key
  BY DEF Bundle, SignedIdKey
<1> DEFINE ct == encapsulate(keys.qpubsidkey.key, coins)
<1> HIDE DEF ct
<1>4. result.value = finalize_outbound_session(lik, EK, ct, outbound_secret(lik, keys, EK, ct), keys)
  BY OutboundResult DEF ct
<1>5. ct \in CipherText
  BY <1>1 DEF ct
<1>6. outbound_secret(lik, keys, EK, ct) \in RootKey
  BY <1>2, <1>3, <1>5, RootKeyType DEF outbound_secret
<1> QED
  BY <1>4, <1>5, <1>6, FinalizeType

\* A session create_inbound_session returns is well typed.
LEMMA InboundType ==
    ASSUME NEW lik \in Key, NEW spk \in Key, NEW opk \in SUBSET Key, NEW q \in Key,
           NEW h \in Message,
           create_inbound_session(lik, spk, opk, q, h).returns = "some"
    PROVE  create_inbound_session(lik, spk, opk, q, h).value \in Session
<1>1. h.identityKey \in Key /\ h.ephermoralKey \in Key /\ h.cipherText \in CipherText
  BY DEF Message
<1>2. decapsulate(h.cipherText, q) \in CipherText \cup [kem : Key, rejected : CipherText]
  BY <1>1 DEF decapsulate
<1>3. {ssecret(k, h.ephermoralKey) : k \in opk} \in SUBSET SUBSET Key
  BY <1>1 DEF ssecret
<1>4. inbound_secret(lik, spk, opk, q, h) \in RootKey
  BY <1>1, <1>2, <1>3, RootKeyType DEF inbound_secret
<1> QED
  BY <1>1, <1>4 DEF create_inbound_session, Throws, Some, Session
=============================================================================
