--------------------------- MODULE JniBridgeProofs ---------------------------
(***************************************************************************)
(* Theorems about JniBridge, for every number of threads, keys and values  *)
(* of a uint32_t, when the application does not register while another     *)
(* call is running; the last two also when it does.                        *)
(***************************************************************************)
EXTENDS JniBridge, PqxdhProofs, FiniteSetTheorems

\* util::keyid yields a uint32_t.
KeyidWidth == \A k \in Key : keyid(k) \in 0 .. Width - 1

-----------------------------------------------------------------------------
(* Conversions there and back *)

\* An identifier survives its way through a signed jint.
LEMMA IdentifierRoundTrip ==
    ASSUME NEW u \in 0 .. Width - 1
    PROVE  uint32_t(jint(u)) = u
  BY WidthAssumption DEF uint32_t, jint

\* A byte array gives its key back at its own size, and nothing at another.
LEMMA KeyRoundTrip ==
    ASSUME NEW k, NEW size, NEW other
    PROVE  to_key(from_key(k, size), other) = IF other = size THEN {k} ELSE {}
<1> DEFINE a == [size |-> size, bytes |-> k]
<1>1. a.size = size /\ a.bytes = k
  OBVIOUS
<1> HIDE DEF a
<1>2. {x \in {a} : x.size = other} = IF other = size THEN {a} ELSE {}
  BY <1>1
<1>3. to_key({a}, other) = IF other = size THEN {k} ELSE {}
  BY <1>1, <1>2 DEF to_key
<1> QED
  BY <1>3 DEF from_key, a

LEMMA IdKeyRoundTrip ==
    ASSUME NEW k, k.identifier \in 0 .. Width - 1, NEW size
    PROVE  to_id_key({from_id_key(k, size)}, size) =
               {[key |-> k.key, identifier |-> k.identifier]}
<1> DEFINE o == from_id_key(k, size)
<1>1. uint32_t(o.identifier) = k.identifier
  BY IdentifierRoundTrip DEF from_id_key
<1>2. to_key(o.key, size) = {k.key}
  BY KeyRoundTrip DEF from_id_key
<1> HIDE DEF o
<1>3. to_id_key({o}, size) =
          UNION {{[key |-> x, identifier |-> uint32_t(o.identifier)] : x \in to_key(o.key, size)}}
  BY DEF to_id_key
<1> QED
  BY <1>1, <1>2, <1>3 DEF o

LEMMA SidKeyRoundTrip ==
    ASSUME NEW k, k.identifier \in 0 .. Width - 1, NEW size
    PROVE  to_sid_key({from_sid_key(k, size)}, size) =
               {[key |-> k.key, identifier |-> k.identifier, signature |-> k.signature]}
<1> DEFINE o == from_sid_key(k, size)
<1>1. uint32_t(o.identifier) = k.identifier
  BY IdentifierRoundTrip DEF from_sid_key
<1>2. to_key(o.key, size) = {k.key}
  BY KeyRoundTrip DEF from_sid_key
<1>3. to_key(o.signature, signature_size) = {k.signature}
  BY KeyRoundTrip DEF from_sid_key
<1> HIDE DEF o
<1>4. to_sid_key({o}, size) =
          UNION {{[key |-> x, identifier |-> uint32_t(o.identifier), signature |-> s] :
                      x \in to_key(o.key, size), s \in to_key(o.signature, signature_size)}}
  BY DEF to_sid_key
<1>5. {[key |-> x, identifier |-> k.identifier, signature |-> s] :
          x \in {k.key}, s \in {k.signature}}
            = {[key |-> k.key, identifier |-> k.identifier, signature |-> k.signature]}
  OBVIOUS
<1> QED
  BY <1>1, <1>2, <1>3, <1>4, <1>5 DEF o

\* The vectors of identifiers of a handshake survive the way through int[].
LEMMA IdsRoundTrip ==
    ASSUME NEW n \in Nat, NEW ids \in [1 .. n -> 0 .. Width - 1]
    PROVE  to_ids(from_ids(ids)) = ids
<1> DEFINE ints == [i \in DOMAIN ids |-> jint(ids[i])]
<1>1. from_ids(ids) = {ints}
  BY DEF from_ids
<1>2. (CHOOSE a \in {ints} : TRUE) = ints
  OBVIOUS
<1>3. DOMAIN ints = 1 .. n /\ \A i \in 1 .. n : uint32_t(ints[i]) = ids[i]
  BY IdentifierRoundTrip
<1> HIDE DEF ints
<1>4. to_ids({ints}) = [i \in DOMAIN ints |-> uint32_t(ints[i])]
  BY <1>2 DEF to_ids, Null
<1> QED
  BY <1>1, <1>3, <1>4

\* The object of a handshake with converted vectors is the handshake again.
LEMMA HandshakeRoundTrip ==
    ASSUME NEW h, NEW n \in Nat, NEW m \in Nat,
           h.usedPreKeys \in [1 .. n -> 0 .. Width - 1],
           h.usedQuantumPreKeys \in [1 .. m -> 0 .. Width - 1],
           h = [identityKey        |-> h.identityKey,
                ephermoralKey      |-> h.ephermoralKey,
                cipherText         |-> h.cipherText,
                usedPreKeys        |-> h.usedPreKeys,
                usedQuantumPreKeys |-> h.usedQuantumPreKeys]
    PROVE  h \in to_initial_handshake({from_initial_handshake(h)})
<1> DEFINE o == from_initial_handshake(h)
<1>1. /\ to_key(o.identityKey, xckey_size) = {h.identityKey}
      /\ to_key(o.ephemeralKey, xckey_size) = {h.ephermoralKey}
      /\ to_key(o.cipherText, qpubkey_size) = {h.cipherText}
  BY KeyRoundTrip DEF from_initial_handshake
<1>2. to_ids(o.usedPreKeys) = h.usedPreKeys /\ to_ids(o.usedQuantumPreKeys) = h.usedQuantumPreKeys
  BY IdsRoundTrip DEF from_initial_handshake
<1> HIDE DEF o
<1>3. h \in [identityKey        : to_key(o.identityKey, xckey_size),
             ephermoralKey      : to_key(o.ephemeralKey, xckey_size),
             cipherText         : to_key(o.cipherText, qpubkey_size),
             usedPreKeys        : {to_ids(o.usedPreKeys)},
             usedQuantumPreKeys : {to_ids(o.usedQuantumPreKeys)}]
  BY <1>1, <1>2
<1> QED
  BY <1>3 DEF to_initial_handshake, o

-----------------------------------------------------------------------------
(* The keys of the peer *)

\* What is known of the peer's keys and their identifiers.
LEMMA PeerFacts ==
    ASSUME KeyidWidth
    PROVE  /\ Peer.IdentityKey = 1
           /\ Peer.SignedPreKey.key = 2
           /\ \A k \in Peer.OneTimePreKeys \cup Peer.OneTimeQuantumKeys
                         \cup {Peer.QuantumPreKey, Peer.SignedPreKey} :
                  k.key \in Key \ {ZeroKey} /\ k.identifier \in 0 .. Width - 1
<1>1. ASSUME NEW n \in Nat \ {0}, NEW k \in MapById(n .. n)
      PROVE  k.key \in Key \ {ZeroKey} /\ k.identifier = keyid(k.key)
  <2>1. \E j \in n .. n : k = [key |-> j, identifier |-> keyid(j)]
    BY DEF MapById
  <2> QED
    BY <2>1 DEF Key, ZeroKey
<1>2. Peer.OneTimePreKeys = MapById(4 .. 4) /\ Peer.OneTimeQuantumKeys = MapById(5 .. 5)
  BY DEF Peer, make_lkb
<1>3. \A k \in Peer.OneTimePreKeys \cup Peer.OneTimeQuantumKeys :
          k.key \in Key \ {ZeroKey} /\ k.identifier = keyid(k.key)
  BY <1>1, <1>2
<1>4. \A k \in Peer.OneTimePreKeys \cup Peer.OneTimeQuantumKeys :
          k.key \in Key \ {ZeroKey} /\ k.identifier \in 0 .. Width - 1
  BY <1>3 DEF KeyidWidth
<1>5. /\ Peer.IdentityKey = 1
      /\ Peer.SignedPreKey = [key |-> 2, identifier |-> keyid(2)]
      /\ Peer.QuantumPreKey = [key |-> 3, identifier |-> 0]
  BY DEF Peer, make_lkb, X25519_make_id_pair, MLKEM_32_make_id_pair
<1>6. keyid(2) \in 0 .. Width - 1 /\ 0 \in 0 .. Width - 1
  BY WidthAssumption DEF KeyidWidth, Key
<1> QED
  BY <1>4, <1>5, <1>6 DEF Key, ZeroKey

\* The quantum key of a foreign bundle that is converted is one of the peer's,
\* unsigned or with the signature the peer made.
LEMMA ForeignQuantumKey ==
    ASSUME KeyidWidth, NEW b \in ForeignBundles, NEW key \in to_quantum_key(b.quantumPreKey)
    PROVE  \E k \in Peer.OneTimeQuantumKeys \cup {Peer.QuantumPreKey} :
               \E sig \in {{}, {sign32(Peer.IdentityKey, k.key)}} :
                   key = [key |-> k.key, identifier |-> k.identifier, signature |-> sig]
<1>1. CASE b.quantumPreKey = {from_id_key(Peer.QuantumPreKey, qpubkey_size)}
  <2> DEFINE o == from_id_key(Peer.QuantumPreKey, qpubkey_size)
  <2>1. o.class = "GcryptIdKey"
    BY DEF from_id_key
  <2>2. to_id_key({o}, qpubkey_size)
            = {[key |-> Peer.QuantumPreKey.key, identifier |-> Peer.QuantumPreKey.identifier]}
    BY PeerFacts, IdKeyRoundTrip
  <2>3. to_sid_key({}, qpubkey_size) = {}
    BY DEF to_sid_key
  <2> HIDE DEF o
  <2>4. {x \in {o} : x.class = "GcryptSidKey"} = {} /\ {o} \ {} = {o}
    BY <2>1
  <2>5. to_quantum_key({o}) =
            {[key |-> k.key, identifier |-> k.identifier, signature |-> {}] :
                k \in to_id_key({o}, qpubkey_size)}
    BY <2>3, <2>4 DEF to_quantum_key
  <2>6. key \in to_quantum_key({o})
    BY <1>1 DEF o
  <2>7. PICK x \in to_id_key({o}, qpubkey_size) :
            key = [key |-> x.key, identifier |-> x.identifier, signature |-> {}]
    BY <2>5, <2>6
  <2>8. x.key = Peer.QuantumPreKey.key /\ x.identifier = Peer.QuantumPreKey.identifier
    BY <2>2
  <2> QED
    BY <2>7, <2>8
<1>2. CASE \E k \in PeerOneTimeQuantumKeys : b.quantumPreKey = {from_sid_key(k, qpubkey_size)}
  <2>1. PICK k \in PeerOneTimeQuantumKeys : b.quantumPreKey = {from_sid_key(k, qpubkey_size)}
    BY <1>2
  <2>2. PICK j \in Peer.OneTimeQuantumKeys :
            /\ k.key = j.key /\ k.identifier = j.identifier
            /\ k.signature = sign32(Peer.IdentityKey, j.key)
    BY DEF PeerOneTimeQuantumKeys
  <2> DEFINE o == from_sid_key(k, qpubkey_size)
  <2>3. o.class = "GcryptSidKey"
    BY DEF from_sid_key
  <2>4. k.identifier \in 0 .. Width - 1
    BY <2>2, PeerFacts
  <2>5. to_sid_key({o}, qpubkey_size)
            = {[key |-> k.key, identifier |-> k.identifier, signature |-> k.signature]}
    BY <2>4, SidKeyRoundTrip
  <2>6. to_id_key({}, qpubkey_size) = {}
    BY DEF to_id_key
  <2> HIDE DEF o
  <2>7. {x \in {o} : x.class = "GcryptSidKey"} = {o} /\ {o} \ {o} = {}
    BY <2>3
  <2>8. to_quantum_key({o}) =
            {[key |-> x.key, identifier |-> x.identifier, signature |-> {x.signature}] :
                x \in to_sid_key({o}, qpubkey_size)}
    BY <2>6, <2>7 DEF to_quantum_key
  <2>9. key \in to_quantum_key({o})
    BY <2>1 DEF o
  <2>10. PICK x \in to_sid_key({o}, qpubkey_size) :
             key = [key |-> x.key, identifier |-> x.identifier, signature |-> {x.signature}]
    BY <2>8, <2>9
  <2>11. x.key = k.key /\ x.identifier = k.identifier /\ x.signature = k.signature
    BY <2>5
  <2> QED
    BY <2>2, <2>10, <2>11
<1> QED
  BY <1>1, <1>2 DEF ForeignBundles

\* Whatever keys are missing or damaged, a foreign bundle that is converted
\* consists of the peer's keys.
LEMMA ForeignKeys ==
    ASSUME KeyidWidth, NEW b \in ForeignBundles, NEW keys \in to_foreignpk_bundle({b})
    PROVE  PeerKeys(keys)
<1>1. /\ keys.identityKey \in to_key(b.identityKey, xckey_size)
      /\ keys.signedPreKey \in to_sid_key(b.signedPreKey, xckey_size)
      /\ keys.qpubsidkey \in to_quantum_key(b.quantumPreKey)
      /\ keys.oneTimePreKey = to_id_key(b.oneTimePreKey, xckey_size)
  BY DEF to_foreignpk_bundle
<1>2. keys.identityKey = Peer.IdentityKey
  BY <1>1, KeyRoundTrip DEF ForeignBundles
<1>3. keys.signedPreKey = PeerSignedPreKey
  <2>1. to_sid_key(Null, xckey_size) = {}
    BY DEF to_sid_key, Null
  <2>2. b.signedPreKey = {from_sid_key(PeerSignedPreKey, xckey_size)}
    BY <1>1, <2>1 DEF ForeignBundles
  <2>3. PeerSignedPreKey.identifier \in 0 .. Width - 1
    BY PeerFacts DEF PeerSignedPreKey
  <2>4. keys.signedPreKey = [key |-> PeerSignedPreKey.key, identifier |-> PeerSignedPreKey.identifier,
                             signature |-> PeerSignedPreKey.signature]
    BY <1>1, <2>2, <2>3, SidKeyRoundTrip
  <2> QED
    BY <2>4 DEF PeerSignedPreKey
<1>4. \E k \in Peer.OneTimeQuantumKeys \cup {Peer.QuantumPreKey} :
          keys.qpubsidkey.key = k.key /\ keys.qpubsidkey.identifier = k.identifier
  BY <1>1, ForeignQuantumKey
<1>5. keys.oneTimePreKey = {} \/ \E k \in Peer.OneTimePreKeys : keys.oneTimePreKey = {k}
  <2>1. CASE b.oneTimePreKey = Null
    BY <1>1, <2>1 DEF to_id_key, Null
  <2>2. CASE \E k \in Peer.OneTimePreKeys : b.oneTimePreKey = {from_id_key(k, xckey_size)}
    <3>1. PICK k \in Peer.OneTimePreKeys : b.oneTimePreKey = {from_id_key(k, xckey_size)}
      BY <2>2
    <3>2. k.identifier \in 0 .. Width - 1
      BY PeerFacts
    <3>3. k = [key |-> k.key, identifier |-> k.identifier]
      BY DEF Peer, make_lkb, MapById
    <3> QED
      BY <1>1, <3>1, <3>2, <3>3, IdKeyRoundTrip
  <2>3. CASE \E k \in Peer.OneTimePreKeys : b.oneTimePreKey = {from_id_key(k, 0)}
    <3>1. PICK k \in Peer.OneTimePreKeys : b.oneTimePreKey = {from_id_key(k, 0)}
      BY <2>3
    <3> DEFINE o == from_id_key(k, 0)
    <3>2. to_key(o.key, xckey_size) = {}
      BY KeyRoundTrip DEF from_id_key, xckey_size
    <3> HIDE DEF o
    <3>3. to_id_key({o}, xckey_size) =
              UNION {{[key |-> x, identifier |-> uint32_t(o.identifier)] : x \in to_key(o.key, xckey_size)}}
      BY DEF to_id_key
    <3>4. to_id_key({o}, xckey_size) = {}
      BY <3>2, <3>3
    <3> QED
      BY <1>1, <3>1, <3>4 DEF o
  <2> QED
    BY <2>1, <2>2, <2>3 DEF ForeignBundles
<1> QED
  BY <1>2, <1>3, <1>4, <1>5 DEF PeerKeys

\* The secrets of a device and of the peer agree.
LEMMA PeerSecret ==
    ASSUME KeyidWidth, NEW keys, PeerKeys(keys), NEW local, NEW EK, NEW ct, NEW h,
           ct.kem = keys.qpubsidkey.key,
           h.identityKey = local, h.ephermoralKey = EK, h.cipherText = ct
    PROVE  inbound_secret(Peer.IdentityKey, Peer.SignedPreKey.key,
                          {k.key : k \in keys.oneTimePreKey}, keys.qpubsidkey.key, h)
               = outbound_secret(local, keys, EK, ct)
<1>1. \A a, b : ssecret(a, b) = ssecret(b, a)
  BY DEF ssecret
<1>2. keys.identityKey = Peer.IdentityKey /\ keys.signedPreKey.key = Peer.SignedPreKey.key
  BY DEF PeerKeys, PeerSignedPreKey
<1>3. decapsulate(ct, keys.qpubsidkey.key) = ct
  BY DEF decapsulate
<1>4. {ssecret(k, EK) : k \in {x.key : x \in keys.oneTimePreKey}}
          = {ssecret(EK, k.key) : k \in keys.oneTimePreKey}
  BY <1>1
<1> QED
  BY <1>1, <1>2, <1>3, <1>4 DEF inbound_secret, outbound_secret

\* The peer turns the Java object of a handshake made from its keys into a
\* session with the initiator's root key.
LEMMA PeerWillAccept ==
    ASSUME KeyidWidth, NEW keys, PeerKeys(keys), NEW local \in Key \ {ZeroKey},
           NEW EK \in Key \ {ZeroKey}, NEW ct, ct.kem = keys.qpubsidkey.key,
           NEW SK, SK = outbound_secret(local, keys, EK, ct)
    PROVE  PeerAccepts(from_session_init_result(
                           finalize_outbound_session(local, EK, ct, SK, keys)).handshakeMessage, SK)
<1> DEFINE h == finalize_outbound_session(local, EK, ct, SK, keys).handshakeMessage
           q == keys.qpubsidkey.key
           opk == {k.key : k \in keys.oneTimePreKey}
<1>1. /\ h.identityKey = local /\ h.ephermoralKey = EK /\ h.cipherText = ct
      /\ h.usedPreKeys = used_pre_keys(keys)
      /\ h.usedQuantumPreKeys = <<keys.qpubsidkey.identifier>>
      /\ h = [identityKey        |-> h.identityKey,
              ephermoralKey      |-> h.ephermoralKey,
              cipherText         |-> h.cipherText,
              usedPreKeys        |-> h.usedPreKeys,
              usedQuantumPreKeys |-> h.usedQuantumPreKeys]
  BY DEF finalize_outbound_session
<1>2. from_session_init_result(finalize_outbound_session(local, EK, ct, SK, keys)).handshakeMessage
          = {from_initial_handshake(h)}
  BY DEF from_session_init_result
<1> HIDE DEF h
<1>3. PICK p \in Peer.OneTimeQuantumKeys \cup {Peer.QuantumPreKey} :
          keys.qpubsidkey.key = p.key /\ keys.qpubsidkey.identifier = p.identifier
  BY DEF PeerKeys
<1>4. q \in Key \ {ZeroKey} /\ keys.qpubsidkey.identifier \in 0 .. Width - 1
  BY <1>3, PeerFacts
<1>5. keys.signedPreKey.identifier = Peer.SignedPreKey.identifier
  BY DEF PeerKeys, PeerSignedPreKey
<1>6. Peer.SignedPreKey.identifier \in 0 .. Width - 1
  BY PeerFacts
<1>7. /\ \E n \in Nat : h.usedPreKeys \in [1 .. n -> 0 .. Width - 1]
      /\ h.usedPreKeys[1] = Peer.SignedPreKey.identifier
      /\ opk \in OneTimePrivate(Peer, h)
  <2>1. CASE keys.oneTimePreKey = {}
    <3>1. h.usedPreKeys = <<Peer.SignedPreKey.identifier>>
      BY <1>1, <1>5, <2>1 DEF used_pre_keys
    <3>2. h.usedPreKeys \in [1 .. 1 -> 0 .. Width - 1]
      BY <1>6, <3>1
    <3>3. OneTimePrivate(Peer, h) = {{}} /\ opk = {}
      BY <2>1, <3>1 DEF OneTimePrivate
    <3>4. opk \in OneTimePrivate(Peer, h)
      BY <3>3
    <3>5. h.usedPreKeys[1] = Peer.SignedPreKey.identifier
      BY <3>1
    <3> HIDE DEF opk
    <3> QED
      BY <3>2, <3>4, <3>5
  <2>2. CASE \E k \in Peer.OneTimePreKeys : keys.oneTimePreKey = {k}
    <3>1. PICK k \in Peer.OneTimePreKeys : keys.oneTimePreKey = {k}
      BY <2>2
    <3>2. (CHOOSE x \in keys.oneTimePreKey : TRUE) = k
      BY <3>1
    <3>3. h.usedPreKeys = <<Peer.SignedPreKey.identifier, k.identifier>>
      BY <1>1, <1>5, <3>1, <3>2 DEF used_pre_keys
    <3>4. k.identifier \in 0 .. Width - 1
      BY PeerFacts
    <3>5. h.usedPreKeys \in [1 .. 2 -> 0 .. Width - 1]
      BY <1>6, <3>3, <3>4
    <3>6. opk = {k.key}
      BY <3>1
    <3>7. k \in {x \in Peer.OneTimePreKeys : x.identifier = h.usedPreKeys[2]}
      BY <3>3
    <3>8. Len(h.usedPreKeys) = 2
      BY <3>3
    <3>9. opk \in OneTimePrivate(Peer, h)
      BY <3>6, <3>7, <3>8 DEF OneTimePrivate
    <3> QED
      BY <3>3, <3>5, <3>9
  <2> QED
    BY <2>1, <2>2 DEF PeerKeys
<1>8. /\ h.usedQuantumPreKeys \in [1 .. 1 -> 0 .. Width - 1]
      /\ h.usedQuantumPreKeys[1] = keys.qpubsidkey.identifier
  BY <1>1, <1>4
<1>9. q \in QuantumPrivate(Peer, h.usedQuantumPreKeys[1])
  BY <1>3, <1>8 DEF QuantumPrivate
<1>10. h \in to_initial_handshake({from_initial_handshake(h)})
  BY <1>1, <1>7, <1>8, HandshakeRoundTrip
<1>11. inbound_secret(Peer.IdentityKey, Peer.SignedPreKey.key, opk, q, h) = SK
  BY <1>1, PeerSecret
<1> DEFINE s == create_inbound_session(Peer.IdentityKey, Peer.SignedPreKey.key, opk, q, h)
<1>12. s.returns = "some" /\ s.value.rootKey = SK
  BY <1>1, <1>4, <1>11 DEF create_inbound_session, decapsulate_throws, ssecret_throws, Some
<1> HIDE DEF q, opk
<1> QED
  BY <1>2, <1>7, <1>9, <1>10, <1>12 DEF PeerAccepts

-----------------------------------------------------------------------------
(* The session and the calls *)

\* The parts of SessionHandedOver, and of BridgeInv: the state of the calls, and
\* the last outcome.
SessionOfPair ==
    \A k \in session : identity = {Stored(k)} \/ \E t \in Thread : call[t].pc = "set"

BundleOfPair ==
    \A o \in Returned("makeLocalKeyBundle") : \A b \in o.result :
        \E s \in o.identity : b.identityKey = from_key_pair(s.pair, xckey_size, xckey_size)

CallsInv ==
    /\ nkeys \in Nat
    /\ session \subseteq Key \ {ZeroKey}
    /\ call = [t \in Thread |-> call[t]]
    /\ \A t, u \in Thread : Registering(t) /\ u # t => call[u] = Idle
    /\ \A t \in Thread : CallInv(call[t])
    /\ SessionOfPair

OutcomeInv == BundleOfPair /\ RefillSigned /\ ResultUsable

LEMMA BridgeParts == BridgeInv <=> CallsInv /\ OutcomeInv
  BY DEF BridgeInv, CallsInv, OutcomeInv, SessionHandedOver, SessionOfPair, BundleOfPair

\* Nothing is asked of an exception, or of a call that returned null.
LEMMA OutcomeEmpty ==
    ASSUME NEW e, NEW i, NEW k, NEW threw,
           outcome' = {[entry |-> e, threw |-> threw, result |-> {}, identity |-> i, session |-> k]}
    PROVE  OutcomeInv'
  BY DEF OutcomeInv, BundleOfPair, RefillSigned, ResultUsable, Returned

LEMMA OutcomeSame ==
    ASSUME OutcomeInv, outcome' = outcome
    PROVE  OutcomeInv'
<1>1. \A entry : Returned(entry)' = Returned(entry)
  BY DEF Returned
<1> QED
  BY <1>1 DEF OutcomeInv, BundleOfPair, RefillSigned, ResultUsable

\* The process ends, by an exception or from outside.
LEMMA EndCalls ==
    ASSUME ProcessEnds, nkeys' \in Nat
    PROVE  CallsInv'
<1>1. \A t \in Thread : call'[t] = Idle
  BY DEF ProcessEnds
<1>2. Idle.pc = "idle"
  BY DEF Idle
<1>3. \A t \in Thread : CallInv(call[t])'
  BY <1>1, <1>2 DEF CallInv
<1>4. \A t \in Thread : ~Registering(t)'
  BY <1>1, <1>2 DEF Registering
<1> QED
  BY <1>3, <1>4 DEF ProcessEnds, CallsInv, SessionOfPair

LEMMA ThrowStep ==
    ASSUME NEW entry, Throw(entry), nkeys' \in Nat
    PROVE  CallsInv' /\ OutcomeInv'
  BY EndCalls, OutcomeEmpty DEF Throw, Null

\* A call that is no registration goes on, or ends, with the session in use.
LEMMA ContinueStep ==
    ASSUME CallsInv, NEW t \in Thread, NEW c, Continue(t, c), session' = session,
           identity' = identity, nkeys' \in Nat, CallInv(c), c.pc \notin {"store", "set"},
           c = Idle \/ \A u \in Thread \ {t} : ~Registering(u),
           call[t].pc # "set"
    PROVE  CallsInv'
<1>1. call'[t] = c /\ \A u \in Thread \ {t} : call'[u] = call[u]
  BY DEF Continue, CallsInv
<1>2. call' = [u \in Thread |-> call'[u]]
  BY DEF Continue, CallsInv
<1>3. \A u \in Thread : CallInv(call[u])'
  BY <1>1 DEF CallsInv, CallInv
<1>4. ASSUME NEW u \in Thread, NEW v \in Thread, Registering(u)', v # u PROVE call'[v] = Idle
  <2>1. u # t /\ Registering(u)
    BY <1>1, <1>4 DEF Registering
  <2>2. c = Idle
    BY <2>1
  <2> QED
    BY <1>1, <1>4, <2>1, <2>2 DEF CallsInv
<1>5. SessionOfPair'
  BY <1>1 DEF CallsInv, SessionOfPair
<1> QED
  BY <1>2, <1>3, <1>4, <1>5 DEF CallsInv

\* No call but its own is a registration when a thread is in a call, or may
\* start one.
LEMMA OthersRegisterNot ==
    ASSUME CallsInv, ~Overlap, NEW t \in Thread, MayStart(t) \/ call[t].pc # "idle"
    PROVE  \A u \in Thread \ {t} : ~Registering(u)
  BY DEF CallsInv, MayStart, Registering, Idle

LEMMA IdleInv == CallInv(Idle) /\ Idle.pc = "idle"
  BY DEF CallInv, Idle

\* A call with the session in use returns null.
LEMMA ReturnNull ==
    ASSUME CallsInv, NEW t \in Thread, NEW entry, Return(t, entry, Null), session' = session,
           identity' = identity, nkeys' \in Nat, call[t].pc # "set"
    PROVE  CallsInv' /\ OutcomeInv'
<1>1. CallsInv'
  BY ContinueStep, IdleInv DEF Return
<1> QED
  BY <1>1, OutcomeEmpty DEF Return, Null

\* A registration starts with fresh keys while all other threads are idle.
LEMMA MakeBeginStep ==
    ASSUME CallsInv, OutcomeInv, ~Overlap, NEW t \in Thread, MakeBegin(t)
    PROVE  CallsInv' /\ OutcomeInv'
<1> DEFINE c == [pc |-> "store", bundle |-> make_lkb(nkeys, PreKeyCount)]
<1>1. CASE Throw("makeLocalKeyBundle") /\ UNCHANGED nkeys
  BY <1>1, ThrowStep DEF CallsInv
<1>2. CASE /\ nkeys' = nkeys + LkbKeys(PreKeyCount) /\ Continue(t, c)
           /\ UNCHANGED <<loaded, session, outcome>> /\ UNCHANGED identity
  <2>1. \A u \in Thread : call[u] = Idle
    BY DEF MakeBegin, MayRegister
  <2>2. c.pc = "store" /\ c.bundle.IdentityKey = nkeys + 1
    BY DEF make_lkb
  <2>3. nkeys' \in Nat /\ nkeys + 1 \in Key \ {ZeroKey}
    BY <1>2, BridgeAssumption DEF CallsInv, LkbKeys, Key, ZeroKey
  <2> HIDE DEF c
  <2>4. call'[t] = c /\ \A u \in Thread \ {t} : call'[u] = Idle
    BY <1>2, <2>1 DEF Continue, CallsInv
  <2>5. call' = [u \in Thread |-> call'[u]]
    BY <1>2 DEF Continue, CallsInv
  <2>6. \A u \in Thread : CallInv(call[u])'
    BY <2>2, <2>3, <2>4, IdleInv DEF CallInv
  <2>7. \A u \in Thread \ {t} : ~Registering(u)'
    BY <2>4, IdleInv DEF Registering
  <2>8. SessionOfPair'
    <3>1. \A k \in session : identity = {Stored(k)}
      BY <2>1, IdleInv DEF CallsInv, SessionOfPair
    <3> QED
      BY <1>2, <3>1 DEF SessionOfPair
  <2>9. CallsInv'
    BY <1>2, <2>3, <2>4, <2>5, <2>6, <2>7, <2>8 DEF CallsInv
  <2> QED
    BY <1>2, <2>9, OutcomeSame
<1> QED
  BY <1>1, <1>2 DEF MakeBegin

\* A registration hands its identity pair to the manager.
LEMMA MakeStoreStep ==
    ASSUME CallsInv, OutcomeInv, NEW t \in Thread, MakeStore(t)
    PROVE  CallsInv' /\ OutcomeInv'
<1> DEFINE c == [pc |-> "set", bundle |-> call[t].bundle]
<1>1. CASE Throw("makeLocalKeyBundle") /\ UNCHANGED nkeys
  BY <1>1, ThrowStep DEF CallsInv
<1>2. CASE /\ identity' = {Stored(call[t].bundle.IdentityKey)} /\ Continue(t, c)
           /\ UNCHANGED <<loaded, session, outcome>> /\ UNCHANGED nkeys
  <2>1. call[t].pc = "store" /\ Registering(t)
    BY DEF MakeStore, Registering
  <2>2. \A u \in Thread \ {t} : call[u] = Idle
    BY <2>1 DEF CallsInv
  <2>3. c.pc = "set" /\ c.bundle = call[t].bundle
    OBVIOUS
  <2>4. c.bundle.IdentityKey \in Key \ {ZeroKey}
    BY <2>1, <2>3 DEF CallsInv, CallInv
  <2> HIDE DEF c
  <2>5. call'[t] = c /\ \A u \in Thread \ {t} : call'[u] = Idle
    BY <1>2, <2>2 DEF Continue, CallsInv
  <2>6. call' = [u \in Thread |-> call'[u]]
    BY <1>2 DEF Continue, CallsInv
  <2>7. \A u \in Thread : CallInv(call[u])'
    BY <1>2, <2>3, <2>4, <2>5, IdleInv DEF CallInv
  <2>8. \A u \in Thread \ {t} : ~Registering(u)'
    BY <2>5, IdleInv DEF Registering
  <2>9. SessionOfPair'
    BY <2>3, <2>5 DEF SessionOfPair
  <2>10. CallsInv'
    BY <1>2, <2>5, <2>6, <2>7, <2>8, <2>9 DEF CallsInv
  <2> QED
    BY <1>2, <2>10, OutcomeSame
<1> QED
  BY <1>1, <1>2 DEF MakeStore

\* A registration sets the session to the pair it has handed over, and returns it.
LEMMA MakeSetStep ==
    ASSUME CallsInv, NEW t \in Thread, MakeSet(t)
    PROVE  CallsInv' /\ OutcomeInv'
<1> DEFINE k == call[t].bundle.IdentityKey
           b == from_local_key_bundle(call[t].bundle)
<1>1. call[t].pc = "set" /\ Registering(t)
  BY DEF MakeSet, Registering
<1>2. identity = {Stored(k)} /\ Stored(k).pair = k /\ k \in Key \ {ZeroKey}
  BY <1>1 DEF CallsInv, CallInv, Stored
<1>3. \A u \in Thread : call'[u] = Idle
  BY <1>1 DEF MakeSet, Return, Continue, CallsInv
<1>4. call' = [u \in Thread |-> call'[u]]
  BY DEF MakeSet, Return, Continue, CallsInv
<1>5. \A u \in Thread : CallInv(call[u])' /\ ~Registering(u)'
  BY <1>3, IdleInv DEF CallInv, Registering
<1>6. session' = {k} /\ identity' = identity /\ nkeys' = nkeys
  BY DEF MakeSet
<1>7. CallsInv'
  <2>1. identity' = {Stored(k)} /\ session' = {k} /\ session' \subseteq Key \ {ZeroKey}
    BY <1>2, <1>6
  <2> HIDE DEF k
  <2>2. SessionOfPair'
    BY <2>1 DEF SessionOfPair
  <2> QED
    BY <1>4, <1>5, <1>6, <2>1, <2>2 DEF CallsInv
<1>8. PICK returned \in {Null, {b}} : Return(t, "makeLocalKeyBundle", returned)
  BY DEF MakeSet
<1>9. b.identityKey = from_key_pair(k, xckey_size, xckey_size)
  BY DEF from_local_key_bundle
<1> HIDE DEF b, k
<1>10. \E x : outcome' = {[entry |-> "makeLocalKeyBundle", threw |-> FALSE, result |-> returned,
                           identity |-> identity, session |-> x]}
  BY <1>8 DEF Return
<1>11. OutcomeInv'
  BY <1>2, <1>8, <1>9, <1>10
     DEF OutcomeInv, BundleOfPair, RefillSigned, ResultUsable, Returned, Null
<1> QED
  BY <1>7, <1>11

-----------------------------------------------------------------------------
(* refill *)

\* The object behind the reference a call holds is still there.
LEMMA ReadsSession ==
    ASSUME CallsInv, NEW t \in Thread, call[t].pc \in {"refill", "agree", "finalize"}
    PROVE  session = {call[t].object} /\ Read(call[t].object) = {call[t].object}
  BY DEF CallsInv, CallInv, Read

\* Between registrations there is one session at most.
LEMMA OneSession ==
    ASSUME CallsInv, \A u \in Thread : call[u].pc # "set", NEW object \in session
    PROVE  session = {object}
<1>1. \A k \in session : identity = {Stored(k)}
  BY DEF CallsInv, SessionOfPair
<1>2. \A k : Stored(k).pair = k
  BY DEF Stored
<1> QED
  BY <1>1, <1>2

\* refill begins without a session, without the room, or with an empty payload.
LEMMA RefillBeginStep ==
    ASSUME CallsInv, OutcomeInv, ~Overlap, NEW t \in Thread, NEW n \in NumKeys, RefillBegin(t, n)
    PROVE  CallsInv' /\ OutcomeInv'
<1> DEFINE Count == uint32_t(n)
<1>1. nkeys \in Nat /\ call[t].pc # "set" /\ \A u \in Thread \ {t} : ~Registering(u)
  BY OthersRegisterNot, IdleInv DEF CallsInv, RefillBegin, MayStart
<1>2. CASE Return(t, "refill", Null) /\ UNCHANGED <<loaded, nkeys, session>> /\ UNCHANGED identity
  BY <1>1, <1>2, ReturnNull
<1>3. CASE Throw("refill") /\ UNCHANGED nkeys
  BY <1>1, <1>3, ThrowStep
<1>4. CASE /\ nkeys' = nkeys + 2 * Count
           /\ \E object \in session :
                Continue(t, [pc |-> "refill", object |-> object, numKeys |-> n,
                             left |-> Count, next |-> nkeys + 1, payload |-> NoPayload])
           /\ UNCHANGED <<loaded, session, outcome>> /\ UNCHANGED identity
  <2>1. PICK object \in session :
            Continue(t, [pc |-> "refill", object |-> object, numKeys |-> n,
                         left |-> Count, next |-> nkeys + 1, payload |-> NoPayload])
    BY <1>4
  <2>2. n \in Int /\ -Width <= 2 * n /\ 2 * n < Width
    BY BridgeAssumption
  <2>3. Count \in Nat
    BY <2>2, WidthAssumption DEF uint32_t
  <2>4. nkeys' \in Nat /\ nkeys + 1 \in Key
    BY <1>1, <1>4, <2>3 DEF Key
  <2> DEFINE c == [pc |-> "refill", object |-> object, numKeys |-> n,
                   left |-> Count, next |-> nkeys + 1, payload |-> NoPayload]
  <2>5. /\ c.pc = "refill" /\ c.object = object /\ c.next = nkeys + 1
        /\ c.payload.signedOneTimeQuantumPreKeys = <<>>
    BY DEF NoPayload
  <2> HIDE DEF c
  <2>6. session = {object}
    BY <1>1, OneSession DEF Registering
  <2>7. CallInv(c)
    BY <2>4, <2>5, <2>6 DEF CallInv
  <2>8. Continue(t, c)
    BY <2>1 DEF c
  <2>9. CallsInv'
    BY <1>1, <1>4, <2>4, <2>5, <2>7, <2>8, ContinueStep
  <2> QED
    BY <1>4, <2>9, OutcomeSame
<1> QED
  BY <1>2, <1>3, <1>4 DEF RefillBegin

\* A round signs its quantum key with the identity key of the session.
LEMMA RefillRoundStep ==
    ASSUME KeyidNat, CallsInv, OutcomeInv, ~Overlap, NEW t \in Thread, RefillRound(t)
    PROVE  CallsInv' /\ OutcomeInv'
<1> DEFINE o == call[t].object
           seq == call[t].payload.signedOneTimeQuantumPreKeys
           c == Refilled(call[t], o)
           new == [key |-> call[t].next + 1, identifier |-> keyid(call[t].next + 1),
                   signature |-> sign32(o, call[t].next + 1)]
<1>1. CASE Throw("refill") /\ UNCHANGED nkeys
  BY <1>1, ThrowStep DEF CallsInv
<1>2. CASE /\ \E signer \in Read(o) : Continue(t, Refilled(call[t], signer))
           /\ UNCHANGED <<loaded, session, outcome>> /\ UNCHANGED <<nkeys, identity>>
  <2>1. call[t].pc = "refill"
    BY DEF RefillRound
  <2>2. session = {o} /\ Read(o) = {o}
    BY <2>1, ReadsSession
  <2>3. Continue(t, c)
    BY <1>2, <2>2
  <2>4. CallInv(call[t]) /\ o \in Key
    BY <2>2 DEF CallsInv
  <2>5. /\ call[t].next \in Key /\ seq \in Seq(SignedIdKey)
        /\ \A i \in DOMAIN seq : seq[i].signature = sign32(o, seq[i].key)
    BY <2>1, <2>4 DEF CallInv
  <2>6. new \in SignedIdKey /\ call[t].next + 2 \in Key /\ new.signature = sign32(o, new.key)
    <3>1. call[t].next + 1 \in Key /\ call[t].next + 2 \in Key
      BY <2>5 DEF Key
    <3>2. keyid(call[t].next + 1) \in Nat
      BY <3>1 DEF KeyidNat
    <3>3. sign32(o, call[t].next + 1) \in Signature
      BY <2>4, <3>1 DEF sign32, Signature
    <3> QED
      BY <3>1, <3>2, <3>3 DEF SignedIdKey
  <2>7. /\ c.pc = "refill" /\ c.object = o /\ c.next = call[t].next + 2
        /\ c.payload.signedOneTimeQuantumPreKeys = Append(seq, new)
    BY DEF Refilled, Pushed
  <2> HIDE DEF c, new, seq
  <2>8. /\ Append(seq, new) \in Seq(SignedIdKey)
        /\ \A i \in DOMAIN Append(seq, new) :
              Append(seq, new)[i].signature = sign32(o, Append(seq, new)[i].key)
    BY <2>5, <2>6
  <2>9. CallInv(c)
    BY <2>2, <2>6, <2>7, <2>8 DEF CallInv
  <2>10. \A u \in Thread \ {t} : ~Registering(u)
    BY <2>1, OthersRegisterNot
  <2>11. CallsInv'
    BY <1>2, <2>1, <2>3, <2>7, <2>9, <2>10, ContinueStep DEF CallsInv
  <2> QED
    BY <1>2, <2>11, OutcomeSame
<1> QED
  BY <1>1, <1>2 DEF RefillRound

\* refill returns keys signed with the session's identity key, or null.
LEMMA RefillReturnStep ==
    ASSUME CallsInv, ~Overlap, NEW t \in Thread, RefillReturn(t)
    PROVE  CallsInv' /\ OutcomeInv'
<1> DEFINE o == call[t].object
           p == call[t].payload
           r == [numKeys |-> call[t].numKeys, payload |-> from_refill_payload(p)]
<1>1. call[t].pc = "refill" /\ nkeys' = nkeys /\ session' = session /\ identity' = identity
  BY DEF RefillReturn
<1>2. CASE Return(t, "refill", Null)
  BY <1>1, <1>2, ReturnNull DEF CallsInv
<1>3. CASE Return(t, "refill", {r})
  <2>1. CallsInv'
    BY <1>1, <1>3, ContinueStep, IdleInv DEF Return, CallsInv
  <2>2. session = {o}
    BY <1>1, ReadsSession
  <2>3. \A i \in DOMAIN p.signedOneTimeQuantumPreKeys :
            p.signedOneTimeQuantumPreKeys[i].signature = sign32(o, p.signedOneTimeQuantumPreKeys[i].key)
    BY <1>1 DEF CallsInv, CallInv
  <2> DEFINE java == r.payload.signedOneTimeQuantumPreKeys
  <2>4. /\ DOMAIN java = DOMAIN p.signedOneTimeQuantumPreKeys
        /\ \A i \in DOMAIN java :
              java[i] = from_sid_key(p.signedOneTimeQuantumPreKeys[i], qpubkey_size)
    BY DEF from_refill_payload
  <2>5. \A i \in DOMAIN java : \E own \in {o}, key \in to_key(java[i].key, qpubkey_size) :
            to_key(java[i].signature, signature_size) = {sign32(own, key)}
    <3> SUFFICES ASSUME NEW i \in DOMAIN java
                 PROVE  \E key \in to_key(java[i].key, qpubkey_size) :
                            to_key(java[i].signature, signature_size) = {sign32(o, key)}
      OBVIOUS
    <3> DEFINE k == p.signedOneTimeQuantumPreKeys[i]
    <3>1. java[i] = from_sid_key(k, qpubkey_size)
      BY <2>4
    <3> HIDE DEF java, k
    <3>2. java[i].key = from_key(k.key, qpubkey_size)
          /\ java[i].signature = from_key(k.signature, signature_size)
      BY <3>1 DEF from_sid_key
    <3>3. to_key(java[i].key, qpubkey_size) = {k.key}
          /\ to_key(java[i].signature, signature_size) = {k.signature}
      BY <3>2, KeyRoundTrip
    <3>4. k.signature = sign32(o, k.key)
      BY <2>3, <2>4 DEF java, k
    <3> QED
      BY <3>3, <3>4
  <2>6. \E x : outcome' = {[entry |-> "refill", threw |-> FALSE, result |-> {r},
                            identity |-> x, session |-> {o}]}
    BY <1>3, <2>2 DEF Return
  <2>7. OutcomeInv'
    <3> HIDE DEF r, o
    <3> QED
      BY <2>5, <2>6 DEF OutcomeInv, BundleOfPair, RefillSigned, ResultUsable, Returned
  <2> QED
    BY <2>1, <2>7
<1> QED
  BY <1>2, <1>3 DEF RefillReturn

-----------------------------------------------------------------------------
(* The two initialize calls *)

\* The verified bundle consists of the peer's keys.
LEMMA InitializeBeginStep ==
    ASSUME CallsInv, OutcomeInv, ~Overlap, NEW t \in Thread, NEW user, NEW bundle,
           \A keys \in bundle : PeerKeys(keys), InitializeBegin(t, user, bundle)
    PROVE  CallsInv' /\ OutcomeInv'
<1>1. nkeys \in Nat /\ call[t].pc # "set" /\ \A u \in Thread \ {t} : ~Registering(u)
  BY OthersRegisterNot, IdleInv DEF CallsInv, InitializeBegin, MayStart
<1>2. identity' = identity
  BY DEF InitializeBegin
<1>3. CASE Return(t, "initializeSession", Null) /\ UNCHANGED <<loaded, nkeys, session>>
  BY <1>1, <1>2, <1>3, ReturnNull
<1>4. CASE Throw("initializeSession") /\ UNCHANGED nkeys
  BY <1>1, <1>4, ThrowStep
<1>5. CASE /\ nkeys' = nkeys + 2
           /\ \E object \in session, keys \in bundle :
                Continue(t, [pc |-> "agree", object |-> object, keys |-> keys,
                             EK |-> nkeys + 1, coins |-> nkeys + 2])
           /\ UNCHANGED <<loaded, session, outcome>>
  <2>1. PICK object \in session, keys \in bundle :
            Continue(t, [pc |-> "agree", object |-> object, keys |-> keys,
                         EK |-> nkeys + 1, coins |-> nkeys + 2])
    BY <1>5
  <2> DEFINE c == [pc |-> "agree", object |-> object, keys |-> keys,
                   EK |-> nkeys + 1, coins |-> nkeys + 2]
  <2>2. Continue(t, c) /\ c.pc = "agree" /\ c.object = object /\ c.keys = keys /\ c.EK = nkeys + 1
    BY <2>1
  <2> HIDE DEF c
  <2>3. nkeys' \in Nat /\ nkeys + 1 \in Key \ {ZeroKey}
    BY <1>1, <1>5 DEF Key, ZeroKey
  <2>4. session = {object}
    BY <1>1, OneSession DEF Registering
  <2>5. CallInv(c)
    BY <2>2, <2>3, <2>4 DEF CallInv
  <2>6. CallsInv'
    BY <1>1, <1>2, <1>5, <2>2, <2>3, <2>5, ContinueStep
  <2> QED
    BY <1>5, <2>6, OutcomeSame
<1> QED
  BY <1>3, <1>4, <1>5 DEF InitializeBegin

\* The root key is derived with the identity key of the session.
LEMMA AgreeStep ==
    ASSUME CallsInv, OutcomeInv, ~Overlap, NEW t \in Thread, InitializeAgree(t)
    PROVE  CallsInv' /\ OutcomeInv'
<1> DEFINE a == call[t]
           o == a.object
           PQPK == encapsulate(a.keys.qpubsidkey.key, a.coins)
           SK == outbound_secret(o, a.keys, a.EK, PQPK)
           c == [pc |-> "finalize", object |-> o, keys |-> a.keys, EK |-> a.EK,
                 cipherText |-> PQPK, SK |-> SK]
<1>1. a.pc = "agree" /\ nkeys' = nkeys /\ identity' = identity
  BY DEF InitializeAgree
<1>2. CASE Throw("initializeSession")
  BY <1>1, <1>2, ThrowStep DEF CallsInv
<1>3. CASE session' = session /\ outcome' = outcome /\ Continue(t, c)
  <2>1. session = {o} /\ CallInv(a)
    BY <1>1, ReadsSession DEF CallsInv
  <2>2. PeerKeys(a.keys) /\ a.EK \in Key \ {ZeroKey}
    BY <1>1, <2>1 DEF CallInv
  <2>3. /\ c.pc = "finalize" /\ c.object = o /\ c.keys = a.keys /\ c.EK = a.EK
        /\ c.cipherText = PQPK /\ c.SK = SK /\ PQPK.kem = a.keys.qpubsidkey.key
    BY DEF encapsulate
  <2>4. c.SK = outbound_secret(c.object, c.keys, c.EK, c.cipherText)
    BY <2>3
  <2> HIDE DEF c, SK, PQPK
  <2>5. CallInv(c)
    BY <2>1, <2>2, <2>3, <2>4 DEF CallInv
  <2>6. \A u \in Thread \ {t} : ~Registering(u)
    BY <1>1, OthersRegisterNot
  <2>7. CallsInv'
    BY <1>1, <1>3, <2>3, <2>5, <2>6, ContinueStep DEF CallsInv
  <2> QED
    BY <1>3, <2>7, OutcomeSame
<1>4. Throw("initializeSession") \/ (session' = session /\ outcome' = outcome /\ Continue(t, c))
  <2>1. Read(o) = {o}
    BY <1>1, ReadsSession
  <2> QED
    BY <2>1 DEF InitializeAgree
<1> QED
  BY <1>2, <1>3, <1>4

\* The result carries a handshake the peer will accept.
LEMMA FinalizeStep ==
    ASSUME KeyidWidth, CallsInv, ~Overlap, NEW t \in Thread, InitializeFinalize(t)
    PROVE  CallsInv' /\ OutcomeInv'
<1> DEFINE c == call[t]
           result == finalize_outbound_session(c.object, c.EK, c.cipherText, c.SK, c.keys)
           r == [rootKey |-> result.session.rootKey, object |-> from_session_init_result(result)]
<1>1. c.pc = "finalize" /\ nkeys' = nkeys /\ session' = session /\ identity' = identity
  BY DEF InitializeFinalize
<1>2. CASE Return(t, "initializeSession", Null)
  BY <1>1, <1>2, ReturnNull DEF CallsInv
<1>3. CASE Return(t, "initializeSession", {r})
  <2>1. CallsInv'
    BY <1>1, <1>3, ContinueStep, IdleInv DEF Return, CallsInv
  <2>2. c.object \in Key \ {ZeroKey}
    BY <1>1, ReadsSession DEF CallsInv
  <2>3. /\ PeerKeys(c.keys) /\ c.EK \in Key \ {ZeroKey}
        /\ c.cipherText.kem = c.keys.qpubsidkey.key
        /\ c.SK = outbound_secret(c.object, c.keys, c.EK, c.cipherText)
    BY <1>1 DEF CallsInv, CallInv
  <2>4. PeerAccepts(from_session_init_result(result).handshakeMessage, c.SK)
    BY <2>2, <2>3, PeerWillAccept
  <2>5. result.session.rootKey = c.SK
    BY DEF finalize_outbound_session
  <2>6. PeerAccepts(r.object.handshakeMessage, r.rootKey)
    BY <2>4, <2>5
  <2>7. \E i, x : outcome' = {[entry |-> "initializeSession", threw |-> FALSE, result |-> {r},
                               identity |-> i, session |-> x]}
    BY <1>3 DEF Return
  <2> HIDE DEF r
  <2>8. OutcomeInv'
    BY <2>6, <2>7 DEF OutcomeInv, BundleOfPair, RefillSigned, ResultUsable, Returned
  <2> QED
    BY <2>1, <2>8
<1>4. Return(t, "initializeSession", Null) \/ Return(t, "initializeSession", {r})
  <2>1. Read(c.object) = {c.object}
    BY <1>1, ReadsSession
  <2> QED
    BY <2>1 DEF InitializeFinalize
<1> QED
  BY <1>2, <1>3, <1>4

-----------------------------------------------------------------------------
(* The theorems *)

LEMMA BridgeInit == Init => BridgeInv
<1> SUFFICES ASSUME Init PROVE BridgeInv
  OBVIOUS
<1>1. nkeys \in Nat /\ session = {} /\ outcome = {}
  BY DEF Init, LkbKeys
<1>2. call = [t \in Thread |-> call[t]] /\ \A t \in Thread : call[t] = Idle
  BY DEF Init
<1>3. \A t \in Thread : CallInv(call[t]) /\ ~Registering(t)
  BY <1>2, IdleInv DEF Registering
<1>4. CallsInv
  BY <1>1, <1>2, <1>3 DEF CallsInv, SessionOfPair
<1>5. OutcomeInv
  BY <1>1 DEF OutcomeInv, BundleOfPair, RefillSigned, ResultUsable, Returned
<1> QED
  BY <1>4, <1>5, BridgeParts

\* Every step keeps the invariant, as long as registrations do not overlap.
LEMMA BridgeStep ==
    ASSUME KeyidWidth, ~Overlap, BridgeInv, [Next]_vars
    PROVE  BridgeInv'
<1>1. CallsInv /\ OutcomeInv
  BY BridgeParts
<1>2. SUFFICES CallsInv' /\ OutcomeInv'
  BY DEF BridgeInv, CallsInv, OutcomeInv, SessionHandedOver, SessionOfPair, BundleOfPair
<1>3. KeyidNat
  BY DEF KeyidWidth, KeyidNat
<1>4. CASE JNI_OnLoad \/ UNCHANGED vars
  <2>1. /\ nkeys' = nkeys /\ session' = session /\ identity' = identity
        /\ call' = call /\ outcome' = outcome
    BY <1>4 DEF JNI_OnLoad, vars
  <2>2. \A t \in Thread : CallInv(call[t])' = CallInv(call[t])
    BY <2>1 DEF CallInv
  <2>3. CallsInv'
    BY <1>1, <2>1, <2>2 DEF CallsInv, SessionOfPair, Registering
  <2> QED
    BY <1>1, <2>1, <2>3, OutcomeSame
<1>5. CASE Restart
  BY <1>1, <1>5, EndCalls, OutcomeSame DEF Restart, CallsInv
<1>6. ASSUME NEW t \in Thread, MakeBegin(t) PROVE CallsInv' /\ OutcomeInv'
  BY <1>1, <1>6, MakeBeginStep
<1>7. ASSUME NEW t \in Thread, NEW n \in NumKeys, RefillBegin(t, n) PROVE CallsInv' /\ OutcomeInv'
  BY <1>1, <1>7, RefillBeginStep
<1>8. ASSUME NEW t \in Thread, NEW b \in ForeignBundles,
             \/ initializeNewSession(t, b)
             \/ \E k \in LongTermKeys : initializeExistingSession(t, k, b)
      PROVE  CallsInv' /\ OutcomeInv'
  <2>1. \A keys \in to_foreignpk_bundle({b}) : PeerKeys(keys)
    BY ForeignKeys
  <2>2. PICK user : InitializeBegin(t, user, to_foreignpk_bundle({b}))
    BY <1>8 DEF initializeNewSession, initializeExistingSession
  <2> QED
    BY <1>1, <2>1, <2>2, InitializeBeginStep
<1>9. ASSUME NEW t \in Thread, handleInitialHandshake(t) PROVE CallsInv' /\ OutcomeInv'
  <2>1. call[t].pc # "set"
    BY <1>9, IdleInv DEF handleInitialHandshake, MayStart
  <2> QED
    BY <1>1, <1>9, <2>1, ReturnNull DEF handleInitialHandshake, CallsInv
<1>10. ASSUME NEW t \in Thread, Step(t) PROVE CallsInv' /\ OutcomeInv'
  BY <1>1, <1>3, <1>10, MakeStoreStep, MakeSetStep, RefillRoundStep, RefillReturnStep, AgreeStep,
     FinalizeStep DEF Step
<1> QED
  BY <1>4, <1>5, <1>6, <1>7, <1>8, <1>9, <1>10 DEF Next

LEMMA BridgeInvariant == ASSUME KeyidWidth, ~Overlap PROVE Spec => []BridgeInv
<1>1. BridgeInv /\ [Next]_vars => BridgeInv'
  BY BridgeStep
<1> QED
  BY <1>1, BridgeInit, PTL DEF Spec

\* The session every entry point works with is of the pair the last call of
\* store_identity_key_pair was made for and accepted, and so is the bundle a
\* registration returns to Java, for any number of threads, whatever stores are
\* refused and wherever the process ends.
THEOREM SessionIsHandedOver == ASSUME KeyidWidth, ~Overlap PROVE Spec => []SessionHandedOver
<1>1. BridgeInv => SessionHandedOver
  BY DEF BridgeInv
<1> QED
  BY <1>1, BridgeInvariant, PTL

\* Every quantum key a refill returns to Java is signed with the identity key
\* of the session in use when it returns.
THEOREM RefillIsSigned == ASSUME KeyidWidth, ~Overlap PROVE Spec => []RefillSigned
<1>1. BridgeInv => RefillSigned
  BY DEF BridgeInv
<1> QED
  BY <1>1, BridgeInvariant, PTL

\* Every session_init_result that is not null carries a handshake the peer
\* turns into a session with the same root key, through all the conversions to
\* Java objects and back.
THEOREM ResultsUsable == ASSUME KeyidWidth, ~Overlap PROVE Spec => []ResultUsable
<1>1. BridgeInv => ResultUsable
  BY DEF BridgeInv
<1> QED
  BY <1>1, BridgeInvariant, PTL

-----------------------------------------------------------------------------
(* Types *)

\* A foreign bundle that is converted has the type of one.
LEMMA ForeignTyped ==
    ASSUME KeyidWidth, NEW b \in ForeignBundles, NEW keys \in to_foreignpk_bundle({b})
    PROVE  keys \in Bundle
<1>1. KeyidNat
  BY DEF KeyidWidth, KeyidNat
<1>2. Peer \in LocalBundle
  BY <1>1, MakeLkbType DEF Peer
<1>3. PeerKeys(keys)
  BY ForeignKeys
<1>4. keys.identityKey \in Key
  BY <1>2, <1>3 DEF PeerKeys, LocalBundle
<1>5. keys.signedPreKey \in SignedIdKey
  <2>1. Peer.SignedPreKey.key \in Key /\ Peer.SignedPreKey.identifier \in Nat
    BY <1>2 DEF LocalBundle, IdKey
  <2>2. sign32(Peer.IdentityKey, Peer.SignedPreKey.key) \in Signature
    BY <1>2, <2>1 DEF sign32, Signature, LocalBundle
  <2> QED
    BY <1>3, <2>1, <2>2 DEF PeerKeys, PeerSignedPreKey, SignedIdKey
<1>6. keys.qpubsidkey \in QuantumKey
  <2>1. keys.qpubsidkey \in to_quantum_key(b.quantumPreKey)
    BY DEF to_foreignpk_bundle
  <2>2. PICK k \in Peer.OneTimeQuantumKeys \cup {Peer.QuantumPreKey} :
            \E sig \in {{}, {sign32(Peer.IdentityKey, k.key)}} :
                keys.qpubsidkey = [key |-> k.key, identifier |-> k.identifier, signature |-> sig]
    BY <2>1, ForeignQuantumKey
  <2>3. k.key \in Key /\ k.identifier \in Nat
    BY <1>2 DEF LocalBundle, IdKey
  <2>4. sign32(Peer.IdentityKey, k.key) \in Signature
    BY <1>2, <2>3 DEF sign32, Signature, LocalBundle
  <2> QED
    BY <2>2, <2>3, <2>4 DEF QuantumKey
<1>7. keys.oneTimePreKey \subseteq IdKey
  BY <1>2, <1>3 DEF PeerKeys, LocalBundle
<1>8. keys = [identityKey |-> keys.identityKey, signedPreKey |-> keys.signedPreKey,
              qpubsidkey |-> keys.qpubsidkey, oneTimePreKey |-> keys.oneTimePreKey]
  BY DEF to_foreignpk_bundle
<1> QED
  BY <1>4, <1>5, <1>6, <1>7, <1>8 DEF Bundle

\* The part of TypeOK that is not about the calls.
VariablesTyped ==
    /\ loaded \in BOOLEAN
    /\ nkeys \in 0 .. MaxKeys
    /\ session \subseteq Key /\ identity \subseteq [pair : Key, blob : Blob]
    /\ \A j, k \in session : j = k

\* Only a loaded library has calls, so a call goes on in a loaded one.
LEMMA TypedCall ==
    ASSUME TypeOK, NEW t \in Thread, MayStart(t) \/ call[t].pc # "idle",
           NEW c \in Calls, Continue(t, c), VariablesTyped', loaded' = loaded
    PROVE  TypeOK'
<1>1. loaded
  BY IdleInv DEF TypeOK, MayStart
<1>2. call' \in [Thread -> Calls]
  BY DEF TypeOK, Continue
<1> QED
  BY <1>1, <1>2 DEF TypeOK, VariablesTyped

LEMMA TypedEnd ==
    ASSUME ProcessEnds, nkeys' \in 0 .. MaxKeys, identity' \subseteq [pair : Key, blob : Blob]
    PROVE  TypeOK'
<1>1. call' \in [Thread -> Calls] /\ \A t \in Thread : call'[t] = Idle
  BY DEF ProcessEnds, Calls
<1> QED
  BY <1>1 DEF ProcessEnds, TypeOK

LEMMA TypedMake ==
    ASSUME KeyidNat, TypeOK, NEW t \in Thread, MakeBegin(t) \/ MakeStore(t) \/ MakeSet(t)
    PROVE  TypeOK'
<1>1. /\ nkeys \in 0 .. MaxKeys /\ nkeys \in Nat /\ Idle \in Calls
      /\ identity \subseteq [pair : Key, blob : Blob]
  BY BridgeAssumption DEF TypeOK, Calls
<1>2. call[t].pc \in {"store", "set"} => call[t].bundle \in LocalBundle
  BY DEF TypeOK, Calls, Idle
<1>3. CASE MakeBegin(t)
  <2>1. CASE Throw("makeLocalKeyBundle") /\ nkeys' = nkeys
    BY <1>1, <1>3, <2>1, TypedEnd DEF MakeBegin, Throw
  <2>2. CASE /\ nkeys' = nkeys + LkbKeys(PreKeyCount)
             /\ Continue(t, [pc |-> "store", bundle |-> make_lkb(nkeys, PreKeyCount)])
             /\ UNCHANGED <<loaded, session, outcome>>
    <3>1. nkeys' \in 0 .. MaxKeys
      BY <1>1, <1>3, <2>2, BridgeAssumption DEF MakeBegin, LkbKeys
    <3>2. make_lkb(nkeys, PreKeyCount) \in LocalBundle
      BY <1>1, BridgeAssumption, MakeLkbType
    <3>3. [pc |-> "store", bundle |-> make_lkb(nkeys, PreKeyCount)] \in Calls
      BY <3>2 DEF Calls
    <3>4. VariablesTyped' /\ MayStart(t)
      BY <1>3, <2>2, <3>1 DEF VariablesTyped, TypeOK, MakeBegin, MayRegister
    <3> QED
      BY <2>2, <3>3, <3>4, TypedCall
  <2> QED
    BY <1>3, <2>1, <2>2 DEF MakeBegin
<1>4. CASE MakeStore(t)
  <2>1. call[t].pc = "store" /\ call[t].bundle \in LocalBundle /\ nkeys' = nkeys
    BY <1>2, <1>4 DEF MakeStore
  <2>2. identity' \subseteq [pair : Key, blob : Blob]
    <3>1. Stored(call[t].bundle.IdentityKey) \in [pair : Key, blob : Blob]
      BY <2>1 DEF LocalBundle, Stored, Blob, key_bytes
    <3> QED
      BY <1>1, <1>4, <3>1 DEF MakeStore
  <2>3. CASE Throw("makeLocalKeyBundle")
    BY <1>1, <2>1, <2>2, <2>3, TypedEnd DEF Throw
  <2>4. CASE /\ Continue(t, [pc |-> "set", bundle |-> call[t].bundle])
             /\ UNCHANGED <<loaded, session, outcome>>
    <3>1. [pc |-> "set", bundle |-> call[t].bundle] \in Calls
      BY <2>1 DEF Calls
    <3>2. VariablesTyped'
      BY <2>1, <2>2, <2>4 DEF VariablesTyped, TypeOK
    <3> QED
      BY <2>1, <2>4, <3>1, <3>2, TypedCall
  <2> QED
    BY <1>4, <2>3, <2>4 DEF MakeStore
<1>5. CASE MakeSet(t)
  <2>1. call[t].pc = "set" /\ call[t].bundle.IdentityKey \in Key
    BY <1>2, <1>5 DEF MakeSet, LocalBundle
  <2>2. VariablesTyped' /\ loaded' = loaded /\ Continue(t, Idle)
    BY <1>5, <2>1 DEF MakeSet, VariablesTyped, TypeOK, Return
  <2> QED
    BY <1>1, <2>1, <2>2, TypedCall
<1> QED
  BY <1>3, <1>4, <1>5

\* The steps of a refill.
LEMMA TypedRefill ==
    ASSUME KeyidNat, TypeOK, NEW t \in Thread,
           (\E n \in NumKeys : RefillBegin(t, n)) \/ RefillRound(t) \/ RefillReturn(t)
    PROVE  TypeOK'
<1>1. /\ nkeys \in 0 .. MaxKeys /\ nkeys \in Nat /\ Idle \in Calls
      /\ identity \subseteq [pair : Key, blob : Blob]
  BY BridgeAssumption DEF TypeOK, Calls
<1>2. ASSUME NEW n \in NumKeys, RefillBegin(t, n) PROVE TypeOK'
  <2> DEFINE Count == uint32_t(n)
  <2>1. n \in Int /\ -Width <= 2 * n /\ MayStart(t) /\ identity' = identity
    BY <1>2, BridgeAssumption DEF RefillBegin
  <2>2. Count \in Nat
    BY <2>1, WidthAssumption DEF uint32_t
  <2>3. CASE Return(t, "refill", Null) /\ UNCHANGED <<loaded, nkeys, session>>
    <3>1. VariablesTyped' /\ Continue(t, Idle)
      BY <2>1, <2>3 DEF VariablesTyped, TypeOK, Return
    <3> QED
      BY <1>1, <2>1, <2>3, <3>1, TypedCall
  <2>4. CASE Throw("refill") /\ UNCHANGED nkeys
    BY <1>1, <2>1, <2>4, TypedEnd DEF Throw
  <2>5. CASE /\ nkeys + 2 * Count <= MaxKeys /\ nkeys' = nkeys + 2 * Count
             /\ \E object \in session :
                   Continue(t, [pc |-> "refill", object |-> object, numKeys |-> n,
                                left |-> Count, next |-> nkeys + 1, payload |-> NoPayload])
             /\ UNCHANGED <<loaded, session, outcome>>
    <3>1. PICK object \in session :
              Continue(t, [pc |-> "refill", object |-> object, numKeys |-> n,
                           left |-> Count, next |-> nkeys + 1, payload |-> NoPayload])
      BY <2>5
    <3>2. NoPayload \in [oneTimePreKeys : Seq(IdKey), signedOneTimeQuantumPreKeys : Seq(SignedIdKey)]
      BY DEF NoPayload
    <3>3. object \in Key /\ nkeys + 1 \in Nat
      BY <1>1 DEF TypeOK
    <3> HIDE DEF Count
    <3>4. [pc |-> "refill", object |-> object, numKeys |-> n, left |-> Count,
           next |-> nkeys + 1, payload |-> NoPayload] \in Calls
      BY <2>1, <2>2, <3>2, <3>3 DEF Calls
    <3>5. nkeys' \in 0 .. MaxKeys
      BY <1>1, <2>2, <2>5, BridgeAssumption
    <3>6. VariablesTyped'
      BY <2>1, <2>5, <3>5 DEF VariablesTyped, TypeOK
    <3> QED
      BY <2>1, <2>5, <3>1, <3>4, <3>6, TypedCall
  <2> QED
    BY <1>2, <2>3, <2>4, <2>5 DEF RefillBegin
<1> DEFINE d == call[t]
<1>3. d.pc = "refill" =>
        /\ d.object \in Key /\ d.numKeys \in Int /\ d.left \in Nat /\ d.next \in Nat
        /\ d.payload.oneTimePreKeys \in Seq(IdKey)
        /\ d.payload.signedOneTimeQuantumPreKeys \in Seq(SignedIdKey)
  BY DEF TypeOK, Calls, Idle
<1>4. CASE RefillRound(t)
  <2>1. d.pc = "refill" /\ d.left > 0 /\ nkeys' = nkeys /\ identity' = identity
    BY <1>4 DEF RefillRound
  <2>2. CASE Throw("refill")
    BY <1>1, <2>1, <2>2, TypedEnd DEF Throw
  <2>3. ASSUME NEW signer \in Read(d.object), Continue(t, Refilled(d, signer)),
               UNCHANGED <<loaded, session, outcome>>
        PROVE  TypeOK'
    <3>1. signer \in Key
      BY <1>1, <1>3, <2>1 DEF Read, Key
    <3>2. d.next \in Key /\ d.next + 1 \in Key /\ d.next + 2 \in Nat /\ d.left - 1 \in Nat
      <4>1. d.next \in Nat /\ d.left \in Nat /\ d.left > 0
        BY <1>3, <2>1
      <4> HIDE DEF d
      <4> QED
        BY <4>1 DEF Key
    <3>3. X25519_make_id_pair(d.next) \in IdKey
      BY <3>2 DEF X25519_make_id_pair, IdKey, KeyidNat
    <3> DEFINE q == [key |-> d.next + 1, identifier |-> keyid(d.next + 1),
                     signature |-> sign32(signer, d.next + 1)]
    <3>4. q \in SignedIdKey
      BY <3>1, <3>2 DEF SignedIdKey, sign32, Signature, KeyidNat
    <3> HIDE DEF q
    <3>5. /\ Append(d.payload.oneTimePreKeys, X25519_make_id_pair(d.next)) \in Seq(IdKey)
          /\ Append(d.payload.signedOneTimeQuantumPreKeys, q) \in Seq(SignedIdKey)
      BY <1>3, <2>1, <3>3, <3>4
    <3>6. Pushed(d.payload, d.next, d.next + 1, signer) \in
              [oneTimePreKeys : Seq(IdKey), signedOneTimeQuantumPreKeys : Seq(SignedIdKey)]
      BY <3>5 DEF Pushed, q
    <3>7. Refilled(d, signer) \in Calls
      BY <1>3, <2>1, <3>2, <3>6 DEF Refilled, Calls
    <3>8. VariablesTyped'
      BY <2>1, <2>3 DEF VariablesTyped, TypeOK
    <3> QED
      BY <2>1, <2>3, <3>7, <3>8, TypedCall
  <2> QED
    BY <1>4, <2>2, <2>3 DEF RefillRound
<1>5. CASE RefillReturn(t)
  <2>1. d.pc = "refill" /\ VariablesTyped' /\ Continue(t, Idle) /\ loaded' = loaded
    BY <1>5 DEF RefillReturn, Return, VariablesTyped, TypeOK
  <2> QED
    BY <1>1, <2>1, TypedCall
<1> QED
  BY <1>2, <1>4, <1>5

\* The steps of the two initialize calls.
LEMMA TypedInitialize ==
    ASSUME KeyidNat, TypeOK, NEW t \in Thread,
           \/ \E user, bundle : bundle \subseteq Bundle /\ InitializeBegin(t, user, bundle)
           \/ InitializeAgree(t)
           \/ InitializeFinalize(t)
           \/ handleInitialHandshake(t)
    PROVE  TypeOK'
<1>1. /\ nkeys \in 0 .. MaxKeys /\ nkeys \in Nat /\ Idle \in Calls
      /\ identity \subseteq [pair : Key, blob : Blob]
  BY BridgeAssumption DEF TypeOK, Calls
<1>2. ASSUME NEW user, NEW bundle, bundle \subseteq Bundle, InitializeBegin(t, user, bundle)
      PROVE  TypeOK'
  <2>1. MayStart(t) /\ identity' = identity
    BY <1>2 DEF InitializeBegin
  <2>2. CASE Return(t, "initializeSession", Null) /\ UNCHANGED <<loaded, nkeys, session>>
    <3>1. VariablesTyped' /\ Continue(t, Idle)
      BY <2>1, <2>2 DEF VariablesTyped, TypeOK, Return
    <3> QED
      BY <1>1, <2>1, <2>2, <3>1, TypedCall
  <2>3. ASSUME NEW object \in session, NEW keys \in bundle,
               nkeys + 2 <= MaxKeys, nkeys' = nkeys + 2, UNCHANGED <<loaded, session, outcome>>,
               Continue(t, [pc |-> "agree", object |-> object, keys |-> keys,
                            EK |-> nkeys + 1, coins |-> nkeys + 2])
        PROVE  TypeOK'
    <3>1. object \in Key /\ keys \in Bundle /\ nkeys + 1 \in Key /\ nkeys + 2 \in Key
      BY <1>1, <1>2 DEF TypeOK, Key
    <3>2. [pc |-> "agree", object |-> object, keys |-> keys,
           EK |-> nkeys + 1, coins |-> nkeys + 2] \in Calls
      BY <3>1 DEF Calls
    <3>3. nkeys' \in 0 .. MaxKeys
      BY <1>1, <2>3, BridgeAssumption
    <3>4. VariablesTyped'
      BY <2>1, <2>3, <3>3 DEF VariablesTyped, TypeOK
    <3> QED
      BY <2>1, <2>3, <3>2, <3>4, TypedCall
  <2>4. CASE Throw("initializeSession") /\ UNCHANGED nkeys
    BY <1>1, <2>1, <2>4, TypedEnd DEF Throw
  <2> QED
    BY <1>2, <2>2, <2>3, <2>4 DEF InitializeBegin
<1> DEFINE d == call[t]
<1>3. CASE InitializeAgree(t)
  <2>1. d.pc = "agree" /\ nkeys' = nkeys /\ identity' = identity
    BY <1>3 DEF InitializeAgree
  <2>2. d.object \in Key /\ d.keys \in Bundle /\ d.EK \in Key /\ d.coins \in Key
    BY <2>1 DEF TypeOK, Calls, Idle
  <2> DEFINE ct == encapsulate(d.keys.qpubsidkey.key, d.coins)
  <2>3. CASE Throw("initializeSession")
    BY <1>1, <2>1, <2>3, TypedEnd DEF Throw
  <2>4. ASSUME NEW private \in Read(d.object),
               Continue(t, [pc |-> "finalize", object |-> d.object, keys |-> d.keys, EK |-> d.EK,
                            cipherText |-> ct, SK |-> outbound_secret(private, d.keys, d.EK, ct)]),
               UNCHANGED <<loaded, session, outcome>>
        PROVE  TypeOK'
    <3>1. private \in Key
      BY <1>1, <2>2 DEF Read, Key
    <3>2. ct \in CipherText
      BY <2>2 DEF encapsulate, CipherText, Bundle, QuantumKey
    <3> HIDE DEF ct, d
    <3>3. {ssecret(d.EK, k.key) : k \in d.keys.oneTimePreKey} \in SUBSET SUBSET Key
      BY <2>2 DEF ssecret, Bundle, IdKey
    <3>4. d.keys.identityKey \in Key /\ d.keys.signedPreKey.key \in Key
      BY <2>2 DEF Bundle, SignedIdKey
    <3>5. outbound_secret(private, d.keys, d.EK, ct) \in RootKey
      BY <2>2, <3>1, <3>2, <3>3, <3>4, RootKeyType DEF outbound_secret
    <3>6. [pc |-> "finalize", object |-> d.object, keys |-> d.keys, EK |-> d.EK,
           cipherText |-> ct, SK |-> outbound_secret(private, d.keys, d.EK, ct)] \in Calls
      BY <2>2, <3>2, <3>5 DEF Calls
    <3>7. VariablesTyped'
      BY <2>1, <2>4 DEF VariablesTyped, TypeOK
    <3> QED
      BY <2>1, <2>4, <3>6, <3>7, TypedCall DEF d
  <2> QED
    BY <1>3, <2>3, <2>4 DEF InitializeAgree
<1>4. CASE InitializeFinalize(t)
  <2>1. d.pc = "finalize" /\ VariablesTyped' /\ Continue(t, Idle) /\ loaded' = loaded
    BY <1>4 DEF InitializeFinalize, Return, VariablesTyped, TypeOK
  <2> QED
    BY <1>1, <2>1, TypedCall
<1>5. CASE handleInitialHandshake(t)
  <2>1. MayStart(t) /\ VariablesTyped' /\ Continue(t, Idle) /\ loaded' = loaded
    BY <1>5 DEF handleInitialHandshake, Return, VariablesTyped, TypeOK
  <2> QED
    BY <1>1, <2>1, TypedCall
<1> QED
  BY <1>2, <1>3, <1>4, <1>5

LEMMA TypedInit == Init => TypeOK
<1> SUFFICES ASSUME Init PROVE TypeOK
  OBVIOUS
<1>1. call \in [Thread -> Calls]
  BY DEF Init, Calls
<1>2. LkbKeys(1) \in 0 .. MaxKeys
  BY BridgeAssumption DEF LkbKeys
<1> QED
  BY <1>1, <1>2 DEF Init, TypeOK

LEMMA TypedStep ==
    ASSUME KeyidWidth, TypeOK, [Next]_vars
    PROVE  TypeOK'
<1>1. KeyidNat
  BY DEF KeyidWidth, KeyidNat
<1>2. CASE UNCHANGED vars
  BY <1>2 DEF vars, TypeOK
<1>3. CASE JNI_OnLoad
  BY <1>3 DEF JNI_OnLoad, TypeOK
<1>4. CASE Restart
  BY <1>4, TypedEnd DEF Restart, TypeOK
<1>5. ASSUME NEW t \in Thread, NEW b \in ForeignBundles,
             \/ initializeNewSession(t, b)
             \/ \E k \in LongTermKeys : initializeExistingSession(t, k, b)
      PROVE  \E user, bundle : bundle \subseteq Bundle /\ InitializeBegin(t, user, bundle)
  <2>1. to_foreignpk_bundle({b}) \subseteq Bundle
    BY ForeignTyped
  <2>2. PICK user : InitializeBegin(t, user, to_foreignpk_bundle({b}))
    BY <1>5 DEF initializeNewSession, initializeExistingSession
  <2> QED
    BY <2>1, <2>2
<1> QED
  BY <1>1, <1>2, <1>3, <1>4, <1>5, TypedMake, TypedRefill, TypedInitialize DEF Next, Step

\* Every variable of the bridge keeps its type, through every conversion, and
\* a process without the library has no session and no calls, also when
\* registrations overlap.
THEOREM BridgeTypeCorrect == ASSUME KeyidWidth PROVE Spec => []TypeOK
<1>1. TypeOK /\ [Next]_vars => TypeOK'
  BY TypedStep
<1> QED
  BY <1>1, TypedInit, PTL DEF Spec

-----------------------------------------------------------------------------
(* The number of keys a refill returns *)

\* A sequence without repetitions has as many elements as its length.
LEMMA RangeCount ==
    ASSUME NEW n \in Nat, NEW f, DOMAIN f = 1 .. n, f = [i \in 1 .. n |-> f[i]],
           \A i, j \in 1 .. n : f[i] = f[j] => i = j
    PROVE  Cardinality(Range(f)) = n
<1>1. f \in [1 .. n -> Range(f)]
  BY DEF Range
<1>2. f \in Injection(1 .. n, Range(f))
  BY <1>1 DEF Injection, IsInjective
<1>3. f \in Surjection(1 .. n, Range(f))
  BY <1>1 DEF Surjection, Range
<1>4. ExistsBijection(1 .. n, Range(f))
  BY <1>2, <1>3 DEF ExistsBijection, Bijection
<1>5. IsFiniteSet(1 .. n) /\ Cardinality(1 .. n) = n
  <2>1. 1 \in Int /\ n \in Int
    OBVIOUS
  <2>2. IsFiniteSet(1 .. n) /\ Cardinality(1 .. n) = IF 1 > n THEN 0 ELSE n - 1 + 1
    BY <2>1, FS_Interval, Zenon
  <2> QED
    BY <2>2
<1> QED
  BY <1>4, <1>5, FS_Bijection

\* One more key, generated after the others.
LEMMA PushDistinct ==
    ASSUME NEW n \in Nat, NEW s, NEW next \in Nat, DistinctKeys(s, n, next),
           NEW x, x.key \in {next, next + 1}
    PROVE  DistinctKeys(Append(s, x), n + 1, next + 2)
<1> DEFINE T == {s[i] : i \in 1 .. n} \cup {x}
           a == Append(s, x)
<1>1. s \in [1 .. n -> T]
  BY DEF DistinctKeys
<1>2. s \in Seq(T) /\ Len(s) = n /\ x \in T
  BY <1>1
<1>3. a = [i \in 1 .. n + 1 |-> a[i]] /\ a[n + 1] = x /\ \A i \in 1 .. n : a[i] = s[i]
  <2>1. a \in Seq(T) /\ Len(a) = n + 1
    BY <1>2
  <2>2. a[n + 1] = x /\ \A i \in 1 .. n : a[i] = s[i]
    BY <1>2
  <2> HIDE DEF a, T
  <2>3. a = [i \in 1 .. n + 1 |-> a[i]]
    BY <2>1
  <2> QED
    BY <2>2, <2>3
<1> HIDE DEF a, T
<1>4. \A i \in 1 .. n : a[i].key \in 0 .. next - 1
  BY <1>3 DEF DistinctKeys
<1>5. \A i \in 1 .. n + 1 : a[i].key \in 0 .. next + 2 - 1
  <2> SUFFICES ASSUME NEW i \in 1 .. n + 1 PROVE a[i].key \in 0 .. next + 2 - 1
    OBVIOUS
  <2>1. CASE i \in 1 .. n
    <3>1. a[i].key \in 0 .. next - 1
      BY <1>4, <2>1
    <3> QED
      BY <3>1
  <2>2. CASE i = n + 1
    <3>1. a[i].key \in {next, next + 1}
      BY <1>3, <2>2
    <3> QED
      BY <3>1
  <2> QED
    BY <2>1, <2>2
<1>6. \A i, j \in 1 .. n : a[i].key = a[j].key => i = j
  BY <1>3 DEF DistinctKeys
<1>7. \A i \in 1 .. n : a[i].key # a[n + 1].key
  <2>1. a[n + 1].key \in {next, next + 1}
    BY <1>3
  <2> QED
    BY <1>4, <2>1
<1>8. \A i \in 1 .. n + 1 : i \in 1 .. n \/ i = n + 1
  OBVIOUS
<1>9. \A i, j \in 1 .. n + 1 : a[i].key = a[j].key => i = j
  BY <1>6, <1>7, <1>8
<1> QED
  BY <1>3, <1>5, <1>9 DEF DistinctKeys, a

\* A call goes on, or ends, and the others stay where they are.
LEMMA CallCounts ==
    ASSUME CountInv, NEW t \in Thread, NEW c, Continue(t, c), CallCount(c)
    PROVE  call' = [u \in Thread |-> call'[u]] /\ \A u \in Thread : CallCount(call[u])'
<1>1. call'[t] = c /\ \A u \in Thread \ {t} : call'[u] = call[u]
  BY DEF Continue, CountInv
<1>2. call' = [u \in Thread |-> call'[u]]
  BY DEF Continue, CountInv
<1>3. \A u \in Thread : CallCount(call'[u])
  BY <1>1 DEF CountInv
<1>4. \A u \in Thread : CallCount(call[u])'
  BY <1>3 DEF CallCount, DistinctKeys
<1> QED
  BY <1>2, <1>4

LEMMA OtherCallCount == \A c : c.pc # "refill" => CallCount(c)
  BY DEF CallCount

LEMMA CountSame ==
    ASSUME RefillCount, outcome' = outcome
    PROVE  RefillCount'
<1>1. Returned("refill")' = Returned("refill")
  BY DEF Returned
<1> QED
  BY <1>1 DEF RefillCount

\* Nothing is counted of an exception, of null, or of another entry point.
LEMMA CountOther ==
    ASSUME NEW e, NEW threw, NEW r, NEW i, NEW k, e # "refill" \/ r = {},
           outcome' = {[entry |-> e, threw |-> threw, result |-> r, identity |-> i, session |-> k]}
    PROVE  RefillCount'
  BY DEF RefillCount, Returned

LEMMA CountEnds ==
    ASSUME ProcessEnds, nkeys' \in Nat, RefillCount'
    PROVE  CountInv'
<1>1. call' = [t \in Thread |-> call'[t]] /\ \A t \in Thread : call'[t].pc = "idle"
  BY DEF ProcessEnds, Idle
<1>2. \A t \in Thread : CallCount(call[t])'
  BY <1>1 DEF CallCount
<1> QED
  BY <1>1, <1>2 DEF CountInv

LEMMA CountThrow ==
    ASSUME NEW entry, Throw(entry), nkeys' \in Nat
    PROVE  CountInv'
<1>1. RefillCount'
  BY CountOther DEF Throw, Null
<1> QED
  BY <1>1, CountEnds DEF Throw

\* A call ends with a result that is null or not of refill.
LEMMA CountReturn ==
    ASSUME CountInv, NEW t \in Thread, NEW e, NEW r, Return(t, e, r), nkeys' \in Nat,
           e # "refill" \/ r = {}
    PROVE  CountInv'
<1>1. RefillCount'
  BY CountOther DEF Return
<1>2. CallCount(Idle)
  BY OtherCallCount, IdleInv
<1> QED
  BY <1>1, <1>2, CallCounts DEF CountInv, Return

\* A call goes on without a result.
LEMMA CountContinue ==
    ASSUME CountInv, NEW t \in Thread, NEW c, Continue(t, c), CallCount(c), nkeys' \in Nat,
           outcome' = outcome
    PROVE  CountInv'
  BY CallCounts, CountSame DEF CountInv

LEMMA CountMake ==
    ASSUME CountInv, NEW t \in Thread, MakeBegin(t) \/ MakeStore(t) \/ MakeSet(t)
    PROVE  CountInv'
<1>1. nkeys \in Nat
  BY DEF CountInv
<1>2. CASE MakeBegin(t)
  <2>1. nkeys + LkbKeys(PreKeyCount) \in Nat
    BY <1>1, BridgeAssumption DEF LkbKeys
  <2> DEFINE c == [pc |-> "store", bundle |-> make_lkb(nkeys, PreKeyCount)]
  <2>2. c.pc # "refill"
    OBVIOUS
  <2> HIDE DEF c
  <2>3. CallCount(c)
    BY <2>2, OtherCallCount
  <2>4. \/ /\ nkeys' = nkeys + LkbKeys(PreKeyCount) /\ Continue(t, c) /\ outcome' = outcome
        \/ Throw("makeLocalKeyBundle") /\ nkeys' = nkeys
    BY <1>2 DEF MakeBegin, c
  <2> QED
    BY <1>1, <2>1, <2>3, <2>4, CountContinue, CountThrow
<1>3. CASE MakeStore(t)
  <2> DEFINE c == [pc |-> "set", bundle |-> call[t].bundle]
  <2>1. c.pc # "refill"
    OBVIOUS
  <2> HIDE DEF c
  <2>2. CallCount(c)
    BY <2>1, OtherCallCount
  <2>3. /\ nkeys' = nkeys
        /\ \/ Continue(t, c) /\ outcome' = outcome
           \/ Throw("makeLocalKeyBundle")
    BY <1>3 DEF MakeStore, c
  <2> QED
    BY <1>1, <2>2, <2>3, CountContinue, CountThrow
<1>4. CASE MakeSet(t)
  BY <1>1, <1>4, CountReturn DEF MakeSet
<1> QED
  BY <1>2, <1>3, <1>4

\* The empty payload has no key of either sort.
LEMMA CountRefillBegin ==
    ASSUME CountInv, NEW t \in Thread, NEW n \in NumKeys, RefillBegin(t, n)
    PROVE  CountInv'
<1> DEFINE Count == uint32_t(n)
<1>1. nkeys \in Nat
  BY DEF CountInv
<1>2. n \in Int /\ -Width <= 2 * n
  BY BridgeAssumption
<1>3. Count \in Nat
  BY <1>2, WidthAssumption DEF uint32_t
<1> HIDE DEF Count
<1>4. CASE Return(t, "refill", Null) /\ nkeys' = nkeys
  BY <1>1, <1>4, CountReturn DEF Null
<1>5. CASE Throw("refill") /\ nkeys' = nkeys
  BY <1>1, <1>5, CountThrow
<1>6. ASSUME NEW object,
             LET c == [pc |-> "refill", object |-> object, numKeys |-> n, left |-> Count,
                       next |-> nkeys + 1, payload |-> NoPayload]
             IN  Continue(t, c),
             nkeys' = nkeys + 2 * Count, outcome' = outcome, Count <= MaxReserve
      PROVE  CountInv'
  <2> DEFINE c == [pc |-> "refill", object |-> object, numKeys |-> n, left |-> Count,
                   next |-> nkeys + 1, payload |-> NoPayload]
  <2>1. /\ c.numKeys = n /\ c.left = Count /\ c.next = nkeys + 1
        /\ c.payload.oneTimePreKeys = <<>> /\ c.payload.signedOneTimeQuantumPreKeys = <<>>
    BY DEF NoPayload
  <2>2. Continue(t, c)
    BY <1>6
  <2> HIDE DEF c
  <2>3. DistinctKeys(<<>>, 0, nkeys + 1)
    BY DEF DistinctKeys
  <2>4. Count - Count = 0 /\ Count \in 0 .. Count /\ nkeys + 1 \in Nat /\ nkeys' \in Nat
    BY <1>1, <1>3, <1>6
  <2>5. CallCount(c)
    BY <1>6, <2>1, <2>3, <2>4 DEF CallCount, Count
  <2> QED
    BY <1>6, <2>2, <2>4, <2>5, CountContinue
<1> QED
  BY <1>4, <1>5, <1>6 DEF RefillBegin, Count

\* A round pushes one new key of each sort.
LEMMA CountRefillRound ==
    ASSUME CountInv, NEW t \in Thread, RefillRound(t)
    PROVE  CountInv'
<1> DEFINE d == call[t]
           Count == uint32_t(d.numKeys)
           n == Count - d.left
<1>1. nkeys \in Nat /\ nkeys' = nkeys
  BY DEF CountInv, RefillRound
<1>2. CASE Throw("refill")
  BY <1>1, <1>2, CountThrow
<1>3. ASSUME NEW signer, Continue(t, Refilled(d, signer)), outcome' = outcome
      PROVE  CountInv'
  <2>1. d.pc = "refill" /\ d.left > 0
    BY DEF RefillRound
  <2>2. /\ d.numKeys \in NumKeys /\ Count <= MaxReserve /\ d.next \in Nat /\ d.left \in 0 .. Count
        /\ DistinctKeys(d.payload.oneTimePreKeys, n, d.next)
        /\ DistinctKeys(d.payload.signedOneTimeQuantumPreKeys, n, d.next)
    BY <2>1 DEF CountInv, CallCount
  <2>3. Count \in Int
    <3>1. d.numKeys \in Int
      BY <2>2, BridgeAssumption
    <3> QED
      BY <3>1, WidthAssumption DEF uint32_t
  <2> DEFINE c == Refilled(d, signer)
             x == X25519_make_id_pair(d.next)
             q == [key |-> d.next + 1, identifier |-> keyid(d.next + 1),
                   signature |-> sign32(signer, d.next + 1)]
  <2>4. x.key = d.next /\ q.key = d.next + 1
    BY DEF X25519_make_id_pair
  <2>5. /\ c.pc = "refill" /\ c.numKeys = d.numKeys /\ c.left = d.left - 1 /\ c.next = d.next + 2
        /\ c.payload.oneTimePreKeys = Append(d.payload.oneTimePreKeys, x)
        /\ c.payload.signedOneTimeQuantumPreKeys =
              Append(d.payload.signedOneTimeQuantumPreKeys, q)
    BY DEF Refilled, Pushed
  <2> HIDE DEF c, x, q, d
  <2>6. n \in Nat /\ d.left - 1 \in 0 .. Count /\ d.next + 2 \in Nat /\ Count - (d.left - 1) = n + 1
    BY <2>1, <2>2, <2>3
  <2> HIDE DEF n, Count
  <2>7. /\ DistinctKeys(c.payload.oneTimePreKeys, n + 1, d.next + 2)
        /\ DistinctKeys(c.payload.signedOneTimeQuantumPreKeys, n + 1, d.next + 2)
    BY <2>2, <2>4, <2>5, <2>6, PushDistinct
  <2>8. uint32_t(c.numKeys) = Count /\ Count - c.left = n + 1
    BY <2>5, <2>6 DEF Count
  <2>9. CallCount(c)
    BY <2>2, <2>5, <2>6, <2>7, <2>8 DEF CallCount
  <2> QED
    BY <1>1, <1>3, <2>9, CountContinue DEF c, d
<1> QED
  BY <1>2, <1>3 DEF RefillRound

\* The conversion of distinct keys makes distinct objects of them.
LEMMA CountRefillReturn ==
    ASSUME CountInv, NEW t \in Thread, RefillReturn(t)
    PROVE  CountInv'
<1> DEFINE d == call[t]
           n == uint32_t(d.numKeys)
           p == d.payload
           java == from_refill_payload(p)
           r == [numKeys |-> d.numKeys, payload |-> java]
<1>1. nkeys \in Nat /\ nkeys' = nkeys
  BY DEF CountInv, RefillReturn
<1>2. CASE Return(t, "refill", Null)
  BY <1>1, <1>2, CountReturn DEF Null
<1>3. CASE Return(t, "refill", {r})
  <2>1. d.pc = "refill" /\ d.left = 0
    BY DEF RefillReturn
  <2>2. /\ d.numKeys \in NumKeys /\ n <= MaxReserve /\ d.left \in 0 .. n
        /\ DistinctKeys(p.oneTimePreKeys, n - d.left, d.next)
        /\ DistinctKeys(p.signedOneTimeQuantumPreKeys, n - d.left, d.next)
    BY <2>1 DEF CountInv, CallCount
  <2>3. n \in Nat /\ n - d.left = n /\ n = d.numKeys
    <3>1. d.numKeys \in Int /\ -Width <= 2 * d.numKeys /\ 2 * d.numKeys < Width
      BY <2>2, BridgeAssumption
    <3>2. 2 * MaxReserve < Width /\ MaxReserve \in Nat
      BY BridgeAssumption
    <3>3. n \in Int /\ n = IF d.numKeys < 0 THEN d.numKeys + Width ELSE d.numKeys
      BY <3>1, WidthAssumption DEF uint32_t
    <3> HIDE DEF n, d
    <3> QED
      BY <2>1, <2>2, <3>1, <3>2, <3>3, WidthAssumption
  <2> DEFINE x == p.oneTimePreKeys
             q == p.signedOneTimeQuantumPreKeys
             jx == [i \in DOMAIN x |-> from_id_key(x[i], xckey_size)]
             jq == [i \in DOMAIN q |-> from_sid_key(q[i], qpubkey_size)]
  <2>4. java.oneTimePreKeys = jx /\ java.signedOneTimeQuantumPreKeys = jq
    BY DEF from_refill_payload
  <2> HIDE DEF n, d, p, java
  <2>5. /\ x = [i \in 1 .. n |-> x[i]] /\ \A i, j \in 1 .. n : x[i].key = x[j].key => i = j
        /\ q = [i \in 1 .. n |-> q[i]] /\ \A i, j \in 1 .. n : q[i].key = q[j].key => i = j
    BY <2>2, <2>3 DEF DistinctKeys
  <2> HIDE DEF x, q
  <2>6. DOMAIN x = 1 .. n /\ DOMAIN q = 1 .. n
    BY <2>5
  <2>7. \A i \in 1 .. n : to_key(jx[i].key, xckey_size) = {x[i].key}
    BY <2>6, KeyRoundTrip DEF from_id_key
  <2>8. \A i \in 1 .. n : to_key(jq[i].key, qpubkey_size) = {q[i].key}
    BY <2>6, KeyRoundTrip DEF from_sid_key
  <2>9. DOMAIN jx = 1 .. n /\ jx = [i \in 1 .. n |-> jx[i]]
        /\ DOMAIN jq = 1 .. n /\ jq = [i \in 1 .. n |-> jq[i]]
    BY <2>6
  <2> HIDE DEF jx, jq
  <2>10. /\ \A i, j \in 1 .. n : jx[i] = jx[j] => i = j
         /\ \A i, j \in 1 .. n : jq[i] = jq[j] => i = j
    <3>1. ASSUME NEW i \in 1 .. n, NEW j \in 1 .. n, jx[i] = jx[j] PROVE i = j
      <4>1. {x[i].key} = {x[j].key}
        BY <2>7, <3>1
      <4> QED
        BY <2>5, <4>1
    <3>2. ASSUME NEW i \in 1 .. n, NEW j \in 1 .. n, jq[i] = jq[j] PROVE i = j
      <4>1. {q[i].key} = {q[j].key}
        BY <2>8, <3>2
      <4> QED
        BY <2>5, <4>1
    <3> QED
      BY <3>1, <3>2
  <2>11. Cardinality(Range(jx)) = n /\ Cardinality(Range(jq)) = n
    BY <2>3, <2>9, <2>10, RangeCount
  <2>12. /\ r.numKeys = n
         /\ Cardinality(Range(r.payload.oneTimePreKeys)) = r.numKeys
         /\ Cardinality(Range(r.payload.signedOneTimeQuantumPreKeys)) = r.numKeys
    BY <2>3, <2>4, <2>11
  <2>13. \E i, k : outcome' = {[entry |-> "refill", threw |-> FALSE, result |-> {r},
                                identity |-> i, session |-> k]}
    BY <1>3 DEF Return
  <2> HIDE DEF r
  <2>14. RefillCount'
    BY <2>12, <2>13 DEF RefillCount, Returned
  <2>15. CallCount(Idle)
    BY OtherCallCount, IdleInv
  <2> QED
    BY <1>1, <1>3, <2>14, <2>15, CallCounts DEF CountInv, Return
<1> QED
  BY <1>2, <1>3 DEF RefillReturn

LEMMA CountInitialize ==
    ASSUME CountInv, NEW t \in Thread,
           \/ \E user, bundle : InitializeBegin(t, user, bundle)
           \/ InitializeAgree(t)
           \/ InitializeFinalize(t)
           \/ handleInitialHandshake(t)
    PROVE  CountInv'
<1>1. nkeys \in Nat
  BY DEF CountInv
<1>2. ASSUME NEW user, NEW bundle, InitializeBegin(t, user, bundle) PROVE CountInv'
  <2>1. CASE Return(t, "initializeSession", Null) /\ nkeys' = nkeys
    BY <1>1, <2>1, CountReturn DEF Null
  <2>2. ASSUME NEW object, NEW keys, nkeys' = nkeys + 2, outcome' = outcome,
               Continue(t, [pc |-> "agree", object |-> object, keys |-> keys,
                            EK |-> nkeys + 1, coins |-> nkeys + 2])
        PROVE  CountInv'
    <3> DEFINE c == [pc |-> "agree", object |-> object, keys |-> keys,
                     EK |-> nkeys + 1, coins |-> nkeys + 2]
    <3>1. c.pc # "refill" /\ Continue(t, c) /\ nkeys' \in Nat
      BY <1>1, <2>2
    <3> HIDE DEF c
    <3> QED
      BY <2>2, <3>1, OtherCallCount, CountContinue
  <2>3. CASE Throw("initializeSession") /\ nkeys' = nkeys
    BY <1>1, <2>3, CountThrow
  <2> QED
    BY <1>2, <2>1, <2>2, <2>3 DEF InitializeBegin
<1>3. CASE InitializeAgree(t)
  <2> DEFINE a == call[t]
             PQPK == encapsulate(a.keys.qpubsidkey.key, a.coins)
             Agreed(private) == [pc |-> "finalize", object |-> a.object, keys |-> a.keys,
                                 EK |-> a.EK, cipherText |-> PQPK,
                                 SK |-> outbound_secret(private, a.keys, a.EK, PQPK)]
  <2>1. /\ nkeys' = nkeys
        /\ \/ (\E private : Continue(t, Agreed(private))) /\ outcome' = outcome
           \/ Throw("initializeSession")
    BY <1>3 DEF InitializeAgree
  <2>2. \A private : Agreed(private).pc # "refill"
    OBVIOUS
  <2> HIDE DEF Agreed
  <2>3. \A private : CallCount(Agreed(private))
    BY <2>2, OtherCallCount
  <2> QED
    BY <1>1, <2>1, <2>3, CountContinue, CountThrow
<1>4. CASE InitializeFinalize(t)
  <2>1. nkeys' = nkeys /\ \E result : Return(t, "initializeSession", result)
    BY <1>4 DEF InitializeFinalize
  <2> QED
    BY <1>1, <2>1, CountReturn
<1>5. CASE handleInitialHandshake(t)
  BY <1>1, <1>5, CountReturn DEF handleInitialHandshake, Null
<1> QED
  BY <1>2, <1>3, <1>4, <1>5

LEMMA CountInit == Init => CountInv
  BY IdleInv, OtherCallCount DEF Init, LkbKeys, CountInv, RefillCount, Returned

LEMMA CountStep == CountInv /\ [Next]_vars => CountInv'
<1> SUFFICES ASSUME CountInv, [Next]_vars PROVE CountInv'
  OBVIOUS
<1>1. CASE JNI_OnLoad \/ UNCHANGED vars
  <2>1. nkeys' = nkeys /\ call' = call /\ outcome' = outcome
    BY <1>1 DEF JNI_OnLoad, vars
  <2> QED
    BY <2>1, CountSame DEF CountInv, CallCount, DistinctKeys
<1>2. CASE Restart
  BY <1>2, CountSame, CountEnds DEF Restart, CountInv
<1>3. ASSUME NEW t \in Thread, NEW b \in ForeignBundles,
             \/ initializeNewSession(t, b)
             \/ \E k \in LongTermKeys : initializeExistingSession(t, k, b)
      PROVE  \E user, bundle : InitializeBegin(t, user, bundle)
  BY <1>3 DEF initializeNewSession, initializeExistingSession
<1> QED
  BY <1>1, <1>2, <1>3, CountMake, CountRefillBegin, CountRefillRound, CountRefillReturn,
     CountInitialize DEF Next, Step

\* refill returns as many different keys of each sort as the application asked
\* for, also when other threads register while it runs: a negative number,
\* which becomes a large count, never leads to a result.
THEOREM RefillIsCounted == Spec => []RefillCount
<1>1. CountInv => RefillCount
  BY DEF CountInv
<1> QED
  BY <1>1, CountInit, CountStep, PTL DEF Spec
=============================================================================
