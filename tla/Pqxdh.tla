-------------------------------- MODULE Pqxdh --------------------------------
(***************************************************************************)
(* The functions of gcrypt::pqxdh (pqxdh.hpp, pqxdh.cpp) that touch no     *)
(* storage, as operators over symbolic keys: making a local key bundle,    *)
(* verifying a foreign bundle, creating an outbound session and creating   *)
(* an inbound session from private keys the caller supplies.               *)
(*                                                                         *)
(* A std::optional is a set of at most one element.  A call that can fail  *)
(* yields a record whose field "returns" is "some", "nullopt" or "throws". *)
(***************************************************************************)
EXTENDS Keys, Sequences

IsOptional(s) == \A x, y \in s : x = y

Nullopt == [returns |-> "nullopt"]
Throws  == [returns |-> "throws"]
Some(v) == [returns |-> "some", value |-> v]

-----------------------------------------------------------------------------
(* Key generation *)

\* idkey<N>: a public key with its identifier.
IdKey == [key : Key, identifier : Nat]

\* keygen::X25519::make_id_pair
X25519_make_id_pair(k) == [key |-> k, identifier |-> keyid(k)]

\* keygen::MLKEM_32::make_id_pair leaves the value-initialised identifier, 0.
MLKEM_32_make_id_pair(k) == [key |-> k, identifier |-> 0]

\* The unordered_map the key pairs ks are inserted into in the order of their
\* generation, as the set of its entries: insert() keeps the pair that is
\* already there for an identifier.
MapById(ks) ==
    {[key |-> k, identifier |-> keyid(k)] :
        k \in {k \in ks : \A j \in ks : keyid(j) = keyid(k) => k <= j}}

\* Key pairs one call of make_lkb with n one-time keys of each sort generates.
LkbKeys(n) == 3 + 2 * n

\* make_lkb: the bundle built from the pairs generated after the first g.
make_lkb(g, n) ==
    [IdentityKey        |-> g + 1,
     SignedPreKey       |-> X25519_make_id_pair(g + 2),
     QuantumPreKey      |-> MLKEM_32_make_id_pair(g + 3),
     OneTimePreKeys     |-> MapById((g + 4) .. (g + 3 + n)),
     OneTimeQuantumKeys |-> MapById((g + 4 + n) .. (g + 3 + 2 * n))]

LocalBundle == [IdentityKey    : Key,
                SignedPreKey   : IdKey,
                QuantumPreKey  : IdKey,
                OneTimePreKeys : SUBSET IdKey,
                OneTimeQuantumKeys : SUBSET IdKey]

-----------------------------------------------------------------------------
(* Foreign bundles *)

\* foreign_prekey_bundle.  Its quantum key is std::variant<qsidkey, qpubikey>:
\* signature is empty exactly when the variant holds the unsigned qpubikey.
SignedIdKey == [key : Key, identifier : Nat, signature : Signature]
QuantumKey  == [key : Key, identifier : Nat, signature : SUBSET Signature]
Bundle      == [identityKey   : Key,
                signedPreKey  : SignedIdKey,
                qpubsidkey    : QuantumKey,
                oneTimePreKey : SUBSET IdKey]

\* Plausible slips in verify_foreign_bundle, for the mutation runs: the
\* comparison of the identity keys, or the signed pre key's check, is missing.
verify_foreign_bundle_NoMatch(userIdentityKey, bundle) ==
    /\ verify32(userIdentityKey, bundle.signedPreKey.key, bundle.signedPreKey.signature)
    /\ \A sig \in bundle.qpubsidkey.signature :
           verify32(userIdentityKey, bundle.qpubsidkey.key, sig)

verify_foreign_bundle_NoSpk(userIdentityKey, bundle) ==
    /\ kmatch(userIdentityKey, bundle.identityKey)
    /\ \A sig \in bundle.qpubsidkey.signature :
           verify32(userIdentityKey, bundle.qpubsidkey.key, sig)

\* The quantum key is checked only when the variant holds a qsidkey.  verify32
\* may also throw (XedDSA); like a false, that makes no session, and where it
\* matters which of the two it is, at the JNI boundary, JniBridge has both.
verify_foreign_bundle(userIdentityKey, bundle) ==
    /\ kmatch(userIdentityKey, bundle.identityKey)
    /\ verify32(userIdentityKey, bundle.signedPreKey.key, bundle.signedPreKey.signature)
    /\ \A sig \in bundle.qpubsidkey.signature :
           verify32(userIdentityKey, bundle.qpubsidkey.key, sig)

-----------------------------------------------------------------------------
(* Outbound sessions *)

\* A slip for the mutation runs: the one-time key's identifier is not pushed.
used_pre_keys_NoOneTime(keys) == <<keys.signedPreKey.identifier>>

\* The identifiers finalize_outbound_session pushes for the curve keys: the
\* signed pre key first, then the one-time key when the bundle has one.
used_pre_keys(keys) ==
    IF keys.oneTimePreKey = {}
    THEN <<keys.signedPreKey.identifier>>
    ELSE <<keys.signedPreKey.identifier,
           (CHOOSE k \in keys.oneTimePreKey : TRUE).identifier>>

\* _internal::finalize_outbound_session: the session the initiator keeps and
\* the handshake it sends.  The fields of messaging_session that stay
\* default-constructed on both sides are left out.
finalize_outbound_session(localPublicIdentityKey, publicEphemeralKey, cipherText, KDFSecretKey, keys) ==
    [session          |-> [remoteIdentityKey |-> keys.identityKey,
                           rootKey           |-> KDFSecretKey,
                           remoteRatchetKey  |-> ZeroKey],
     handshakeMessage |-> [identityKey        |-> localPublicIdentityKey,
                           ephermoralKey      |-> publicEphemeralKey,
                           cipherText         |-> cipherText,
                           usedPreKeys        |-> used_pre_keys(keys),
                           usedQuantumPreKeys |-> <<keys.qpubsidkey.identifier>>]]

Session == [remoteIdentityKey : Key, rootKey : RootKey, remoteRatchetKey : Key]
Message == [identityKey : Key, ephermoralKey : Key, cipherText : CipherText,
            usedPreKeys : Seq(Nat), usedQuantumPreKeys : Seq(Nat)]

\* The secret SK create_outbound_session derives from the keys of a bundle.
outbound_secret(localIdentityKey, keys, EK, PQPK) ==
    LET DH_1 == ssecret(localIdentityKey, keys.signedPreKey.key)
        DH_2 == ssecret(EK, keys.identityKey)
        DH_3 == ssecret(EK, keys.signedPreKey.key)
        DH_4 == {ssecret(EK, k.key) : k \in keys.oneTimePreKey}
    IN  KDF(kconcat(DH_1, DH_2, DH_3, DH_4, PQPK))

\* create_outbound_session with a fresh ephemeral pair EK and fresh
\* encapsulation coins.  The first three secrets are computed outside the try
\* block, so their failure leaves the function as an exception; the failure
\* of the fourth is caught and becomes nullopt.
create_outbound_session(localIdentityKey, identityToVerifyAgainst, keys, EK, coins) ==
    LET PQPK == encapsulate(keys.qpubsidkey.key, coins)
    IN  IF ~verify_foreign_bundle(identityToVerifyAgainst, keys)
          THEN Nullopt
        ELSE IF ssecret_throws(keys.signedPreKey.key) \/ ssecret_throws(keys.identityKey)
          THEN Throws
        ELSE IF \E k \in keys.oneTimePreKey : ssecret_throws(k.key)
          THEN Nullopt
        ELSE Some(finalize_outbound_session(localIdentityKey, EK, PQPK,
                      outbound_secret(localIdentityKey, keys, EK, PQPK), keys))

-----------------------------------------------------------------------------
(* Inbound sessions *)

\* The secret the receiver derives from its private keys.
inbound_secret(localIdentityKey, usedPrivateSignedPreKey, usedPrivateOneTimePreKey, usedPrivateQuantumPreKey, handshake) ==
    LET PQSS == decapsulate(handshake.cipherText, usedPrivateQuantumPreKey)
        DH_1 == ssecret(usedPrivateSignedPreKey, handshake.identityKey)
        DH_2 == ssecret(localIdentityKey, handshake.ephermoralKey)
        DH_3 == ssecret(usedPrivateSignedPreKey, handshake.ephermoralKey)
        DH_4 == {ssecret(k, handshake.ephermoralKey) : k \in usedPrivateOneTimePreKey}
    IN  KDF(kconcat(DH_1, DH_2, DH_3, DH_4, PQSS))

\* The overload of create_inbound_session that is given the private keys.
create_inbound_session(localIdentityKey, usedPrivateSignedPreKey, usedPrivateOneTimePreKey, usedPrivateQuantumPreKey, handshake) ==
    IF \/ decapsulate_throws(usedPrivateQuantumPreKey)
       \/ ssecret_throws(handshake.identityKey)
       \/ ssecret_throws(handshake.ephermoralKey)
    THEN Throws
    ELSE Some([remoteIdentityKey |-> handshake.identityKey,
               rootKey           |-> inbound_secret(localIdentityKey, usedPrivateSignedPreKey,
                                         usedPrivateOneTimePreKey, usedPrivateQuantumPreKey,
                                         handshake),
               remoteRatchetKey  |-> handshake.ephermoralKey])

\* The private quantum keys an application finds under an identifier.
QuantumPrivate(b, id) ==
    {k.key : k \in {x \in b.OneTimeQuantumKeys \cup {b.QuantumPreKey} : x.identifier = id}}

\* The choices an application has for the argument usedPrivateOneTimePreKey.
OneTimePrivate(b, h) ==
    IF Len(h.usedPreKeys) > 1
    THEN {{k.key} : k \in {x \in b.OneTimePreKeys : x.identifier = h.usedPreKeys[2]}}
    ELSE {{}}
=============================================================================
