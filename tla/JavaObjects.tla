----------------------------- MODULE JavaObjects -----------------------------
(***************************************************************************)
(* The object conversions of the JNI bridge (ext/java: gcrypt::jniOM::from *)
(* and gcrypt::jniOM::to) as operators.  A Java reference is a set of at   *)
(* most one object, and empty for null; a conversion back to C++ yields    *)
(* the std::optional of Pqxdh, empty for std::nullopt.                     *)
(*                                                                         *)
(* A uint32_t travels as a signed jint.  Their number of values is the     *)
(* constant Width, 2^32 in the code.                                       *)
(***************************************************************************)
EXTENDS Pqxdh, Integers

CONSTANT Width \* number of values of uint32_t and of jint

ASSUME WidthAssumption == Width \in Nat \ {0} /\ Width % 2 = 0

Null == {}

-----------------------------------------------------------------------------
(* Scalars and byte arrays *)

\* Slips for the mutation runs: the magnitude is taken, or the sign is lost.
jint_Magnitude(u) == IF 2 * u < Width THEN u ELSE Width - u
uint32_t_Abs(j) == IF j < 0 THEN -j ELSE j

\* static_cast<jint> of a uint32_t, and static_cast<uint32_t> of a jint.
jint(u) == IF 2 * u < Width THEN u ELSE u - Width
uint32_t(j) == IF j < 0 THEN j + Width ELSE j

\* Sizes in bytes, protocol.hpp.
xckey_size     == 32
qpubkey_size   == 1568
qprivkey_size  == 3168
signature_size == 64

\* from::key: a new byte[] of the key's size.
from_key(k, size) == {[size |-> size, bytes |-> k]}

\* to::to_key accepts arrays of exactly the key's size.
to_key(array, size) == {a.bytes : a \in {x \in array : x.size = size}}

\* The int[] of a vector of identifiers, and the vector of an int[]: resized
\* to the array's length, and left empty for null.
from_ids(ids) == {[i \in DOMAIN ids |-> jint(ids[i])]}

to_ids(array) ==
    IF array = Null
    THEN <<>>
    ELSE LET ints == CHOOSE a \in array : TRUE IN [i \in DOMAIN ints |-> uint32_t(ints[i])]

-----------------------------------------------------------------------------
(* From C++ to Java *)

\* from::key_pair, for the pair k whose halves have these sizes.
from_key_pair(k, public, private) ==
    [publicKey |-> from_key(k, public), privateKey |-> from_key(k, private)]

from_id_key(k, size) ==
    [class |-> "GcryptIdKey", key |-> from_key(k.key, size), identifier |-> jint(k.identifier)]

from_sid_key(k, size) ==
    [class      |-> "GcryptSidKey",
     key        |-> from_key(k.key, size),
     identifier |-> jint(k.identifier),
     signature  |-> from_key(k.signature, signature_size)]

\* from::key_pair_map: the HashMap as the set of its entries.
from_key_pair_map(m, public, private) ==
    {[key |-> jint(k.identifier), value |-> from_key_pair(k.key, public, private)] : k \in m}

\* from::local_key_bundle.  The identifiers of the signed pre key and of the
\* last-resort quantum key have no place in a GcryptKeyPair.
from_local_key_bundle(b) ==
    [identityKey        |-> from_key_pair(b.IdentityKey, xckey_size, xckey_size),
     signedPreKey       |-> from_key_pair(b.SignedPreKey.key, xckey_size, xckey_size),
     quantumPreKey      |-> from_key_pair(b.QuantumPreKey.key, qpubkey_size, qprivkey_size),
     oneTimePreKeys     |-> from_key_pair_map(b.OneTimePreKeys, xckey_size, xckey_size),
     oneTimeQuantumKeys |-> from_key_pair_map(b.OneTimeQuantumKeys, qpubkey_size, qprivkey_size)]

\* from::refill_payload, from::id_key_vector and from::sid_key_vector.
from_refill_payload(p) ==
    [oneTimePreKeys |->
        [i \in DOMAIN p.oneTimePreKeys |-> from_id_key(p.oneTimePreKeys[i], xckey_size)],
     signedOneTimeQuantumPreKeys |->
        [i \in DOMAIN p.signedOneTimeQuantumPreKeys |->
            from_sid_key(p.signedOneTimeQuantumPreKeys[i], qpubkey_size)]]

from_initial_handshake(h) ==
    [identityKey        |-> from_key(h.identityKey, xckey_size),
     ephemeralKey       |-> from_key(h.ephermoralKey, xckey_size),
     cipherText         |-> from_key(h.cipherText, qpubkey_size),
     usedPreKeys        |-> from_ids(h.usedPreKeys),
     usedQuantumPreKeys |-> from_ids(h.usedQuantumPreKeys)]

\* from::messaging_session gives null for every session.
from_messaging_session(session) == Null

\* When an inner conversion fails the code stores null in the field and goes on,
\* but FindClass, GetMethodID, NewObject or New*Array have then left a Java
\* exception pending: the application gets the exception and no object, which is
\* Null for the whole result, here as in the other conversions.
from_session_init_result(r) ==
    [session          |-> from_messaging_session(r.session),
     handshakeMessage |-> {from_initial_handshake(r.handshakeMessage)}]

-----------------------------------------------------------------------------
(* From Java to C++ *)

to_id_key(object, size) ==
    UNION {{[key |-> k, identifier |-> uint32_t(o.identifier)] : k \in to_key(o.key, size)} :
              o \in object}

to_sid_key(object, size) ==
    UNION {{[key |-> k, identifier |-> uint32_t(o.identifier), signature |-> s] :
                k \in to_key(o.key, size), s \in to_key(o.signature, signature_size)} :
              o \in object}

\* The variant in a foreign bundle: the object's class decides which one.
to_quantum_key(object) ==
    LET signed   == {o \in object : o.class = "GcryptSidKey"}
        unsigned == object \ signed
    IN  {[key |-> k.key, identifier |-> k.identifier, signature |-> {k.signature}] :
            k \in to_sid_key(signed, qpubkey_size)}
        \cup {[key |-> k.key, identifier |-> k.identifier, signature |-> {}] :
                  k \in to_id_key(unsigned, qpubkey_size)}

\* to::foreignpk_bundle gives up when one of the first three keys is null or
\* malformed.  A malformed one-time key is taken for a missing one.
to_foreignpk_bundle(object) ==
    UNION {[identityKey   : to_key(o.identityKey, xckey_size),
            signedPreKey  : to_sid_key(o.signedPreKey, xckey_size),
            qpubsidkey    : to_quantum_key(o.quantumPreKey),
            oneTimePreKey : {to_id_key(o.oneTimePreKey, xckey_size)}] : o \in object}

to_initial_handshake(object) ==
    UNION {[identityKey        : to_key(o.identityKey, xckey_size),
            ephermoralKey      : to_key(o.ephemeralKey, xckey_size),
            cipherText         : to_key(o.cipherText, qpubkey_size),
            usedPreKeys        : {to_ids(o.usedPreKeys)},
            usedQuantumPreKeys : {to_ids(o.usedQuantumPreKeys)}] : o \in object}
=============================================================================
