-------------------------------- MODULE Keys --------------------------------
(***************************************************************************)
(* Symbolic keys and the primitives of gcrypt (protocol.hpp, util.hpp,     *)
(* keygen.cpp, algorithms.cpp).  A generated key pair is a positive        *)
(* natural number, its place in the order of generation; one number names  *)
(* both halves and the field it sits in says which half is meant.          *)
(* The number 0 is the key every key<N> object starts as: all zero bytes.  *)
(***************************************************************************)
EXTENDS Naturals

CONSTANTS
    keyid(_),       \* util::keyid: the 32-bit hash a public key is known by
    verify32(_,_,_) \* XedDSA::verify32(identity key, message, signature)

Key == Nat

\* key<N>'s storage after default construction.
ZeroKey == 0

\* util::kmatch: byte-wise equality of two keys.
kmatch(k1, k2) == k1 = k2

\* XedDSA::sign32 with private key K on message M (the nonce Z only
\* randomises the bytes, two signatures on the same M are both accepted).
sign32(K, M) == [by |-> K, msg |-> M]

Signature == [by : Key, msg : Key]

\* X25519::ssecret.  Diffie-Hellman is symmetric: the secret of private a and
\* public b is the secret of private b and public a.
ssecret(localPrivateKey, remotePublicKey) == {localPrivateKey, remotePublicKey}

\* crypto_scalarmult_curve25519 reports failure when the product is the
\* neutral element, as it is for the all-zero public key; ssecret then throws.
ssecret_throws(remotePublicKey) == remotePublicKey = ZeroKey

\* MLKEM_32::encapsulate to public key PK with the coins of one call.  The
\* shared secret and the cipher text carry the same information for whoever
\* holds the private half of PK, so one record stands for either.
encapsulate(PK, coins) == [kem |-> PK, coins |-> coins]

\* MLKEM_32::decapsulate.  With any other private key ML-KEM does not fail:
\* it returns an unrelated pseudo-random secret (implicit rejection).
decapsulate(cipherText, privateKey) ==
    IF cipherText.kem = privateKey
    THEN cipherText
    ELSE [kem |-> privateKey, rejected |-> cipherText]

\* crypto_kem_dec checks the hash inside the private key first; a key object
\* that was never filled does not pass it and decapsulate throws.
decapsulate_throws(privateKey) == privateKey = ZeroKey

\* A slip in util::kconcat for the mutation runs: only DH_1 reaches the hash.
kconcat_FirstOnly(DH_1, DH_2, DH_3, DH_4, SS) ==
    <<DH_1, {}, {}, {}, [kem |-> ZeroKey, coins |-> ZeroKey]>>

\* util::kconcat: DH_1 || DH_2 || DH_3 [|| DH_4] || SS.  DH_4 is the empty set
\* or the singleton of the fourth secret: the two concatenations differ in
\* length, so the inputs of the hash differ as well.
kconcat(DH_1, DH_2, DH_3, DH_4, SS) == <<DH_1, DH_2, DH_3, DH_4, SS>>

\* HKDF::KDF: a key that nothing but the same input gives.
KDF(input) == [hkdf |-> input]

CipherText == [kem : Key, coins : Key]
RootKey    == [hkdf : (SUBSET Key) \X (SUBSET Key) \X (SUBSET Key) \X (SUBSET SUBSET Key)
                          \X (CipherText \cup [kem : Key, rejected : CipherText])]

\* A blob is its size and the private key it can give back, if any.
Blob == [size : Nat, private : SUBSET Key]

\* util::key_bytes reserves room for the two halves and copies them into it,
\* but the vector's size stays 0: the span made from it, and handed to the
\* manager, is empty.
key_bytes(k) == [size |-> 0, private |-> {}]

-----------------------------------------------------------------------------
(* Hypotheses of the theorems about keyid and verify32 *)

\* What the proofs assume of util::keyid: a 32-bit word is a natural number.
KeyidNat == \A k \in Key : keyid(k) \in Nat

\* No two public keys collide, and no hash is the identifier 0 that the
\* last-resort quantum key is left with.
KeyidDistinct ==
    /\ \A j, k \in Key : keyid(j) = keyid(k) => j = k
    /\ \A k \in Key : keyid(k) # 0

\* verify32 accepts no signature but the ones sign32 makes with that identity
\* key on that message.
VerifySound == \A pk, msg, sig : verify32(pk, msg, sig) => sig = sign32(pk, msg)
=============================================================================
