------------------------------ MODULE Handshake ------------------------------
(***************************************************************************)
(* The PQXDH handshake between devices that call gcrypt without its        *)
(* storage layer (a GCRYPT_NOSTORE build): a device makes its local key    *)
(* bundle, its application publishes the public halves, another device     *)
(* creates an outbound session from what the server answers, and the       *)
(* handshake message, which the network may lose, duplicate, reorder or    *)
(* deliver to the wrong device, is turned into an inbound session by the   *)
(* overload of create_inbound_session that takes the private keys.         *)
(*                                                                         *)
(* The server and the application around the library are not in the        *)
(* repository.  The server hands out a one-time key once, but it may put   *)
(* keys of different publications into one bundle: catching that is what   *)
(* verify_foreign_bundle is for.                                           *)
(***************************************************************************)
EXTENDS Pqxdh, FiniteSets

CONSTANTS
    Device,      \* the devices
    PreKeyCount, \* GCRYPT_INITIAL_PREKEY_BUNDLE_COUNT
    MaxKeys,     \* bound on the number of generated key pairs and coins
    MaxSessions  \* bound on the number of outbound sessions

ASSUME BoundsAssumption == PreKeyCount \in Nat /\ MaxKeys \in Nat /\ MaxSessions \in Nat

VARIABLES
    nkeys,    \* key pairs and coins generated so far, in the whole system
    lkb,      \* lkb[d]: the local key bundle d's application holds, if any
    server,   \* the publications the server has received
    taken,    \* the one-time keys the server has handed out
    pinned,   \* pinned[d][e]: the identity key d trusts for e, if any
    outbound, \* the sessions create_outbound_session returned, as log entries
    inbound   \* the sessions create_inbound_session returned, as log entries

vars == <<nkeys, lkb, server, taken, pinned, outbound, inbound>>

-----------------------------------------------------------------------------
(* Data *)

\* What an application uploads for a bundle: public halves only, the signed
\* pre key and the one-time quantum keys signed with the identity key.
Publication(b) ==
    [identityKey        |-> b.IdentityKey,
     signedPreKey       |-> [key        |-> b.SignedPreKey.key,
                             identifier |-> b.SignedPreKey.identifier,
                             signature  |-> sign32(b.IdentityKey, b.SignedPreKey.key)],
     quantumPreKey      |-> [key        |-> b.QuantumPreKey.key,
                             identifier |-> b.QuantumPreKey.identifier,
                             signature  |-> {}],
     oneTimePreKeys     |-> b.OneTimePreKeys,
     oneTimeQuantumKeys |-> {[key        |-> k.key,
                              identifier |-> k.identifier,
                              signature  |-> {sign32(b.IdentityKey, k.key)}] :
                                k \in b.OneTimeQuantumKeys}]

\* The bundles the server can answer with.
Offers ==
    [identityKey   : {p.identityKey : p \in server},
     signedPreKey  : {p.signedPreKey : p \in server},
     qpubsidkey    : {p.quantumPreKey : p \in server}
                     \cup {q \in UNION {p.oneTimeQuantumKeys : p \in server} : q.key \notin taken},
     oneTimePreKey : {{}} \cup {{k} : k \in {x \in UNION {p.oneTimePreKeys : p \in server} :
                                                x.key \notin taken}}]

\* The one-time keys in a bundle.
OneTimeKeys(keys) ==
    {k.key : k \in keys.oneTimePreKey}
    \cup (IF keys.qpubsidkey.signature = {} THEN {} ELSE {keys.qpubsidkey.key})

-----------------------------------------------------------------------------
(* Actions *)

Init ==
    /\ nkeys = 0
    /\ lkb = [d \in Device |-> {}]
    /\ server = {}
    /\ taken = {}
    /\ pinned = [d \in Device |-> [e \in Device |-> {}]]
    /\ outbound = {}
    /\ inbound = {}

\* A slip for the mutation runs: the old bundle is kept beside the new one.
MakeLkb_Merge(d) ==
    /\ nkeys + LkbKeys(PreKeyCount) <= MaxKeys
    /\ lkb' = [lkb EXCEPT ![d] = @ \cup {make_lkb(nkeys, PreKeyCount)}]
    /\ nkeys' = nkeys + LkbKeys(PreKeyCount)
    /\ UNCHANGED <<server, taken, pinned, outbound, inbound>>

\* d calls make_lkb, for the first time or to register again; the bundle it
\* had is gone.  When ML-KEM key generation fails make_lkb throws before it
\* has changed anything: a stuttering step.
MakeLkb(d) ==
    /\ nkeys + LkbKeys(PreKeyCount) <= MaxKeys
    /\ lkb' = [lkb EXCEPT ![d] = {make_lkb(nkeys, PreKeyCount)}]
    /\ nkeys' = nkeys + LkbKeys(PreKeyCount)
    /\ UNCHANGED <<server, taken, pinned, outbound, inbound>>

\* d's application uploads the public half of its bundle.
Publish(d) ==
    /\ server' = server \cup {Publication(b) : b \in lkb[d]}
    /\ UNCHANGED <<nkeys, lkb, taken, pinned, outbound, inbound>>

\* What d's application does with the outcome of create_outbound_session: it
\* keeps and sends a session that was returned, and trusts its identity key.
KeepOutbound(d, e, localIdentity, keys, result) ==
    IF result.returns = "some"
    THEN /\ nkeys' = nkeys + 2
         /\ outbound' = outbound \cup
                {[by |-> d, peer |-> e, localIdentity |-> localIdentity, keys |-> keys,
                  session   |-> result.value.session,
                  handshake |-> result.value.handshakeMessage]}
         /\ pinned' = [pinned EXCEPT ![d][e] = {result.value.session.remoteIdentityKey}]
    ELSE UNCHANGED <<nkeys, outbound, pinned>>

\* d asks the server for keys of e, is given the bundle keys and calls
\* create_outbound_session, verifying against identity.  The encapsulation may
\* fail for reasons of the library's, and then the call throws.
Initiate(d, e, identity, keys) ==
    /\ nkeys + 2 <= MaxKeys
    /\ Cardinality(outbound) < MaxSessions
    /\ taken' = taken \cup OneTimeKeys(keys)
    /\ \E b \in lkb[d] :
          \E result \in {Throws, create_outbound_session(b.IdentityKey, identity, keys,
                                                         nkeys + 1, nkeys + 2)} :
              KeepOutbound(d, e, b.IdentityKey, keys, result)
    /\ UNCHANGED <<lkb, server, inbound>>

\* First contact: the bundle is verified against the identity key it brings.
InitiateNew(d, e) ==
    /\ pinned[d][e] = {}
    /\ \E keys \in Offers : Initiate(d, e, keys.identityKey, keys)

\* Known contact: the bundle is verified against the identity key of old.
InitiateExisting(d, e) ==
    \E identity \in pinned[d][e], keys \in Offers : Initiate(d, e, identity, keys)

\* d calls create_inbound_session with private keys of its bundle b, and keeps
\* the session that is returned.  The log entry has the arguments of the call.
Accept(d, b, opk, q, h) ==
    LET result == create_inbound_session(b.IdentityKey, b.SignedPreKey.key, opk, q, h)
    IN  /\ result.returns = "some"
        /\ inbound' = inbound \cup
               {[at |-> d, localIdentity |-> b.IdentityKey, signedPreKey |-> b.SignedPreKey.key,
                 oneTimePreKey |-> opk, quantumPreKey |-> q, handshake |-> h,
                 session |-> result.value]}

\* A handshake some device sent reaches d.  The application looks the private
\* keys up by the identifiers in the message, in its current bundle; when it
\* does not hold one of them it cannot call.
Receive(d, h) ==
    /\ \E b \in lkb[d] :
          /\ h.usedPreKeys[1] = b.SignedPreKey.identifier
          /\ \E q \in QuantumPrivate(b, h.usedQuantumPreKeys[1]), opk \in OneTimePrivate(b, h) :
                Accept(d, b, opk, q, h)
    /\ UNCHANGED <<nkeys, lkb, server, taken, pinned, outbound>>

Next ==
    \E d \in Device :
        \/ MakeLkb(d)
        \/ Publish(d)
        \/ \E e \in Device \ {d} : InitiateNew(d, e) \/ InitiateExisting(d, e)
        \/ \E o \in outbound : Receive(d, o.handshake)

Spec == Init /\ [][Next]_vars

\* The network eventually delivers, and the application eventually processes,
\* a handshake the device holds the keys for.
FairSpec == Spec /\ \A d \in Device : WF_vars(\E o \in outbound : Receive(d, o.handshake))

-----------------------------------------------------------------------------
(* Properties *)

PublicationSet ==
    [identityKey : Key, signedPreKey : SignedIdKey, quantumPreKey : QuantumKey,
     oneTimePreKeys : SUBSET IdKey, oneTimeQuantumKeys : SUBSET QuantumKey]

OutboundEntry ==
    [by : Device, peer : Device, localIdentity : Key, keys : Bundle,
     session : Session, handshake : Message]

InboundEntry ==
    [at : Device, localIdentity : Key, signedPreKey : Key, oneTimePreKey : SUBSET Key,
     quantumPreKey : Key, handshake : Message, session : Session]

\* Every variable has the type of the C++ data it stands for; an optional
\* bundle or identity key has at most one value.
TypeOK ==
    /\ nkeys \in 0 .. MaxKeys
    /\ lkb \in [Device -> SUBSET LocalBundle]
    /\ \A d \in Device : IsOptional(lkb[d])
    /\ server \subseteq PublicationSet
    /\ taken \subseteq Key
    /\ pinned \in [Device -> [Device -> SUBSET Key]]
    /\ \A d, e \in Device : IsOptional(pinned[d][e])
    /\ outbound \subseteq OutboundEntry
    /\ inbound \subseteq InboundEntry

\* The quantum key of a bundle is a signed one-time key, or the last-resort
\* key that was published together with the bundle's signed pre key.
QuantumKeyFits(keys) ==
    \/ keys.qpubsidkey.signature # {}
    \/ \E p \in server : p.signedPreKey = keys.signedPreKey /\ p.quantumPreKey = keys.qpubsidkey

SameView(i, o) ==
    /\ i.session.rootKey = o.session.rootKey
    /\ i.session.remoteIdentityKey = o.localIdentity
    /\ o.session.remoteIdentityKey = i.localIdentity

\* When a handshake made by create_outbound_session is accepted by
\* create_inbound_session, on whichever device, after whatever registrations,
\* duplications and delays, both ends hold the same root key and each names
\* the other's identity key, provided the bundle's quantum key fits.
KeyAgreement ==
    \A i \in inbound, o \in outbound :
        i.handshake = o.handshake /\ QuantumKeyFits(o.keys) => SameView(i, o)

\* The same for every bundle create_outbound_session accepted: the protocol
\* document says the call "makes sure the server data is correct and that the
\* keys are valid".
AcceptedBundleAgreement ==
    \A i \in inbound, o \in outbound : i.handshake = o.handshake => SameView(i, o)

\* A root key is shared by exactly the two ends of one handshake: two outbound
\* sessions never have the same one, and an inbound session has the root key
\* of an outbound session only if it was made from its handshake.
RootKeyNamesHandshake ==
    /\ \A o1, o2 \in outbound : o1.session.rootKey = o2.session.rootKey => o1 = o2
    /\ \A i \in inbound, o \in outbound :
           i.session.rootKey = o.session.rootKey => i.handshake = o.handshake

\* All sessions a device creates with a contact name the identity key of the
\* first one, even when the contact registered again in between or the server
\* answers with keys of somebody else.
IdentityContinuity ==
    \A o1, o2 \in outbound :
        o1.by = o2.by /\ o1.peer = o2.peer
            => o1.session.remoteIdentityKey = o2.session.remoteIdentityKey

\* keys holds nothing but the public halves of d's current bundle.
KeysOf(d, keys) ==
    \E b \in lkb[d] : LET p == Publication(b) IN
        /\ keys.identityKey = p.identityKey
        /\ keys.signedPreKey = p.signedPreKey
        /\ keys.qpubsidkey \in p.oneTimeQuantumKeys \cup {p.quantumPreKey}
        /\ keys.oneTimePreKey \subseteq p.oneTimePreKeys

\* The devices whose current bundle an outbound session was made from.
Recipient(o) == {d \in Device : KeysOf(d, o.keys)}

\* A handshake made from keys of a device's current bundle leads to an inbound
\* session of that device with the initiator's root key, unless the device
\* registers again.
HandshakeCompletes ==
    \A ek \in 1 .. MaxKeys :
        (\E o \in outbound : o.handshake.ephermoralKey = ek /\ Recipient(o) # {})
        ~> \E o \in outbound :
              /\ o.handshake.ephermoralKey = ek
              /\ \A d \in Recipient(o) :
                    \E i \in inbound : i.at = d /\ i.handshake = o.handshake /\ SameView(i, o)

-----------------------------------------------------------------------------
(* The key exchange the handshake implements *)

\* An inbound session whose handshake was made from a bundle that fits.
FitInbound ==
    {i \in inbound : \A o \in outbound : i.handshake = o.handshake => QuantumKeyFits(o.keys)}

\* The exchange a session takes part in, as its initiator and as its responder
\* see it.
Proposal(o) ==
    [secret |-> o.session.rootKey, initiator |-> o.localIdentity,
     responder |-> o.session.remoteIdentityKey]

Acceptance(i) ==
    [secret |-> i.session.rootKey, initiator |-> i.session.remoteIdentityKey,
     responder |-> i.localIdentity]

\* The sessions create_outbound_session returned are the proposals, and the
\* sessions create_inbound_session returned are what is accepted.
Exchange == INSTANCE KeyExchange WITH
    proposed <- {Proposal(o) : o \in outbound},
    accepted <- {Acceptance(i) : i \in FitInbound}

\* The handshake is a key exchange, although its messages are lost, duplicated,
\* reordered and misdelivered and devices register again: no secret is agreed
\* on by others than the two ends of one proposal.
IsExchange == Exchange!Spec

-----------------------------------------------------------------------------
(* The inductive invariants behind KeyAgreement and IdentityContinuity *)

\* The three long-term keys of a bundle are generated one after the other, and
\* all identifiers but the last-resort key's are hashes of the keys they name.
BundleShape(b) ==
    /\ b.SignedPreKey = X25519_make_id_pair(b.IdentityKey + 1)
    /\ b.QuantumPreKey = MLKEM_32_make_id_pair(b.IdentityKey + 2)
    /\ \A k \in b.OneTimePreKeys \cup b.OneTimeQuantumKeys : k.identifier = keyid(k.key)

PublicationShape(p) ==
    /\ p.signedPreKey = [key        |-> p.identityKey + 1,
                         identifier |-> keyid(p.identityKey + 1),
                         signature  |-> sign32(p.identityKey, p.identityKey + 1)]
    /\ p.quantumPreKey = [key |-> p.identityKey + 2, identifier |-> 0, signature |-> {}]
    /\ \A k \in p.oneTimePreKeys : k.identifier = keyid(k.key)
    /\ \A k \in p.oneTimeQuantumKeys : k.identifier = keyid(k.key) /\ k.signature # {}

\* A bundle that passed verify_foreign_bundle has the signed pre key of its
\* identity key, and its identifiers are hashes again.
AcceptedShape(keys) ==
    /\ keys.signedPreKey.key = keys.identityKey + 1
    /\ keys.signedPreKey.identifier = keyid(keys.identityKey + 1)
    /\ \A k \in keys.oneTimePreKey : k.identifier = keyid(k.key)
    /\ IsOptional(keys.oneTimePreKey)
    /\ keys.qpubsidkey.identifier =
           IF keys.qpubsidkey.signature = {} THEN 0 ELSE keyid(keys.qpubsidkey.key)

\* An outbound session is what create_outbound_session computes from its keys.
OutboundShape(o) ==
    /\ AcceptedShape(o.keys)
    /\ o.session.remoteIdentityKey = o.keys.identityKey
    /\ o.session.rootKey = outbound_secret(o.localIdentity, o.keys, o.handshake.ephermoralKey,
                                           o.handshake.cipherText)
    /\ o.handshake.identityKey = o.localIdentity
    /\ o.handshake.cipherText.kem = o.keys.qpubsidkey.key
    /\ o.handshake.usedPreKeys = used_pre_keys(o.keys)
    /\ o.handshake.usedQuantumPreKeys = <<o.keys.qpubsidkey.identifier>>

\* An inbound session is what create_inbound_session computes from private
\* keys that carry the identifiers in the handshake.
InboundShape(i) ==
    /\ i.signedPreKey = i.localIdentity + 1
    /\ i.handshake.usedPreKeys[1] = keyid(i.signedPreKey)
    /\ IF Len(i.handshake.usedPreKeys) > 1
       THEN \E k \in i.oneTimePreKey : /\ i.oneTimePreKey = {k}
                                       /\ i.handshake.usedPreKeys[2] = keyid(k)
       ELSE i.oneTimePreKey = {}
    /\ \/ /\ i.handshake.usedQuantumPreKeys[1] = 0
          /\ i.quantumPreKey = i.localIdentity + 2
       \/ i.handshake.usedQuantumPreKeys[1] = keyid(i.quantumPreKey)
    /\ i.session.remoteIdentityKey = i.handshake.identityKey
    /\ i.session.rootKey = inbound_secret(i.localIdentity, i.signedPreKey, i.oneTimePreKey,
                                          i.quantumPreKey, i.handshake)

AgreementInv ==
    /\ TypeOK
    /\ \A d \in Device : \A b \in lkb[d] : BundleShape(b)
    /\ \A p \in server : PublicationShape(p)
    /\ \A o \in outbound : OutboundShape(o)
    /\ \A i \in inbound : InboundShape(i)

\* A device trusts the identity key of every session it has with a contact.
PinnedInv ==
    /\ TypeOK
    /\ \A o \in outbound : pinned[o.by][o.peer] = {o.session.remoteIdentityKey}

\* The encapsulation coins name an outbound session, and the last part of a
\* root key tells them.
FreshInv ==
    /\ TypeOK
    /\ \A o \in outbound : /\ o.handshake.cipherText.coins <= nkeys
                           /\ o.session.rootKey.hkdf[5] = o.handshake.cipherText
    /\ \A o1, o2 \in outbound :
          o1.handshake.cipherText.coins = o2.handshake.cipherText.coins => o1 = o2
    /\ \A i \in inbound : /\ \E o \in outbound : i.handshake = o.handshake
                          /\ i.session.rootKey.hkdf[5]
                                 = decapsulate(i.handshake.cipherText, i.quantumPreKey)
=============================================================================
