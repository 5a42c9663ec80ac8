----------------------------- MODULE PrekeyStore -----------------------------
(***************************************************************************)
(* gcrypt with its storage layer (pqxdh.cpp without GCRYPT_NOSTORE,        *)
(* store.hpp, util::key_bytes, util::load_keyb_s): one device whose        *)
(* application implements storage_manager, registers, refills its one-time *)
(* keys and answers handshakes with the overload of create_inbound_session *)
(* that looks the private keys up in storage.                              *)
(*                                                                         *)
(* The records survive a restart, everything else the device has is lost.  *)
(* The manager is the application's: a store may be refused, and may be    *)
(* refused although the record has been written.                           *)
(***************************************************************************)
EXTENDS Pqxdh, FiniteSets

CONSTANTS
    PreKeyCount, \* GCRYPT_INITIAL_PREKEY_BUNDLE_COUNT
    MaxRefill,   \* the largest Count refill is called with
    MaxKeys,     \* bound on the number of generated key pairs and coins
    MaxSent      \* bound on the number of handshakes a peer sends

ASSUME StoreBounds == /\ PreKeyCount \in Nat /\ MaxRefill \in Nat
                      /\ MaxKeys \in Nat /\ MaxSent \in Nat

VARIABLES
    nkeys,    \* key pairs and coins generated so far, in the whole system
    istore,   \* GCRYPT_ISTORE points to a manager
    identity, \* the stored identity key blob, if any
    records,  \* the stored prekey records
    session,  \* the bundle make_lkb returned, if any
    call,     \* the call of refill in progress, if any
    returned, \* the public one-time keys refill has returned
    sent,     \* the handshakes a peer has made from the device's public keys
    answered  \* the outcomes of create_inbound_session(handshake)

stored   == <<identity, records>>
volatile == <<istore, session, call>>
vars     == <<nkeys, stored, volatile, returned, sent, answered>>

-----------------------------------------------------------------------------
(* Blobs and records *)

\* Sizes in bytes, protocol.hpp.
xckey_size == 32
MLKEM_PKB  == 1568
MLKEM_SKB  == 3168

KeyType == {"PREKEY", "QUANTUM"}

Record == [id : Nat, type : KeyType, blob : Blob]

\* util::load_keyb and load_keyb_s: TRUE when size bytes are there at offset.
\* The key the bytes are copied to is filled exactly when it is.
load_keyb_s(bytes, size, offset) == size + offset <= bytes.size

\* What the application itself writes for a key pair, Public || Private.
PairBlob(k, size) == [size |-> size, private |-> {k}]

\* storage_manager::store_one_time_prekey: records are mapped by id.
Put(r, rs) == {x \in rs : x.id # r.id} \cup {r}

\* storage_manager::load_one_time_prekey, as the set of blobs a manager may
\* return: the key type is only there to tell the size, so a manager may or
\* may not compare it.
Load(id, type) ==
    LET found == {r \in records : r.id = id}
    IN  IF \E r \in found : r.type = type
        THEN {{r.blob} : r \in found}
        ELSE {{}} \cup {{r.blob} : r \in found}

-----------------------------------------------------------------------------
(* The storage overload of create_inbound_session *)

\* The test behind each of the four loads: the function gives up when there
\* is no blob, and also when load_keyb_s reports that it has filled the key.
\* It goes on only when the blob was too short, with the key still all zero.
gives_up(blob, size, offset) == blob = {} \/ \E x \in blob : load_keyb_s(x, size, offset)

\* Identifiers the quantum key may be looked up with.  The code takes
\* usedPreKeys[1] (counting from 0): the one-time key's identifier, or, when
\* there is none, whatever lies behind the vector's only element.
QuantumLookup(h) ==
    IF Len(h.usedPreKeys) > 1 THEN {h.usedPreKeys[2]} ELSE {r.id : r \in records} \cup {0}

\* The results the overload may have for handshake h.
create_inbound_session_stored(h) ==
    LET oneTime == Len(h.usedPreKeys) > 1
        spks == Load(h.usedPreKeys[1], "PREKEY")
        opks == IF oneTime THEN Load(h.usedPreKeys[2], "PREKEY") ELSE {{}}
        qpks == UNION {Load(id, "QUANTUM") : id \in QuantumLookup(h)}
        zero == create_inbound_session(ZeroKey, ZeroKey, IF oneTime THEN {ZeroKey} ELSE {},
                                       ZeroKey, h)
        outcome(spk, opk, qpk) ==
            IF \/ gives_up(identity, xckey_size, 0)
               \/ gives_up(identity, xckey_size, xckey_size)
               \/ gives_up(spk, xckey_size, xckey_size)
               \/ oneTime /\ gives_up(opk, xckey_size, xckey_size)
               \/ gives_up(qpk, MLKEM_SKB, MLKEM_SKB)
            THEN Nullopt
            ELSE zero
    IN  IF ~istore THEN {Throws}
        ELSE IF Len(h.usedPreKeys) < 1 THEN {Nullopt}
        ELSE {outcome(x[1], x[2], x[3]) : x \in spks \X opks \X qpks}

-----------------------------------------------------------------------------
(* Actions *)

Init ==
    /\ nkeys = 0
    /\ istore = FALSE
    /\ identity = {}
    /\ records = {}
    /\ session = {}
    /\ call = {}
    /\ returned = {}
    /\ sent = {}
    /\ answered = {}

\* store::Init registers the application's manager.
StoreInit ==
    /\ istore' = TRUE
    /\ UNCHANGED <<nkeys, stored, session, call, returned, sent, answered>>

\* make_lkb: all pairs are generated, the identity pair is stored, and only
\* then is the bundle returned.  When the manager refuses, make_lkb throws
\* and the application keeps the bundle it had.  When a key generation fails,
\* or no manager is registered, it throws before it has changed anything.
\* The application does not register again while refill, which reads the
\* identity key of its bundle through a reference, is running.
MakeLkb ==
    /\ istore /\ call = {}
    /\ nkeys + LkbKeys(PreKeyCount) <= MaxKeys
    /\ nkeys' = nkeys + LkbKeys(PreKeyCount)
    /\ \/ /\ identity' = {key_bytes(nkeys + 1)}
          /\ session' = {make_lkb(nkeys, PreKeyCount)}
       \/ /\ identity' \in {identity, {key_bytes(nkeys + 1)}}
          /\ session' = session
    /\ UNCHANGED <<istore, records, call, returned, sent, answered>>

\* The application saves the long-term pre keys of its bundle under their
\* identifiers; make_lkb stores none of them.
SaveLocalKeys ==
    /\ \E b \in session :
          records' = Put([id   |-> b.SignedPreKey.identifier, type |-> "PREKEY",
                          blob |-> PairBlob(b.SignedPreKey.key, 2 * xckey_size)],
                     Put([id   |-> b.QuantumPreKey.identifier, type |-> "QUANTUM",
                          blob |-> PairBlob(b.QuantumPreKey.key, MLKEM_PKB + MLKEM_SKB)],
                         records))
    /\ UNCHANGED <<nkeys, identity, volatile, returned, sent, answered>>

\* refill is called with the private identity key of the session; Count > 0.
RefillCall ==
    /\ istore /\ call = {}
    /\ \E b \in session, Count \in 1 .. MaxRefill :
          call' = {[privIdentityKey |-> b.IdentityKey, left |-> Count, next |-> "PREKEY",
                    payload |-> {}]}
    /\ UNCHANGED <<nkeys, stored, istore, session, returned, sent, answered>>

\* A key refill puts into its payload; quantum keys are signed.
PayloadKey(k, type, privIdentityKey) ==
    [key |-> k, identifier |-> keyid(k), type |-> type,
     signature |-> IF type = "QUANTUM" THEN {sign32(privIdentityKey, k)} ELSE {}]

\* refill's call after the key k has been pushed; the loop ends after the
\* quantum key of the last round.
Pushed(c, k) ==
    [privIdentityKey |-> c.privIdentityKey,
     left    |-> IF c.next = "QUANTUM" THEN c.left - 1 ELSE c.left,
     next    |-> IF c.next = "QUANTUM" THEN "PREKEY" ELSE "QUANTUM",
     payload |-> c.payload \cup {PayloadKey(k, c.next, c.privIdentityKey)}]

\* A slip for the mutation runs: the end of the loop is never noticed.
PushOrReturn_NoEnd(c) == call' = {Pushed(c, nkeys + 1)} /\ UNCHANGED returned

\* The rest of one half round of refill's loop, its key stored and pushed.
PushOrReturn(c) ==
    LET d == Pushed(c, nkeys + 1)
    IN  IF d.left = 0
        THEN call' = {} /\ returned' = returned \cup d.payload
        ELSE call' = {d} /\ UNCHANGED returned

\* A slip for the mutation runs: the key is pushed before it is stored.
RefillStep_PushFirst ==
    /\ nkeys < MaxKeys
    /\ nkeys' = nkeys + 1
    /\ \E c \in call :
          /\ PushOrReturn(c)
          /\ records' \in {records, Put([id |-> keyid(nkeys + 1), type |-> c.next,
                                         blob |-> key_bytes(nkeys + 1)], records)}
    /\ UNCHANGED <<identity, istore, session, sent, answered>>

\* A slip for the mutation runs: the quantum key's blob is stored under the
\* identifier of the curve key before it.
RefillStep_WrongId ==
    /\ nkeys < MaxKeys
    /\ nkeys' = nkeys + 1
    /\ \E c \in call :
          LET r == [id   |-> keyid(IF c.next = "QUANTUM" THEN nkeys ELSE nkeys + 1),
                    type |-> c.next, blob |-> key_bytes(nkeys + 1)]
          IN  \/ records' = Put(r, records) /\ PushOrReturn(c)
              \/ records' \in {records, Put(r, records)} /\ call' = {} /\ UNCHANGED returned
    /\ UNCHANGED <<identity, istore, session, sent, answered>>

\* One half round of refill's loop: a pair is generated, its blob stored, and
\* the public key pushed.  When the manager refuses the blob, or the pair
\* could not be generated, refill throws and its payload is lost.
RefillStep ==
    /\ nkeys < MaxKeys
    /\ nkeys' = nkeys + 1
    /\ \E c \in call :
          LET r == [id |-> keyid(nkeys + 1), type |-> c.next, blob |-> key_bytes(nkeys + 1)]
          IN  \/ records' = Put(r, records) /\ PushOrReturn(c)
              \/ records' \in {records, Put(r, records)} /\ call' = {} /\ UNCHANGED returned
    /\ UNCHANGED <<identity, istore, session, sent, answered>>

\* The bundles a server can make of what the device has published.
Offers ==
    {[identityKey   |-> b.IdentityKey,
      signedPreKey  |-> [key |-> b.SignedPreKey.key, identifier |-> b.SignedPreKey.identifier,
                         signature |-> sign32(b.IdentityKey, b.SignedPreKey.key)],
      qpubsidkey    |-> q,
      oneTimePreKey |-> o] :
        b \in session,
        q \in {[key |-> b.QuantumPreKey.key, identifier |-> b.QuantumPreKey.identifier,
                signature |-> {}] : b \in session}
              \cup {[key |-> k.key, identifier |-> k.identifier, signature |-> k.signature] :
                      k \in {k \in returned : k.type = "QUANTUM"}},
        o \in {{}} \cup {{[key |-> k.key, identifier |-> k.identifier]} :
                      k \in {k \in returned : k.type = "PREKEY"}}}

\* A peer, whose identity key is the first of three new pairs, creates an
\* outbound session from such a bundle and sends its handshake.
PeerSends ==
    /\ nkeys + 3 <= MaxKeys
    /\ Cardinality(sent) < MaxSent
    /\ nkeys' = nkeys + 3
    /\ \E keys \in Offers :
          LET result == create_outbound_session(nkeys + 1, keys.identityKey, keys,
                                                nkeys + 2, nkeys + 3)
          IN  /\ result.returns = "some"
              /\ sent' = sent \cup {result.value.handshakeMessage}
    /\ UNCHANGED <<stored, volatile, returned, answered>>

\* There are records for all the keys h was made with.
Held(h) ==
    /\ identity # {}
    /\ \A n \in DOMAIN h.usedPreKeys :
          \E r \in records : r.id = h.usedPreKeys[n] /\ r.type = "PREKEY"
    /\ \E r \in records : r.id = h.usedQuantumPreKeys[1] /\ r.type = "QUANTUM"

\* The device calls create_inbound_session(h).
Answer(h) ==
    /\ \E result \in create_inbound_session_stored(h) :
          answered' = answered \cup {[handshake |-> h, returns |-> result.returns,
                                      registered |-> istore, held |-> Held(h)]}
    /\ UNCHANGED <<nkeys, stored, volatile, returned, sent>>

\* The process ends, at any point of a call, and starts again.
Restart ==
    /\ istore' = FALSE
    /\ session' = {}
    /\ call' = {}
    /\ UNCHANGED <<nkeys, stored, returned, sent, answered>>

Next ==
    \/ StoreInit
    \/ MakeLkb
    \/ SaveLocalKeys
    \/ RefillCall
    \/ RefillStep
    \/ PeerSends
    \/ \E h \in sent : Answer(h)
    \/ Restart

Spec == Init /\ [][Next]_vars

-----------------------------------------------------------------------------
(* Properties *)

ReturnedKey == [key : Key, identifier : Nat, type : KeyType, signature : SUBSET Signature]

Call == [privIdentityKey : Key, left : Nat, next : KeyType, payload : SUBSET ReturnedKey]

\* Every variable has the type of the C++ data it stands for, and no two
\* records have the same id.
TypeOK ==
    /\ nkeys \in 0 .. MaxKeys
    /\ istore \in BOOLEAN
    /\ identity \subseteq Blob
    /\ records \subseteq Record
    /\ \A r, s \in records : r.id = s.id => r = s
    /\ session \subseteq LocalBundle
    /\ call \subseteq Call
    /\ returned \subseteq ReturnedKey
    /\ sent \subseteq Message
    /\ answered \subseteq [handshake : Message, returns : {"some", "nullopt", "throws"},
                           registered : BOOLEAN, held : BOOLEAN]

\* Every one-time public key refill has handed out has a record under its
\* identifier, whatever stores failed and wherever the process was ended:
\* nobody can be sent a key the device knows nothing of.
RefillBacked ==
    \A k \in returned : \E r \in records : r.id = k.identifier /\ r.type = k.type

\* The record of a one-time key gives the private key back: "This should
\* contain the private bytes of the key." (store.hpp)
RecordsHoldPrivateKey ==
    \A k \in returned : \E r \in records : r.id = k.identifier /\ k.key \in r.blob.private

\* A handshake all of whose keys have records leads to a session: "Bob now has
\* this handshake, and can call create_inbound_session(handshakeMessage)."
HeldHandshakeAccepted ==
    \A a \in answered : a.registered /\ a.held => a.returns = "some"

\* The records of the storage manager keep the one-time keys refill returns.
Promises == INSTANCE PromisedKeys WITH
    kept     <- {<<r.id, r.type>> : r \in records},
    promised <- {<<k.identifier, k.type>> : k \in returned}

\* No refused store, restart, further refill or registration loses a record,
\* and no key is handed out without one.
KeepsPromises == Promises!Spec

-----------------------------------------------------------------------------
(* The inductive invariants behind TypeOK, RefillBacked and KeepsPromises *)

\* A call of refill that is in progress has a round to go.
TypeInv == TypeOK /\ \A c \in call : c.left > 0

\* The keys refill has returned or is about to return.
Promised == returned \cup UNION {c.payload : c \in call}

\* A promised key is known by its hash, has a record, and is no signed pre
\* key: saving the local keys, or a key not yet generated, replaces no record
\* of a promised key.
BackedInv ==
    /\ nkeys \in Nat
    /\ \A c, d \in call : c = d
    /\ \A k \in Promised :
          /\ k.key \in 1 .. nkeys
          /\ k.identifier = keyid(k.key)
          /\ \E r \in records : r.id = k.identifier /\ r.type = k.type
    /\ \A b \in session :
          /\ b.SignedPreKey.key \in 1 .. nkeys
          /\ b.SignedPreKey.identifier = keyid(b.SignedPreKey.key)
          /\ b.QuantumPreKey.identifier = 0
          /\ \A k \in Promised : k.key # b.SignedPreKey.key

\* The identifier of a record tells its sort: a record is put only where there
\* is none, or one of its own sort.
RecordsInv ==
    /\ BackedInv
    /\ \A r \in records : \/ r.id = 0 /\ r.type = "QUANTUM"
                          \/ \E j \in 1 .. nkeys : r.id = keyid(j)
    /\ \A b \in session, r \in records : r.id = b.SignedPreKey.identifier => r.type = "PREKEY"
=============================================================================
