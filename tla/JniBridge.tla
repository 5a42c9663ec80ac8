------------------------------ MODULE JniBridge ------------------------------
(***************************************************************************)
(* The entry points of the JNI bridge (ext/java/jnib.cpp) of one device,   *)
(* called by the threads of a Java application.  They share the global     *)
(* unique_ptr to a jni_session, the identity key pair of the last          *)
(* registration, and nothing locks it.  The calls run over the storage     *)
(* layer, whose manager may refuse a store, with or without effect.        *)
(*                                                                         *)
(* An exception that leaves an entry point ends the process: there is no   *)
(* handler on the way to the virtual machine.  No entry point loads        *)
(* anything from storage, so a process that starts has no session.         *)
(*                                                                         *)
(* The peer whose keys the application is given is part of the             *)
(* environment; its handshakes are checked with the other functions of     *)
(* gcrypt, on Java objects converted there and back.                       *)
(***************************************************************************)
EXTENDS JavaObjects, FiniteSets, Functions

CONSTANTS
    Thread,      \* the threads of the application
    PreKeyCount, \* GCRYPT_INITIAL_PREKEY_BUNDLE_COUNT
    MaxReserve,  \* the most keys the vectors of a refill_payload have room for
    NumKeys,     \* the arguments refill is called with
    MaxKeys,     \* bound on the number of generated key pairs and coins
    Overlap      \* whether the application registers while other calls run

ASSUME BridgeAssumption ==
    /\ PreKeyCount \in Nat /\ MaxReserve \in Nat
    /\ MaxKeys \in Nat /\ LkbKeys(1) <= MaxKeys
    /\ 2 * MaxReserve < Width
    /\ \A n \in NumKeys : n \in Int /\ -Width <= 2 * n /\ 2 * n < Width
    /\ Overlap \in BOOLEAN

VARIABLES
    loaded,   \* the library is loaded in a running process
    nkeys,    \* key pairs and coins generated so far, in the whole system
    session,  \* the identity pair in *_GlobalSession, if any
    identity, \* what the last call of store_identity_key_pair has left, if any
    call,     \* call[t]: the call t is in
    outcome   \* how the last call to end has ended, with session and identity then

vars == <<loaded, nkeys, session, identity, call, outcome>>

-----------------------------------------------------------------------------
(* The peer and the objects a server makes of its keys *)

Peer == make_lkb(0, 1)

PeerSignedPreKey ==
    [key        |-> Peer.SignedPreKey.key,
     identifier |-> Peer.SignedPreKey.identifier,
     signature  |-> sign32(Peer.IdentityKey, Peer.SignedPreKey.key)]

PeerOneTimeQuantumKeys ==
    {[key |-> k.key, identifier |-> k.identifier, signature |-> sign32(Peer.IdentityKey, k.key)] :
        k \in Peer.OneTimeQuantumKeys}

\* The keys of the peer in any combination; a key may be missing, and the
\* one-time key, being optional, may also be damaged in transit.
ForeignBundles ==
    [identityKey   : {from_key(Peer.IdentityKey, xckey_size)},
     signedPreKey  : {Null, {from_sid_key(PeerSignedPreKey, xckey_size)}},
     quantumPreKey : {{from_id_key(Peer.QuantumPreKey, qpubkey_size)}}
                     \cup {{from_sid_key(k, qpubkey_size)} : k \in PeerOneTimeQuantumKeys},
     oneTimePreKey : {Null} \cup UNION {{{from_id_key(k, xckey_size)}, {from_id_key(k, 0)}} :
                                            k \in Peer.OneTimePreKeys}]

\* The identity keys the application may hold for the peer: none, a shorter
\* array, the peer's, or one the peer does not have.
LongTermKeys ==
    {Null, from_key(Peer.IdentityKey, 0), from_key(Peer.IdentityKey, xckey_size),
     from_key(ZeroKey, xckey_size)}

-----------------------------------------------------------------------------
(* Calls *)

Idle == [pc |-> "idle"]

Registering(t) == call[t].pc \in {"store", "set"}

\* A thread without a call may start one.  Unless Overlap holds, the
\* application registers only while no other call is running.
MayStart(t) ==
    /\ loaded
    /\ call[t] = Idle
    /\ Overlap \/ \A u \in Thread : ~Registering(u)

MayRegister(t) == MayStart(t) /\ (Overlap \/ \A u \in Thread : call[u] = Idle)

Continue(t, c) == call' = [call EXCEPT ![t] = c]

\* A call of an entry point returns to Java.
Return(t, entry, result) ==
    /\ Continue(t, Idle)
    /\ outcome' = {[entry |-> entry, threw |-> FALSE, result |-> result,
                    identity |-> identity, session |-> session]}

\* The process ends, with all its threads.
ProcessEnds ==
    /\ loaded' = FALSE
    /\ session' = {}
    /\ call' = [t \in Thread |-> Idle]

\* An exception leaves the entry point named in the argument.
Throw(entry) ==
    /\ ProcessEnds
    /\ outcome' = {[entry |-> entry, threw |-> TRUE, result |-> Null,
                    identity |-> identity, session |-> session]}

\* What a manager has after store_identity_key_pair: the blob it was handed
\* and, noted for the properties only, the pair the blob was made for.
Stored(k) == [pair |-> k, blob |-> key_bytes(k)]

\* What the pair behind the reference to a session object reads as: the pair
\* itself, or anything when the object has been deleted.
Read(object) == IF session = {object} THEN {object} ELSE 0 .. nkeys

-----------------------------------------------------------------------------
(* Actions *)

Init ==
    /\ loaded = FALSE
    /\ nkeys = LkbKeys(1)
    /\ session = {}
    /\ identity = {}
    /\ call = [t \in Thread |-> Idle]
    /\ outcome = {}

\* The library is loaded; when sodium_init fails nothing happens.
JNI_OnLoad ==
    /\ ~loaded
    /\ loaded' = TRUE
    /\ UNCHANGED <<nkeys, session, identity, call, outcome>>

\* makeLocalKeyBundle calls make_lkb, which generates all keys first.
MakeBegin(t) ==
    /\ MayRegister(t)
    /\ nkeys + LkbKeys(PreKeyCount) <= MaxKeys
    /\ \/ /\ nkeys' = nkeys + LkbKeys(PreKeyCount)
          /\ Continue(t, [pc |-> "store", bundle |-> make_lkb(nkeys, PreKeyCount)])
          /\ UNCHANGED <<loaded, session, outcome>>
       \/ Throw("makeLocalKeyBundle") /\ UNCHANGED nkeys
    /\ UNCHANGED identity

\* A slip for the mutation runs: a refused store is not noticed.
MakeStore_Unchecked(t) ==
    /\ call[t].pc = "store"
    /\ identity' \in {identity, {Stored(call[t].bundle.IdentityKey)}}
    /\ Continue(t, [pc |-> "set", bundle |-> call[t].bundle])
    /\ UNCHANGED <<loaded, nkeys, session, outcome>>

\* make_lkb hands the bytes of the identity pair to the manager, and throws
\* when they are refused.
MakeStore(t) ==
    /\ call[t].pc = "store"
    /\ \/ /\ identity' = {Stored(call[t].bundle.IdentityKey)}
          /\ Continue(t, [pc |-> "set", bundle |-> call[t].bundle])
          /\ UNCHANGED <<loaded, session, outcome>>
       \/ /\ identity' \in {identity, {Stored(call[t].bundle.IdentityKey)}}
          /\ Throw("makeLocalKeyBundle")
    /\ UNCHANGED nkeys

\* The global session is replaced, the old object deleted, and the bundle
\* converted; the conversion may fail when it is too late.
MakeSet(t) ==
    /\ call[t].pc = "set"
    /\ session' = {call[t].bundle.IdentityKey}
    /\ \E returned \in {Null, {from_local_key_bundle(call[t].bundle)}} :
          Return(t, "makeLocalKeyBundle", returned)
    /\ UNCHANGED <<loaded, nkeys, identity>>

NoPayload == [oneTimePreKeys |-> <<>>, signedOneTimeQuantumPreKeys |-> <<>>]

\* refill without a session returns null; with one it reserves room for both
\* vectors, and throws when there is not enough.  The numbers of the keys it
\* is going to generate are taken here.
RefillBegin(t, numKeys) ==
    LET Count == uint32_t(numKeys) IN
    /\ MayStart(t)
    /\ \/ /\ session = {}
          /\ Return(t, "refill", Null)
          /\ UNCHANGED <<loaded, nkeys, session>>
       \/ /\ session # {} /\ Count > MaxReserve
          /\ Throw("refill") /\ UNCHANGED nkeys
       \/ /\ Count <= MaxReserve
          /\ nkeys + 2 * Count <= MaxKeys
          /\ nkeys' = nkeys + 2 * Count
          /\ \E object \in session :
                Continue(t, [pc |-> "refill", object |-> object, numKeys |-> numKeys,
                             left |-> Count, next |-> nkeys + 1,
                             payload |-> NoPayload])
          /\ UNCHANGED <<loaded, session, outcome>>
    /\ UNCHANGED identity

\* The payload p with the curve key x, and the quantum key q signed by signer.
Pushed(p, x, q, signer) ==
    [oneTimePreKeys |-> Append(p.oneTimePreKeys, X25519_make_id_pair(x)),
     signedOneTimeQuantumPreKeys |->
        Append(p.signedOneTimeQuantumPreKeys,
               [key |-> q, identifier |-> keyid(q), signature |-> sign32(signer, q)])]

\* A slip for the mutation runs: signed with the pair just generated.
Refilled_Own(c, signer) ==
    [pc |-> "refill", object |-> c.object, numKeys |-> c.numKeys,
     left |-> c.left - 1, next |-> c.next + 2,
     payload |-> Pushed(c.payload, c.next, c.next + 1, c.next)]

\* The call c after a round whose quantum key was signed with the identity key
\* signer.
Refilled(c, signer) ==
    [pc |-> "refill", object |-> c.object, numKeys |-> c.numKeys,
     left |-> c.left - 1, next |-> c.next + 2,
     payload |-> Pushed(c.payload, c.next, c.next + 1, signer)]

\* Slips for the mutation runs: after a refused store the call starts anew, or
\* the loop runs once too often.
RefillRound_Anew(t) ==
    LET c == call[t] IN
    /\ c.pc = "refill" /\ c.left > 0
    /\ \/ \E signer \in Read(c.object) : Continue(t, Refilled(c, signer))
       \/ Continue(t, [c EXCEPT !.left = c.numKeys, !.next = @ - 2 * (c.numKeys - c.left),
                                !.payload = NoPayload])
    /\ UNCHANGED <<loaded, nkeys, session, identity, outcome>>

RefillRound_OneMore(t) ==
    /\ call[t].pc = "refill" /\ call[t].left >= 0
    /\ \E signer \in Read(call[t].object) : Continue(t, Refilled(call[t], signer))
    /\ UNCHANGED <<loaded, nkeys, session, identity, outcome>>

\* One round of refill's loop: two pairs are generated and stored, the public
\* keys pushed.  The identity key is read through the reference the call was
\* given.  A failed generation or a refused store throws.
RefillRound(t) ==
    /\ call[t].pc = "refill" /\ call[t].left > 0
    /\ \/ /\ \E signer \in Read(call[t].object) : Continue(t, Refilled(call[t], signer))
          /\ UNCHANGED <<loaded, session, outcome>>
       \/ Throw("refill")
    /\ UNCHANGED <<nkeys, identity>>

RefillReturn(t) ==
    /\ call[t].pc = "refill" /\ call[t].left = 0
    /\ \/ Return(t, "refill", Null)
       \/ Return(t, "refill", {[numKeys |-> call[t].numKeys,
                                payload |-> from_refill_payload(call[t].payload)]})
    /\ UNCHANGED <<loaded, nkeys, session, identity>>

\* initializeNewSession and initializeExistingSession up to the ephemeral pair
\* in create_outbound_session, with the identity key to verify against and the
\* bundle if their conversions succeed.  Every failure so far gives null, a
\* failed verification and a failed generation of the pair included; but once
\* the identity keys match, verify32 may throw.
InitializeBegin(t, identityToVerifyAgainst, bundle) ==
    LET verified == {keys \in bundle :
                        \E k \in identityToVerifyAgainst : verify_foreign_bundle(k, keys)}
    IN
    /\ MayStart(t)
    /\ \/ /\ Return(t, "initializeSession", Null)
          /\ UNCHANGED <<loaded, nkeys, session>>
       \/ /\ session # {}
          /\ \E k \in identityToVerifyAgainst, keys \in bundle : kmatch(k, keys.identityKey)
          /\ Throw("initializeSession") /\ UNCHANGED nkeys
       \/ /\ nkeys + 2 <= MaxKeys
          /\ nkeys' = nkeys + 2
          /\ \E object \in session, keys \in verified :
                Continue(t, [pc |-> "agree", object |-> object, keys |-> keys,
                             EK |-> nkeys + 1, coins |-> nkeys + 2])
          /\ UNCHANGED <<loaded, session, outcome>>
    /\ UNCHANGED identity

initializeNewSession(t, foreignBundle) ==
    LET bundle == to_foreignpk_bundle({foreignBundle})
    IN  InitializeBegin(t, {keys.identityKey : keys \in bundle}, bundle)

initializeExistingSession(t, longTermIdentityKey, foreignBundle) ==
    InitializeBegin(t, to_key(longTermIdentityKey, xckey_size),
                    to_foreignpk_bundle({foreignBundle}))

\* The rest of create_outbound_session up to the root key: the encapsulation
\* and the first three Diffie-Hellman secrets throw when they fail; the
\* private identity key is read through the reference to the session.
InitializeAgree(t) ==
    LET c == call[t] IN
    /\ c.pc = "agree"
    /\ \/ LET PQPK == encapsulate(c.keys.qpubsidkey.key, c.coins)
          IN  /\ \E private \in Read(c.object) :
                    Continue(t, [pc |-> "finalize", object |-> c.object, keys |-> c.keys,
                                 EK |-> c.EK, cipherText |-> PQPK,
                                 SK |-> outbound_secret(private, c.keys, c.EK, PQPK)])
              /\ UNCHANGED <<loaded, session, outcome>>
       \/ Throw("initializeSession")
    /\ UNCHANGED <<nkeys, identity>>

\* The public identity key is read, the result made and converted.
InitializeFinalize(t) ==
    LET c == call[t] IN
    /\ c.pc = "finalize"
    /\ \E public \in Read(c.object) :
          LET result == finalize_outbound_session(public, c.EK, c.cipherText, c.SK, c.keys)
          IN  \/ Return(t, "initializeSession", Null)
              \/ Return(t, "initializeSession", {[rootKey |-> result.session.rootKey,
                                                  object  |-> from_session_init_result(result)]})
    /\ UNCHANGED <<loaded, nkeys, session, identity>>

\* handleInitialHandshake converts the message and returns null in any case.
handleInitialHandshake(t) ==
    /\ MayStart(t)
    /\ Return(t, "handleInitialHandshake", Null)
    /\ UNCHANGED <<loaded, nkeys, session, identity>>

\* The process is ended from outside.
Restart ==
    /\ loaded
    /\ ProcessEnds
    /\ UNCHANGED <<nkeys, identity, outcome>>

\* The steps of a call once it has begun.
Step(t) ==
    \/ MakeStore(t) \/ MakeSet(t)
    \/ RefillRound(t) \/ RefillReturn(t)
    \/ InitializeAgree(t) \/ InitializeFinalize(t)

Next ==
    \/ JNI_OnLoad
    \/ Restart
    \/ \E t \in Thread :
          \/ MakeBegin(t)
          \/ \E n \in NumKeys : RefillBegin(t, n)
          \/ \E b \in ForeignBundles :
                \/ initializeNewSession(t, b)
                \/ \E k \in LongTermKeys : initializeExistingSession(t, k, b)
          \/ handleInitialHandshake(t)
          \/ Step(t)

Spec == Init /\ [][Next]_vars

\* The scheduler does not starve a thread that is in a call.
FairSpec == Spec /\ \A t \in Thread : WF_vars(Step(t))

-----------------------------------------------------------------------------
(* Properties *)

Calls ==
    {Idle}
    \cup [pc : {"store", "set"}, bundle : LocalBundle]
    \cup [pc : {"refill"}, object : Key, numKeys : Int, left : Nat, next : Nat,
          payload : [oneTimePreKeys : Seq(IdKey), signedOneTimeQuantumPreKeys : Seq(SignedIdKey)]]
    \cup [pc : {"agree"}, object : Key, keys : Bundle, EK : Key, coins : Key]
    \cup [pc : {"finalize"}, object : Key, keys : Bundle, EK : Key, cipherText : CipherText,
          SK : RootKey]

\* Every variable has the type of the data it stands for, and a process
\* without the library has no session and no calls.
TypeOK ==
    /\ loaded \in BOOLEAN
    /\ nkeys \in 0 .. MaxKeys
    /\ session \subseteq Key /\ identity \subseteq [pair : Key, blob : Blob]
    /\ \A j, k \in session : j = k
    /\ call \in [Thread -> Calls]
    /\ ~loaded => session = {} /\ \A t \in Thread : call[t] = Idle

\* The last outcome, if it is a return of this entry point.
Returned(entry) == {o \in outcome : o.entry = entry /\ ~o.threw}

\* The session the calls work with is of the pair the last call of
\* store_identity_key_pair was made for, and that call was accepted, whatever
\* stores were refused, with or without effect, and wherever the process ended;
\* only a registration between that call and its end is yet to set its session.
\* And the bundle it returns to Java is of that pair.  This is about the order of
\* the two steps and about refusals: what the call has left is an empty blob.
SessionHandedOver ==
    /\ \A k \in session : identity = {Stored(k)} \/ \E t \in Thread : call[t].pc = "set"
    /\ \A o \in Returned("makeLocalKeyBundle") : \A b \in o.result :
          \E s \in o.identity : b.identityKey = from_key_pair(s.pair, xckey_size, xckey_size)

\* The quantum keys a refill returns to Java are signed with the identity key of
\* the session in use when it returns, although every round reads the key anew
\* through a reference.
RefillSigned ==
    \A o \in Returned("refill") : \A r \in o.result :
        \A i \in DOMAIN r.payload.signedOneTimeQuantumPreKeys :
            LET k == r.payload.signedOneTimeQuantumPreKeys[i]
            IN  \E own \in o.session, key \in to_key(k.key, qpubkey_size) :
                    to_key(k.signature, signature_size) = {sign32(own, key)}

\* refill returns as many different keys of each sort as the application
\* asked for, in Java's signed numbers.
RefillCount ==
    \A o \in Returned("refill") : \A r \in o.result :
        /\ Cardinality(Range(r.payload.oneTimePreKeys)) = r.numKeys
        /\ Cardinality(Range(r.payload.signedOneTimeQuantumPreKeys)) = r.numKeys

\* The peer turns the Java object h of a handshake into a session with this
\* root key.
PeerAccepts(h, rootKey) ==
    \E m \in to_initial_handshake(h) :
        /\ m.usedPreKeys[1] = Peer.SignedPreKey.identifier
        /\ \E q \in QuantumPrivate(Peer, m.usedQuantumPreKeys[1]), opk \in OneTimePrivate(Peer, m) :
              LET s == create_inbound_session(Peer.IdentityKey, Peer.SignedPreKey.key, opk, q, m)
              IN  s.returns = "some" /\ s.value.rootKey = rootKey

\* A session_init_result that is not null carries a handshake the peer turns
\* into a session with the root key the call derived, although the identity
\* pair is read in two steps of the call: "If the session_init_result is not
\* null, the session was successfully created in memory."
\* (gcrypt_encryption_protocol.md)
ResultUsable ==
    \A o \in Returned("initializeSession") : \A r \in o.result :
        PeerAccepts(r.object.handshakeMessage, r.rootKey)

\* Every call of the application ends, in a result or with the process.
CallsEnd == \A t \in Thread : call[t].pc # "idle" ~> call[t].pc = "idle"

-----------------------------------------------------------------------------
(* The inductive invariant behind the safety properties *)

\* keys is a bundle of the peer's keys.
PeerKeys(keys) ==
    /\ keys.identityKey = Peer.IdentityKey
    /\ keys.signedPreKey = PeerSignedPreKey
    /\ \E k \in Peer.OneTimeQuantumKeys \cup {Peer.QuantumPreKey} :
          keys.qpubsidkey.key = k.key /\ keys.qpubsidkey.identifier = k.identifier
    /\ keys.oneTimePreKey = {} \/ \E k \in Peer.OneTimePreKeys : keys.oneTimePreKey = {k}

\* What a call has read agrees with the session, which it keeps in use.
CallInv(c) ==
    /\ c.pc \in {"store", "set"} => c.bundle.IdentityKey \in Key \ {ZeroKey}
    /\ c.pc = "set" => identity = {Stored(c.bundle.IdentityKey)}
    /\ c.pc \in {"refill", "agree", "finalize"} => session = {c.object}
    /\ c.pc = "refill" =>
          /\ c.next \in Key
          /\ c.payload.signedOneTimeQuantumPreKeys \in Seq(SignedIdKey)
          /\ \A i \in DOMAIN c.payload.signedOneTimeQuantumPreKeys :
                LET k == c.payload.signedOneTimeQuantumPreKeys[i]
                IN  k.signature = sign32(c.object, k.key)
    /\ c.pc \in {"agree", "finalize"} => PeerKeys(c.keys) /\ c.EK \in Key \ {ZeroKey}
    /\ c.pc = "finalize" =>
          /\ c.cipherText.kem = c.keys.qpubsidkey.key
          /\ c.SK = outbound_secret(c.object, c.keys, c.EK, c.cipherText)

\* Unless the application registers while other calls run, no call outlives
\* the session it works with, and between the steps of a registration that
\* hand the pair over and set the session no other call is running.
BridgeInv ==
    /\ nkeys \in Nat
    /\ session \subseteq Key \ {ZeroKey}
    /\ call = [t \in Thread |-> call[t]]
    /\ \A t, u \in Thread : Registering(t) /\ u # t => call[u] = Idle
    /\ \A t \in Thread : CallInv(call[t])
    /\ SessionHandedOver
    /\ RefillSigned
    /\ ResultUsable

\* s is a sequence of n keys, all different and generated before next.
DistinctKeys(s, n, next) ==
    /\ s = [i \in 1 .. n |-> s[i]]
    /\ \A i \in 1 .. n : s[i].key \in 0 .. next - 1
    /\ \A i, j \in 1 .. n : s[i].key = s[j].key => i = j

\* A refill has pushed one key of each sort for each round it is through with.
CallCount(c) ==
    c.pc = "refill" =>
        LET Count == uint32_t(c.numKeys)
        IN  /\ c.numKeys \in NumKeys /\ Count <= MaxReserve
            /\ c.next \in Nat
            /\ c.left \in 0 .. Count
            /\ DistinctKeys(c.payload.oneTimePreKeys, Count - c.left, c.next)
            /\ DistinctKeys(c.payload.signedOneTimeQuantumPreKeys, Count - c.left, c.next)

\* Whether registrations overlap or not, a refill loses and repeats no key.
CountInv ==
    /\ nkeys \in Nat
    /\ call = [t \in Thread |-> call[t]]
    /\ \A t \in Thread : CallCount(call[t])
    /\ RefillCount
=============================================================================
