-------------------------- MODULE PrekeyStoreProofs --------------------------
(***************************************************************************)
(* Theorems about PrekeyStore, for every number of keys, size of a refill  *)
(* and number of handshakes.                                               *)
(***************************************************************************)
EXTENDS PrekeyStore, PqxdhProofs

-----------------------------------------------------------------------------
(* Type correctness *)

\* Putting a record keeps the records typed and their ids apart.
LEMMA PutType ==
    ASSUME NEW r \in Record, NEW rs \in SUBSET Record, \A x, y \in rs : x.id = y.id => x = y
    PROVE  Put(r, rs) \subseteq Record /\ \A x, y \in Put(r, rs) : x.id = y.id => x = y
  BY DEF Put

\* The blobs util::key_bytes makes, and those of the application.
LEMMA BlobType ==
    ASSUME NEW k \in Key, NEW size \in Nat
    PROVE  key_bytes(k) \in Blob /\ PairBlob(k, size) \in Blob
  BY DEF key_bytes, PairBlob, Blob

\* Registering keeps the types.
LEMMA MakeLkbTyped ==
    ASSUME KeyidNat, TypeInv, MakeLkb
    PROVE  TypeInv'
<1>1. nkeys \in Nat /\ PreKeyCount \in Nat /\ MaxKeys \in Nat /\ LkbKeys(PreKeyCount) \in Nat
  BY StoreBounds DEF TypeInv, TypeOK, LkbKeys
<1>2. make_lkb(nkeys, PreKeyCount) \in LocalBundle
  BY <1>1, MakeLkbType
<1>3. key_bytes(nkeys + 1) \in Blob
  BY <1>1, BlobType DEF Key
<1>4. nkeys' \in 0 .. MaxKeys
  BY <1>1 DEF MakeLkb
<1>5. session' \subseteq LocalBundle
  BY <1>2 DEF MakeLkb, TypeInv, TypeOK
<1>6. identity' \subseteq Blob
  BY <1>3 DEF MakeLkb, TypeInv, TypeOK
<1> QED
  BY <1>4, <1>5, <1>6 DEF MakeLkb, TypeInv, TypeOK

\* Saving the long-term keys keeps the types.
LEMMA SaveTyped ==
    ASSUME TypeInv, SaveLocalKeys
    PROVE  TypeInv'
<1>1. PICK b \in session :
          records' = Put([id   |-> b.SignedPreKey.identifier, type |-> "PREKEY",
                          blob |-> PairBlob(b.SignedPreKey.key, 2 * xckey_size)],
                     Put([id   |-> b.QuantumPreKey.identifier, type |-> "QUANTUM",
                          blob |-> PairBlob(b.QuantumPreKey.key, MLKEM_PKB + MLKEM_SKB)],
                         records))
  BY DEF SaveLocalKeys
<1>2. /\ b.SignedPreKey.identifier \in Nat /\ b.SignedPreKey.key \in Key
      /\ b.QuantumPreKey.identifier \in Nat /\ b.QuantumPreKey.key \in Key
  BY DEF TypeInv, TypeOK, LocalBundle, IdKey
<1>3. /\ PairBlob(b.SignedPreKey.key, 2 * xckey_size) \in Blob
      /\ PairBlob(b.QuantumPreKey.key, MLKEM_PKB + MLKEM_SKB) \in Blob
  BY <1>2, BlobType DEF xckey_size, MLKEM_PKB, MLKEM_SKB
<1> DEFINE s == [id   |-> b.SignedPreKey.identifier, type |-> "PREKEY",
                 blob |-> PairBlob(b.SignedPreKey.key, 2 * xckey_size)]
           q == [id   |-> b.QuantumPreKey.identifier, type |-> "QUANTUM",
                 blob |-> PairBlob(b.QuantumPreKey.key, MLKEM_PKB + MLKEM_SKB)]
<1>4. s \in Record /\ q \in Record
  BY <1>2, <1>3 DEF Record, KeyType
<1>5. records' = Put(s, Put(q, records))
  BY <1>1
<1> HIDE DEF s, q
<1>6. Put(q, records) \subseteq Record /\ \A x, y \in Put(q, records) : x.id = y.id => x = y
  BY <1>4, PutType DEF TypeInv, TypeOK
<1>7. records' \subseteq Record /\ \A x, y \in records' : x.id = y.id => x = y
  BY <1>4, <1>5, <1>6, PutType
<1> QED
  BY <1>7 DEF SaveLocalKeys, volatile, TypeInv, TypeOK

\* A half round of refill keeps the types, and ends the call with its last one.
LEMMA RefillTyped ==
    ASSUME KeyidNat, TypeInv, RefillStep
    PROVE  TypeInv'
<1>1. PICK c \in call :
          LET r == [id |-> keyid(nkeys + 1), type |-> c.next, blob |-> key_bytes(nkeys + 1)]
          IN  \/ records' = Put(r, records) /\ PushOrReturn(c)
              \/ records' \in {records, Put(r, records)} /\ call' = {} /\ UNCHANGED returned
  BY DEF RefillStep
<1> DEFINE k == nkeys + 1
           r == [id |-> keyid(k), type |-> c.next, blob |-> key_bytes(k)]
           d == Pushed(c, k)
<1>2. k \in Key /\ keyid(k) \in Nat /\ nkeys' \in 0 .. MaxKeys
  BY StoreBounds DEF TypeInv, TypeOK, RefillStep, KeyidNat, Key
<1>3. c \in Call /\ c.left > 0
  BY DEF TypeInv, TypeOK
<1>4. r \in Record
  BY <1>2, <1>3, BlobType DEF Record, Call
<1>5. PayloadKey(k, c.next, c.privIdentityKey) \in ReturnedKey
  <2>1. sign32(c.privIdentityKey, k) \in Signature
    BY <1>2, <1>3 DEF sign32, Signature, Call
  <2> QED
    BY <1>2, <1>3, <2>1 DEF PayloadKey, ReturnedKey, Call, KeyType
<1>6. d \in Call
  <2>1. d.privIdentityKey \in Key /\ d.left \in Nat /\ d.next \in KeyType
    BY <1>3 DEF Pushed, Call, KeyType
  <2>2. d.payload \subseteq ReturnedKey
    BY <1>3, <1>5 DEF Pushed, Call
  <2> QED
    BY <2>1, <2>2 DEF Pushed, Call
<1>7. /\ records' = records \/ records' = Put(r, records)
      /\ \/ call' = {} /\ (returned' = returned \/ returned' = returned \cup d.payload)
         \/ call' = {d} /\ d.left # 0 /\ returned' = returned
  BY <1>1 DEF PushOrReturn
<1> HIDE DEF k, r, d
<1>8. records' \subseteq Record /\ \A x, y \in records' : x.id = y.id => x = y
  BY <1>4, <1>7, PutType DEF TypeInv, TypeOK
<1>9. /\ call' \subseteq Call /\ \A x \in call' : x.left > 0
      /\ returned' \subseteq ReturnedKey
  <2>1. d.left \in Nat /\ d.payload \subseteq ReturnedKey
    BY <1>6 DEF Call
  <2> QED
    BY <1>6, <1>7, <2>1 DEF TypeInv, TypeOK
<1> QED
  BY <1>2, <1>8, <1>9 DEF RefillStep, TypeInv, TypeOK

\* Every bundle a server makes of the published keys is a foreign bundle.
LEMMA StoreOffersType ==
    ASSUME TypeOK, NEW keys \in Offers
    PROVE  keys \in Bundle /\ IsOptional(keys.oneTimePreKey)
<1> DEFINE Q == {[key |-> x.QuantumPreKey.key, identifier |-> x.QuantumPreKey.identifier,
                  signature |-> {}] : x \in session}
                \cup {[key |-> k.key, identifier |-> k.identifier, signature |-> k.signature] :
                        k \in {k \in returned : k.type = "QUANTUM"}}
           O == {{}} \cup {{[key |-> k.key, identifier |-> k.identifier]} :
                        k \in {k \in returned : k.type = "PREKEY"}}
<1>1. Q \subseteq QuantumKey
  BY DEF TypeOK, LocalBundle, IdKey, ReturnedKey, QuantumKey
<1>2. \A o \in O : o \subseteq IdKey /\ IsOptional(o)
  BY DEF TypeOK, ReturnedKey, IdKey, IsOptional
<1>3. \E b \in session, q \in Q, o \in O :
          keys = [identityKey   |-> b.IdentityKey,
                  signedPreKey  |-> [key |-> b.SignedPreKey.key,
                                     identifier |-> b.SignedPreKey.identifier,
                                     signature  |-> sign32(b.IdentityKey, b.SignedPreKey.key)],
                  qpubsidkey    |-> q,
                  oneTimePreKey |-> o]
  BY DEF Offers
<1> HIDE DEF Q, O
<1>4. PICK b \in session, q \in Q, o \in O :
          keys = [identityKey   |-> b.IdentityKey,
                  signedPreKey  |-> [key |-> b.SignedPreKey.key,
                                     identifier |-> b.SignedPreKey.identifier,
                                     signature  |-> sign32(b.IdentityKey, b.SignedPreKey.key)],
                  qpubsidkey    |-> q,
                  oneTimePreKey |-> o]
  BY <1>3
<1>5. /\ b.IdentityKey \in Key /\ b.SignedPreKey.key \in Key
      /\ b.SignedPreKey.identifier \in Nat
  BY DEF TypeOK, LocalBundle, IdKey
<1>6. sign32(b.IdentityKey, b.SignedPreKey.key) \in Signature
  BY <1>5 DEF sign32, Signature
<1> QED
  BY <1>1, <1>2, <1>4, <1>5, <1>6 DEF Bundle, SignedIdKey

\* A peer's handshake has the type of a message.
LEMMA PeerSendsTyped ==
    ASSUME TypeInv, PeerSends
    PROVE  TypeInv'
<1>1. PICK keys \in Offers :
          LET result == create_outbound_session(nkeys + 1, keys.identityKey, keys,
                                                nkeys + 2, nkeys + 3)
          IN  /\ result.returns = "some"
              /\ sent' = sent \cup {result.value.handshakeMessage}
  BY DEF PeerSends
<1> DEFINE result == create_outbound_session(nkeys + 1, keys.identityKey, keys,
                                             nkeys + 2, nkeys + 3)
<1>2. result.returns = "some" /\ sent' = sent \cup {result.value.handshakeMessage}
  BY <1>1
<1>3. nkeys + 1 \in Key /\ nkeys + 2 \in Key /\ nkeys + 3 \in Key /\ nkeys' \in 0 .. MaxKeys
  BY StoreBounds DEF TypeInv, TypeOK, PeerSends, Key
<1>4. keys \in Bundle /\ IsOptional(keys.oneTimePreKey)
  BY StoreOffersType DEF TypeInv
<1>5. result.value.handshakeMessage \in Message
  BY <1>2, <1>3, <1>4, OutboundType
<1> HIDE DEF result
<1>6. sent' \subseteq Message
  BY <1>2, <1>5 DEF TypeInv, TypeOK
<1> QED
  BY <1>3, <1>6 DEF PeerSends, stored, volatile, TypeInv, TypeOK

\* Every result of the storage overload is one of the three of an optional.
LEMMA StoredResults ==
    ASSUME NEW h, NEW result \in create_inbound_session_stored(h)
    PROVE  result.returns \in {"some", "nullopt", "throws"}
<1> DEFINE zero == create_inbound_session(ZeroKey, ZeroKey,
                       IF Len(h.usedPreKeys) > 1 THEN {ZeroKey} ELSE {}, ZeroKey, h)
<1>1. zero.returns \in {"some", "nullopt", "throws"}
  BY DEF create_inbound_session, Throws, Some
<1>2. Throws.returns = "throws" /\ Nullopt.returns = "nullopt"
  BY DEF Throws, Nullopt
<1>3. result \in {Throws, Nullopt, zero}
  BY DEF create_inbound_session_stored
<1> HIDE DEF zero
<1> QED
  BY <1>1, <1>2, <1>3

\* Answering a handshake keeps the types.
LEMMA AnswerTyped ==
    ASSUME TypeInv, NEW h \in sent, Answer(h)
    PROVE  TypeInv'
<1>1. PICK result \in create_inbound_session_stored(h) :
          answered' = answered \cup {[handshake |-> h, returns |-> result.returns,
                                      registered |-> istore, held |-> Held(h)]}
  BY DEF Answer
<1>2. result.returns \in {"some", "nullopt", "throws"}
  BY StoredResults
<1>3. Held(h) \in BOOLEAN /\ istore \in BOOLEAN /\ h \in Message
  BY DEF Held, TypeInv, TypeOK
<1>4. answered' \subseteq [handshake : Message, returns : {"some", "nullopt", "throws"},
                           registered : BOOLEAN, held : BOOLEAN]
  BY <1>1, <1>2, <1>3 DEF TypeInv, TypeOK
<1> QED
  BY <1>4 DEF Answer, stored, volatile, TypeInv, TypeOK

\* Every variable of the storage layer keeps its type, and the manager never
\* has two records with one id.
THEOREM StoreTypeCorrect == ASSUME KeyidNat PROVE Spec => []TypeOK
<1>1. Init => TypeInv
  <2> SUFFICES ASSUME Init PROVE TypeInv
    OBVIOUS
  <2>1. nkeys \in 0 .. MaxKeys
    BY StoreBounds DEF Init
  <2>2. /\ identity \subseteq Blob /\ session \subseteq LocalBundle
        /\ records \subseteq Record /\ \A r, s \in records : r.id = s.id => r = s
    BY DEF Init
  <2>3. call \subseteq Call /\ returned \subseteq ReturnedKey /\ \A c \in call : c.left > 0
    BY DEF Init
  <2>4. sent \subseteq Message
        /\ answered \subseteq [handshake : Message, returns : {"some", "nullopt", "throws"},
                               registered : BOOLEAN, held : BOOLEAN]
    BY DEF Init
  <2>5. istore \in BOOLEAN
    BY Zenon DEF Init
  <2> QED
    BY <2>1, <2>2, <2>3, <2>4, <2>5 DEF TypeInv, TypeOK
<1>2. TypeInv /\ [Next]_vars => TypeInv'
  <2> SUFFICES ASSUME TypeInv, [Next]_vars PROVE TypeInv'
    OBVIOUS
  <2>1. CASE StoreInit
    BY <2>1 DEF StoreInit, stored, TypeInv, TypeOK
  <2>2. CASE MakeLkb
    BY <2>2, MakeLkbTyped
  <2>3. CASE SaveLocalKeys
    BY <2>3, SaveTyped
  <2>4. CASE RefillCall
    <3>1. PICK b \in session, Count \in 1 .. MaxRefill :
              call' = {[privIdentityKey |-> b.IdentityKey, left |-> Count, next |-> "PREKEY",
                        payload |-> {}]}
      BY <2>4 DEF RefillCall
    <3>2. b.IdentityKey \in Key /\ Count \in Nat /\ Count > 0
      BY StoreBounds DEF TypeInv, TypeOK, LocalBundle
    <3>3. call' \subseteq Call /\ \A c \in call' : c.left > 0
      BY <3>1, <3>2 DEF Call, KeyType
    <3> QED
      BY <2>4, <3>3 DEF RefillCall, stored, TypeInv, TypeOK
  <2>5. CASE RefillStep
    BY <2>5, RefillTyped
  <2>6. CASE PeerSends
    BY <2>6, PeerSendsTyped
  <2>7. CASE \E h \in sent : Answer(h)
    BY <2>7, AnswerTyped
  <2>8. CASE Restart
    BY <2>8 DEF Restart, stored, TypeInv, TypeOK
  <2>9. CASE UNCHANGED vars
    BY <2>9 DEF vars, stored, volatile, TypeInv, TypeOK
  <2> QED
    BY <2>1, <2>2, <2>3, <2>4, <2>5, <2>6, <2>7, <2>8, <2>9 DEF Next
<1>3. TypeInv => TypeOK
  BY DEF TypeInv
<1> QED
  BY <1>1, <1>2, <1>3, PTL DEF Spec

-----------------------------------------------------------------------------
(* Refill *)

\* Promised keys keep their records when one is put under the identifier of a
\* key that is not promised.
LEMMA PutBacked ==
    ASSUME KeyidDistinct, BackedInv, NEW r, NEW j \in Key, r.id = keyid(j) \/ r.id = 0,
           \A k \in Promised : k.key # j
    PROVE  \A k \in Promised : \E x \in Put(r, records) : x.id = k.identifier /\ x.type = k.type
<1> SUFFICES ASSUME NEW k \in Promised
             PROVE  \E x \in Put(r, records) : x.id = k.identifier /\ x.type = k.type
  OBVIOUS
<1>1. k.key \in Key /\ k.identifier = keyid(k.key) /\ k.key # j
  BY DEF BackedInv, Key
<1>2. r.id # k.identifier
  BY <1>1 DEF KeyidDistinct
<1> QED
  BY <1>2 DEF BackedInv, Put

\* Registering, with or without the manager's consent, breaks no promise.
LEMMA MakeLkbBacked ==
    ASSUME BackedInv, MakeLkb PROVE BackedInv'
<1> DEFINE b == make_lkb(nkeys, PreKeyCount)
<1>1. nkeys \in Nat /\ nkeys' = nkeys + 3 + 2 * PreKeyCount /\ PreKeyCount \in Nat
  BY StoreBounds DEF BackedInv, MakeLkb, LkbKeys
<1>2. Promised' = Promised /\ records' = records /\ call' = call
  BY DEF MakeLkb, Promised
<1>3. /\ b.SignedPreKey.key = nkeys + 2
      /\ b.SignedPreKey.identifier = keyid(nkeys + 2)
      /\ b.QuantumPreKey.identifier = 0
  BY DEF make_lkb, X25519_make_id_pair, MLKEM_32_make_id_pair
<1>4. \A k \in Promised' : /\ k.key \in 1 .. nkeys'
                           /\ k.identifier = keyid(k.key)
                           /\ \E r \in records' : r.id = k.identifier /\ r.type = k.type
  BY <1>1, <1>2 DEF BackedInv
<1>5. \A k \in Promised' : k.key # nkeys + 2
  BY <1>1, <1>2 DEF BackedInv
<1>6. session' = session \/ session' = {b}
  BY DEF MakeLkb
<1> HIDE DEF b
<1>7. CASE session' = session
  BY <1>1, <1>2, <1>4, <1>7 DEF BackedInv
<1>8. CASE session' = {b}
  BY <1>1, <1>2, <1>3, <1>4, <1>5, <1>8 DEF BackedInv
<1> QED
  BY <1>6, <1>7, <1>8

\* Saving the long-term keys replaces no record of a promised key.
LEMMA SaveBacked ==
    ASSUME KeyidDistinct, BackedInv, SaveLocalKeys PROVE BackedInv'
<1>1. PICK b \in session :
          records' = Put([id   |-> b.SignedPreKey.identifier, type |-> "PREKEY",
                          blob |-> PairBlob(b.SignedPreKey.key, 2 * xckey_size)],
                     Put([id   |-> b.QuantumPreKey.identifier, type |-> "QUANTUM",
                          blob |-> PairBlob(b.QuantumPreKey.key, MLKEM_PKB + MLKEM_SKB)],
                         records))
  BY DEF SaveLocalKeys
<1> DEFINE s == [id   |-> b.SignedPreKey.identifier, type |-> "PREKEY",
                 blob |-> PairBlob(b.SignedPreKey.key, 2 * xckey_size)]
           q == [id   |-> b.QuantumPreKey.identifier, type |-> "QUANTUM",
                 blob |-> PairBlob(b.QuantumPreKey.key, MLKEM_PKB + MLKEM_SKB)]
<1>2. b.SignedPreKey.key \in Key /\ s.id = keyid(b.SignedPreKey.key) /\ q.id = 0
  BY DEF BackedInv, Key
<1>3. records' = Put(s, Put(q, records))
  BY <1>1
<1> HIDE DEF s, q
<1>4. \A k \in Promised : k.key \in Key /\ k.identifier = keyid(k.key) /\ k.key # b.SignedPreKey.key
  BY DEF BackedInv, Key
<1>5. \A k \in Promised : \E r \in Put(q, records) : r.id = k.identifier /\ r.type = k.type
  BY <1>2, <1>4, PutBacked
<1>6. \A k \in Promised : s.id # k.identifier
  BY <1>2, <1>4 DEF KeyidDistinct
<1>7. \A k \in Promised : \E r \in records' : r.id = k.identifier /\ r.type = k.type
  BY <1>3, <1>5, <1>6 DEF Put
<1>8. Promised' = Promised /\ nkeys' = nkeys /\ session' = session /\ call' = call
  BY DEF SaveLocalKeys, Promised, volatile
<1> QED
  BY <1>7, <1>8 DEF BackedInv

\* What is promised after a half round of refill: at most one key more, and
\* only together with its record.
LEMMA PushPromises ==
    ASSUME NEW c \in call, call \subseteq {c}, PushOrReturn(c)
    PROVE  Promised' = Promised \cup {PayloadKey(nkeys + 1, c.next, c.privIdentityKey)}
<1> DEFINE d == Pushed(c, nkeys + 1)
           new == PayloadKey(nkeys + 1, c.next, c.privIdentityKey)
<1>1. Promised = returned \cup c.payload
  BY DEF Promised
<1>2. d.payload = c.payload \cup {new}
  BY DEF Pushed
<1>3. Promised' = returned \cup d.payload
  <2>1. CASE d.left = 0
    BY <2>1 DEF PushOrReturn, Promised
  <2>2. CASE d.left # 0
    <3>1. call' = {d} /\ returned' = returned
      BY <2>2 DEF PushOrReturn
    <3> HIDE DEF d
    <3> QED
      BY <3>1 DEF Promised
  <2> QED
    BY <2>1, <2>2
<1> QED
  BY <1>1, <1>2, <1>3

\* A half round of refill promises a key only once its record is there.
LEMMA RefillStepBacked ==
    ASSUME KeyidDistinct, BackedInv, RefillStep PROVE BackedInv'
<1>1. nkeys \in Nat /\ nkeys' = nkeys + 1 /\ session' = session
  BY DEF BackedInv, RefillStep
<1>2. \A k \in Promised : k.key \in 1 .. nkeys /\ k.identifier = keyid(k.key)
  BY DEF BackedInv
<1>3. PICK c \in call :
          LET r == [id |-> keyid(nkeys + 1), type |-> c.next, blob |-> key_bytes(nkeys + 1)]
          IN  \/ records' = Put(r, records) /\ PushOrReturn(c)
              \/ records' \in {records, Put(r, records)} /\ call' = {} /\ UNCHANGED returned
  BY DEF RefillStep
<1> DEFINE r == [id |-> keyid(nkeys + 1), type |-> c.next, blob |-> key_bytes(nkeys + 1)]
           new == PayloadKey(nkeys + 1, c.next, c.privIdentityKey)
<1>4. r.id = keyid(nkeys + 1) /\ r.type = c.next
  OBVIOUS
<1>5. \/ records' = Put(r, records) /\ PushOrReturn(c)
      \/ records' \in {records, Put(r, records)} /\ call' = {} /\ UNCHANGED returned
  BY <1>3
<1> HIDE DEF r
<1>6. nkeys + 1 \in Key /\ \A k \in Promised : k.key # nkeys + 1
  BY <1>1, <1>2 DEF Key
<1>7. \A k \in Promised : \E x \in Put(r, records) : x.id = k.identifier /\ x.type = k.type
  BY <1>4, <1>6, PutBacked
<1>8. CASE records' = Put(r, records) /\ PushOrReturn(c)
  <2>1. Promised' = Promised \cup {new}
    BY <1>8, PushPromises DEF BackedInv
  <2>2. /\ new.key = nkeys + 1 /\ new.identifier = keyid(nkeys + 1) /\ new.type = c.next
    BY DEF PayloadKey
  <2>3. r \in records'
    BY <1>8 DEF Put
  <2> HIDE DEF new
  <2>4. \A k \in Promised' : /\ k.key \in 1 .. nkeys'
                             /\ k.identifier = keyid(k.key)
                             /\ \E x \in records' : x.id = k.identifier /\ x.type = k.type
    BY <1>1, <1>2, <1>4, <1>7, <1>8, <2>1, <2>2, <2>3
  <2>5. \A x, y \in call' : x = y
    BY <1>8 DEF PushOrReturn
  <2>6. \A b \in session' :
            /\ b.SignedPreKey.key \in 1 .. nkeys'
            /\ b.SignedPreKey.identifier = keyid(b.SignedPreKey.key)
            /\ b.QuantumPreKey.identifier = 0
            /\ \A k \in Promised' : k.key # b.SignedPreKey.key
    BY <1>1, <2>1, <2>2 DEF BackedInv
  <2> QED
    BY <1>1, <2>4, <2>5, <2>6 DEF BackedInv
<1>9. CASE records' \in {records, Put(r, records)} /\ call' = {} /\ UNCHANGED returned
  <2>1. Promised' \subseteq Promised
    BY <1>9 DEF Promised
  <2>2. \A k \in Promised : \E x \in records' : x.id = k.identifier /\ x.type = k.type
    BY <1>7, <1>9 DEF BackedInv
  <2> QED
    BY <1>1, <1>9, <2>1, <2>2 DEF BackedInv
<1> QED
  BY <1>5, <1>8, <1>9

\* The other steps promise nothing new and leave the records alone.
LEMMA QuietBacked ==
    ASSUME BackedInv, nkeys' \in Nat, nkeys' >= nkeys, records' = records, Promised' \subseteq Promised,
           session' \subseteq session, \A c, d \in call' : c = d
    PROVE  BackedInv'
  BY DEF BackedInv

\* Every step keeps every promise.
LEMMA BackedStep ==
    ASSUME KeyidDistinct, BackedInv, [Next]_vars
    PROVE  BackedInv'
<1>1. nkeys \in Nat /\ \A c, d \in call : c = d
  BY DEF BackedInv
<1>2. CASE StoreInit
  BY <1>1, <1>2, QuietBacked DEF StoreInit, stored, Promised
<1>3. CASE MakeLkb
  BY <1>3, MakeLkbBacked
<1>4. CASE SaveLocalKeys
  BY <1>4, SaveBacked
<1>5. CASE RefillCall
  <2>1. /\ nkeys' = nkeys /\ records' = records /\ session' = session
        /\ \A c, d \in call' : c = d
    BY <1>5 DEF RefillCall, stored
  <2>2. Promised' \subseteq Promised
    BY <1>5 DEF RefillCall, Promised
  <2> QED
    BY <1>1, <2>1, <2>2, QuietBacked
<1>6. CASE RefillStep
  BY <1>6, RefillStepBacked
<1>7. CASE PeerSends
  BY <1>1, <1>7, QuietBacked DEF PeerSends, stored, volatile, Promised
<1>8. CASE \E h \in sent : Answer(h)
  BY <1>1, <1>8, QuietBacked DEF Answer, stored, volatile, Promised
<1>9. CASE Restart
  BY <1>1, <1>9, QuietBacked DEF Restart, stored, Promised
<1>10. CASE UNCHANGED vars
  BY <1>1, <1>10, QuietBacked DEF vars, stored, volatile, Promised
<1> QED
  BY <1>2, <1>3, <1>4, <1>5, <1>6, <1>7, <1>8, <1>9, <1>10 DEF Next

\* Every one-time public key refill returns has its record, for every Count,
\* every pattern of failing stores and every point the process is ended at.
THEOREM RefillIsBacked == ASSUME KeyidDistinct PROVE Spec => []RefillBacked
<1>1. Init => BackedInv
  BY DEF Init, BackedInv, Promised
<1>2. BackedInv /\ [Next]_vars => BackedInv'
  BY BackedStep
<1>3. BackedInv => RefillBacked
  BY DEF BackedInv, Promised, RefillBacked
<1> QED
  BY <1>1, <1>2, <1>3, PTL DEF Spec


-----------------------------------------------------------------------------
(* The records implement the store of one-time keys *)

\* The identifiers that have a record, with the sort of the key.
Kept == {<<r.id, r.type>> : r \in records}

\* Putting a record where there is none, or one of its own sort, loses nothing.
LEMMA PutKeeps ==
    ASSUME NEW r, NEW rs, \A x \in rs : x.id = r.id => x.type = r.type
    PROVE  {<<x.id, x.type>> : x \in rs} \subseteq {<<x.id, x.type>> : x \in Put(r, rs)}
<1> SUFFICES ASSUME NEW x \in rs
             PROVE  \E y \in Put(r, rs) : <<x.id, x.type>> = <<y.id, y.type>>
  OBVIOUS
<1>1. CASE x.id = r.id
  BY <1>1 DEF Put
<1>2. CASE x.id # r.id
  BY <1>2 DEF Put
<1> QED
  BY <1>1, <1>2

\* Registering leaves the records alone, and its signed pre key is new.
LEMMA MakeLkbRecords ==
    ASSUME KeyidDistinct, RecordsInv, BackedInv', MakeLkb
    PROVE  RecordsInv' /\ records' = records
<1> DEFINE b == make_lkb(nkeys, PreKeyCount)
<1>1. nkeys \in Nat /\ nkeys' = nkeys + 3 + 2 * PreKeyCount /\ PreKeyCount \in Nat
  BY StoreBounds DEF RecordsInv, BackedInv, MakeLkb, LkbKeys
<1>2. b.SignedPreKey.identifier = keyid(nkeys + 2)
  BY DEF make_lkb, X25519_make_id_pair
<1>3. records' = records /\ (session' = session \/ session' = {b})
  BY DEF MakeLkb
<1> HIDE DEF b
<1>4. 1 .. nkeys \subseteq Key /\ nkeys + 2 \in Key /\ nkeys + 2 \notin 1 .. nkeys
  BY <1>1 DEF Key
<1>5. \A r \in records : r.id # keyid(nkeys + 2)
  BY <1>4 DEF RecordsInv, KeyidDistinct
<1>6. \A r \in records : \/ r.id = 0 /\ r.type = "QUANTUM"
                         \/ \E j \in 1 .. nkeys' : r.id = keyid(j)
  BY <1>1 DEF RecordsInv
<1>7. \A x \in session', r \in records : r.id = x.SignedPreKey.identifier => r.type = "PREKEY"
  BY <1>2, <1>3, <1>5 DEF RecordsInv
<1> QED
  BY <1>3, <1>6, <1>7 DEF RecordsInv

\* The long-term keys replace records of their own sort only.
LEMMA SaveRecords ==
    ASSUME KeyidDistinct, RecordsInv, BackedInv', SaveLocalKeys
    PROVE  RecordsInv' /\ Kept \subseteq Kept'
<1>1. PICK b \in session :
          records' = Put([id   |-> b.SignedPreKey.identifier, type |-> "PREKEY",
                          blob |-> PairBlob(b.SignedPreKey.key, 2 * xckey_size)],
                     Put([id   |-> b.QuantumPreKey.identifier, type |-> "QUANTUM",
                          blob |-> PairBlob(b.QuantumPreKey.key, MLKEM_PKB + MLKEM_SKB)],
                         records))
  BY DEF SaveLocalKeys
<1> DEFINE s == [id   |-> b.SignedPreKey.identifier, type |-> "PREKEY",
                 blob |-> PairBlob(b.SignedPreKey.key, 2 * xckey_size)]
           q == [id   |-> b.QuantumPreKey.identifier, type |-> "QUANTUM",
                 blob |-> PairBlob(b.QuantumPreKey.key, MLKEM_PKB + MLKEM_SKB)]
<1>2. /\ s.id = b.SignedPreKey.identifier /\ s.type = "PREKEY"
      /\ q.id = 0 /\ q.type = "QUANTUM"
      /\ b.SignedPreKey.key \in 1 .. nkeys /\ s.id = keyid(b.SignedPreKey.key)
  BY DEF RecordsInv, BackedInv
<1>3. records' = Put(s, Put(q, records)) /\ session' = session /\ nkeys' = nkeys
  BY <1>1 DEF SaveLocalKeys, volatile
<1> HIDE DEF s, q
<1>4. 1 .. nkeys \subseteq Key
  BY DEF Key
<1>5. s.id # 0
  BY <1>2, <1>4 DEF KeyidDistinct
<1>6. \A x \in records : x.id = q.id => x.type = q.type
  BY <1>2, <1>4 DEF RecordsInv, KeyidDistinct
<1>7. \A x \in Put(q, records) : x.id = s.id => x.type = s.type
  BY <1>2, <1>5 DEF RecordsInv, Put
<1>8. Kept \subseteq Kept'
  BY <1>3, <1>6, <1>7, PutKeeps DEF Kept
<1>9. \A r \in records' : \/ r.id = 0 /\ r.type = "QUANTUM"
                          \/ \E j \in 1 .. nkeys' : r.id = keyid(j)
  BY <1>2, <1>3 DEF RecordsInv, Put
<1>10. \A x \in session' : \E j \in 1 .. nkeys : x.SignedPreKey.identifier = keyid(j)
  BY <1>3 DEF RecordsInv, BackedInv
<1>11. \A x \in session', r \in records' : r.id = x.SignedPreKey.identifier => r.type = "PREKEY"
  BY <1>2, <1>3, <1>4, <1>10 DEF RecordsInv, Put, KeyidDistinct
<1> QED
  BY <1>8, <1>9, <1>11 DEF RecordsInv

\* The record of a key just generated replaces none.
LEMMA RefillRecords ==
    ASSUME KeyidDistinct, RecordsInv, BackedInv', RefillStep
    PROVE  RecordsInv' /\ Kept \subseteq Kept'
<1>1. PICK c \in call :
          LET r == [id |-> keyid(nkeys + 1), type |-> c.next, blob |-> key_bytes(nkeys + 1)]
          IN  \/ records' = Put(r, records) /\ PushOrReturn(c)
              \/ records' \in {records, Put(r, records)} /\ call' = {} /\ UNCHANGED returned
  BY DEF RefillStep
<1> DEFINE r == [id |-> keyid(nkeys + 1), type |-> c.next, blob |-> key_bytes(nkeys + 1)]
<1>2. r.id = keyid(nkeys + 1)
  OBVIOUS
<1>3. records' = records \/ records' = Put(r, records)
  BY <1>1
<1>4. nkeys \in Nat /\ nkeys' = nkeys + 1 /\ session' = session
  BY DEF RecordsInv, BackedInv, RefillStep
<1> HIDE DEF r
<1>5. 1 .. nkeys \subseteq Key /\ nkeys + 1 \in Key /\ nkeys + 1 \notin 1 .. nkeys
  BY <1>4 DEF Key
<1>6. \A x \in records : x.id # r.id
  BY <1>2, <1>5 DEF RecordsInv, KeyidDistinct
<1>7. Kept \subseteq Kept'
  BY <1>3, <1>6, PutKeeps DEF Kept
<1>8. \A x \in records' : \/ x.id = 0 /\ x.type = "QUANTUM"
                          \/ \E j \in 1 .. nkeys' : x.id = keyid(j)
  BY <1>2, <1>3, <1>4 DEF RecordsInv, Put
<1>9. \A b \in session : \E j \in 1 .. nkeys : b.SignedPreKey.identifier = keyid(j)
  BY DEF RecordsInv, BackedInv
<1>10. \A b \in session', x \in records' : x.id = b.SignedPreKey.identifier => x.type = "PREKEY"
  BY <1>2, <1>3, <1>4, <1>5, <1>9 DEF RecordsInv, Put, KeyidDistinct
<1> QED
  BY <1>7, <1>8, <1>10 DEF RecordsInv

\* Every step keeps the records told apart, loses none, and takes back no key.
LEMMA RecordsStep ==
    ASSUME KeyidDistinct, RecordsInv, [Next]_vars
    PROVE  RecordsInv' /\ Kept \subseteq Kept' /\ returned \subseteq returned'
<1>1. BackedInv'
  BY BackedStep DEF RecordsInv
<1>2. ASSUME records' = records, nkeys' \in Nat, nkeys <= nkeys', session' \subseteq session
      PROVE  RecordsInv' /\ Kept \subseteq Kept'
  <2>1. 1 .. nkeys \subseteq 1 .. nkeys'
    BY <1>2 DEF RecordsInv, BackedInv
  <2> QED
    BY <1>1, <1>2, <2>1 DEF RecordsInv, Kept
<1>3. nkeys \in Nat
  BY DEF RecordsInv, BackedInv
<1>4. CASE MakeLkb
  <2>1. RecordsInv' /\ records' = records
    BY <1>1, <1>4, MakeLkbRecords
  <2> QED
    BY <2>1, <1>4 DEF Kept, MakeLkb
<1>5. CASE SaveLocalKeys
  BY <1>1, <1>5, SaveRecords DEF SaveLocalKeys
<1>6. CASE RefillStep
  <2>1. returned \subseteq returned'
    BY <1>6 DEF RefillStep, PushOrReturn
  <2> QED
    BY <1>1, <1>6, <2>1, RefillRecords
<1>7. CASE StoreInit \/ RefillCall \/ PeerSends \/ Restart
  BY <1>2, <1>3, <1>7 DEF StoreInit, RefillCall, PeerSends, Restart, stored, volatile
<1>8. CASE \E h \in sent : Answer(h)
  BY <1>2, <1>3, <1>8 DEF Answer, stored, volatile
<1>9. CASE UNCHANGED vars
  BY <1>2, <1>3, <1>9 DEF vars, stored, volatile
<1> QED
  BY <1>4, <1>5, <1>6, <1>7, <1>8, <1>9 DEF Next

\* The records keep what they promise: no refused store, restart, refill or
\* registration loses the record of a key, and no key is handed out without
\* one, when identifiers do not collide.
THEOREM RecordsKeepPromises == ASSUME KeyidDistinct PROVE Spec => KeepsPromises
<1> DEFINE promised == {<<k.identifier, k.type>> : k \in returned}
<1>1. Init => RecordsInv
  BY DEF Init, RecordsInv, BackedInv, Promised
<1>2. RecordsInv /\ [Next]_vars => RecordsInv' /\ Kept \subseteq Kept' /\ returned \subseteq returned'
  BY RecordsStep
<1>3. RecordsInv => promised \subseteq Kept
  BY DEF RecordsInv, BackedInv, Promised, Kept
<1>4. Init => Promises!Init
  BY DEF Init, Promises!Init
<1>5. ASSUME Kept \subseteq Kept', returned \subseteq returned', promised' \subseteq Kept'
      PROVE  Promises!Next
  BY <1>5 DEF Promises!Next, Kept
<1>6. RecordsInv /\ (promised \subseteq Kept)' /\ [Next]_vars
        => [Promises!Next]_<<{<<r.id, r.type>> : r \in records}, {<<k.identifier, k.type>> : k \in returned}>>
  BY <1>2, <1>5
<1> QED
  BY <1>1, <1>2, <1>3, <1>4, <1>6, PTL DEF Spec, KeepsPromises, Promises!Spec
=============================================================================
