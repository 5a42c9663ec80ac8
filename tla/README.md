# Formal models of gcrypt

gcrypt is a C++ library for the PQXDH key agreement (X25519 and ML-KEM-1024), with a storage
interface its user implements and a JNI bridge for Android. This directory holds TLA+ models of
it, TLC configurations that check them on small instances, and proofs TLAPS checks for every
value of the constants.

Check a run with `tlc -config MCHandshake.cfg MCHandshake` and a proof module with
`tlapm HandshakeProofs.tla`.

## The system

| Component | Files | State it keeps | Operations |
|---|---|---|---|
| Keys and primitives | `protocol.hpp`, `util.hpp`, `keygen.*`, `algorithms.*`, `hashing.hpp` | none (`key<N>` owns bytes and erases them when it is killed) | key generation, `ssecret`, `encapsulate`, `decapsulate`, `KDF`, `sign32`, `verify32`, `kconcat`, `keyid` |
| PQXDH | `pqxdh.*` | none of its own | `make_lkb`, `refill`, `verify_foreign_bundle`, `create_outbound_session`, two overloads of `create_inbound_session` |
| Storage layer | `store.*`, `util.hpp` (`key_bytes`, `load_keyb`, `load_keyb_s`) | the global `GCRYPT_ISTORE`; what the application's `storage_manager` keeps | `Init`, storing and loading the identity pair and the prekeys; session and delete operations that nothing calls |
| JNI bridge | `ext/java` | one global `unique_ptr<jni_session>` | `makeLocalKeyBundle`, `refill`, `initializeNewSession`, `initializeExistingSession`, `handleInitialHandshake`, conversions |
| Double ratchet, AEAD | fields of `messaging_session`, TODO comments | none yet | none yet |

Around the library, and not in the repository, are the application that calls it, the key server
it uploads to, and the network that carries handshakes between devices. They are modelled from
what the library's functions and documents need of them, and marked external in `PROJECT.json`.

How the parts interact: an application registers (`make_lkb`), uploads the public halves, and from
time to time calls `refill` and uploads what it returns. Another application asks the server for a
bundle, calls `create_outbound_session` and sends the handshake message that comes back. The first
application turns the message into a session with `create_inbound_session`, giving the private keys
itself or letting the library look them up through `GCRYPT_ISTORE`. `GCRYPT_NOSTORE` builds have
the first way only. The calls are synchronous; the only shared mutable state inside the library is
`GCRYPT_ISTORE` and the bridge's global session.

### What is hard here

* The two ends compute their secrets apart, from keys they name to each other only by
  identifiers, and neither confirms to the other what it derived: a wrong key is noticed by no one.
* A device may register again at any time; bundles, handshakes and saved identity keys from before
  are then stale but still about. The server may put keys of different registrations together.
* Handshakes are lost, duplicated, delayed, reordered and misdelivered.
* `make_lkb` and `refill` write to storage one key at a time, each write may fail, possibly after
  having taken effect, and the process may end between any two.
* The identifier is a 32-bit hash, and the last-resort quantum key's identifier is always 0.
* Java threads may call into the bridge at the same time; it has one session object, no lock, and
  hands out references into the object.
* Every key and identifier crosses the JNI boundary twice, as arrays of bytes and signed numbers, and
  an exception on the way ends the process; a restarted process has lost the session.
* Several keys are packed into one buffer and taken out of it at offsets, while bytes of it are erased.

### What makes each part correct

* Keys and primitives: `verify32` accepts exactly what `sign32` makes; the inputs of two KDF
  calls that should differ do differ; a key read back from a blob is the one that was written.
* PQXDH: both ends of an accepted handshake agree on the root key and on each other's identity
  (`KeyAgreement`); a root key belongs to one handshake (`RootKeyNamesHandshake`); the identity
  key of a contact does not change silently (`IdentityContinuity`); a handshake that arrives at
  the device it was made for leads to a session (`HandshakeCompletes`).
  All together: the handshake is a key exchange (`IsExchange`).
* Storage: no public one-time key leaves the device without a record (`RefillBacked`) and no record
  is lost (`KeepsPromises`); a record gives the private key back (`RecordsHoldPrivateKey`); a
  handshake whose keys are stored is accepted (`HeldHandshakeAccepted`).
* Keys as bytes: a buffer holds the keys that were put into it, in their order, and they come out of
  it again (`Concatenated`); a load from a blob gives a half of a pair whole or not at all (`LoadedWhole`).
* JNI bridge: the session in use is of the identity pair the store was last asked to keep, and has accepted
  (`SessionHandedOver`); what `refill` returns is
  signed with the session's key (`RefillSigned`) and is as much as was asked for (`RefillCount`); the handshake in a
  result leads the peer to the session's root key (`ResultUsable`); every call ends (`CallsEnd`).

## The modules

| Module | Models | EXTENDS |
|---|---|---|
| `Keys` | keys, Diffie-Hellman, KEM, KDF and signatures, symbolically | |
| `Pqxdh` | the functions of `pqxdh.cpp` and `pqxdh.hpp` that use no storage | `Keys` |
| `Handshake` | devices, server and network around them, without storage | `Pqxdh` |
| `PrekeyStore` | one device with the storage layer, its crashes, and a peer | `Pqxdh` |
| `XedDSA` | `sign32`, `verify32` and their helpers, on a small curve | |
| `KeyBytes` | `kconcat`, `kcpy`, `filled` and `load_keyb_s` on the bytes of keys | |
| `JavaObjects` | the conversions between C++ values and Java objects | `Pqxdh` |
| `JniBridge` | the entry points of the bridge, called by the threads of an application | `JavaObjects` |
| `KeyExchange` | abstract: secrets are proposed once and accepted by the one they were made for | |
| `PromisedKeys` | abstract: what is handed out is kept, and stays so | |
| `PqxdhProofs` | lemmas about the functions of `Pqxdh` | `Pqxdh`, `TLAPS` |
| `HandshakeProofs`, `PrekeyStoreProofs`, `JniBridgeProofs` | theorems and proofs | the module they are about, `PqxdhProofs` |
| `KeyBytesProofs` | theorems and proofs | `KeyBytes`, `Induction` |
| `XedDSAProofs` | theorems and proofs | `XedDSA`, `Induction` |
| `Induction` | induction over natural numbers, for the recursive functions | `TLAPS` |
| `MCHandshake`, `MCPrekeyStore`, `MCXedDSA`, `MCKeyBytes`, `MCJniBridge` | definitions for the TLC configurations | the module they instantiate |

`Handshake` and `PrekeyStore` instantiate the abstract modules (`Exchange`, `Promises`) with the
refinement mappings that show they implement them.

### Keys and Pqxdh

Cryptography is symbolic. A key pair is a number, its place in the order of generation; 0 is the
all-zero key a `key<N>` starts as. A Diffie-Hellman secret is the set of the two pairs, a KDF result
a record of its input, a signature a record of signer and message, a KEM cipher text a record of the
recipient's key and of the coins. Two things the code relies on are kept although they look like
details: `crypto_scalarmult_curve25519` fails on the all-zero public key, and ML-KEM decapsulation
with the wrong private key does not fail but returns an unrelated secret.

Two functions are parameters. `keyid` may be any function to the identifiers: the theorems
say which of its properties they need. `verify32` may be any predicate. The runs use the predicate
`algorithms.hpp:78` documents. The `verify32` the repository implements rejects signatures made by
`sign32` (`XedDSA`, finding 5), so with it no session is ever created and the safety
properties of `Handshake` hold of nothing; `Handshake` and `PrekeyStore` speak of the protocol above
`verify32`, and `XedDSA` of `verify32` itself.

The functions keep their names, parameters and order of checks. `std::nullopt` and exceptions are
kept apart: the first three Diffie-Hellman computations of `create_outbound_session` stand outside
its `try` block, the fourth inside.

### Handshake

`nkeys` counts what the random generators have given out; `lkb[d]` is the bundle the bridge's global
session holds; `server` and `taken` are the server's publications and the one-time keys it has handed
out; `pinned[d][e]` is the identity key `d` trusts for `e`, the argument of
`initializeExistingSession`; `outbound` and `inbound` log the sessions the two functions returned
with the arguments they were called with. The logs stand for the sessions the applications keep and
for the messages in the network, which may deliver any of them at any time, to any device, again and
again, or never. A lost message is one that is never delivered, so no action is needed for losses.

`MakeLkb` is `make_lkb` called by `makeLocalKeyBundle` and replaces the whole bundle. `Initiate` is
the whole of `create_outbound_session` on any bundle in `Offers`: each part of it comes from some
publication, not always the same one. `InitiateNew` and `InitiateExisting` differ as in the bridge in the identity
key it is verified against. `Receive` is the look-up of the private keys by the identifiers in the
message and the call of `create_inbound_session`. A failing call leaves the state as it is, except
that the server does not hand out a one-time key again.

The refinement mapping to `KeyExchange` takes an outbound session for a proposal and an inbound session for
an acceptance of the record of root key and the two identity keys that its own end sees. Accepting
something nobody proposed, to another responder, or under another name is no step of `KeyExchange`.
Inbound sessions of bundles whose last-resort key does not fit are left out (finding 1).

### PrekeyStore

`identity` and `records` are what the manager keeps and survive `Restart`; `istore` is
`GCRYPT_ISTORE`, `session` the bundle in memory, `call` a `refill` in progress; `returned` is what has
been handed out and `answered` logs the outcomes of `create_inbound_session(handshake)`. A blob is its
size and the private key that can be read back from it: enough to follow `key_bytes`, whose vector
is reserved but never sized, and the length test of `load_keyb`. `RefillStep` is one half round of
`refill`'s loop, because every store can fail and the process can end after each. A refused store
may have been written or not. `create_inbound_session_stored` returns the set of possible outcomes:
the code reads `usedPreKeys[1]` of a vector that may have one element, so the identifier of the
quantum key may then be anything.

Assumed of the application: it does not register again while `refill`, which holds a reference to
the identity key, is running; its manager keys records by identifier and may or may not compare the type;
it writes its long-term prekeys itself (`make_lkb` stores only the identity pair).

The refinement mapping to `PromisedKeys` takes the identifiers and types of the records for the kept
keys and those of the returned keys for the promised ones. `RefillBacked` speaks of single states, the
abstract specification of steps: no failed store, restart or later write takes a record away.

### KeyBytes

One behaviour is one buffer: `Copy` is one round of `kconcat`'s fold; when the buffer holds a pair, public
half first, `GiveBack` is a storage manager that returns its bytes, perhaps not all of them, and `Load` a
call of `load_keyb_s` on them by the storage overload of `create_inbound_session`. The keys and their
contents are chosen in the initial state. A buffer that grows to the bytes here would be empty in the
code's `key_bytes` (finding 2), which reserves room only: `GiveBack` stands for a manager that has the bytes
of a pair in the format the library expects, from whatever wrote them.

The order of loads is the code's (`pqxdh.cpp:231` to `264`). Of an identity pair the public half is loaded, at
offset 0, and then, if that *failed*, the private half of the same blob; of any other pair the private half
only. A load that succeeds ends the call with `std::nullopt` (finding 3), so at most one load of a blob
succeeds. The private half is looked for at its own size, `sizeof(xckey)` or `MLKEM_SKB`: where it begins if
both halves have one size, and behind it for ML-KEM, where the private key is the longer half.
`LoadedWhole` says that the wrong offset never yields a key made of the end of one half and a piece of
the other: a load that succeeds has the whole half and one that fails has left the key zero.

`load_keyb_s` erases as many bytes as it has read, but at the beginning of the blob (`util.hpp:143`). Since no
load follows a successful one, no key that is loaded depends on what is erased, and no property is about it.

### JavaObjects and JniBridge

A Java reference is a set of at most one object, a byte array a record of its size and of the key in it.
A `uint32_t` becomes a `jint` of the same width, whose number of values is the constant `Width`. The
conversions keep the order of the code's tests; what makes one give up is a null reference or an array
of another length. An identity or prekey that is malformed makes the whole bundle `std::nullopt`, a
malformed one-time key passes for a missing one.

In `JniBridge`, `session` is `*_GlobalSession`, `identity` what the last call of `store_identity_key_pair` has left
with the manager, `call[t]`
the entry point thread `t` is in with its locals and the point it has reached, and `outcome` how the last call
ended and what `session` and `identity` were then. A call is cut where another thread can see or change something between
two of its steps: `makeLocalKeyBundle` into generation, store and replacement of the session; `refill`
into its rounds; the two initialize calls into verification, agreement, which reads the private half of
the identity pair, and the making of the result, which reads the public half. `Read` is such a read through
the reference: when the object has been deleted it may give any key. Every store may be refused, every
result of an entry point may be null because a conversion has failed, and every step that can throw may end the process (`Throw`), since no
handler stands between the library and the virtual machine. `refill`'s two stores of a round are one
step here; `PrekeyStore` has them apart.

Two parts of the state are notes for the properties and not in the code. `identity` has, beside the blob the
manager was handed, which is the empty span of `key_bytes` (`pqxdh.cpp:46`, finding 2), the pair the blob was
made for. `SessionHandedOver` compares the session with that pair: it says that the hand-over comes first, is
accepted, and is not overtaken, not that the pair could be read back; it could not. And an initialize call's outcome
has the root key the call derived beside the Java object, because the object's `session` is always null (`jnib.cpp:74`):
Java never sees the root key, and `ResultUsable` compares the peer's with the one the C++ result held.

When a conversion inside another fails, as that of the handshake in a `session_init_result`
(`jnib.cpp:141`) or of an array in a `refill_payload` (`jnib.hpp:352`), the code puts null into the field and
returns the object. The JNI call that failed has then left a Java exception pending, so the application gets the exception
and no object; the model has null for the whole result in that case. An initialize call may also throw at `verify32`
(`algorithms.cpp:99`), once the two identity keys match, and `InitializeBegin` does; for the devices of
`Handshake` that is like a rejection.

`Overlap` says whether the application registers while other calls run. Without it the properties hold and
are proved; with it `ResultUsable` does not (finding 6).

The bridge is not among the sources `CMakeLists.txt` compiles, and does not compile as it stands:
`to_id_key` and `to_sid_key` call the class template `key` where `to_key` is meant, `key_pair` calls `key`
with an identified key where its inner key is meant, the macro for function names pastes the word
`_name`, and class paths lack a slash. `HashMap.put` is given a `jint` where an `Integer` is needed, and
`Structures.kt` lacks the constructors with arguments and two of the classes. The model takes these as they
are evidently meant; it says nothing about the build.

### XedDSA

Keys are numbers here, below 2 * `SignBit`, where `SignBit` is the weight of the highest bit, 2^255 on the
real curve; `ScalarBound`, 2^253, is the bound on the scalar of a signature. As in the code, an encoded point, a field element and a
scalar are all of that one type, and a libsodium scalar function reduces whatever it is given modulo
the order of the group: that is what makes it visible when `verify32` mixes them up. libsodium's
point arithmetic, its clamping in `crypto_scalarmult_curve25519` and the bit its `noclamp` variant ignores
are external definitions. Hashes are a random oracle: any scalar, but the same for the same input,
so `Verify` gets the signer's hash exactly if it hashes the same public key. The two reduced hashes
are arguments of `sign32`. The properties compare with `SpecAccepts`, the verification of
the XEdDSA specification the header cites, and `Equation`, sB = R + hA.

`MCXedDSA` has a curve that stands to its field as curve 25519 does: P = 2^9 - 3, and a group of
order 8 * 67, a little more than 2^9, so that no clamped key is a multiple of the order. `SignBit` is
2^9 and `ScalarBound` 2^7. TLC evaluates `SizeAssumption` and `CurveAssumption` on it.

## The runs

| Configuration | Checks | Instance | States | Shows |
|---|---|---|---|---|
| `MCHandshake.cfg` | `TypeOK`, `KeyAgreement`, `RootKeyNamesHandshake`, `HandshakeCompletes` | 2 devices, 1 one-time key of each sort, 17 keys, 2 sessions, fairness | 75,507 | both ends agree, with one-time keys, concurrent sessions and a registration in between; every handshake for a current bundle ends in a session |
| `MCExchange.cfg` | `KeyAgreement`, `IdentityContinuity`, `IsExchange` | 3 devices, no one-time keys, 13 keys, 2 sessions | 50,782 | stale and mixed bundles break nothing; every step is a step of `KeyExchange`, also with a third device to misdeliver to |
| `MCPrekeyStore.cfg` | `TypeOK`, `RefillBacked`, `KeepsPromises` | refills of up to 2 rounds, 11 keys, 1 handshake | 146,474 | refused stores and restarts break no promise |
| `MCJniBridge.cfg` | `TypeOK`, `SessionHandedOver`, `RefillSigned`, `RefillCount`, `ResultUsable`, `CallsEnd` | 2 threads, 17 keys, width 24, refill of -1, 0 and 2 keys, fairness | 28,848 | failures, exceptions, restarts and conversions keep keys and the session together; every call ends |
| `MCKeyBytes.cfg` | `Concatenated`, `LoadedWhole` | up to 3 keys of 1 or 2 bytes, 3 values of a byte | 9,186 | `kconcat`'s offsets are right; a half is loaded whole or not at all, also from a blob cut short |
| `MCXedDSA.cfg` | `TypeOK`, `OwnKeyVerifies`, `ClampedKeyVerifies` | all 1024 private keys, 5 values of each hash | 52,234 | `sign32` satisfies the equation, for its own key and, with a clamped key, for the published one |
| `MCMixedBundle.cfg` | `AcceptedBundleAgreement` | 2 devices, no one-time keys, 13 keys, 2 sessions | violated | finding 1 |
| `MCStorePrivate.cfg` | `RecordsHoldPrivateKey` | as `MCPrekeyStore.cfg` | violated | finding 2 |
| `MCStoreInbound.cfg` | `HeldHandshakeAccepted` | as `MCPrekeyStore.cfg` | violated | finding 3 |
| `MCJniOverlap.cfg` | `ResultUsable` | as `MCJniBridge.cfg`, with `Overlap` | violated | finding 6 |
| `MCXedGenerated.cfg` | `GeneratedKeyVerifies` | as `MCXedDSA.cfg`, typical keys and hashes | violated | finding 4 |
| `MCXedVerify.cfg` | `MatchIsAccepted` | as `MCXedDSA.cfg`, clamped keys, typical hashes | violated | finding 5 |

**Bounds.** Two devices are both ends of a handshake, and each is also the wrong recipient of the
other's messages. With one one-time key of each sort a bundle can have it or not and runs out of it.
17 keys are three registrations and one session, or two and up to two sessions: the cases in which a
bundle of before is used. 13 keys without one-time keys allow three registrations and two sessions,
or four registrations and none. Two sessions are the least that can share a root key or disagree on
an identity. Two rounds of `refill` are the least in which a failure hits a call that has finished a
round, and 11 keys let a refill of two rounds and a peer's handshake follow a registration, or one
round and a handshake follow a registration that came after a refused one. `CHECK_DEADLOCK FALSE` stands in the handshake configurations since the
bounds stop registrations and sessions, and in those of `KeyBytes`, where a buffer is done with; the
store and the bridge never stop, they can always be restarted.

In the exchange run 13 keys are three registrations and two sessions, one device for each end and one
to misdeliver to.

The peer of the bridge has 5 keys, a registration takes 3 (no entry point uses the one-time keys of a
bundle once it is converted), a refill of two rounds 4, an initialize call 2. 17 keys are two registrations
and a refill, with an initialize call beside it, or up to four registrations. Two threads are the least that interleave; the shared
state has no more than one reader and one writer in any hazard listed. `Width` 24 with identifiers
counted down from it makes the identifiers of the peer's keys negative as a `jint`, those of later keys positive, and -1 as
a count larger than `MaxReserve`, as 2^32 - 1 is. Two refill rounds let a session be replaced between them.

Keys of two sizes put every boundary of one key inside another when an offset slips; a third key shows
an offset that is only wrong from the second copy on. A blob of every
pair is cut at every length, with halves of one size and with a longer private half, so a load fails and
succeeds at either offset.

The signature run has every private key of its curve; the five hashes are the extremes and values
whose points have either sign, and the functions under test treat all others alike. The two violated
signature runs leave out what is negligible on the real curve: hashes of 0 and keys that are
multiples of the order.

**Symmetry.** Devices are interchangeable, and so are threads: nothing orders them, so permutations are
sound for the invariants and for `IsExchange`, which speaks of single steps: `MCExchange.cfg`, `MCMixedBundle.cfg`
and `MCJniOverlap.cfg` have it. The runs that check liveness have none.

**Fairness.** `FairSpec` has weak fairness of delivery per device: a network that goes on trying and an
application that calls `create_inbound_session` with what it gets. A handshake processed twice gives
the same session twice, which the log does not count. The library has no queue or thread of its own,
so nothing is assumed of it beyond that a call returns. Registration, publication and initiation
have no fairness. `FairSpec` of `JniBridge` has weak fairness of the steps of a call that has begun, per
thread: the scheduler of the operating system. Nothing waits for another thread, so no stronger fairness
is needed; starting a call and restarting have none.

### Findings

1. `verify_foreign_bundle` (`pqxdh.cpp:126`) checks the quantum key only when it is signed, and
   every last-resort quantum key has identifier 0 (`keygen.cpp:75`). A bundle with the last-resort
   key of another registration is accepted; the receiver looks 0 up, finds its current key, ML-KEM
   rejects implicitly, and both ends have a session with different root keys and no error.
   `KeyAgreement` is the same property with the premise that the quantum key fits. At this commit finding 5
   hides it: `verify32` rejects the signed prekey first, so no session is created at all. It is what is left
   once `verify32` works.
2. `key_bytes` (`util.hpp:113`) returns a span of size 0: neither from `refill` nor from `make_lkb`
   (`pqxdh.cpp:46`) does a private key reach the storage manager.
3. The storage overload of `create_inbound_session` (`pqxdh.cpp:235` to `264`) gives up when
   `load_keyb_s` reports success, goes on with zero keys when it reports failure, and takes the quantum
   key's identifier from the wrong vector. No handshake is accepted.
4. `crypto_box_keypair` stores private keys unclamped and returns the public key of the clamped one;
   `calculate_key_pair` (`algorithms.cpp:56`) uses the private key as it is, so `sign32` signs for another
   key than the published identity key. `ClampedKeyVerifies` is the same property for clamped keys.
5. `verify32` (`algorithms.hpp:99` to `111`) rejects signatures that match: it drops `bpscale(s)`, multiplies the
   encoding of a point as a scalar, and `u_to_y` computes modulo the group order. Apart from that,
   `sig_in_bounds` refuses half of all honest signatures, those with the sign bit of R set; `MatchIsAccepted`
   does not count them.
6. `makeLocalKeyBundle` deletes the session object other threads hold references into (`jnib.cpp:325`). An
   initialize call whose two reads see different pairs, or freed memory, returns a result that leads to
   another root key at the peer. The protocol document promises that a result that is not null is a session. At
   this commit an initialize call gives up at `verify32` (finding 5) before it reads the pair, so for it this
   too needs a `verify32` that works; `refill` reads through the same reference (`jnib.cpp:338`) without that test.

Also met while modelling, without a run of their own:

* Identifiers are 32-bit hashes (`util.hpp:94`) and nobody checks that one is free. When two keys have one hash
  the receiver may look up the wrong one, and the two ends derive different root keys without an error:
  the theorem `KeysAgree` needs `KeyidDistinct`.
* The encapsulation and three of the Diffie-Hellman computations stand outside the `try` block
  (`pqxdh.cpp:149` to `157`) and no entry point has a handler: their failure is an exception through native
  code and not the null the comments at `jnib.cpp:353` and `386` promise. So is that of `verify32` (`algorithms.cpp:99`)
  when the scalar inversion fails.
* A restarted device has no session, whatever it has on disk: only `makeLocalKeyBundle` sets it
  (`jnib.cpp:325`), under a new identity. Until then `refill` returns null, where `Structures.kt:9` to `11`
  declares a type without it.
* `load_keyb_s` (`util.hpp:143`) erases from the beginning of the blob whatever its offset, so a private key
  behind its public half stays in the buffer, although the comment (`util.hpp:134` to `136`) says that the contents of the
  buffer are erased. Nothing reads the buffer afterwards.

## The proofs

| Theorem | Of | Hypotheses |
|---|---|---|
| `TypeCorrect` | `TypeOK` of `Handshake` | `KeyidNat` |
| `KeysAgree` | `KeyAgreement` | `KeyidNat`, `KeyidDistinct`, `VerifySound` |
| `IdentityKept` | `IdentityContinuity` | `KeyidNat` |
| `RootKeysNameHandshakes` | `RootKeyNamesHandshake` | `KeyidNat` |
| `HandshakeIsKeyExchange` | `IsExchange` | `KeyidNat`, `KeyidDistinct`, `VerifySound` |
| `StoreTypeCorrect` | `TypeOK` of `PrekeyStore` | `KeyidNat` |
| `RefillIsBacked` | `RefillBacked` | `KeyidDistinct` |
| `RecordsKeepPromises` | `KeepsPromises` | `KeyidDistinct` |
| `SessionIsHandedOver` | `SessionHandedOver` | `KeyidWidth`, `~Overlap` |
| `RefillIsSigned` | `RefillSigned` | `KeyidWidth`, `~Overlap` |
| `ResultsUsable` | `ResultUsable` | `KeyidWidth`, `~Overlap` |
| `BridgeTypeCorrect` | `TypeOK` of `JniBridge` | `KeyidWidth` |
| `RefillIsCounted` | `RefillCount` | none |
| `KeysConcatenated` | `Concatenated` | none |
| `KeysLoadedWhole` | `LoadedWhole` | none |
| `XedTypeCorrect` | `TypeOK` of `XedDSA` | none beyond the assumptions of `XedDSA` |
| `OwnKeySignatures` | `OwnKeyVerifies` | the same |
| `ClampedKeySignatures` | `ClampedKeyVerifies` | the same |

They hold for any set of devices or threads, any number of one-time keys, any `Width`, any sizes and bytes of keys, any
curve that meets the assumptions, and any bounds. The hypotheses are
stated in `Keys`: `KeyidNat`, identifiers are natural numbers; `KeyidDistinct`, hashes do not collide
and are not 0; `VerifySound`, `verify32` accepts only what `sign32` made. The last two are idealisations
(a 32-bit hash does collide, with probability that grows with the number of keys); that `IdentityKept`
and `RootKeysNameHandshakes` do without them says how far those two properties depend on the hash
and on the signature: not at all. `KeyidWidth`, in `JniBridgeProofs`, is that an identifier fits a
`uint32_t`; `~Overlap` that the application registers only while no other call runs.

**Agreement.** `KeyAgreement` speaks of root keys, but two sets of secrets are equal only if the
receiver looked up exactly the private halves of the keys the initiator used. `AgreementInv` says why
it did: each bundle's signed prekey and last-resort key are the two pairs generated after its identity
key (`BundleShape`), a publication signs them with that identity key (`PublicationShape`), so a verified
bundle has the signed prekey of its own identity key (`AcceptedShape`, the lemma `VerifiedShape`), and
an outbound session is what the function computes from it (`OutboundShape`). An inbound session is what
the other function computes from keys found under the identifiers in the message (`InboundShape`).
With distinct identifiers the keys are the same, and `SecretsAgree` concludes.

**Identity.** `PinnedInv`: the identity key a device trusts for a contact is that of every session it
has with it. `InitiateExisting` can only succeed with that key, because `verify_foreign_bundle` compares it.

**Root keys.** `FreshInv`: the coins of the encapsulation are fresh for each outbound session and
can be read back from the last part of its root key, also through implicit rejection.

**Key exchange.** `HandshakeIsKeyExchange` combines the two invariants (`ExchangeInv`): `Initiate` is a
`Propose` because the root key is fresh (`FreshInv`), `Receive` an `Accept` because what the responder
sees is what the initiator proposed (`AgreementInv`), all other actions stutter.

**Refill.** `BackedInv` covers the keys a running call has pushed but not returned, and says why no later
write replaces their records: they are known by their hashes, and no signed prekey or
last-resort key has the identifier of a promised key. `RecordsInv` adds that the identifier of a record
tells its type, so a write never turns a kept key into one of the other sort; with it every step keeps
all records, and `RecordsKeepPromises` follows.

**Bridge.** `BridgeInv` says that no call outlives the session it has a reference to and that no call runs
beside a registration between its first and last step; `CallInv` what each call has read and computed so
far: the payload of a refill is signed with the session's key, the secret of an initialize call is
`outbound_secret` of the session's key and a bundle of the peer's keys. `ResultUsable` follows by carrying
the handshake through `from_initial_handshake` and `to_initial_handshake` and the identifiers through `jint` and
`uint32_t`, and by the fact that the two ends compute the same set of secrets. The peer finds its
private keys even when identifiers collide, in the sense that it finds at least the right one, so
`KeyidDistinct` is not needed. `TypeOK` is inductive as it is: what a reference to a deleted object reads as is
still a key, so it holds with `Overlap` too.

**Count.** `CountInv`: a refill that has `left` rounds to go has pushed `uint32_t(numKeys) - left` keys of each
sort, all different because each is generated after the ones before it. What is returned after the last round then has
`uint32_t(numKeys)` keys, which is `numKeys` because a negative number has become one there is no room for.
Nothing in this depends on the session, so it holds with `Overlap` too.

**Key bytes.** `IInv` of `KeyBytesProofs` says which bytes of the buffer `kconcat` has written after each key,
where the next one goes, and that a blob is a prefix of the buffer as long as no load has succeeded on it. A
load that succeeds at the private half's offset, its own size, needs twice that size in a blob no longer than the pair,
so the public half is as long as the private one and the offset is where the private half begins (`LoadResult`). The order of the keys is `FlattenSeq` of the parts, a recursive function.

**Signatures.** The invariant only says that what was signed was signed with the one key pair there is; the
work is in the lemmas about the functions. `Nth(n)` is n times the base point for any integer n. From the
recurrence of `Times`, that the multiples come round after Q, and associativity follows that they add up as
integers modulo Q do (`NthAdd`, `NthTimes`, `NthNegate`). An encoding determines its point, since a point and its
negation have x coordinates of different parity when P is odd (`DecodeEncode`). So the two keys `calculate_key_pair` derives
belong together, negated both or not at all (`KeyPairPoint`), and sB = R + hA becomes s = r + ha modulo Q (`SignatureEquation`).
A clamped key is a multiple of 8 below `SignBit` and hence none of Q (`ClampedKey`), its point is not the neutral
one, and the denominators 1 - y and u + 1 are not 0: the conversion to Montgomery form and back is the identity
(`MontgomeryAndBack`).

The assumptions are named in `XedDSA`. `SizeAssumption` has what of the sizes of curve 25519 the code relies on: P and Q
odd, P < `SignBit`, Q < `ScalarBound` < 2Q, `ScalarBound` <= `SignBit` < 8Q, `SignBit` a multiple of 16. `CurveAssumption` has textbook
facts of the curve: every field element but 0 has an inverse; adding the base point is associative on its multiples,
of which there are Q; the negation of a multiple is one; and two multiples with the same y are equal or
negations of each other. They are facts about the external group libsodium computes in, not about the repository;
that the curve of the runs has them is what TLC evaluates.

**Recursive functions.** The library's induction theorem takes an operator as a parameter. `SetInduction`, in
`Induction`, has a set in its place and is proved from the well-foundedness of the natural numbers. With it
the recurrences of `Times` and `FlattenSeq` are proved: that a function with the recurrence exists for every
length, and that two of them agree where both are defined.

Only model-checked: `HandshakeCompletes` and `CallsEnd`, since liveness is out of the prover's reach. All other
properties of the passing runs are theorems. The six violated runs are counterexamples and need none.

## Not modelled

* `make_server_payload` and `public_server_payload` (`pqxdh.hpp:152`): a template nothing instantiates; its
  initialiser lists lack commas, it indexes a constant map, and it assigns a curve key to a quantum key, so no
  instance compiles and there is no behaviour to model. Their JNI conversion has nothing to convert.
* `key_vector`, `key_pair_vector` of the bridge, `from_lebytes`, `delete_one_time_prekey`, `store_session`,
  `load_session`: no caller, and for the last three no implementation either.
* Double ratchet and AEAD: TODO comments, as is the body of `handleInitialHandshake`, which returns null.
* The erasing of a `key` object when it is destroyed, moved from or assigned to: `protocol.hpp:58` to `84` erase in
  every path, no key object is read after it was moved from, and none of the models' properties could tell the difference.
* Lifetimes outside the library: `store::Init` called twice with the same pointer, local JNI references.
* Failure of HKDF and of the random generators: `crypto_kdf_hkdf_sha256_*` does not fail for the sizes the
  code uses, and libsodium's generators do not return on failure.
* Error types, assertions (`GCRYPT_ASSERT_STORE` is the guard `istore`) and build files have no state.

What is left is declarations, wording of errors and constants: nothing with behaviour that the repository implements.

## Plan

Done: 1. `Keys`, `Pqxdh`, `Handshake`, the central promise of the library. 2. `PrekeyStore`. 3. Their
proofs. 4. `XedDSA`, which does not compose with the others: it tells which `verify32` they
are instantiated with. 5. `JavaObjects` and `JniBridge` with their proofs. 6. `KeyBytes`. 7. The
abstract specifications `KeyExchange` and `PromisedKeys` and the two refinement theorems. 8. The proofs
of `KeyBytes` and `XedDSA`.

Next, when the library gets them: the message protocol behind `messaging_session` and the body of `handleInitialHandshake`.
