------------------------------ MODULE KeyBytes ------------------------------
(***************************************************************************)
(* Keys as bytes (util.hpp, keygen.hpp): keys of several sizes are copied  *)
(* into one buffer, as for the input of the hashes, a signature or a pair  *)
(* an application saves, and are taken out of it again, with kcpy or, for  *)
(* the blob of a pair that a storage manager gives back, with load_keyb_s. *)
(* A key is the sequence of its bytes.                                     *)
(***************************************************************************)
EXTENDS Naturals, Sequences, SequencesExt

CONSTANTS
    Byte,    \* some values of a byte, 0 among them
    Sizes,   \* the sizes of the keys
    MaxParts \* bound on the number of keys in one buffer

ASSUME BytesAssumption == Byte \subseteq 0 .. 255 /\ 0 \in Byte /\ Sizes \subseteq Nat \ {0}
                          /\ MaxParts \in Nat

VARIABLES
    parts,  \* the keys to be copied, in their order
    out,    \* the buffer
    copied, \* how many keys have been copied
    offset, \* where the next key goes to
    blob,   \* the bytes a manager has given back, if any
    loaded  \* the halves load_keyb_s was called for, with their outcomes

vars == <<parts, out, copied, offset, blob, loaded>>

-----------------------------------------------------------------------------
(* Operations on bytes *)

keys == UNION {[1 .. n -> Byte] : n \in Sizes}

\* keygen::filled; every key object starts as filled with 0.
filled(size, byte) == [i \in 1 .. size |-> byte]

\* The key k copied into the buffer at an offset.
memcpy(buffer, at, k) ==
    [i \in DOMAIN buffer |-> IF at < i /\ i <= at + Len(k) THEN k[i - at] ELSE buffer[i]]

\* util::kcpy: Take bytes from an offset on.
kcpy(k, Take, at) == [i \in 1 .. Take |-> k[at + i]]

\* A slip for the mutation runs: the bytes that are there are copied although
\* not all of them are.
load_keyb_Partial(bytes, ref, at) ==
    [success |-> Len(ref) + at <= Len(bytes),
     ref     |-> [i \in DOMAIN ref |-> IF at + i <= Len(bytes) THEN bytes[at + i] ELSE ref[i]]]

\* util::load_keyb: whether it succeeds, and the key it leaves in ref.
load_keyb(bytes, ref, at) ==
    IF Len(ref) + at > Len(bytes)
    THEN [success |-> FALSE, ref |-> ref]
    ELSE [success |-> TRUE, ref |-> kcpy(bytes, Len(ref), at)]

\* util::load_keyb_s: as many bytes as the key has are erased, but those at
\* the beginning of the blob, wherever the key came from.
load_keyb_s(bytes, ref, at) ==
    LET result == load_keyb(bytes, ref, at)
    IN  [success |-> result.success,
         ref     |-> result.ref,
         bytes   |-> IF result.success THEN memcpy(bytes, 0, filled(Len(ref), 0)) ELSE bytes]

-----------------------------------------------------------------------------
(* Actions *)

Init ==
    /\ parts \in UNION {[1 .. n -> keys] : n \in 1 .. MaxParts}
    /\ out = filled(Len(FlattenSeq(parts)), 0)
    /\ copied = 0
    /\ offset = 0
    /\ blob = {}
    /\ loaded = {}

\* A slip for the mutation runs: the offset stands still after the first key.
Copy_SameOffset ==
    /\ copied < Len(parts)
    /\ out' = memcpy(out, offset, parts[copied + 1])
    /\ copied' = copied + 1
    /\ offset' = IF copied = 0 THEN Len(parts[1]) ELSE offset
    /\ UNCHANGED <<parts, blob, loaded>>

\* util::kconcat copies its next argument.
Copy ==
    /\ copied < Len(parts)
    /\ out' = memcpy(out, offset, parts[copied + 1])
    /\ copied' = copied + 1
    /\ offset' = offset + Len(parts[copied + 1])
    /\ UNCHANGED <<parts, blob, loaded>>

\* The bytes are those of a key pair, Public || Private, and a storage manager
\* gives some of them back; none, if it was handed what key_bytes returns.  A
\* private key is never shorter than its public key.
GiveBack ==
    /\ copied = Len(parts) /\ blob = {}
    /\ Len(parts) = 2 /\ Len(parts[1]) <= Len(parts[2])
    /\ \E n \in 0 .. Len(out) : blob' = {SubSeq(out, 1, n)}
    /\ UNCHANGED <<parts, out, copied, offset, loaded>>

\* Where create_inbound_session has load_keyb_s look: the public half is first,
\* the private half at the private key's own size, sizeof(xckey) or MLKEM_SKB.
LoadOffset(i) == IF i = 1 THEN 0 ELSE Len(parts[i])

\* create_inbound_session loads one half of the pair into a new key object: of
\* an identity pair the public half, of any other the private one.  When that
\* fails for the public half it goes on to the private half of the same blob;
\* when a load succeeds it returns std::nullopt.
Load(i) ==
    /\ \A l \in loaded : ~l.success /\ l.half < i
    /\ \E bytes \in blob :
          LET result == load_keyb_s(bytes, filled(Len(parts[i]), 0), LoadOffset(i))
          IN  /\ loaded' = loaded \cup {[half |-> i, success |-> result.success,
                                         key |-> result.ref]}
              /\ blob' = {result.bytes}
    /\ UNCHANGED <<parts, out, copied, offset>>

Next == Copy \/ GiveBack \/ \E i \in 1 .. 2 : Load(i)

Spec == Init /\ [][Next]_vars

-----------------------------------------------------------------------------
(* Properties *)

\* Where the i-th key begins.
Begin(i) == Len(FlattenSeq(SubSeq(parts, 1, i - 1)))

\* What has been copied is the concatenation of the keys so far, nothing else
\* has been written, and kcpy takes each key out again, so two inputs of a hash
\* are equal only if their keys are, and the halves of a signature are the
\* ones that went into it.
Concatenated ==
    /\ out = FlattenSeq(SubSeq(parts, 1, copied))
             \o filled(Len(FlattenSeq(parts)) - Len(FlattenSeq(SubSeq(parts, 1, copied))), 0)
    /\ \A i \in 1 .. copied : kcpy(out, Len(parts[i]), Begin(i)) = parts[i]

\* A load that reports success has the half that was saved, and one that reports
\* failure has left the key all zero, wherever the blob was cut: no load gives
\* the end of one half and the beginning of the other, as the offset of the
\* private ML-KEM key would, or a part of a key.
LoadedWhole ==
    \A l \in loaded :
        l.key = IF l.success THEN parts[l.half] ELSE filled(Len(parts[l.half]), 0)
=============================================================================
