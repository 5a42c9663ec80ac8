-------------------------------- MODULE XedDSA --------------------------------
(***************************************************************************)
(* XedDSA::sign32 and XedDSA::verify32 with their helpers (algorithms.hpp, *)
(* algorithms.cpp), computed on a twisted Edwards curve                    *)
(*     -x^2 + y^2 = 1 + D x^2 y^2   over the integers modulo P             *)
(* with a base point of prime order Q: curve 25519 with smaller numbers.   *)
(* A key of 32 bytes is a number below 2 * SignBit; the highest bit is the *)
(* sign bit of an encoded point.  As in the code, an encoded point, a      *)
(* field element and a scalar are all just keys, and a libsodium scalar    *)
(* function computes modulo Q whatever it is given.                        *)
(*                                                                         *)
(* A hash is a random oracle: any scalar, the same for the same input.     *)
(***************************************************************************)
EXTENDS Integers, Sequences

CONSTANTS
    P,            \* 2^255 - 19: the size of the field
    Q,            \* the order of the base point
    D,            \* the curve's parameter
    BasePoint,    \* <<x, y>>
    SignBit,      \* 2^255: the weight of the highest bit of a key
    ScalarBound,  \* 2^253: the next power of 2 above Q
    PrivateKeys,  \* the private keys crypto_box_keypair may draw
    Hashes        \* the values a hash reduced modulo Q may have

xckey == 0 .. 2 * SignBit - 1

ASSUME SizeAssumption ==
    /\ {P, Q, D, SignBit, ScalarBound} \subseteq Nat
    /\ P % 2 = 1 /\ P < SignBit /\ SignBit % 16 = 0
    /\ Q % 2 = 1 /\ Q < ScalarBound /\ ScalarBound < 2 * Q
    /\ ScalarBound <= SignBit /\ SignBit < 8 * Q
    /\ PrivateKeys \subseteq xckey /\ Hashes \subseteq 0 .. Q - 1

VARIABLES
    identity, \* the identity key pair, if one was generated
    signed,   \* a signature made with it, if any, with what went into it
    verdict   \* the outcome of verifying that signature, if it was verified

vars == <<identity, signed, verdict>>

-----------------------------------------------------------------------------
(* The field and the curve *)

Field == 0 .. P - 1

Inverse(a) == CHOOSE b \in Field : a * b % P = 1

Neutral == <<0, 1>>

Add(A, B) ==
    LET t == (D * (A[1] * B[1] % P) % P) * (A[2] * B[2] % P) % P
    IN  <<(A[1] * B[2] + B[1] * A[2]) * Inverse((1 + t) % P) % P,
          (A[2] * B[2] + A[1] * B[1]) * Inverse((1 - t) % P) % P>>

Negate(A) == <<-A[1] % P, A[2]>>

Times(n, A) ==
    LET multiple[i \in 0 .. n] == IF i = 0 THEN Neutral ELSE Add(multiple[i - 1], A)
    IN  multiple[n]

\* The multiples of the base point, from 0 to Q - 1 times.
Multiples == [i \in 1 .. Q |-> Times(i - 1, BasePoint)]

Group == {Multiples[i] : i \in 1 .. Q}

\* What the code relies on: P is a prime number, the base point generates a
\* group of order Q, and a y coordinate belongs to one point and its negation.
ASSUME CurveAssumption ==
    /\ \A a \in Field \ {0} : \E b \in Field : a * b % P = 1
    /\ Group \subseteq Field \X Field
    /\ \A A, B \in Group : Add(Add(A, B), BasePoint) = Add(A, Add(B, BasePoint))
    /\ Times(Q, BasePoint) = Neutral /\ \A i \in 2 .. Q : Multiples[i] # Neutral
    /\ \A A \in Group : Negate(A) \in Group /\ Add(A, Negate(A)) = Neutral
    /\ \A A, B \in Group : A[2] = B[2] => A \in {B, Negate(B)}

\* libsodium's 32 bytes of a point: its y coordinate, with the parity of x on top.
Encode(A) == A[2] + SignBit * (A[1] % 2)

\* Curve25519's u coordinate of a point other than the neutral one.
Montgomery(A) == (1 + A[2]) * Inverse((1 - A[2]) % P) % P

\* What crypto_scalarmult_curve25519 and its _base variant do to a private key.
clamp(K) == SignBit \div 2 + (K % (SignBit \div 2)) - (K % 8)

\* crypto_core_ed25519_is_valid_point: the canonical encoding of a point of
\* the main subgroup that is not the neutral one.
is_valid_point(A) == \E i \in 2 .. Q : A = Encode(Multiples[i])

-----------------------------------------------------------------------------
(* The functions of the code *)

\* crypto_box_keypair: the private key is stored as it was drawn, the public
\* key is the Montgomery form of the clamped private key times the base point.
make_pair(K) == [Private |-> K, Public |-> Montgomery(Multiples[(clamp(K) % Q) + 1])]

signbit(key) == key \div SignBit
ycoord(key)  == key % SignBit

\* crypto_scalarmult_ed25519_base_noclamp ignores the highest bit.
bpscale(scalar) == Encode(Multiples[(ycoord(scalar) % Q) + 1])

\* A slip for the mutation runs: the private key is never negated.
calculate_key_pair_NoSign(K) == [Public |-> ycoord(bpscale(K)), Private |-> K]

calculate_key_pair(K) ==
    [Public  |-> ycoord(bpscale(K)),
     Private |-> IF signbit(bpscale(K)) = 1 THEN -K % Q ELSE K]

\* Slips for the mutation runs: s is not reduced; the nonce is left out of s.
sign32_Unreduced(K, r, h) ==
    [R |-> bpscale(r), s |-> r + (h * calculate_key_pair(K).Private % Q)]

sign32_NoNonce(K, r, h) == [R |-> bpscale(r), s |-> h * calculate_key_pair(K).Private % Q]

\* sign32 with private key K, r and h being the two hashes reduced modulo Q.
sign32(K, r, h) ==
    [R |-> bpscale(r), s |-> (r + h * calculate_key_pair(K).Private) % Q]

\* The bounds the specification sets, except that R's sign bit has to be clear.
sig_in_bounds(mkPub, R, s) ==
    /\ mkPub < P
    /\ signbit(R) = 0
    /\ s < ScalarBound

\* crypto_core_ed25519_scalar_invert reports failure for 0.
u_to_y_throws(U) == (U + 1) % Q = 0

\* u_to_y computes (U - 1) / (U + 1) with scalar operations, modulo Q.
u_to_y(U) == LET denominator == CHOOSE i \in 0 .. Q - 1 : (U + 1) * i % Q = 1
             IN  ((U - 1) % Q) * denominator % Q

convert_mont(U) == ycoord(u_to_y(ycoord(U)))

\* The signature check: "throws", or whether it accepts.  h is the reduced
\* hash of R, A and the message.  The result of bpscale(s) is not used.
verify32(mkPub, R, s, h) ==
    IF ~sig_in_bounds(mkPub, R, s) THEN "rejects"
    ELSE IF u_to_y_throws(ycoord(mkPub)) THEN "throws"
    ELSE LET A       == convert_mont(mkPub)
             r_check == (s - h * A) % Q
         IN  IF is_valid_point(A) /\ r_check = R THEN "accepts" ELSE "rejects"

-----------------------------------------------------------------------------
(* A device signs, another one verifies *)

Init == identity = {} /\ signed = {} /\ verdict = {}

\* An identity key pair is generated.  The functions keep no state between
\* calls, so one pair is enough.
MakePair ==
    /\ identity = {}
    /\ identity' \in {{make_pair(K)} : K \in PrivateKeys}
    /\ UNCHANGED <<signed, verdict>>

\* A message is signed, with any outcome of the two hashes.
Sign ==
    /\ \E pair \in identity, r, h \in Hashes :
          signed' = {[signature |-> sign32(pair.Private, r, h), hash |-> h,
                      A |-> calculate_key_pair(pair.Private).Public]}
    /\ verdict' = {}
    /\ UNCHANGED identity

\* The message and its signature are verified against the public identity key.
\* The hash is the signer's only if the verifier hashes the same public key.
Verify ==
    /\ \E pair \in identity, sig \in signed, h \in Hashes :
          /\ ~u_to_y_throws(pair.Public) /\ convert_mont(pair.Public) = sig.A => h = sig.hash
          /\ verdict' = {verify32(pair.Public, sig.signature.R, sig.signature.s, h)}
    /\ UNCHANGED <<identity, signed>>

Next == MakePair \/ Sign \/ Verify

Spec == Init /\ [][Next]_vars

-----------------------------------------------------------------------------
(* Properties *)

\* Every variable has the type of the C++ data it stands for; a scalar s is
\* reduced and a Montgomery coordinate is a field element.
TypeOK ==
    /\ identity \subseteq [Private : xckey, Public : Field]
    /\ signed \subseteq [signature : [R : xckey, s : 0 .. Q - 1], hash : Hashes, A : Field]
    /\ verdict \subseteq {"accepts", "rejects", "throws"}

\* The point an encoding stands for, among the multiples of the base point.
Decode(e) == CHOOSE A \in Group : Encode(A) = e

\* The equation both sides of EdDSA rest on: sB = R + hA.
Equation(A, sig, h) ==
    Multiples[sig.s + 1] = Add(Decode(sig.R), Times(h, Decode(A)))

\* Verification as the XEdDSA specification has it: the Edwards point of the
\* public key with sign bit 0 is found in the field.
SpecAccepts(mkPub, sig, h) ==
    Equation(((mkPub - 1) * Inverse((mkPub + 1) % P)) % P, sig, h)

\* sign32's signatures satisfy the equation for the public key that sign32
\* derives itself, for private keys whose highest bit is clear, whichever sign
\* the points have.
OwnKeyVerifies ==
    \A pair \in identity, sig \in signed :
        pair.Private = ycoord(pair.Private) => Equation(sig.A, sig.signature, sig.hash)

\* A signature made with a clamped private key is one the specification
\* accepts for the public key crypto_box_keypair returned: the conversions
\* from Edwards to Montgomery form and back meet in the same point.
ClampedKeyVerifies ==
    \A pair \in identity, sig \in signed :
        pair.Private = clamp(pair.Private) => SpecAccepts(pair.Public, sig.signature, sig.hash)

\* The same as ClampedKeyVerifies for every private key that is drawn: sign32
\* "returns the signature for the given key".
GeneratedKeyVerifies ==
    \A pair \in identity, sig \in signed :
        SpecAccepts(pair.Public, sig.signature, sig.hash)

\* "@return true if the verification matches": verify32 accepts a signature
\* that is in bounds and that the specification accepts.
MatchIsAccepted ==
    \A pair \in identity, sig \in signed, v \in verdict :
        /\ sig_in_bounds(pair.Public, sig.signature.R, sig.signature.s)
        /\ SpecAccepts(pair.Public, sig.signature, sig.hash)
        => v = "accepts"
=============================================================================
