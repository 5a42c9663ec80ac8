------------------------------ MODULE MCXedDSA ------------------------------
(* A curve for XedDSA: 509 = 2^9 - 3 for 2^255 - 19, and a group of order    *)
(* 8 * 67, a little more than 2^9, for one a little more than 2^255.         *)
EXTENDS XedDSA

MCBasePoint == <<2, 238>>

\* Every private key there is.
AllKeys == 0 .. 1023

\* The clamped private keys.
ClampedKeys == {K \in AllKeys : K = clamp(K)}

\* Private keys that are not clamped, nor multiples of the group order, which
\* are too rare on the real curve to speak of.
TypicalKeys == {K \in AllKeys : K # clamp(K) /\ K % Q # 0}

\* Some reduced hashes, the extremes among them.
SomeHashes == {0, 1, 5, 33, 66}

\* Reduced hashes that are not extremes.
TypicalHashes == {5, 33}
=============================================================================
