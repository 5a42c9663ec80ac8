----------------------------- MODULE MCJniBridge -----------------------------
(* Small instances of JniBridge for TLC. *)
EXTENDS JniBridge, TLC

\* Every key pair has an identifier of its own, none of them 0; those of the
\* keys generated first are negative as a jint.
HighId(k) == Width - k

\* A signature is accepted for the key and the message it was made for.
ExactVerify(pk, msg, sig) == sig = sign32(pk, msg)

\* Arguments of refill: a negative number, none and two keys.
SomeNumKeys == {-1, 0, 2}

\* The threads are interchangeable: the actions only quantify over them.
Symmetry == Permutations(Thread)
=============================================================================
