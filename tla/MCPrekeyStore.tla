---------------------------- MODULE MCPrekeyStore ----------------------------
(* Small instances of PrekeyStore for TLC. *)
EXTENDS PrekeyStore

\* Every key pair has an identifier of its own, none of them 0.
DistinctId(k) == k

\* A signature is accepted for the key and the message it was made for.
ExactVerify(pk, msg, sig) == sig = sign32(pk, msg)
=============================================================================
