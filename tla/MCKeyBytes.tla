----------------------------- MODULE MCKeyBytes -----------------------------
(* Small instances of KeyBytes for TLC: keys of two sizes, as the halves of *)
(* a pair may have, with all their bytes. *)
EXTENDS KeyBytes

SomeBytes == {0, 7, 255}
SomeSizes == {1, 2}
=============================================================================
