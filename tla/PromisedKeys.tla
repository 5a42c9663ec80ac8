---------------------------- MODULE PromisedKeys ----------------------------
(***************************************************************************)
(* What a store of one-time keys promises: a key is published only when it *)
(* is kept, and what is kept or published once stays so, whatever fails.   *)
(***************************************************************************)
VARIABLES
    kept,    \* the keys with a record
    promised \* the keys that have been handed out

Init == kept = {} /\ promised = {}

\* Keys are recorded and handed out, possibly both in one step.
Next ==
    /\ kept \subseteq kept'
    /\ promised \subseteq promised'
    /\ promised' \subseteq kept'

Spec == Init /\ [][Next]_<<kept, promised>>
=============================================================================
