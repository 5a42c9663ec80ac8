----------------------------- MODULE KeyExchange -----------------------------
(***************************************************************************)
(* What a key exchange promises, without its messages: an initiator        *)
(* proposes a secret nobody has seen before, and a responder accepts the   *)
(* proposals that were made to it.  An exchange is a record of the secret  *)
(* and of the identity keys of the two ends; since a responder accepts a   *)
(* whole record, both ends hold one secret and name each other.            *)
(***************************************************************************)
VARIABLES
    proposed, \* the exchanges as their initiators see them
    accepted  \* the exchanges as their responders see them

Init == proposed = {} /\ accepted = {}

\* One more exchange, with a secret no other exchange has.
Propose ==
    /\ \E e \in proposed' : /\ proposed' = proposed \cup {e}
                            /\ \A x \in proposed : x.secret # e.secret
    /\ UNCHANGED accepted

\* Proposals are accepted; nothing that was accepted is taken back.
Accept ==
    /\ accepted \subseteq accepted'
    /\ accepted' \subseteq proposed
    /\ UNCHANGED proposed

Next == Propose \/ Accept

Spec == Init /\ [][Next]_<<proposed, accepted>>
=============================================================================
