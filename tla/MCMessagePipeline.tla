------------------------- MODULE MCMessagePipeline -------------------------
(* MessagePipeline for TLC.  With two connections and two descriptors both  *)
(* happen: two senders at a time, and a second connection on the first      *)
(* one's descriptor.                                                        *)
EXTENDS MessagePipeline, TLC

CONSTANTS c1, c2, k1, k2, alice, bob

MCConns    == {c1, c2}
MCKeys     == {k1, k2}
MCAccounts == {alice, bob}

(* Bound: while a session is left behind, at most one request is made.      *)
FewWhileMissed == missed = {} \/ Len(requests) <= 1

Symmetry   == Permutations(MCConns) \cup Permutations(MCKeys) \cup Permutations(MCAccounts)
=============================================================================
