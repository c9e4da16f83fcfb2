-------------------------- MODULE MCRequestPipeline --------------------------
(* RequestPipeline for TLC.  One descriptor, used by one connection after   *)
(* another; the second may come while a request of the first is under way.  *)
EXTENDS RequestPipeline

CONSTANTS c1, c2, k1, alice, bob

MCConns    == {c1, c2}
MCKeys     == {k1}
MCAccounts == {alice, bob}
=============================================================================
