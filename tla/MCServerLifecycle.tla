------------------------- MODULE MCServerLifecycle -------------------------
(* ServerLifecycle for TLC: more connections than descriptors, so that      *)
(* descriptors are reused.                                                  *)
EXTENDS ServerLifecycle

CONSTANTS c1, c2, c3, l1

MCConns == {c1, c2, c3}
MCFds   == {7, 8}
MCLoops == {l1}
=============================================================================
