-------------------------- MODULE MCDirectMessages --------------------------
(***************************************************************************)
(* Messages at rest, one part at a time: the rows of a direct conversation *)
(* under its transactions, and a client that reads a conversation back.    *)
(* `which' is the part that runs; the other rests in its first state.      *)
(***************************************************************************)
EXTENDS DirectMessages

VARIABLES which, type, stored, cursor, oldest, got, older, start, pending, atEnd

syncVars == <<type, stored, cursor, oldest, got, older, start, pending, atEnd>>

(* Limits of a client below, at and beyond the configured one, which lies   *)
(* beyond what the queries return.                                          *)
S == INSTANCE MessageSync WITH
  MaxId <- 4, Limits <- 0..5, ConfigLimit <- 4, RepoDefault <- 1,
  GroupRepoLimit <- 2, DirectRepoLimit <- 3

MCInit ==
  /\ which \in {"rows", "sync"}
  /\ Init
  /\ S!Init /\ (which # "sync" => type = "direct")

RunRows == which = "rows" /\ Next /\ UNCHANGED <<which, syncVars>>
RunSync == which = "sync" /\ S!Next /\ UNCHANGED <<which, vars>>

MCNext == RunRows \/ RunSync

MCSpec == MCInit /\ [][MCNext]_<<which, vars, syncVars>>

(* A client that follows the pages of sync and of history misses nothing    *)
(* (MessageSync).                                                           *)
PagesMissNothing == S!PagesMissNothing
=============================================================================
