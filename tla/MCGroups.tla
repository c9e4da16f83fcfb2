------------------------------- MODULE MCGroups -------------------------------
(* Groups for TLC: the accounts are interchangeable, and states that differ *)
(* only in told, which no action or state predicate reads, are one state.   *)
EXTENDS Groups, TLC

Symmetry == Permutations(Accounts)
View == <<rows, memory, work>>

(* Bound: while members are missing from the copy, one message is enough to *)
(* see that the copy and the messages do not depend on each other's past.   *)
FewWhileForgotten == forgotten = {} \/ nextId <= 2
=============================================================================
