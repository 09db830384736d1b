------------------------------ MODULE MCGroups ------------------------------
(* Instances of Groups for TLC. *)
EXTENDS Groups, TLC

\* Users are alike, and so are groups.
AnyOrder == Permutations(Users) \cup Permutations(Names)
=============================================================================
