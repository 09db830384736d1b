------------------------------- MODULE MCKeys -------------------------------
(* Instances of Keys for TLC. *)
EXTENDS Keys, TLC

CONSTANTS ann, Ann, bob

\* ann and Ann are two usernames with one database.
InLower == [u \in Names |-> IF u = Ann THEN ann ELSE u]

\* Clients are alike, and so are passwords.
AnyOrder == Permutations(Clients) \cup Permutations(Passwords)
=============================================================================
