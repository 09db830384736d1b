------------------------------ MODULE MCServer ------------------------------
(* Instances of Server for TLC. *)
EXTENDS Server, TLC

CONSTANTS ann, bob, ann1, ann2, bob1

\* ann and bob have one session each, or two.
OneEach == ann1 :> ann @@ bob1 :> bob
AnnTwice == ann1 :> ann @@ ann2 :> ann @@ bob1 :> bob

AnnDevices == ann1 :> ann @@ ann2 :> ann

NoOne == {}
BobToAnn == {<< bob, ann >>}
Both == {<< ann, bob >>, << bob, ann >>}

\* Sessions of one user are alike.
AnnSessions == Permutations({ann1, ann2})
=============================================================================
