------------------------------- MODULE MCFlow -------------------------------
(* Instances of Flow for TLC. *)
EXTENDS Flow, TLC, FiniteSets

CONSTANTS ann, bob, cat

\* ann and cat are on one server, bob on the other.
HomeOf == ann :> 0 @@ bob :> 1 @@ cat :> 0

\* Texts, which a socket holds, and images, which it does not.
Sizes == {1, 3}

UpToTwo ==
    LET all == {[from |-> c, to |-> d, size |-> n] : c, d \in Clients, n \in Sizes}
    IN  {S \in SUBSET {m \in all : m.from # m.to} : Cardinality(S) <= 2}

\* ann and cat, who are on the same server, exchanged.
Mirrored(S) ==
    LET other == ann :> cat @@ bob :> bob @@ cat :> ann
    IN  {[from |-> other[m.from], to |-> other[m.to], size |-> m.size] : m \in S}

\* One scenario of two that differ by that.
OneOfTwo == {CHOOSE T \in {S, Mirrored(S)} : TRUE : S \in UpToTwo}
=============================================================================
