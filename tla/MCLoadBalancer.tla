--------------------------- MODULE MCLoadBalancer ---------------------------
(* Instances of LoadBalancer for TLC. *)
EXTENDS LoadBalancer, TLC

AnyOrder == Permutations(Clients) \cup Permutations(Passwords)
=============================================================================
