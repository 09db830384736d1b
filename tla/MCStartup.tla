----------------------------- MODULE MCStartup ------------------------------
(* Instances of Startup for TLC. *)
EXTENDS Startup

AnyMayFail == Servers
=============================================================================
